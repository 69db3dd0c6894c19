------------------------------ MODULE MCContainers ------------------------------
(***************************************************************************)
(* Small instances for TLC of the sequential parts: ScratchAllocator,      *)
(* HashTable, BTree, Vector with its ScopedArrayPtr and Table, List, Utf8, *)
(* Settings, Bits, Timeouts and File.  The program uses one of them,       *)
(* chosen at the start.                                                    *)
(***************************************************************************)
EXTENDS ScratchAllocator, Sequences, TLC

CONSTANTS
  Values,
  Keys, NoItem, FirstSize, Part, MaxSize,       \* HashTable
  TreeKeys, TreeValues, Orders, MaxAllocs,      \* BTree
  Raw, FirstCapacity, MaxCapacity, MaxLen,      \* Vector
  Zero, Count, TableKeys,
  Nodes,                                        \* List
  CharIsSigned,                                 \* Utf8
  MaxLines, MaxItems, MaxPieces, MaxStrings,    \* Settings
  Flips,                                        \* Bits
  Second, Milli, Micro, LastSecond, SinceEpoch, \* Timeouts
  Files, Descriptors, PageSize, Pages, MaxFile  \* File

VARIABLES
  used,    \* which of them, by the names in MCInit
  data, count, fresh, from, pending, carried, pos, dist, lapped,
  order, page, root, head, tail, astray,
  vec, iter, items, faulty,
  where, inside, dynamic, told,
  node, listHead, listTail, listSize, listIter, listItems,
  sorted, erased,
  conv,
  meant, read,
  width, keys, x, y, z, word,
  now, end, null, start, gaveUp,
  fileSize, table, fd, pageOf, maps, failed

\* Neither NULL nor an unused slot can be taken for what is kept.
ASSUME ListAssumption == Null \notin Nodes
ASSUME HashAssumption ==
  /\ Keys \subseteq Nat
  /\ NoItem \notin [key : Keys, value : Values]
  /\ FirstSize \in Nat \ {0} /\ Part \in Nat \ {0} /\ MaxSize \in Nat
\* Nor can what was never constructed, and an array is never grown to nothing.
ASSUME VectorAssumption ==
  /\ Raw \notin Values \cup {Zero} /\ TableKeys \subseteq Int
  /\ FirstCapacity \in Nat \ {0} /\ MaxCapacity \in Nat /\ MaxLen \in Nat /\ Count \in Nat

-----------------------------------------------------------------------------
\* Code points on either side of each limit of the encoding, alone and in pairs,
\* and bytes that begin, go on or end wrong, also in the encoding of the locale.
Limits == {65, 127, 128, 2047, 2048, 65535, 65536, 1114111, 1114112, 55296}
Texts == {<<>>} \cup {<<a>> : a \in Limits} \cup {<<a, b>> : a, b \in Limits} \cup {<<0, 65>>}
Malformed ==
  {<<192, 128>>, <<224, 128, 128>>, <<224, 160, 128>>, <<237, 160, 128>>, <<237, 128, 128>>,
   <<240, 128, 128, 128>>, <<244, 144, 128, 128>>, <<245>>, <<128>>, <<194, 65>>, <<225, 128, 65>>,
   <<241, 65, 128, 128>>}
CutShort == {<<>>, <<192>>, <<194>>, <<224, 160>>, <<225>>, <<237>>, <<241, 128>>, <<241, 65>>,
             <<244, 143, 128>>}
Bytes ==
  Malformed \cup CutShort \cup {b \o <<65>> : b \in Malformed \cup CutShort} \cup {<<65>> \o b : b \in CutShort}
NativeParts == {<<65>>, <<1233, 1>>, <<1>>, <<999>>, <<1233>>}
Natives ==
  {<<>>} \cup NativeParts \cup {a \o b : a, b \in NativeParts} \cup {a \o b \o c : a, b, c \in NativeParts}
Room == 8

\* What a user writes, and what is meant by it.
Meaning(text, kind, name, value) == [text |-> text, kind |-> kind, name |-> name, value |-> value]
Dashes == <<"-", "-">>

Lines ==
  {Meaning(<<"[", "a", "]", "nl">>, "section", <<"a">>, <<>>),
   Meaning(<<"[", "sp", "b", "sp", "]", "sp", "nl">>, "section", <<"b">>, <<>>),
   Meaning(<<"a", "=", "x", "nl">>, "entry", <<"a">>, <<"x">>),
   Meaning(<<"b", "sp", "=", "sp", "[", "cr", "nl">>, "entry", <<"b">>, <<"sp", "[">>),
   Meaning(<<"a", "=", "\\", "n", "\\", "\\", "nl">>, "entry", <<"a">>, <<"nl", "\\">>),
   Meaning(<<"#", "=", "[", "nl">>, "none", <<>>, <<>>),
   Meaning(<<"sp", "nl">>, "none", <<>>, <<>>),
   Meaning(<<"=", "x", "nl">>, "bad", <<>>, <<>>),
   Meaning(<<"a", "=", "\\", "x", "nl">>, "bad", <<>>, <<>>)}

Options ==
  {[id |-> <<"f">>, short |-> "f", long |-> <<"f", "g">>, takes |-> FALSE],
   [id |-> <<"o">>, short |-> "o", long |-> <<"f">>, takes |-> TRUE]}

Arguments ==
  {Meaning(<<<<"-", "f">>>>, "option", <<"f">>, <<"t">>),
   Meaning(<<<<"-", "o", "f">>>>, "option", <<"o">>, <<"f">>),
   Meaning(<<<<"-", "o">>, Dashes>>, "option", <<"o">>, Dashes),
   Meaning(<<Dashes \o <<"f">>, <<"x">>>>, "option", <<"o">>, <<"x">>),
   Meaning(<<Dashes \o <<"f", "=", "x">>>>, "option", <<"o">>, <<"x">>),
   Meaning(<<Dashes \o <<"f", "g">>>>, "option", <<"f">>, <<"t">>),
   Meaning(<<Dashes>>, "last", <<>>, <<>>),
   Meaning(<<<<"-">>>>, "argument", <<>>, <<>>),
   Meaning(<<<<"x">>>>, "argument", <<>>, <<>>),
   Meaning(<<<<"-", "f", "z">>>>, "bad", <<>>, <<>>),
   Meaning(<<Dashes \o <<"z">>>>, "bad", <<>>, <<>>)}

Pieces ==
  {Meaning(<<"a">>, "none", <<>>, <<>>), Meaning(<<"$">>, "none", <<>>, <<>>),
   Meaning(<<"$", "{", "v", "}">>, "none", <<"v">>, <<>>), Meaning(<<"$", "{", "w", "}">>, "none", <<"w">>, <<>>)}
Variables == <<"v">> :> <<"$", "{", "w", "}">> @@ <<"u">> :> <<>>

Strings ==
  {Meaning(<<<<"v", "=", "x">>>>, "variable", <<"v">>, <<"x">>),
   Meaning(<<<<"v", "=", "=">>>>, "variable", <<"v">>, <<"=">>),
   Meaning(<<<<"w", "=">>>>, "variable", <<"w">>, <<>>),
   Meaning(<<<<"v">>>>, "none", <<>>, <<"v">>),
   Meaning(<<<<"w">>>>, "none", <<>>, <<"w">>)}

-----------------------------------------------------------------------------
H == INSTANCE HashTable
T == INSTANCE BTree WITH Keys <- TreeKeys, Values <- TreeValues
V == INSTANCE Vector WITH Keys <- TableKeys
L == INSTANCE List WITH NULL <- Null, head <- listHead, tail <- listTail, size <- listSize,
                        iter <- listIter, items <- listItems
U == INSTANCE Utf8
S == INSTANCE Settings WITH Items <- Arguments
B == INSTANCE Bits
TO == INSTANCE Timeouts
F == INSTANCE File WITH MaxSize <- MaxFile, size <- fileSize, page <- pageOf

hashVars == <<data, count, fresh, from, pending, carried, pos, dist, lapped>>
treeVars == <<order, page, root, head, tail, astray>>
vectorVars == <<vec, iter, items, faulty>>
arrayVars == <<where, inside, dynamic, told>>
tableVars == <<sorted, erased>>
listVars == <<node, listHead, listTail, listSize, listIter, listItems>>
textVars == <<meant, read>>
bitVars == <<width, keys, x, y, z, word>>
timeVars == <<now, end, null, start, gaveUp>>
fileVars == <<fileSize, table, fd, pageOf, maps, failed>>

\* Whole numbers of milli- and of microseconds make up a second, and no file is
\* mistaken for another owner of a descriptor.
ASSUME TimeAssumption ==
  /\ Second \in Nat \ {0} /\ Milli \in Nat \ {0} /\ Micro \in Nat \ {0}
  /\ Second % Milli = 0 /\ Second % Micro = 0
ASSUME FileAssumption ==
  /\ Descriptors \subseteq Nat /\ F!Nobody \notin Files /\ F!Client \notin Files
  /\ PageSize \in Nat \ {0} /\ Pages \in Nat /\ MaxFile \in Nat

bigVars == <<vars, hashVars, treeVars>>
dataVars == <<vectorVars, arrayVars, tableVars, listVars>>
otherVars == <<conv, textVars, bitVars, timeVars, fileVars>>

\* What is not used is in one of its initial states.
MCInit ==
  /\ used \in {"scratch", "hash", "tree", "vector", "array", "table", "list", "utf8", "settings", "bits", "time", "file"}
  /\ Init /\ H!Init /\ V!ScopedInit /\ L!Init /\ TO!Init
  /\ T!Init /\ (used # "tree" => order = CHOOSE b \in Orders : TRUE)
  /\ V!Init /\ (used # "vector" => vec.pod)
  /\ V!TableInit /\ (used # "table" => sorted.pod)
  /\ IF used = "utf8" THEN U!Init ELSE conv = 0
  /\ IF used = "settings" THEN S!Init ELSE meant = 0 /\ read = 0
  /\ B!Init /\ (used # "bits" => width = 16)
  /\ F!Init /\ (used # "file" => fileSize = MaxFile)

\* Nothing is said of a hash table round which an item has been carried.
BigNext ==
  \/ used = "scratch" /\ Next /\ UNCHANGED <<hashVars, treeVars>>
  \/ used = "hash" /\ ~lapped /\ H!Next /\ UNCHANGED <<vars, treeVars>>
  \/ used = "tree" /\ T!Next /\ UNCHANGED <<vars, hashVars>>

DataNext ==
  \/ used = "vector" /\ V!Next /\ UNCHANGED <<arrayVars, tableVars, listVars>>
  \/ used = "array" /\ V!ScopedNext /\ UNCHANGED <<vectorVars, tableVars, listVars>>
  \/ used = "table" /\ V!TableNext /\ UNCHANGED <<vectorVars, arrayVars, listVars>>
  \/ used = "list" /\ L!Next /\ UNCHANGED <<vectorVars, arrayVars, tableVars>>

OtherNext ==
  \/ used = "utf8" /\ U!Next /\ UNCHANGED <<textVars, bitVars, timeVars, fileVars>>
  \/ used = "settings" /\ S!Next /\ UNCHANGED <<conv, bitVars, timeVars, fileVars>>
  \/ used = "bits" /\ B!Next /\ UNCHANGED <<conv, textVars, timeVars, fileVars>>
  \/ used = "time" /\ TO!Next /\ UNCHANGED <<conv, textVars, bitVars, fileVars>>
  \/ used = "file" /\ F!Next /\ UNCHANGED <<conv, textVars, bitVars, timeVars>>

MCNext ==
  \/ BigNext /\ UNCHANGED <<used, dataVars, otherVars>>
  \/ DataNext /\ UNCHANGED <<used, bigVars, otherVars>>
  \/ OtherNext /\ UNCHANGED <<used, bigVars, dataVars>>

MCSpec == MCInit /\ [][MCNext]_<<used, bigVars, dataVars, otherVars>>

-----------------------------------------------------------------------------
\* ScratchAllocator: the blocks tile the buffer, with the free ones in its list
\* and next to no other, and all of it comes back.
BufferInOrder == used = "scratch" => BlocksTile /\ FreeListInOrder /\ AllComesBack

\* HashTable: as long as no item has been carried round the whole table, a key
\* is found exactly if a slot holds it, and iterators walk over each once.
LookupAndWalk == used = "hash" => H!LookupFindsUnlessLapped /\ H!WalksOver

\* HashTable: with that proviso the operations act on a finite map, each at
\* one instant.
ActsAsMap == H!ActsAsMap

\* BTree: every entry is found where it is, no leaf with neighbours is under
\* half full, every page knows its parent, and the chain of leaves is the tree's.
TreeHolds == used = "tree" => T!TreeInOrder /\ T!LinksFollowTree

\* BTree: splits, steals and merges hide, lose and double no entry: every call
\* puts, replaces or removes that of one key, or nothing at all.
OneEntryAtATime == T!OneEntryAtATime

\* Vector and ScopedArrayPtr: what was put in stays, in order, through every
\* change of the array it is in.
KeepsItems ==
  [](used = "vector" => V!HoldsItems) /\ [][used = "array" => V!DataIsKept]_<<used, arrayVars>>

\* Table and Set: the items stay in order, find() gives the first of several
\* that are equal, an insertion, of one or of a range, puts the newest there, and a
\* removal by key takes that one.
FindsTheNewest ==
  [](used = "table" => V!FindsTheFirst) /\ [][used = "table" => V!NewestIsFirst]_<<used, tableVars>>

\* List: forwards and backwards one meets the same nodes, all of them.
BothWaysInOrder == used = "list" => L!BothWaysInOrder

\* The conversions of text, of settings, of coordinates and of the order of
\* bytes: what was converted is found again.
ComesBack ==
  /\ used = "utf8" => U!TextsComeBack
  /\ used = "settings" => S!WhatIsMeantIsRead
  /\ used = "bits" => B!PointsComeBack /\ B!BytesTurnRound

\* Timeout and Clock: the forms in which the time left is given agree.
TimeLeftAgrees == used = "time" => TO!TimeLeftAgrees

\* File: mappings show what was asked for, pages and descriptors have one owner.
FilesHold == used = "file" => F!MappingsHold /\ F!DescriptorsHold
=============================================================================
