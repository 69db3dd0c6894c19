-------------------------------- MODULE Strings --------------------------------
(***************************************************************************)
(* OOBase::String, whose copies share one text until one of them is        *)
(* changed, and OOBase::ScopedString under it (include/OOBase/String.h).   *)
(* A text is a sequence of numbers, 0 the terminator; its array is a       *)
(* ScopedArrayPtr, of which only what get() and count() show is kept.      *)
(***************************************************************************)
EXTENDS Integers, Sequences, SequencesExt, FiniteSets

CONSTANTS
  Strings,      \* the String objects
  Given,        \* texts that are assigned and formatted
  Pieces,       \* and appended
  MaxText,      \* texts are at most this long
  Inside,       \* characters that fit into the object (24)
  NULL

VARIABLES
  node,         \* the ScopedStringImpl of each place, or NULL
  ptr,          \* [Strings -> m_ptr]
  expected      \* history: the text each string should hold

vars == <<node, ptr, expected>>

\* A place for every string, and one for the node that replaces another.
Places == 0 .. Cardinality(Strings)

\* where m_data points, buf what get() shows, cap m_dynamic's capacity, len m_len.
ScopedStringImpl == [where : {"static", "dynamic", "null"}, buf : Seq(Nat), cap : Nat, len : Nat, cut : BOOLEAN]

Blank(n) == [i \in 1 .. n |-> 0]
EmptyNode == [where |-> "static", buf |-> Blank(Inside), cap |-> 0, len |-> 0, cut |-> FALSE]

Init == node = [p \in Places |-> NULL] /\ ptr = [h \in Strings |-> NULL] /\ expected = [h \in Strings |-> <<>>]

Now(h) == IF ptr[h] = NULL THEN NULL ELSE node[ptr[h]]

\* The characters before the terminator, as strlen() counts them.
UpTo0(buf) == SelectInSeq(buf, LAMBDA c : c = 0) - 1

\* c_str(); NULL also where a failed resize() left the array none.
Text(n) == IF n = NULL \/ n.len = 0 THEN <<>> ELSE SubSeq(n.buf, 1, UpTo0(n.buf))

\* Not while the array is none, nor after a vprintf() cut the text short.
Usable(h) == IF Now(h) = NULL THEN TRUE ELSE ~Now(h).cut /\ (Now(h).where = "null" => Now(h).len = 0)

\* ScopedArrayPtr::resize(size): the nodes it may leave, with its result.
Rounded(n) == (n \div 2 + 1) * 2
Fit(buf, size) == [i \in 1 .. size |-> IF i <= Len(buf) THEN buf[i] ELSE 0]
Resizes(n, size) ==
  IF n.where = "static" /\ size <= Inside THEN {<<TRUE, n>>}
  ELSE {<<TRUE, [n EXCEPT !.where = "dynamic", !.buf = Fit(@, size), !.cap = IF size > @ THEN Rounded(size) ELSE @]>>}
       \cup IF size <= n.cap THEN {}
            ELSE {<<FALSE, IF n.where = "static" THEN n ELSE [n EXCEPT !.where = "null"]>>}

Overwritten(buf, at, t) == [i \in 1 .. Len(buf) |-> IF i \in at + 1 .. at + Len(t) THEN t[i - at]
                                                    ELSE IF i = at + Len(t) + 1 THEN 0 ELSE buf[i]]

\* assign(), append() and vprintf() of a ScopedString.
ImplAssigns(n, t) ==
  {<<r[1], IF r[1] THEN [r[2] EXCEPT !.buf = Overwritten(@, 0, t), !.len = Len(t), !.cut = FALSE] ELSE r[2]>>
     : r \in Resizes(n, Len(t) + 1)}

\* Mutant: no room is made for the terminator.
ImplAppendsTight(n, t) ==
  IF t = <<>> THEN {<<TRUE, n>>}
  ELSE {<<r[1], IF r[1] THEN [r[2] EXCEPT !.buf = Overwritten(@, n.len, t), !.len = n.len + Len(t)] ELSE r[2]>>
          : r \in Resizes(n, n.len + Len(t))}

ImplAppends(n, t) ==
  IF t = <<>> THEN {<<TRUE, n>>}
  ELSE {<<r[1], IF r[1] THEN [r[2] EXCEPT !.buf = Overwritten(@, n.len, t), !.len = n.len + Len(t)] ELSE r[2]>>
          : r \in Resizes(n, n.len + Len(t) + 1)}

\* vprintf() formats first into what there is, and again once there is enough;
\* if there is not to be, the text has been overwritten and m_len has not (cut).
Truncated(n, t) ==
  IF n.where = "null" THEN n ELSE [n EXCEPT !.buf = Overwritten(@, 0, SubSeq(t, 1, Len(@) - 1)), !.cut = TRUE]
Formatted(n, t) == [n EXCEPT !.buf = Overwritten(@, 0, t), !.len = Len(t), !.cut = FALSE]
ImplPrintfs(n, t) ==
  IF n.where = "null" THEN {<<FALSE, n>>}
  ELSE IF Len(t) < Len(n.buf) THEN {<<TRUE, Formatted(n, t)>>}
  ELSE {<<r[1], IF r[1] THEN Formatted(r[2], t) ELSE r[2]>> : r \in Resizes(Truncated(n, t), Len(t) + 1)}

\* A SharedPtr destroys its node when it was the last.
FreePlace == CHOOSE p \in Places : node[p] = NULL
Points(h, p, n) ==
  /\ ptr' = [ptr EXCEPT ![h] = p]
  /\ node' = [q \in Places |-> IF q = p THEN n ELSE IF \E g \in Strings : ptr'[g] = q THEN node[q] ELSE NULL]

Expect(h, t) == expected' = [expected EXCEPT ![h] = t]

AssignCopy(h, g) ==
  /\ IF ptr[g] = NULL THEN Points(h, NULL, NULL) ELSE Points(h, ptr[g], Now(g))
  /\ Expect(h, expected[g])

\* swap(*this) of a node of its own, changed before anybody sees it; when that
\* fails this string keeps the old.
Replaces(h, results, t) ==
  \/ \E r \in results : r[1] /\ Points(h, FreePlace, r[2]) /\ Expect(h, t)
  \/ UNCHANGED vars

\* clone_node(), and then op
Cloned(h, op(_)) == UNION {op(c[2]) : c \in {d \in ImplAssigns(EmptyNode, Text(Now(h))) : d[1]}}

\* Nothing is assigned or appended if there is nothing in sz.
Assign(h, t) == Replaces(h, ImplAssigns(EmptyNode, t), t)
Append1(h, t) == Replaces(h, Cloned(h, LAMBDA n : ImplAppends(n, t)), expected[h] \o t)
AppendString(h, g) ==
  IF ptr[h] = NULL THEN AssignCopy(h, g)
  ELSE Text(Now(g)) # <<>> /\ Len(expected[h]) + Len(expected[g]) <= MaxText /\ Append1(h, Text(Now(g)))
Printf(h, t) == Replaces(h, Cloned(h, LAMBDA n : ImplPrintfs(n, t)), t)
Clear(h) == Points(h, NULL, NULL) /\ Expect(h, <<>>)

\* operator ScopedStringImpl&(), by whose reference the text is changed in
\* place, for every string that shares it.
Access(h) == ptr[h] = NULL /\ Points(h, FreePlace, EmptyNode) /\ UNCHANGED expected
ThroughReference(h, results, t) ==
  \E r \in results :
    /\ node' = [node EXCEPT ![ptr[h]] = r[2]]
    /\ expected' = [g \in Strings |-> IF r[1] /\ ptr[g] = ptr[h] THEN t ELSE expected[g]]
    /\ UNCHANGED ptr

ImplAssign(h, t) == ptr[h] # NULL /\ ThroughReference(h, ImplAssigns(Now(h), t), t)
ImplAppend(h, t) == ptr[h] # NULL /\ ThroughReference(h, ImplAppends(Now(h), t), expected[h] \o t)
ImplPrintf(h, t) == ptr[h] # NULL /\ ThroughReference(h, ImplPrintfs(Now(h), t), t)
ImplClear(h) == ptr[h] # NULL /\ ThroughReference(h, {<<TRUE, [Now(h) EXCEPT !.len = 0, !.cut = FALSE]>>}, <<>>)

Next ==
  \E h \in Strings :
    \/ Clear(h) \/ Access(h) \/ ImplClear(h)
    \/ \E g \in Strings : Usable(g) /\ AssignCopy(h, g)
    \/ \E g \in Strings : Usable(h) /\ Usable(g) /\ AppendString(h, g)
    \/ \E t \in Given : Assign(h, t) \/ (Usable(h) /\ Printf(h, t)) \/ ImplAssign(h, t) \/ ImplPrintf(h, t)
    \/ \E t \in Pieces : Len(expected[h]) + Len(t) <= MaxText /\ ((Usable(h) /\ Append1(h, t)) \/ ImplAppend(h, t))

-----------------------------------------------------------------------------
\* compare(): the sign of strcmp(), with NULL below every text.
Strcmp(s, t) ==
  LET differ == {i \in 1 .. Len(s) : i > Len(t) \/ s[i] # t[i]}
      first  == CHOOSE i \in differ : \A j \in differ : i <= j
  IN  IF differ = {} THEN (IF Len(s) < Len(t) THEN -1 ELSE 0)
      ELSE IF first > Len(t) \/ s[first] > t[first] THEN 1 ELSE -1
Compare(h, g) ==
  IF h = g THEN 1
  ELSE IF Text(Now(h)) = <<>> THEN (IF Text(Now(g)) = <<>> THEN 0 ELSE -1)
  ELSE IF Text(Now(g)) = <<>> THEN 1
  ELSE Strcmp(Text(Now(h)), Text(Now(g)))

\* Strings have the text they were given and were last changed to, whatever
\* happens to their copies and however the array under it moved and failed; two
\* strings compare equal exactly if their texts are, and otherwise opposite.
TextsAsGiven ==
  LET good == {h \in Strings : Usable(h)}
  IN  /\ \A h \in good : Text(Now(h)) = expected[h]
      /\ \A h, g \in good : h # g =>
           /\ Compare(h, g) = 0 <=> expected[h] = expected[g]
           /\ Compare(h, g) = -Compare(g, h)
=============================================================================
