--------------------------------- MODULE Vector ---------------------------------
(***************************************************************************)
(* OOBase::Vector<T> (include/OOBase/Vector.h) and a client that walks it  *)
(* with an iterator (include/OOBase/Iterator.h), for plain data and for    *)
(* objects; and OOBase::ScopedArrayPtr<T> (include/OOBase/                 *)
(* ScopedArrayPtr.h), a buffer of plain data in the object itself until    *)
(* more is asked for, and in a Vector from then on.                        *)
(*                                                                         *)
(* OOBase::Table<K,V> and OOBase::Set<T> (include/OOBase/Table.h, Set.h)   *)
(* are an array kept in order of the keys, several of which may be equal.  *)
(* A set is a table whose items are their keys.                            *)
(***************************************************************************)
EXTENDS Integers, Sequences, SequencesExt

CONSTANTS
  Raw,             \* a place that holds no object, or plain data never written
  FirstCapacity,   \* capacity of the first allocation by insert_at() (8)
  MaxCapacity,     \* allocations beyond this fail
  Values,
  MaxLen,    \* sizes and ranges up to MaxLen are asked for
  Zero,      \* T()
  Count,     \* COUNT, the items that fit into a ScopedArrayPtr
  Keys       \* of a Table, compared with <

VARIABLES
  vec,     \* the vector
  iter,    \* m_pos of the client's iterator
  items,   \* history: what the last call should have left
  faulty   \* history: it was an assign() that did not give the size asked for,
           \* or removed plain data before the end

VARIABLES
  where,     \* what m_data points to: "static", "dynamic" or "null"
  inside,    \* m_static
  dynamic,   \* m_dynamic, a vector
  told       \* history: the last resize() said that it succeeded

VARIABLES
  sorted,    \* the array of a Table, of items [key, val]
  erased     \* history: plain data was erased before the end

-----------------------------------------------------------------------------
(* The array (detail::VectorBase, VectorPODBase and VectorImpl), as         *)
(* operators on a record                                                    *)
(* [pod |-> T is plain data, cap |-> m_capacity, size |-> m_size,           *)
(*  data |-> m_data[0 .. m_capacity-1], ok |-> no undefined behaviour yet]. *)

End == -1          \* size_t(-1)

NewVector(pod) == [pod |-> pod, cap |-> 0, size |-> 0, data |-> <<>>, ok |-> TRUE]
Contents(v) == [i \in 1 .. v.size |-> v.data[i - 1]]

At(v, pos) == IF pos \in 0 .. v.size - 1 THEN v.data[pos] ELSE Raw

\* v with the given values, in an array of the given capacity.
Holding(v, values, cap) ==
  [pod |-> v.pod, cap |-> cap, size |-> Len(values), ok |-> v.ok,
   data |-> [p \in 0 .. cap - 1 |->
               IF p < Len(values) THEN values[p + 1] ELSE IF v.pod /\ p < v.cap THEN v.data[p] ELSE Raw]]

\* The capacity that reserve(n) asks for; both forms of growth may fail.
\* What is in the array is kept, not when objects end: where exceptions are on,
\* reserve() has its index at the end when it comes to destroy the old ones, and
\* gives back their memory without.
Rounded(n) == (n \div 2 + 1) * 2
CanReserve(v, n) == n <= v.cap \/ Rounded(n) <= MaxCapacity
Reserved(v, n) == IF n <= v.cap \/ Rounded(n) > MaxCapacity THEN v ELSE Holding(v, Contents(v), Rounded(n))

Wanted(v) == IF v.cap = 0 THEN FirstCapacity ELSE 2 * v.cap
InsertCapacity(v) == IF v.size < v.cap THEN v.cap ELSE IF v.pod THEN Rounded(Wanted(v)) ELSE Wanted(v)
CanInsert(v) == v.size < v.cap \/ InsertCapacity(v) <= MaxCapacity

\* insert_at(): a position beyond the end is the end.
Place(v, pos) == IF pos \notin 0 .. v.size THEN v.size ELSE pos
Inserted(v, pos, x) ==
  IF CanInsert(v) THEN Holding(v, InsertAt(Contents(v), Place(v, pos) + 1, x), InsertCapacity(v)) ELSE v

Taken(v, pos, len) == IF pos \notin 0 .. v.size - 1 THEN 0 ELSE IF len > v.size - pos THEN v.size - pos ELSE len

\* remove_at() moves the objects behind the gap down ...
RemovedObjects(v, pos, n) ==
  Holding(v, SubSeq(Contents(v), 1, pos) \o SubSeq(Contents(v), pos + n + 1, v.size), v.cap)

\* ... but of plain data only m_size - (pos + len) with m_size already reduced,
\* which leaves out the last len, or is negative and means nearly all memory.
RemovedPlain(v, pos, n) ==
  LET size  == v.size - n
      moved == size - (pos + n)
  IN  [pod |-> v.pod, cap |-> v.cap, size |-> size, ok |-> v.ok /\ (pos < size => moved >= 0),
       data |-> [p \in DOMAIN v.data |->
                   IF pos < size /\ p \in pos .. pos + moved - 1 THEN v.data[p + n] ELSE v.data[p]]]

Removed(v, pos, len) ==
  LET n == Taken(v, pos, len)
  IN  IF n = 0 THEN v ELSE IF v.pod THEN RemovedPlain(v, pos, n) ELSE RemovedObjects(v, pos, n)

\* What remove_at() returns: where objects are destroyed pos has run on to the
\* old end.
RemovedPos(v, pos, len) ==
  IF (v.pod \/ Taken(v, pos, len) = 0) /\ pos \in 0 .. Removed(v, pos, len).size - 1 THEN pos ELSE End

PushedBack(v, x) == Inserted(v, v.size, x)
PoppedBack(v) == Removed(v, v.size - 1, 1)

\* assign(n, value).  Within the capacity objects beyond n are destroyed one
\* place too high, the first of them where there is none; and none are added.
AssignedN(v, n, x) ==
  LET values == [i \in 1 .. n |-> x]
  IN  IF ~CanReserve(v, n) THEN v
      ELSE IF v.pod \/ n > v.cap THEN Holding(v, values, IF n > v.cap THEN Rounded(n) ELSE v.cap)
      ELSE IF n < v.size THEN [v EXCEPT !.ok = FALSE]
      ELSE Holding(v, [i \in 1 .. v.size |-> x], v.cap)

\* A loop of insert_at() at the end that stops when one fails.
Filled(v, s) ==
  LET fill[n \in 0 .. Len(s)] == IF n = 0 THEN v ELSE PushedBack(fill[n - 1], s[n])
  IN  fill[Len(s)]
Cleared(v) == Holding(v, <<>>, v.cap)

\* assign(first, last), and the copy constructor and assignment; a copy whose
\* reserve() fails ends the program.
AssignedRange(v, s) == Filled(Reserved(Cleared(v), Len(s)), s)
CanCopy(v) == v.size = 0 \/ CanReserve(NewVector(v.pod), v.size)
Copy(v) == IF v.size = 0 THEN NewVector(v.pod) ELSE Filled(Reserved(NewVector(v.pod), v.size), Contents(v))

\* A loop of n calls of pop_back().
Shortened(v, n) ==
  LET pop[k \in 0 .. n] == IF k = 0 THEN v ELSE PoppedBack(pop[k - 1])
  IN  pop[n]

\* Vector::resize(): pop_back() tells whether anything is left, so that the
\* resize to 0 reports failure.
Resized(v, n, x) ==
  IF ~CanReserve(v, n) THEN v
  ELSE IF n >= v.size THEN Filled(Reserved(v, n), [i \in 1 .. n - v.size |-> x])
  ELSE Shortened(v, v.size - n)
ResizeSucceeds(v, n) == CanReserve(v, n) /\ (n = 0 => v.size = 0)

\* Vector::remove(value): remove_at() for each that is equal.
RemovedAll(v, x) ==
  LET step[u \in 0 .. v.size] ==   \* u turns of the loop, the vector and its position
        IF u = 0 THEN [v |-> v, pos |-> 0]
        ELSE LET s == step[u - 1]
             IN  IF s.pos >= s.v.size THEN s
                 ELSE IF s.v.data[s.pos] = x THEN [s EXCEPT !.v = Removed(s.v, s.pos, 1)]
                 ELSE [s EXCEPT !.pos = @ + 1]
  IN  step[v.size].v

\* iterator_move() and iterator_diff(); a position is an index or End.
Clamp(v, pos) == IF pos \notin 0 .. v.size THEN v.size ELSE pos
Moved(v, pos, n) == IF Clamp(v, pos) + n \notin 0 .. v.size - 1 THEN End ELSE Clamp(v, pos) + n
Difference(v, a, b) == Clamp(v, a) - Clamp(v, b)

-----------------------------------------------------------------------------
(* Vector                                                                   *)

vars == <<vec, iter, items, faulty>>
scopedVars == <<where, inside, dynamic, told>>
tableVars == <<sorted, erased>>

Init == vec \in {NewVector(TRUE), NewVector(FALSE)} /\ iter = End /\ items = <<>> /\ faulty = FALSE

Old == Contents(vec)

\* A call makes the vector v and, unless it fails, should leave the items s.
Calls(v, succeeds, s) == vec' \in {v} /\ items' = IF succeeds THEN s ELSE Old
Sound == faulty' = FALSE

PushBack(x) ==
  /\ Calls(PushedBack(vec, x), CanInsert(vec), Append(Old, x))
  /\ iter' = IF CanInsert(vec) THEN vec'.size - 1 ELSE End
  /\ Sound

PopBack == Calls(PoppedBack(vec), vec.size > 0, Front(Old)) /\ Sound /\ UNCHANGED iter

\* insert(value, before)
Insert(x) ==
  /\ Calls(Inserted(vec, iter, x), CanInsert(vec), InsertAt(Old, Place(vec, iter) + 1, x))
  /\ iter' = IF CanInsert(vec) THEN Place(vec, iter) ELSE End
  /\ Sound

\* erase(iter, len)
Erase(len) ==
  /\ Calls(Removed(vec, iter, len), Taken(vec, iter, len) > 0,
           SubSeq(Old, 1, iter) \o SubSeq(Old, iter + len + 1, vec.size))
  /\ iter' = RemovedPos(vec, iter, len)
  /\ faulty' = (vec.pod /\ vec' # vec /\ iter < vec'.size)

\* The items of s that are not x.
Others(s, x) ==
  LET kept[n \in 0 .. Len(s)] ==
        IF n = 0 THEN <<>> ELSE IF s[n] = x THEN kept[n - 1] ELSE Append(kept[n - 1], s[n])
  IN  kept[Len(s)]

RemoveValue(x) ==
  /\ Calls(RemovedAll(vec, x), TRUE, Others(Old, x))
  /\ faulty' = (vec.pod /\ \E p \in 1 .. vec.size - 1 : vec.data[p - 1] = x)
  /\ UNCHANGED iter

Resize(n, x) ==
  /\ Calls(Resized(vec, n, x), CanReserve(vec, n),
           [i \in 1 .. n |-> IF i <= vec.size THEN Old[i] ELSE x])
  /\ Sound /\ UNCHANGED iter

AssignN(n, x) ==
  /\ Calls(AssignedN(vec, n, x), CanReserve(vec, n), [i \in 1 .. n |-> x])
  /\ faulty' = (CanReserve(vec, n) /\ vec'.size # n)
  /\ UNCHANGED iter

\* For plain data it calls clear(), which there is none of.  Where a push_back()
\* fails the vector keeps what it has been given so far.
AssignRange(s) ==
  /\ ~vec.pod
  /\ vec' \in {AssignedRange(vec, s)}
  /\ items' = SubSeq(s, 1, vec'.size)
  /\ Sound /\ UNCHANGED iter

AssignCopy == CanCopy(vec) /\ Calls(Copy(vec), TRUE, Old) /\ Sound /\ UNCHANGED iter

\* shuffle() swaps each item but the last with itself or a later one.
Swapped(s, i, j) == [s EXCEPT ![i] = s[j], ![j] = s[i]]
Shuffle ==
  /\ vec.size > 1
  /\ \E r \in [1 .. vec.size - 1 -> 1 .. vec.size] :
       /\ \A i \in DOMAIN r : i <= r[i]
       /\ LET mix[i \in 0 .. vec.size - 1] == IF i = 0 THEN Old ELSE Swapped(mix[i - 1], i, r[i])
          IN  \E s \in {mix[vec.size - 1]} : Calls(Holding(vec, s, vec.cap), TRUE, s)
  /\ Sound /\ UNCHANGED iter

Begin == iter' = (IF vec.size = 0 THEN End ELSE 0) /\ items' = Old /\ Sound /\ UNCHANGED vec
Step(n) == iter' = Moved(vec, iter, n) /\ items' = Old /\ Sound /\ UNCHANGED vec

Next ==
  /\ vec.ok
  /\ \/ \E x \in Values : PushBack(x) \/ Insert(x) \/ RemoveValue(x)
     \/ \E x \in Values, n \in 0 .. MaxLen : Resize(n, x) \/ AssignN(n, x)
     \/ \E len \in 1 .. 2 : Erase(len)
     \/ \E s \in UNION {[1 .. n -> Values] : n \in 0 .. MaxLen} : AssignRange(s)
     \/ PopBack \/ AssignCopy \/ Shuffle \/ Begin \/ Step(1) \/ Step(-1)

-----------------------------------------------------------------------------
(* ScopedArrayPtr                                                           *)

ScopedInit ==
  /\ where = "static" /\ told = TRUE
  /\ inside = [i \in 1 .. Count |-> Raw]
  /\ dynamic = NewVector(TRUE)

Visible == CASE where = "static" -> inside [] where = "dynamic" -> Contents(dynamic) [] where = "null" -> <<>>

Write(i, x) ==
  /\ i \in DOMAIN Visible
  /\ IF where = "static" THEN inside' = [inside EXCEPT ![i] = x] /\ UNCHANGED dynamic
     ELSE dynamic' = [dynamic EXCEPT !.data[i - 1] = x] /\ UNCHANGED inside
  /\ UNCHANGED <<where, told>>

\* Mutant: the items are left where they are.
ExchangedNothing(v) == v

\* The items of m_static change places with the first of the vector.
Exchanged(v) == [v EXCEPT !.data = [p \in DOMAIN @ |-> IF p < Count THEN inside[p + 1] ELSE @[p]]]

\* resize(n), while the data is in the object ...
Leaves(n) ==
  /\ where = "static" /\ n > Count
  /\ told' = ResizeSucceeds(dynamic, n)
  /\ IF told'
     THEN \E v \in {Resized(dynamic, n, Zero)} :
            /\ where' = "dynamic"
            /\ inside' = [i \in 1 .. Count |-> v.data[i - 1]]
            /\ dynamic' = Exchanged(v)
     ELSE dynamic' = Resized(dynamic, n, Zero) /\ UNCHANGED <<where, inside>>

Stays(n) == where = "static" /\ n <= Count /\ told' = TRUE /\ UNCHANGED <<where, inside, dynamic>>

\* ... and once it is not: a failure leaves a null pointer, which a later call
\* mends.
Resizes(n) ==
  /\ where # "static"
  /\ told' = ResizeSucceeds(dynamic, n)
  /\ where' = IF told' THEN "dynamic" ELSE "null"
  /\ dynamic' \in {Resized(dynamic, n, Zero)}
  /\ UNCHANGED inside

ScopedResize(n) == Leaves(n) \/ Stays(n) \/ Resizes(n)

ScopedNext ==
  \/ \E n \in 0 .. MaxCapacity + 1 : ScopedResize(n)
  \/ \E i \in 1 .. MaxCapacity, x \in Values : Write(i, x)

-----------------------------------------------------------------------------
(* Table and Set                                                            *)

TableItems == [key : Keys, val : Values]

\* Only a set may hold plain data; Pair is none.
TableInit == sorted \in {NewVector(FALSE), NewVector(TRUE)} /\ erased = FALSE

\* The binary search of insert() and bsearch(): halve the range until it is
\* empty, or, where that is asked for, until the item in the middle is equal.
Search(t, k, stopsAtEqual) ==
  LET halve[r \in (0 .. t.size) \X (0 .. t.size)] ==
        LET mid == r[1] + (r[2] - r[1]) \div 2
        IN  IF r[1] >= r[2] THEN [at |-> r[1], found |-> FALSE]
            ELSE IF t.data[mid].key < k THEN halve[<<mid + 1, r[2]>>]
            ELSE IF stopsAtEqual /\ t.data[mid].key = k THEN [at |-> mid, found |-> TRUE]
            ELSE halve[<<r[1], mid>>]
  IN  halve[<<0, t.size>>]

\* Mutant: any equal item is taken for the first.
FindAny(t, k) == IF Search(t, k, TRUE).found THEN Search(t, k, TRUE).at ELSE End

\* find(): from an equal item back to the first of its run.
Find(t, k) ==
  LET hit == Search(t, k, TRUE)
      back[p \in 0 .. hit.at] == IF p > 0 /\ t.data[p - 1].key = k THEN back[p - 1] ELSE p
  IN  IF hit.found THEN back[hit.at] ELSE End

InsertedItem(t, x) == Inserted(t, Search(t, x.key, FALSE).at, x)

TableInsert(x) == sorted' \in {InsertedItem(sorted, x)} /\ UNCHANGED erased

\* insert(first, last) stops at the first failure, with what it has inserted.
InsertRange(s) ==
  LET put[n \in 0 .. Len(s)] == IF n = 0 THEN sorted ELSE InsertedItem(put[n - 1], s[n])
  IN  sorted' \in {put[Len(s)]} /\ UNCHANGED erased

\* erase(first, last) with positions as they are: that of end() is size_t(-1).
EraseAt(pos, len) ==
  /\ sorted' \in {Removed(sorted, pos, len)}
  /\ erased' = (erased \/ (sorted.pod /\ sorted' # sorted /\ pos < sorted'.size))

RemoveKey(k) == Find(sorted, k) # End /\ EraseAt(Find(sorted, k), 1)
TablePopBack == EraseAt(sorted.size - 1, 1)
TableAssignCopy == CanCopy(sorted) /\ sorted' \in {Copy(sorted)} /\ UNCHANGED erased

TableNext ==
  /\ sorted.ok
  /\ \/ \E x \in TableItems : TableInsert(x)
     \/ \E x, y \in TableItems : InsertRange(<<x, y>>)
     \/ \E pos \in 0 .. sorted.size - 1, len \in 1 .. 2 : EraseAt(pos, len)
     \/ \E k \in Keys : RemoveKey(k)
     \/ TablePopBack \/ TableAssignCopy

-----------------------------------------------------------------------------
\* Through every change of the capacity, and wherever values are put in and
\* taken out, the vector holds the items its callers should find, with objects
\* exactly below m_size; the two faults aside.
HoldsItems ==
  vec.ok /\ ~faulty =>
    /\ Contents(vec) = items
    /\ vec.pod \/ \A p \in 0 .. vec.cap - 1 : vec.data[p] = Raw <=> p >= vec.size

\* What the caller has, or has again after the next call that succeeds.
Data == IF where = "null" THEN Contents(dynamic) ELSE Visible

\* resize() moves the data from the object to the vector and from one array to
\* another without a change to what the caller has in both sizes; a pointer that
\* is null comes back with the data; and one that is not has room for at least
\* the items asked for.
DataIsKept ==
  /\ \A i \in DOMAIN Data \cap DOMAIN Data' : Data'[i] = Data[i] \/ \E x \in Values : Write(i, x)
  /\ \A n \in 0 .. MaxCapacity : ScopedResize(n) /\ told' => Len(Visible') >= n
  /\ where' = "null" => ~told'

\* The items stay in order of their keys, and find() gives, exactly if there is
\* one, the first item of its key, for any number of equal ones; until plain
\* data is erased before the end.
FindsTheFirst ==
  sorted.ok /\ ~erased =>
    /\ \A p \in 1 .. sorted.size - 1 : sorted.data[p - 1].key <= sorted.data[p].key
    /\ \A k \in Keys :
         LET places == {p \in 0 .. sorted.size - 1 : sorted.data[p].key = k}
         IN  Find(sorted, k) = IF places = {} THEN End ELSE CHOOSE p \in places : \A q \in places : p <= q

\* The items new are old with x before all others of its key.
PutFirst(old, x, new) ==
  \E p \in 1 .. Len(new) :
    /\ new[p] = x /\ old = RemoveAt(new, p)
    /\ \A q \in 1 .. p - 1 : new[q].key < x.key

\* Among items of equal keys the newest comes first: unless there is no room an
\* insertion puts its item before them all and moves no others, in a range the
\* second after the first, if there is room for it; and remove(key) takes the newest
\* and no other.
NewestIsFirst ==
  ~erased' /\ sorted.ok =>
    \E old \in {Contents(sorted)}, new \in {Contents(sorted')} :
      /\ \A x \in TableItems :
           TableInsert(x) => IF CanInsert(sorted) THEN PutFirst(old, x, new) ELSE new = old
      /\ \A x, y \in TableItems :
           InsertRange(<<x, y>>) =>
             IF CanInsert(sorted)
             THEN \/ PutFirst(old, x, new) /\ ~CanInsert(sorted')
                  \/ \E mid \in {RemoveAt(new, p) : p \in 1 .. Len(new)} :
                       PutFirst(old, x, mid) /\ PutFirst(mid, y, new)
             ELSE new = old
      /\ \A k \in Keys :
           RemoveKey(k) => \E p \in 1 .. Len(old) :
                             /\ old[p].key = k /\ new = RemoveAt(old, p)
                             /\ \A q \in 1 .. p - 1 : old[q].key # k
=============================================================================
