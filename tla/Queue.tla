--------------------------------- MODULE Queue ---------------------------------
(***************************************************************************)
(* OOBase::Queue<T> (include/OOBase/Queue.h): a ring that grows, in the    *)
(* form for plain data, whose bytes are moved by reallocate(), and in the  *)
(* form for other types, whose objects are constructed and destroyed.      *)
(***************************************************************************)
EXTENDS Integers, Sequences

CONSTANTS
  Values,
  Raw,             \* a place that holds no object, or plain data never written
  FirstCapacity,   \* capacity after the first growth (8)
  MaxCapacity      \* allocations beyond this fail

VARIABLES
  pod,     \* T is plain data
  ring,    \* [cap |-> m_capacity, data |-> m_data[0..], front |-> m_front, back |-> m_back]
  torn     \* history: a ring of plain data grew while it was wrapped

vars == <<pod, ring, torn>>

NewRing == [cap |-> 0, data |-> <<>>, front |-> 0, back |-> 0]

Init == pod \in BOOLEAN /\ ring = NewRing /\ torn = FALSE

Size(r) == IF r.cap = 0 THEN 0 ELSE (r.cap - r.front + r.back) % r.cap
At(r, i) == (r.front + i) % r.cap
Contents(r) == [i \in 1 .. Size(r) |-> r.data[At(r, i - 1)]]

NeedsGrowth(r) == r.cap = 0 \/ Size(r) = r.cap - 1
NewSize(r) == IF r.cap = 0 THEN FirstCapacity ELSE 2 * r.cap

\* grow() of other types copies the objects to the start of the new array ...
GrownObjects(r) ==
  [cap |-> NewSize(r), front |-> 0, back |-> Size(r),
   data |-> [p \in 0 .. NewSize(r) - 1 |-> IF p < Size(r) THEN Contents(r)[p + 1] ELSE Raw]]

\* ... grow() of plain data leaves every byte and both ends where they are.
GrownPlain(r) ==
  [r EXCEPT !.cap = NewSize(r),
            !.data = [p \in 0 .. NewSize(r) - 1 |-> IF p < r.cap THEN r.data[p] ELSE Raw]]

\* Mutant: the ring is never unwrapped.
GrownAlwaysPlain(r) == GrownPlain(r)
Grown(r) == IF pod THEN GrownPlain(r) ELSE GrownObjects(r)

Put(r, v) == [r EXCEPT !.data[r.back] = v, !.back = (r.back + 1) % r.cap]
Pushed(r, v) == Put(IF NeedsGrowth(r) THEN Grown(r) ELSE r, v)

Push(v) ==
  /\ NeedsGrowth(ring) => NewSize(ring) <= MaxCapacity
  /\ ring' = Pushed(ring, v)
  /\ torn' = (torn \/ (pod /\ ring.cap # 0 /\ NeedsGrowth(ring) /\ ring.front # 0))
  /\ UNCHANGED pod

\* The allocation fails and push() returns false.
PushFails == NeedsGrowth(ring) /\ UNCHANGED vars

\* Objects are destroyed; plain data stays in its place.
Vacated(r, places) == IF pod THEN r.data ELSE [p \in DOMAIN r.data |-> IF p \in places THEN Raw ELSE r.data[p]]

Pop ==
  /\ ring.front # ring.back
  /\ ring' = [ring EXCEPT !.data = Vacated(ring, {ring.front}), !.front = (@ + 1) % ring.cap]
  /\ UNCHANGED <<pod, torn>>

\* clear() destroys objects of either kind and leaves m_front at m_back.
Clear ==
  /\ ring' = [ring EXCEPT !.data = Vacated(ring, {At(ring, i) : i \in 0 .. Size(ring) - 1}), !.front = ring.back]
  /\ UNCHANGED <<pod, torn>>

\* q = q: a copy is filled value by value, swapped in, and the old ring destroyed.
\* The copy constructor for plain data does not compile.
Filled(s) ==
  LET fill[n \in 0 .. Len(s)] == IF n = 0 THEN NewRing ELSE Pushed(fill[n - 1], s[n])
  IN  fill[Len(s)]

AssignCopy == ~pod /\ ring' = Filled(Contents(ring)) /\ UNCHANGED <<pod, torn>>

Next == (\E v \in Values : Push(v)) \/ PushFails \/ Pop \/ Clear \/ AssignCopy

-----------------------------------------------------------------------------
\* However the ring wraps and grows, a step appends one value, takes the first,
\* or empties the queue, and outside it there are no live objects; for plain
\* data only until a ring that is wrapped grows.
ActsAsFifo ==
  [][~torn' =>
       \E old \in {Contents(ring)}, new \in {Contents(ring')} :
         /\ \/ new \in {old, <<>>}
            \/ old # <<>> /\ new = Tail(old)
            \/ Len(new) = Len(old) + 1 /\ SubSeq(new, 1, Len(old)) = old
         /\ \/ pod
            \/ \A p \in 0 .. ring'.cap - 1 :
                 ring'.data[p] = Raw <=> p \notin {At(ring', i) : i \in 0 .. Len(new) - 1}]_vars
=============================================================================
