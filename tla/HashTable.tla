------------------------------- MODULE HashTable -------------------------------
(***************************************************************************)
(* OOBase::HashTable<K,V> (include/OOBase/HashTable.h): open addressing    *)
(* with Robin Hood displacement and tombstones, for keys that are integers *)
(* (Hash<T>, where a key is its own hash).                                 *)
(*                                                                         *)
(* The loops of insert_other() and grow() are taken turn by turn, so that  *)
(* a loop that does not end shows.  An item on its way through the table   *)
(* is carried; every other operation is one step.                          *)
(***************************************************************************)
EXTENDS Naturals, FiniteSets, FiniteSetsExt

CONSTANTS
  Keys,
  Values,
  NoItem,      \* content of a slot that is not in use; nothing carried
  FirstSize,   \* size of the first allocation, a power of two (16)
  Part,        \* a table of m_size slots is full at m_size / Part * (Part - 1) items (10)
  MaxSize      \* the allocation of more slots than this fails

VARIABLES
  data,      \* m_data[0 .. m_size-1]
  count,     \* m_count
  fresh,     \* new_data, while grow() runs
  from,      \* its loop variable
  pending,   \* the item whose insertion made the table grow
  carried,   \* the item that insert_other() carries
  pos,       \* its loop variables
  dist,
  lapped     \* history: an item has been carried past every slot

vars == <<data, count, fresh, from, pending, carried, pos, dist, lapped>>

Items == [key : Keys, value : Values]

Hash(k) == IF k = 0 THEN 1 ELSE k

Slots(size) == 0 .. (size - 1)
Size(d) == Cardinality(DOMAIN d)

Empty == [hash |-> 0, item |-> NoItem]
Deleted(slot) == [slot EXCEPT !.item = NoItem]   \* m_hash |= s_hi_bit
Holding(item) == [hash |-> Hash(item.key), item |-> item]
InUse(slot) == slot.item # NoItem

\* probe_distance() of the slot at p, in a table of that size.
Distance(slot, p, size) == (p + size - (slot.hash % size)) % size

Home(k, size) == Hash(k) % size

NoTable == [p \in {} |-> Empty]

Idle == carried = NoItem /\ pending = NoItem

Init ==
  /\ data = NoTable /\ count = 0
  /\ fresh = NoTable /\ from = 0
  /\ pending = NoItem /\ carried = NoItem
  /\ pos = 0 /\ dist = 0
  /\ lapped = FALSE

-----------------------------------------------------------------------------
(* find_i()                                                                 *)

NotFound == MaxSize

\* Where the loop is after d turns, and whether it breaks off there.
Probe(k, d) == (Home(k, Size(data)) + d) % Size(data)
Stops(k, d) ==
  LET p == Probe(k, d)
  IN data[p].hash = 0 \/ d > Distance(data[p], p, Size(data))

Matches(k, p) == InUse(data[p]) /\ data[p].item.key = k

\* The turns at which the key would be found.
Hits(k) ==
  {d \in Slots(Size(data)) :
     Matches(k, Probe(k, d)) /\ \A m \in 0 .. d : ~Stops(k, m)}

Find(k) ==
  IF count = 0 \/ Hits(k) = {} THEN NotFound ELSE Probe(k, Min(Hits(k)))

-----------------------------------------------------------------------------
(* insert()                                                                 *)

IsFull == count >= (Size(data) \div Part) * (Part - 1)
NewSize == IF Size(data) = 0 THEN FirstSize ELSE Size(data) * 2

Carry(item, size) ==
  /\ carried' = item
  /\ pos' = Home(item.key, size)
  /\ dist' = 0

CarryNothing == carried' = NoItem /\ pos' = 0 /\ dist' = 0

Insert(item) ==
  /\ Idle
  /\ ~IsFull
  /\ Carry(item, Size(data))
  /\ UNCHANGED <<data, count, fresh, from, pending, lapped>>

\* grow(): if it cannot allocate, the insertion fails and nothing changes.
InsertGrows(item) ==
  /\ Idle
  /\ IsFull
  /\ NewSize <= MaxSize
  /\ fresh' = [p \in Slots(NewSize) |-> Empty]
  /\ pending' = item
  /\ from' = 0
  /\ UNCHANGED <<data, count, carried, pos, dist, lapped>>

GrowMoves ==
  /\ pending # NoItem /\ carried = NoItem
  /\ from < Size(data)
  /\ from' = from + 1
  /\ IF InUse(data[from]) THEN Carry(data[from].item, Size(fresh))
     ELSE UNCHANGED <<carried, pos, dist>>
  /\ UNCHANGED <<data, count, fresh, pending, lapped>>

GrowForgets ==
  /\ pending # NoItem /\ carried = NoItem
  /\ from = Size(data)
  /\ data' = fresh
  /\ fresh' = NoTable
  /\ from' = 0
  /\ pending' = NoItem
  /\ UNCHANGED <<count, carried, pos, dist, lapped>>

\* The old table is freed and the pending item inserted in the new one.
GrowEnds ==
  /\ pending # NoItem /\ carried = NoItem
  /\ from = Size(data)
  /\ data' = fresh
  /\ fresh' = NoTable
  /\ from' = 0
  /\ pending' = NoItem
  /\ Carry(pending, Size(fresh))
  /\ UNCHANGED <<count, lapped>>

\* The table that insert_other() works on.
Target == IF pending = NoItem THEN data ELSE fresh
Here == Target[pos]
\* Measured with m_size, which in grow() is still that of the old table.
HereDistance == Distance(Here, pos, Size(data))

PutHere ==
  LET put == [Target EXCEPT ![pos] = Holding(carried)]
  IN IF pending = NoItem THEN data' = put /\ UNCHANGED fresh
     ELSE fresh' = put /\ UNCHANGED data

Advance(item, d) ==
  /\ carried' = item
  /\ dist' = d + 1
  /\ pos' = (pos + 1) % Size(Target)
  /\ lapped' = (lapped \/ d + 1 >= Size(Target))
  /\ UNCHANGED <<count, from, pending>>

\* An unused slot, or a tombstone that has been probed for less than we have.
IsFree == Here.hash = 0 \/ (~InUse(Here) /\ HereDistance < dist)

Places ==
  /\ carried # NoItem
  /\ IsFree
  /\ PutHere
  /\ count' = IF pending = NoItem THEN count + 1 ELSE count
  /\ CarryNothing
  /\ UNCHANGED <<from, pending, lapped>>

IsSame == InUse(Here) /\ Here.item.key = carried.key

Replaces ==
  /\ carried # NoItem
  /\ IsSame
  /\ PutHere
  /\ CarryNothing
  /\ UNCHANGED <<count, from, pending, lapped>>

\* An item that has been probed for less gives way and is carried on.
Swaps ==
  /\ carried # NoItem
  /\ InUse(Here) /\ ~IsSame
  /\ HereDistance < dist
  /\ PutHere
  /\ Advance(Here.item, HereDistance)

Passes ==
  /\ carried # NoItem
  /\ ~IsFree /\ ~IsSame
  /\ HereDistance >= dist
  /\ Advance(carried, dist)
  /\ UNCHANGED <<data, fresh>>

-----------------------------------------------------------------------------
(* Iterators are positions, that of end() being NotFound.                   *)
Used == {p \in DOMAIN data : InUse(data[p])}
FirstOf(S) == IF S = {} THEN NotFound ELSE Min(S)

Begin == FirstOf(Used)
NextAfter(p) == FirstOf({q \in Used : q > p})
PrevBefore(p) == IF \E q \in Used : q < p THEN Max({q \in Used : q < p}) ELSE NotFound

\* iterator_move(): it goes no further than the end, from which it does not
\* come back.
IteratorMove(p, n, Step(_)) ==
  LET moved[i \in 0 .. n] ==
        IF i = 0 THEN p ELSE IF moved[i - 1] \in DOMAIN data THEN Step(moved[i - 1]) ELSE moved[i - 1]
  IN  moved[n]

-----------------------------------------------------------------------------
(* erase(), remove(), pop() and clear()                                     *)

EraseEmpties(p) ==
  /\ data' = [data EXCEPT ![p] = Empty]
  /\ count' = count - 1
  /\ UNCHANGED <<fresh, from, pending, carried, pos, dist, lapped>>

\* ripple(): its loop ends at once, for the first "next" is start; it leaves a
\* tombstone and moves nothing.
Ripple(p) == [data EXCEPT ![p] = Deleted(@)]

Erase(p) ==
  /\ data' = Ripple(p)
  /\ count' = count - 1
  /\ UNCHANGED <<fresh, from, pending, carried, pos, dist, lapped>>

Remove(k) ==
  /\ Idle
  /\ Find(k) # NotFound
  /\ Erase(Find(k))

Pop ==
  /\ Idle
  /\ Begin # NotFound
  /\ Erase(Begin)

\* Tombstones stay.
Clear ==
  /\ Idle
  /\ count > 0
  /\ data' = [p \in DOMAIN data |-> IF InUse(data[p]) THEN Empty ELSE data[p]]
  /\ count' = 0
  /\ UNCHANGED <<fresh, from, pending, carried, pos, dist, lapped>>

-----------------------------------------------------------------------------
Next ==
  \/ \E item \in Items : Insert(item) \/ InsertGrows(item)
  \/ GrowMoves \/ GrowEnds
  \/ Places \/ Replaces \/ Swaps \/ Passes
  \/ \E k \in Keys : Remove(k)
  \/ Pop \/ Clear

Spec == Init /\ [][Next]_vars

-----------------------------------------------------------------------------
(* Properties                                                               *)

\* The item on its way in; in grow(), the one that made the table grow.
Incoming == IF pending # NoItem THEN pending ELSE carried

\* What the table stands for: the values of each key.
Map ==
  [k \in Keys |->
     IF Incoming # NoItem /\ Incoming.key = k THEN {Incoming.value}
     ELSE {data[p].item.value : p \in {q \in DOMAIN data : Matches(k, q)}}]

FM == INSTANCE FiniteMap WITH map <- Map, putting <- ~Idle

\* Outside insert(), a key is found exactly if a slot holds it, and then it is
\* that slot.
LookupFinds ==
  Idle => \A k \in Keys : {p \in DOMAIN data : Matches(k, p)} = {Find(k)} \ {NotFound}

\* As long as no item has been carried round the whole table, displacement,
\* tombstones and growth hide no key.
LookupFindsUnlessLapped == ~lapped => LookupFinds

\* An iterator visits each slot in use once, forwards and, from any of them,
\* back to the first; m_count is their number, until an item that has been
\* carried round the whole table is there twice.
WalksOver ==
  Idle =>
    /\ ~lapped => count = Cardinality(Used)
    /\ IteratorMove(Begin, Cardinality(Used) + 1, NextAfter) = NotFound
    /\ \A p \in Used :
         LET before == Cardinality({q \in Used : q < p})
         IN  IteratorMove(Begin, before, NextAfter) = p /\ IteratorMove(p, before, PrevBefore) = Begin

\* As long as no item has been carried round the whole table, each operation
\* acts on a finite map at one instant: what insert() displaces, or grow()
\* moves, is lost at no time and never there twice.
ActsAsMap == [][~lapped => [FM!Next]_<<Map, Idle>>]_vars
=============================================================================
