------------------------------- MODULE FiniteMap -------------------------------
(***************************************************************************)
(* What OOBase's associative containers promise: a map with one value for  *)
(* a key.  An insertion takes effect when it begins, and while it rebuilds *)
(* the container nothing else changes.                                     *)
(***************************************************************************)
CONSTANTS Keys, Values

VARIABLES
  map,       \* the set of the values of each key
  putting    \* an insertion is under way

mapVars == <<map, putting>>

Init ==
  /\ map = [k \in Keys |-> {}]
  /\ putting = FALSE

Put(k, v) ==
  /\ ~putting
  /\ putting' = TRUE
  /\ map' = [map EXCEPT ![k] = {v}]

PutReturns ==
  /\ putting
  /\ putting' = FALSE
  /\ UNCHANGED map

Take(k) ==
  /\ ~putting
  /\ map[k] # {}
  /\ map' = [map EXCEPT ![k] = {}]
  /\ UNCHANGED putting

Clear ==
  /\ ~putting
  /\ map' = [k \in Keys |-> {}]
  /\ UNCHANGED putting

Next ==
  \/ \E k \in Keys : Take(k) \/ \E v \in Values : Put(k, v)
  \/ PutReturns \/ Clear

Spec == Init /\ [][Next]_mapVars
=============================================================================
