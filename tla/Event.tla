--------------------------------- MODULE Event ---------------------------------
(***************************************************************************)
(* OOBase::Event on POSIX (src/Condition.cpp): an event made of a mutex, a *)
(* condition variable and a flag.  An action is one critical section.      *)
(***************************************************************************)
EXTENDS Condition

VARIABLES
  autoReset,  \* m_bAuto, an argument of the constructor
  bSet,       \* m_bSet, initially one too
  pc,         \* where each thread is; outside any call, how its last one ended
  finite      \* the Timeout of the thread's wait is not infinite

vars == <<autoReset, bSet, pc, finite>>

Resting == {"idle", "true", "false"}
WaitStates == {"asleep", "woken", "expired"}

Init ==
  /\ autoReset \in BOOLEAN
  /\ bSet \in BOOLEAN
  /\ pc = [t \in Threads |-> "idle"]
  /\ finite = [t \in Threads |-> FALSE]

CallEnds(t) == finite' = [finite EXCEPT ![t] = FALSE]

IsSet(t) ==
  /\ pc[t] \in Resting
  /\ bSet' = (bSet /\ ~autoReset)
  /\ pc' = [pc EXCEPT ![t] = IF bSet THEN "true" ELSE "false"]
  /\ UNCHANGED <<autoReset, finite>>

SetSignalsOne(t) ==
  /\ pc[t] \in Resting
  /\ bSet' = TRUE
  /\ pc' \in Signal([pc EXCEPT ![t] = "idle"], "asleep", "woken")
  /\ UNCHANGED <<autoReset, finite>>

\* "Only set if we are not set": then one sleeper is signalled, or all.
Set(t) ==
  /\ pc[t] \in Resting
  /\ bSet' = TRUE
  /\ LET p == [pc EXCEPT ![t] = "idle"]
     IN  \/ bSet /\ pc' = p
         \/ ~bSet /\ autoReset /\ pc' \in Signal(p, "asleep", "woken")
         \/ ~bSet /\ ~autoReset /\ pc' = Broadcast(p, "asleep", "woken")
  /\ UNCHANGED <<autoReset, finite>>

Reset(t) ==
  /\ pc[t] \in Resting
  /\ bSet' = FALSE
  /\ pc' = [pc EXCEPT ![t] = "idle"]
  /\ UNCHANGED <<autoReset, finite>>

\* The loop of wait(), entered by a new call or after a wake-up.
WaitLoop(t, f) ==
  /\ \/ /\ bSet
        /\ bSet' = ~autoReset
        /\ pc' = [pc EXCEPT ![t] = "true"]
        /\ CallEnds(t)
     \/ /\ ~bSet
        /\ UNCHANGED bSet
        /\ pc' = [pc EXCEPT ![t] = "asleep"]
        /\ finite' = [finite EXCEPT ![t] = f]
  /\ UNCHANGED autoReset

Wait(t, f) == pc[t] \in Resting /\ WaitLoop(t, f)

WaitWakesHeedless(t) ==
  /\ pc[t] = "woken"
  /\ bSet' = (bSet /\ ~autoReset)
  /\ pc' = [pc EXCEPT ![t] = "true"]
  /\ CallEnds(t)
  /\ UNCHANGED autoReset

WaitWakes(t) == pc[t] = "woken" /\ WaitLoop(t, finite[t])

WaitTimesOut(t) ==
  /\ pc[t] = "expired"
  /\ pc' = [pc EXCEPT ![t] = "false"]
  /\ CallEnds(t)
  /\ UNCHANGED <<autoReset, bSet>>

WakeSpuriously(t) ==
  /\ pc[t] = "asleep"
  /\ pc' = [pc EXCEPT ![t] = "woken"]
  /\ UNCHANGED <<autoReset, bSet, finite>>

DeadlinePasses(t) ==
  /\ pc[t] = "asleep"
  /\ finite[t]
  /\ pc' = [pc EXCEPT ![t] = "expired"]
  /\ UNCHANGED <<autoReset, bSet, finite>>

-----------------------------------------------------------------------------
Next ==
  \E t \in Threads :
    \/ IsSet(t) \/ Set(t) \/ Reset(t)
    \/ \E f \in BOOLEAN : Wait(t, f)
    \/ WaitWakes(t) \/ WaitTimesOut(t) \/ WakeSpuriously(t) \/ DeadlinePasses(t)

Spec == Init /\ [][Next]_vars

BlockedIn(t) == IF pc[t] \in WaitStates THEN "wait" ELSE pc[t]

Abstract == INSTANCE AtomicEvent WITH set <- bSet, call <- [t \in Threads |-> BlockedIn(t)]

-----------------------------------------------------------------------------
(* Properties                                                               *)

\* No lost wake-up, although set() signals only when the event was not set:
\* nobody sleeps on a set event, unless it is an auto-reset one that a woken
\* thread is about to take.
NoSleeperForgotten ==
  bSet /\ Where(pc, {"asleep"}) # {} => autoReset /\ Where(pc, {"woken"}) # {}

\* Each call acts on the flag at one instant, and each time an auto-reset
\* event is set one call passes.
ImplementsAtomicEvent == Abstract!Spec
=============================================================================
