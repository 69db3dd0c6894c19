-------------------------------- MODULE Future --------------------------------
(***************************************************************************)
(* OOBase::Future<T> (include/OOBase/Condition.h): a value that threads    *)
(* wait for.  An action is one critical section.  A waiter may reset the   *)
(* future as it takes the value.  signal() wakes one waiter only, so it is *)
(* for futures whose waiters reset them; broadcast() is for all.           *)
(*                                                                         *)
(* wait(v, bReset, timeout) copies the value before it gives up the lock,  *)
(* and so does wait(bReset) of a small T, which has no timeout.  Of other  *)
(* types wait(bReset) returns a reference to m_value (call_traits), which  *)
(* its caller reads when the lock is free again.                           *)
(***************************************************************************)
EXTENDS Condition

CONSTANTS
  Values,
  NoValue    \* none of them: nothing held, or what a torn read finds

VARIABLES
  signalsOne, \* the program uses signal() too, and all its waiters reset
  complete,   \* m_complete
  value,      \* m_value
  pc,         \* where each thread is; outside any call, how its last one ended
  taken,      \* the value its last call, a wait, returned or returned a reference to
  resets,     \* the bReset of its wait
  finite,     \* the Timeout of its wait is not infinite
  refers,     \* its wait returns a reference
  late        \* history: the future has been completed since the reference was returned

vars == <<signalsOne, complete, value, pc, taken, resets, finite, refers, late>>

\* Outside any call, but "reads" is a caller with the reference it was returned.
Resting == {"idle", "true", "false"}
WaitStates == {"asleep", "woken", "expired"}

\* The constructor takes a value that no wait returns.
Init ==
  /\ signalsOne \in BOOLEAN
  /\ complete = FALSE
  /\ value \in Values
  /\ pc = [t \in Threads |-> "idle"]
  /\ taken = [t \in Threads |-> NoValue]
  /\ resets = [t \in Threads |-> FALSE]
  /\ finite = [t \in Threads |-> FALSE]
  /\ refers = [t \in Threads |-> FALSE]
  /\ late = [t \in Threads |-> FALSE]

\* signal() or broadcast() of v: both complete the future in the same way.
Completes(t, v) ==
  /\ pc[t] \in Resting
  /\ complete' = TRUE
  /\ value' = v
  /\ taken' = [taken EXCEPT ![t] = NoValue]
  /\ late' = [u \in Threads |-> late[u] \/ pc[u] = "reads"]
  /\ UNCHANGED <<signalsOne, resets, finite, refers>>

CallSignal(t, v) ==
  /\ signalsOne
  /\ Completes(t, v)
  /\ pc' \in Signal([pc EXCEPT ![t] = "idle"], "asleep", "woken")

CallBroadcast(t, v) ==
  /\ Completes(t, v)
  /\ pc' = Broadcast([pc EXCEPT ![t] = "idle"], "asleep", "woken")

CallEnds(t, result) ==
  /\ pc' = [pc EXCEPT ![t] = result]
  /\ resets' = [resets EXCEPT ![t] = FALSE]
  /\ finite' = [finite EXCEPT ![t] = FALSE]
  /\ refers' = [refers EXCEPT ![t] = FALSE]

\* The loop of wait(), entered by a new call or after a wake-up, and its end: the
\* value is copied, or a reference returned.
WaitLoop(t, r, f, ref) ==
  \/ /\ complete
     /\ complete' = ~r
     /\ taken' = [taken EXCEPT ![t] = value]
     /\ CallEnds(t, IF ref THEN "reads" ELSE "true")
     /\ UNCHANGED <<signalsOne, value, late>>
  \/ /\ ~complete
     /\ pc' = [pc EXCEPT ![t] = "asleep"]
     /\ taken' = [taken EXCEPT ![t] = NoValue]
     /\ resets' = [resets EXCEPT ![t] = r]
     /\ finite' = [finite EXCEPT ![t] = f]
     /\ refers' = [refers EXCEPT ![t] = ref]
     /\ UNCHANGED <<signalsOne, complete, value, late>>

Wait(t, r, f, ref) ==
  /\ pc[t] \in Resting
  /\ signalsOne => r
  /\ f => ~ref
  /\ WaitLoop(t, r, f, ref)

WaitWakesHeedless(t) ==
  /\ pc[t] = "woken"
  /\ complete' = (complete /\ ~resets[t])
  /\ taken' = [taken EXCEPT ![t] = value]
  /\ CallEnds(t, "true")
  /\ UNCHANGED <<signalsOne, value, late>>

WaitWakes(t) == pc[t] = "woken" /\ WaitLoop(t, resets[t], finite[t], refers[t])

WaitTimesOut(t) ==
  /\ pc[t] = "expired"
  /\ CallEnds(t, "false")
  /\ UNCHANGED <<signalsOne, complete, value, taken, late>>

WaitEnds(t, state) ==
  /\ pc[t] = "asleep"
  /\ pc' = [pc EXCEPT ![t] = state]
  /\ UNCHANGED <<signalsOne, complete, value, taken, resets, finite, refers, late>>

WakeSpuriously(t) == WaitEnds(t, "woken")
DeadlinePasses(t) == finite[t] /\ WaitEnds(t, "expired")

\* The caller reads by its reference, without the lock.  One that overlaps a
\* completion may find none.
Reads(t) ==
  /\ pc[t] = "reads"
  /\ pc' = [pc EXCEPT ![t] = "true"]
  /\ \E v \in {value} \cup (IF late[t] THEN {NoValue} ELSE {}) : taken' = [taken EXCEPT ![t] = v]
  /\ late' = [late EXCEPT ![t] = FALSE]
  /\ UNCHANGED <<signalsOne, complete, value, resets, finite, refers>>

-----------------------------------------------------------------------------
Next ==
  \E t \in Threads :
    \/ \E v \in Values : CallSignal(t, v) \/ CallBroadcast(t, v)
    \/ \E r, f, ref \in BOOLEAN : Wait(t, r, f, ref)
    \/ WaitWakes(t) \/ WaitTimesOut(t) \/ WakeSpuriously(t) \/ DeadlinePasses(t)
    \/ Reads(t)

Spec == Init /\ [][Next]_vars

-----------------------------------------------------------------------------
(* Properties                                                               *)

\* No lost wake-up: on a complete future nobody sleeps, except behind a
\* woken thread that will reset it.
NoSleeperForgotten ==
  complete /\ Where(pc, {"asleep"}) # {} => \E t \in Where(pc, {"woken"}) : resets[t]

\* A wait returns only while the future is complete, and two waits that reset
\* never share a completion.  What it takes is the value given last; and what its
\* caller reads by a reference is that value still, unless the future has been
\* completed again before.
TakesTheLatest ==
  [][\A t \in Threads :
       /\ pc[t] \notin {"true", "reads"} /\ pc'[t] \in {"true", "reads"} =>
            /\ complete /\ taken'[t] = value
            /\ resets[t] => ~complete'
       /\ pc[t] = "reads" /\ pc'[t] = "true" /\ ~late[t] => taken'[t] = taken[t]]_vars
=============================================================================
