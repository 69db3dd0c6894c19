------------------------------- MODULE Condition -------------------------------
(***************************************************************************)
(* OOBase::Condition on POSIX (src/Condition.cpp), as its callers see it.  *)
(* A thread in Condition::wait has a program counter that says so: asleep  *)
(* in the condition's wait set, or woken (the wait will return true) or    *)
(* expired (it will return false) and competing for the mutex, while other *)
(* threads run their critical sections.                                    *)
(***************************************************************************)
CONSTANT Threads

\* The threads that the program counters p put in the set P of states.
Where(p, P) == {t \in Threads : p[t] \in P}

SignalNobody(p, asleep, woken) == {p}

\* Condition::signal: the program counters after one sleeper, if there is
\* any, has been moved from the wait set to the threads competing.
Signal(p, asleep, woken) ==
  LET sleepers == Where(p, {asleep})
  IN  IF sleepers = {} THEN {p} ELSE {[p EXCEPT ![t] = woken] : t \in sleepers}

BroadcastOne(p, asleep, woken) == CHOOSE q \in Signal(p, asleep, woken) : TRUE

\* Condition::broadcast: the same of every sleeper.
Broadcast(p, asleep, woken) ==
  [t \in Threads |-> IF p[t] = asleep THEN woken ELSE p[t]]
=============================================================================
