------------------------------- MODULE MCWaiting -------------------------------
(***************************************************************************)
(* Small instances of Event, Future and BoundedQueue for TLC.  The threads *)
(* use one of the three, chosen at the start.  MCBoundedQueue has a larger *)
(* queue, for what does not depend on fairness.                            *)
(***************************************************************************)
EXTENDS Event

CONSTANTS Values, NoValue, Bound, FirstCapacity

VARIABLES
  used,          \* "event", "future" or "queue"
  signalsOne, complete, value, futurePc, taken, resets, futureFinite, refers, late,
  queue, capacity, closed, pulsed, errored, waiters, queuePc, val, queueFinite

F == INSTANCE Future WITH pc <- futurePc, finite <- futureFinite
Q == INSTANCE BoundedQueue WITH Values <- {NoValue}, pc <- queuePc, finite <- queueFinite

futureVars == <<signalsOne, complete, value, futurePc, taken, resets, futureFinite, refers, late>>
queueVars == <<queue, capacity, closed, pulsed, errored, waiters, queuePc, val, queueFinite>>

MCInit ==
  /\ used \in {"event", "future", "queue"}
  /\ Init /\ F!Init /\ Q!Init
  /\ used # "future" => ~signalsOne /\ value = CHOOSE v \in Values : TRUE
  /\ used # "event" => ~autoReset /\ ~bSet

MCNext ==
  \/ used = "event" /\ Next /\ UNCHANGED <<used, futureVars, queueVars>>
  \/ used = "future" /\ F!Next /\ UNCHANGED <<used, vars, queueVars>>
  \/ used = "queue" /\ Q!Next /\ UNCHANGED <<used, vars, futureVars>>

MCSpec == MCInit /\ [][MCNext]_<<used, vars, futureVars, queueVars>> /\ Q!Fairness

\* Future: nobody sleeps on a complete future, except behind a woken thread
\* that will reset it.
FutureForgetsNoSleeper == F!NoSleeperForgotten

\* Future: a wait returns the value given last, and two that reset never share a
\* completion; where it returns a reference, as long as the future has not been
\* completed again before its caller reads.
FutureGivesTheLatest == F!TakesTheLatest

\* BoundedQueue: once it is closed every blocked thread returns; pulse() returns,
\* although threads keep calling pop(); and so does a call with a timeout.
QueueCallsReturn == Q!CloseReleasesEverybody /\ Q!PulseReturns /\ Q!TimedCallReturns
=============================================================================
