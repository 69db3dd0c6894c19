----------------------------- MODULE BoundedQueue -----------------------------
(***************************************************************************)
(* OOBase::BoundedQueue<T> (include/OOBase/BoundedQueue.h): a bounded,     *)
(* closable, pulsable FIFO built from one mutex (m_lock), two condition    *)
(* variables (m_available, m_space) and an unbounded Queue<T> (m_queue).   *)
(*                                                                         *)
(* Every access to the members is made with m_lock held, so an action is   *)
(* one critical section: from the Guard's acquisition to the next point    *)
(* where the mutex is given up (Condition::wait, the release in pulse(),   *)
(* or the return).  Threads are those that share the queue object.  One in *)
(* Condition::wait is "asleep" until it is signalled, woken without a      *)
(* signal (POSIX allows it) or its deadline passes; then it competes for   *)
(* m_lock as "woken" or "expired".                                         *)
(*                                                                         *)
(* T is a type of objects, not plain data.  The ring of objects is the     *)
(* sequence of its contents (module Queue, Ring!ActsAsFifo); a ring of     *)
(* plain data that grows while it has wrapped is not (Queue.h:265-275), so *)
(* that nothing here is claimed of a BoundedQueue<int>.                    *)
(***************************************************************************)
EXTENDS Naturals, Sequences, FiniteSets, Condition

CONSTANTS
  Values,         \* the values pushed
  NoValue,        \* the initial content of a thread's value slot
  Bound,          \* m_bound, the constructor's argument
  FirstCapacity   \* slots the first Queue::grow() allocates (8 in the code)

ASSUME BoundedQueueAssumption ==
  /\ IsFiniteSet(Threads)
  /\ Bound \in Nat
  /\ FirstCapacity \in Nat /\ FirstCapacity >= 2

VARIABLES
  queue,      \* contents of m_queue, oldest first
  capacity,   \* m_queue.m_capacity; one slot of the ring always stays free
  closed,     \* m_closed
  pulsed,     \* m_pulsed
  errored,    \* m_errored
  waiters,    \* m_waiters
  pc,         \* where each thread is; outside any call, how its last one ended
  val,        \* value a thread is pushing, or popped last
  finite      \* the Timeout of the thread's current call is not infinite

vars == <<queue, capacity, closed, pulsed, errored, waiters, pc, val, finite>>

Results == {"success", "timedout", "closed", "pulsed", "error"}

\* Outside any call: "idle" before the first one and after close() and pulse().
Resting == Results \cup {"idle"}

PushStates == {"push_asleep", "push_woken", "push_expired"}
PopStates  == {"pop_asleep", "pop_woken", "pop_expired"}

At(P) == Where(pc, P)

Init ==
  /\ queue = <<>>
  /\ capacity = 0
  /\ closed = FALSE
  /\ pulsed = FALSE
  /\ errored = FALSE
  /\ waiters = 0
  /\ pc = [t \in Threads |-> "idle"]
  /\ val = [t \in Threads |-> NoValue]
  /\ finite = [t \in Threads |-> FALSE]

-----------------------------------------------------------------------------
(* Queue<T> of objects: push grows a full ring first, and growing may fail. *)

RingFull == capacity = 0 \/ Len(queue) = capacity - 1

GrownCapacity == IF capacity = 0 THEN FirstCapacity ELSE 2 * capacity

QueuePush(v) ==
  /\ queue' = Append(queue, v)
  /\ capacity' = IF RingFull THEN GrownCapacity ELSE capacity

-----------------------------------------------------------------------------
(* push()                                                                   *)

AtBound == Len(queue) >= Bound

\* The call's arguments end with it.
CallEnds(t) == finite' = [finite EXCEPT ![t] = FALSE]

\* From the test of the while loop on: wait for space, or push and signal
\* m_available, or find that the inner queue cannot grow.
PushLoop(t, v, f) ==
  \/ /\ AtBound
     /\ pc' = [pc EXCEPT ![t] = "push_asleep"]
     /\ finite' = [finite EXCEPT ![t] = f]
     /\ UNCHANGED <<queue, capacity, errored>>
  \/ /\ ~AtBound
     /\ QueuePush(v)
     /\ pc' \in Signal([pc EXCEPT ![t] = "success"], "pop_asleep", "pop_woken")
     /\ CallEnds(t)
     /\ UNCHANGED errored
  \/ /\ ~AtBound
     /\ RingFull
     /\ errored' = TRUE
     /\ pc' = [pc EXCEPT ![t] = "error"]
     /\ CallEnds(t)
     /\ UNCHANGED <<queue, capacity>>

PushReturns(t, result) ==
  /\ pc' = [pc EXCEPT ![t] = result]
  /\ CallEnds(t)
  /\ UNCHANGED <<queue, capacity, errored>>

Push(t, v, f) ==
  /\ pc[t] \in Resting
  /\ val' = [val EXCEPT ![t] = v]
  /\ \/ errored /\ PushReturns(t, "error")
     \/ ~errored /\ closed /\ PushReturns(t, "closed")
     \/ ~errored /\ ~closed /\ PushLoop(t, v, f)
  /\ UNCHANGED <<closed, pulsed, waiters>>

PushWakesHeedless(t) ==
  /\ pc[t] = "push_woken"
  /\ PushLoop(t, val[t], finite[t])
  /\ UNCHANGED <<closed, pulsed, waiters, val>>

\* m_space.wait returned true: only m_closed is tested again, not m_errored.
PushWakes(t) ==
  /\ pc[t] = "push_woken"
  /\ \/ closed /\ PushReturns(t, "closed")
     \/ ~closed /\ PushLoop(t, val[t], finite[t])
  /\ UNCHANGED <<closed, pulsed, waiters, val>>

\* m_space.wait returned false.
PushTimesOut(t) ==
  /\ pc[t] = "push_expired"
  /\ PushReturns(t, "timedout")
  /\ UNCHANGED <<closed, pulsed, waiters, val>>

-----------------------------------------------------------------------------
(* pop()                                                                    *)

PopReturns(t, result, w) ==
  /\ waiters' = w
  /\ pc' = [pc EXCEPT ![t] = result]
  /\ CallEnds(t)
  /\ UNCHANGED <<queue, val>>

\* One turn of the for loop; w is m_waiters when it starts.
PopLoop(t, f, w) ==
  \/ /\ queue # <<>>
     /\ queue' = Tail(queue)
     /\ val' = [val EXCEPT ![t] = Head(queue)]
     /\ waiters' = w
     /\ pc' \in Signal([pc EXCEPT ![t] = "success"], "push_asleep", "push_woken")
     /\ CallEnds(t)
  \/ queue = <<>> /\ pulsed /\ PopReturns(t, "pulsed", w)
  \/ queue = <<>> /\ ~pulsed /\ closed /\ PopReturns(t, "closed", w)
  \/ /\ queue = <<>>
     /\ ~pulsed
     /\ ~closed
     /\ waiters' = w + 1
     /\ pc' = [pc EXCEPT ![t] = "pop_asleep"]
     /\ finite' = [finite EXCEPT ![t] = f]
     /\ UNCHANGED <<queue, val>>

Pop(t, f) ==
  /\ pc[t] \in Resting
  /\ \/ errored /\ PopReturns(t, "error", waiters)
     \/ ~errored /\ PopLoop(t, f, waiters)
  /\ UNCHANGED <<capacity, closed, pulsed, errored>>

\* m_available.wait returned true: --m_waiters and round the loop again.
PopWakes(t) ==
  /\ pc[t] = "pop_woken"
  /\ PopLoop(t, finite[t], waiters - 1)
  /\ UNCHANGED <<capacity, closed, pulsed, errored>>

PopTimesOutLeaky(t) ==
  /\ pc[t] = "pop_expired"
  /\ PopReturns(t, "timedout", waiters)
  /\ UNCHANGED <<capacity, closed, pulsed, errored>>

\* m_available.wait returned false: m_queue is not looked at again.
PopTimesOut(t) ==
  /\ pc[t] = "pop_expired"
  /\ PopReturns(t, "timedout", waiters - 1)
  /\ UNCHANGED <<capacity, closed, pulsed, errored>>

-----------------------------------------------------------------------------
(* close() and pulse()                                                      *)

Close(t) ==
  /\ pc[t] \in Resting
  /\ closed' = TRUE
  /\ pc' = [Broadcast(Broadcast(pc, "pop_asleep", "pop_woken"), "push_asleep", "push_woken")
               EXCEPT ![t] = "idle"]
  /\ UNCHANGED <<queue, capacity, pulsed, errored, waiters, val, finite>>

\* With another pulse in progress, or with nobody in pop's wait, pulse()
\* returns without changing anything; otherwise it gives up m_lock.
Pulse(t) ==
  /\ pc[t] \in Resting
  /\ ~pulsed
  /\ waiters # 0
  /\ pulsed' = TRUE
  /\ pc' = [Broadcast(pc, "pop_asleep", "pop_woken") EXCEPT ![t] = "pulse_spin"]
  /\ UNCHANGED <<queue, capacity, closed, errored, waiters, val, finite>>

\* m_lock is acquired again; while m_waiters is not 0 the loop goes round.
PulseEnds(t) ==
  /\ pc[t] = "pulse_spin"
  /\ waiters = 0
  /\ pulsed' = FALSE
  /\ pc' = [pc EXCEPT ![t] = "idle"]
  /\ UNCHANGED <<queue, capacity, closed, errored, waiters, val, finite>>

-----------------------------------------------------------------------------
(* Condition::wait ending without a signal.                                 *)

WakeSpuriously(t) ==
  /\ \/ pc[t] = "push_asleep" /\ pc' = [pc EXCEPT ![t] = "push_woken"]
     \/ pc[t] = "pop_asleep" /\ pc' = [pc EXCEPT ![t] = "pop_woken"]
  /\ UNCHANGED <<queue, capacity, closed, pulsed, errored, waiters, val, finite>>

DeadlinePasses(t) ==
  /\ finite[t]
  /\ \/ pc[t] = "push_asleep" /\ pc' = [pc EXCEPT ![t] = "push_expired"]
     \/ pc[t] = "pop_asleep" /\ pc' = [pc EXCEPT ![t] = "pop_expired"]
  /\ UNCHANGED <<queue, capacity, closed, pulsed, errored, waiters, val, finite>>

-----------------------------------------------------------------------------
Next ==
  \E t \in Threads :
    \/ \E v \in Values, f \in BOOLEAN : Push(t, v, f)
    \/ PushWakes(t)
    \/ PushTimesOut(t)
    \/ \E f \in BOOLEAN : Pop(t, f)
    \/ PopWakes(t)
    \/ PopTimesOut(t)
    \/ Close(t)
    \/ Pulse(t)
    \/ PulseEnds(t)
    \/ WakeSpuriously(t)
    \/ DeadlinePasses(t)

Spec == Init /\ [][Next]_vars

(***************************************************************************)
(* Fairness.  A thread competing for m_lock gets it in the end, for every  *)
(* critical section is finite and none is held across a step.  A deadline  *)
(* is absolute and the same in every turn of the wait loop                 *)
(* (Timeout::get_abs_timespec), so a thread that keeps going back to sleep *)
(* finds it passed: strong fairness.  Nobody is obliged to make a call.    *)
(***************************************************************************)
Fairness ==
  \A t \in Threads :
    /\ WF_vars(PushWakes(t)) /\ WF_vars(PushTimesOut(t))
    /\ WF_vars(PopWakes(t)) /\ WF_vars(PopTimesOut(t))
    /\ WF_vars(PulseEnds(t))
    /\ SF_vars(DeadlinePasses(t))

FairSpec == Spec /\ Fairness

-----------------------------------------------------------------------------
(* The refinement of ClosableFifo: a thread is blocked in the call whose    *)
(* wait it is in, whether it still sleeps or not.                           *)

BlockedIn(t) ==
  CASE pc[t] \in PushStates -> "push"
    [] pc[t] \in PopStates -> "pop"
    [] pc[t] = "pulse_spin" -> "pulse"
    [] OTHER -> pc[t]

Fifo == INSTANCE ClosableFifo WITH call <- [t \in Threads |-> BlockedIn(t)]

-----------------------------------------------------------------------------
(* Properties                                                               *)

\* The members and the per-thread bookkeeping keep their types.
TypeOK ==
  /\ queue \in Seq(Values)
  /\ capacity \in Nat
  /\ closed \in BOOLEAN /\ pulsed \in BOOLEAN /\ errored \in BOOLEAN
  /\ waiters \in Nat
  /\ pc \in [Threads -> Resting \cup {"pulse_spin"} \cup PushStates \cup PopStates]
  /\ val \in [Threads -> Values \cup {NoValue}]
  /\ \A t \in At(PushStates) : val[t] \in Values
  /\ finite \in [Threads -> BOOLEAN]

\* However pushers barge past those waiting in push(), the queue never holds
\* more than m_bound values, and the ring keeps a slot free.
WithinBound ==
  /\ Len(queue) <= Bound
  /\ IF capacity = 0 THEN queue = <<>> ELSE Len(queue) < capacity

\* m_waiters counts exactly the threads inside pop()'s wait, whichever way
\* they leave it; pulse() relies on that to know when everybody is out.
WaitersCounted == waiters = Cardinality(At(PopStates))

\* close() and pulse() reach every sleeper, and nobody goes to sleep behind
\* them: no thread sleeps on a closed queue, none in pop() during a pulse.
NobodySleepsThrough ==
  /\ closed => At({"push_asleep", "pop_asleep"}) = {}
  /\ pulsed => At({"pop_asleep"}) = {}

\* No lost wake-up: while a thread sleeps in pop(), there is for each queued
\* value a popper already woken that has not run yet.
NoValueForgotten ==
  At({"pop_asleep"}) # {} => Len(queue) <= Cardinality(At({"pop_woken"}))

\* No lost wake-up: while a thread sleeps in push(), there is for each free
\* place a pusher already woken that has not run yet.
NoSpaceForgotten ==
  At({"push_asleep"}) # {} => Bound <= Len(queue) + Cardinality(At({"push_woken"}))

\* However close(), pulse(), pushes, pops and timeouts interleave, no thread
\* sleeps that has been let go, or has a value, or room, that nobody else takes.
NothingForgotten == NobodySleepsThrough /\ NoValueForgotten /\ NoSpaceForgotten

\* push() waits only after the inner queue has once held m_bound values; its
\* ring never shrinks, so no push can fail to grow while another waits.
\* That is why push() may ignore m_errored after its wait.
ErrorMeansNobodyWaitsToPush ==
  /\ At(PushStates) # {} => Bound < capacity \/ Bound = 0
  /\ errored => At(PushStates) = {}

\* m_pulsed is set exactly while one thread is inside pulse()'s loop.
OnePulseAtATime ==
  /\ pulsed <=> At({"pulse_spin"}) # {}
  /\ \A t, u \in At({"pulse_spin"}) : t = u

\* A pulse has let out every thread that was in pop()'s wait when it ends.
PulseLetsEverybodyOut ==
  [][pulsed /\ ~pulsed' => At(PopStates) = {}]_vars

\* Each call takes effect at one instant, in FIFO order, exactly once; it
\* blocks, and refuses, only when ClosableFifo says so.
ImplementsClosableFifo == Fifo!Spec

\* After close() every thread inside push() or pop() returns.
CloseReleasesEverybody ==
  \A t \in Threads : (closed /\ pc[t] \notin Resting) ~> (pc[t] \in Resting)

\* pulse() returns, whatever other threads call meanwhile.
PulseReturns ==
  \A t \in Threads : (pc[t] = "pulse_spin") ~> (pc[t] \in Resting)

\* A call with a finite timeout returns.
TimedCallReturns ==
  \A t \in Threads : finite[t] ~> ~finite[t]
=============================================================================
