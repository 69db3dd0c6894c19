----------------------------- MODULE ClosableFifo -----------------------------
(***************************************************************************)
(* What OOBase::BoundedQueue promises its callers if it is one of objects, *)
(* not of plain data: with no mutex, wait set, wake-up, waiter count or    *)
(* ring, every push and pop takes effect at one instant between its call   *)
(* and its return.                                                         *)
(***************************************************************************)
EXTENDS Naturals, Sequences

CONSTANTS Threads, Values, NoValue, Bound

VARIABLES
  queue,    \* the values, oldest first
  closed,   \* close() has been called
  errored,  \* a push has failed for want of memory
  call,     \* the call a thread is blocked in, or how its last one ended
  val       \* value a thread is pushing, or popped last

fifoVars == <<queue, closed, errored, call, val>>

Operations == {"push", "pop", "pulse"}

Outside(t) == call[t] \notin Operations

Blocked(op) == {t \in Threads : call[t] = op}
Pulsing == Blocked("pulse") # {}

Init ==
  /\ queue = <<>>
  /\ closed = FALSE
  /\ errored = FALSE
  /\ call = [t \in Threads |-> "idle"]
  /\ val = [t \in Threads |-> NoValue]

Block(t, op) ==
  /\ Outside(t)
  /\ call' = [call EXCEPT ![t] = op]
  /\ UNCHANGED <<queue, errored>>

Return(t, result) == call' = [call EXCEPT ![t] = result]

\* A push blocks only on a full, open, healthy queue.
PushBlocks(t, v) ==
  /\ Len(queue) >= Bound /\ ~closed /\ ~errored
  /\ Block(t, "push")
  /\ val' = [val EXCEPT ![t] = v]
  /\ UNCHANGED closed

PushSucceeds(t, v) ==
  /\ Len(queue) < Bound /\ ~closed /\ ~errored
  /\ \/ Outside(t)
     \/ call[t] = "push" /\ v = val[t]
  /\ queue' = Append(queue, v)
  /\ val' = [val EXCEPT ![t] = v]
  /\ Return(t, "success")
  /\ UNCHANGED <<closed, errored>>

\* The first failure for want of memory, never that of a push that waited.
PushFails(t, v) ==
  /\ Outside(t)
  /\ Len(queue) < Bound /\ ~closed /\ ~errored
  /\ errored' = TRUE
  /\ val' = [val EXCEPT ![t] = v]
  /\ Return(t, "error")
  /\ UNCHANGED <<queue, closed>>

PushRefused(t, v) ==
  /\ \/ Outside(t) /\ errored /\ Return(t, "error")
     \/ Outside(t) /\ ~errored /\ closed /\ Return(t, "closed")
     \/ call[t] = "push" /\ v = val[t] /\ closed /\ Return(t, "closed")
  /\ val' = [val EXCEPT ![t] = v]
  /\ UNCHANGED <<queue, closed, errored>>

\* A pop blocks only on an empty, open, healthy queue outside a pulse.
PopBlocks(t) ==
  /\ queue = <<>> /\ ~closed /\ ~errored /\ ~Pulsing
  /\ Block(t, "pop")
  /\ UNCHANGED <<closed, val>>

\* An error keeps new pops out, not those that were blocked already.
MayPop(t) == call[t] = "pop" \/ (Outside(t) /\ ~errored)

PopSucceeds(t) ==
  /\ MayPop(t)
  /\ queue # <<>>
  /\ queue' = Tail(queue)
  /\ val' = [val EXCEPT ![t] = Head(queue)]
  /\ Return(t, "success")
  /\ UNCHANGED <<closed, errored>>

\* Closed and pulsed are reported only when there is nothing left to pop.
PopRefused(t) ==
  /\ \/ Outside(t) /\ errored /\ Return(t, "error")
     \/ /\ MayPop(t)
        /\ queue = <<>>
        /\ \/ Pulsing /\ Return(t, "pulsed")
           \/ closed /\ Return(t, "closed")
  /\ UNCHANGED <<queue, closed, errored, val>>

TimesOut(t) ==
  /\ call[t] \in {"push", "pop"}
  /\ Return(t, "timedout")
  /\ UNCHANGED <<queue, closed, errored, val>>

Close(t) ==
  /\ Outside(t)
  /\ closed' = TRUE
  /\ Return(t, "idle")
  /\ UNCHANGED <<queue, errored, val>>

PulseBlocks(t) ==
  /\ ~Pulsing
  /\ Block(t, "pulse")
  /\ UNCHANGED <<closed, val>>

\* A pulse ends when every pop that was blocked has returned.
PulseEnds(t) ==
  /\ call[t] = "pulse"
  /\ Blocked("pop") = {}
  /\ Return(t, "idle")
  /\ UNCHANGED <<queue, closed, errored, val>>

Next ==
  \/ \E t \in Threads, v \in Values :
       PushBlocks(t, v) \/ PushSucceeds(t, v) \/ PushFails(t, v) \/ PushRefused(t, v)
  \/ \E t \in Threads :
       \/ PopBlocks(t) \/ PopSucceeds(t) \/ PopRefused(t)
       \/ TimesOut(t) \/ PulseBlocks(t) \/ PulseEnds(t) \/ Close(t)

Spec == Init /\ [][Next]_fifoVars
=============================================================================
