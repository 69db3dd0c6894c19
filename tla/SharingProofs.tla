----------------------------- MODULE SharingProofs -----------------------------
(***************************************************************************)
(* Theorems about BoundedQueue, for every number of threads, every set of  *)
(* values and every bound, and about the parts that stand beside it in     *)
(* MCBoundedQueue, for all values of their constants: Atomic, the guards   *)
(* of the locks and the allocator behind one, the ring of Queue, the       *)
(* Logger and the thread-local values.  A part takes its own steps or none *)
(* in a step of MCNext, so that an invariant of the part is one of MCSpec. *)
(***************************************************************************)
EXTENDS MCBoundedQueue, FiniteSetTheorems, WellFoundedInduction, TLAPS

PCs == Resting \cup {"pulse_spin"} \cup PushStates \cup PopStates

-----------------------------------------------------------------------------
(* Counting threads.                                                        *)

\* The threads in given states form a finite set.
LEMMA WhereFinite ==
  ASSUME NEW p, NEW P
  PROVE  IsFiniteSet(Where(p, P)) /\ Cardinality(Where(p, P)) \in Nat
  <1>1. Where(p, P) \subseteq Threads
    BY DEF Where
  <1>2. IsFiniteSet(Where(p, P))
    BY <1>1, FS_Subset, BoundedQueueAssumption DEF BoundedQueueAssumption
  <1>. QED
    BY <1>2, FS_CardinalityType

\* A thread that moves into the states P from outside adds one to their count.
LEMMA MoveIn ==
  ASSUME NEW p \in [Threads -> PCs], NEW P, NEW t \in Threads, NEW s \in P,
         p[t] \notin P
  PROVE  Cardinality(Where([p EXCEPT ![t] = s], P)) = Cardinality(Where(p, P)) + 1
  <1>1. Where([p EXCEPT ![t] = s], P) = Where(p, P) \cup {t}
    BY DEF Where
  <1>2. t \notin Where(p, P)
    BY DEF Where
  <1>. QED
    BY <1>1, <1>2, WhereFinite, FS_AddElement

\* A thread that moves out of the states P takes one from their count.
LEMMA MoveOut ==
  ASSUME NEW p \in [Threads -> PCs], NEW P, NEW t \in Threads, NEW s,
         s \notin P, p[t] \in P
  PROVE  Cardinality(Where([p EXCEPT ![t] = s], P)) = Cardinality(Where(p, P)) - 1
  <1>1. Where([p EXCEPT ![t] = s], P) = Where(p, P) \ {t}
    BY DEF Where
  <1>2. t \in Where(p, P)
    BY DEF Where
  <1>. QED
    BY <1>1, <1>2, WhereFinite, FS_RemoveElement

\* A thread that moves within the states P, or outside them, leaves the set.
LEMMA MoveAside ==
  ASSUME NEW p \in [Threads -> PCs], NEW P, NEW t \in Threads, NEW s,
         s \in P <=> p[t] \in P
  PROVE  Where([p EXCEPT ![t] = s], P) = Where(p, P)
  BY DEF Where

\* Signalling m_available moves threads within pop()'s wait only, and leaves
\* nobody asleep there without having woken one more.
LEMMA SignalAvailable ==
  ASSUME NEW p \in [Threads -> PCs],
         NEW q \in Signal(p, "pop_asleep", "pop_woken")
  PROVE  /\ q \in [Threads -> PCs]
         /\ \A u \in Threads : q[u] # p[u] => p[u] = "pop_asleep" /\ q[u] = "pop_woken"
         /\ Where(q, PopStates) = Where(p, PopStates)
         /\ Where(q, {"push_woken"}) = Where(p, {"push_woken"})
         /\ Where(q, {"pop_asleep"}) # {} =>
              Cardinality(Where(q, {"pop_woken"})) = Cardinality(Where(p, {"pop_woken"})) + 1
  <1>1. CASE q = p /\ Where(p, {"pop_asleep"}) = {}
    BY <1>1
  <1>2. ASSUME NEW u \in Threads, p[u] = "pop_asleep", q = [p EXCEPT ![u] = "pop_woken"]
        PROVE  /\ q \in [Threads -> PCs]
               /\ \A w \in Threads : q[w] # p[w] => p[w] = "pop_asleep" /\ q[w] = "pop_woken"
               /\ Where(q, PopStates) = Where(p, PopStates)
               /\ Where(q, {"push_woken"}) = Where(p, {"push_woken"})
               /\ Cardinality(Where(q, {"pop_woken"})) = Cardinality(Where(p, {"pop_woken"})) + 1
    BY <1>2, MoveIn, MoveAside DEF PCs, PopStates
  <1>3. \/ q = p /\ Where(p, {"pop_asleep"}) = {}
        \/ \E u \in Threads : p[u] = "pop_asleep" /\ q = [p EXCEPT ![u] = "pop_woken"]
    BY DEF Signal, Where
  <1>. QED
    BY <1>1, <1>2, <1>3, Zenon

\* The same of m_space and push()'s wait.
LEMMA SignalSpace ==
  ASSUME NEW p \in [Threads -> PCs],
         NEW q \in Signal(p, "push_asleep", "push_woken")
  PROVE  /\ q \in [Threads -> PCs]
         /\ \A u \in Threads : q[u] # p[u] => p[u] = "push_asleep" /\ q[u] = "push_woken"
         /\ Where(q, PopStates) = Where(p, PopStates)
         /\ Where(q, {"pop_woken"}) = Where(p, {"pop_woken"})
         /\ Where(q, {"push_asleep"}) # {} =>
              Cardinality(Where(q, {"push_woken"})) = Cardinality(Where(p, {"push_woken"})) + 1
  <1>1. CASE q = p /\ Where(p, {"push_asleep"}) = {}
    BY <1>1
  <1>2. ASSUME NEW u \in Threads, p[u] = "push_asleep", q = [p EXCEPT ![u] = "push_woken"]
        PROVE  /\ q \in [Threads -> PCs]
               /\ \A w \in Threads : q[w] # p[w] => p[w] = "push_asleep" /\ q[w] = "push_woken"
               /\ Where(q, PopStates) = Where(p, PopStates)
               /\ Where(q, {"pop_woken"}) = Where(p, {"pop_woken"})
               /\ Cardinality(Where(q, {"push_woken"})) = Cardinality(Where(p, {"push_woken"})) + 1
    BY <1>2, MoveIn, MoveAside DEF PCs, PushStates, PopStates
  <1>3. \/ q = p /\ Where(p, {"push_asleep"}) = {}
        \/ \E u \in Threads : p[u] = "push_asleep" /\ q = [p EXCEPT ![u] = "push_woken"]
    BY DEF Signal, Where
  <1>. QED
    BY <1>1, <1>2, <1>3, Zenon


-----------------------------------------------------------------------------
(* The inductive invariant.  WaitersCounted is needed for the type of       *)
(* m_waiters, NobodySleepsThrough for the lost wake-ups, WithinBound for    *)
(* ErrorMeansNobodyWaitsToPush and that for NoSpaceForgotten, so all the    *)
(* parts are proved together.                                               *)

IInv ==
  /\ TypeOK
  /\ WithinBound
  /\ WaitersCounted
  /\ NobodySleepsThrough
  /\ OnePulseAtATime
  /\ NoValueForgotten
  /\ NoSpaceForgotten
  /\ ErrorMeansNobodyWaitsToPush

\* Append and Tail, as far as the proofs need them.
LEMMA QueueOps ==
  /\ \A q \in Seq(Values), v \in Values :
        Append(q, v) \in Seq(Values) /\ Len(Append(q, v)) = Len(q) + 1
  /\ \A q \in Seq(Values) : q # <<>> =>
        /\ Tail(q) \in Seq(Values)
        /\ Len(Tail(q)) = Len(q) - 1
        /\ Head(q) \in Values
        /\ Len(q) > 0
  /\ \A q \in Seq(Values) : Len(q) \in Nat /\ (Len(q) = 0 <=> q = <<>>)
  OBVIOUS

\* The loop of push(), entered by a new call or after a wake-up.
LEMMA PushLoopKeepsInv ==
  ASSUME IInv,
         NEW t \in Threads, NEW v \in Values, NEW f \in BOOLEAN,
         PushLoop(t, v, f),
         pc[t] \in Resting \cup {"push_woken"},
         pc[t] \in Resting => ~errored,
         ~closed,
         val' = [val EXCEPT ![t] = v],
         UNCHANGED <<closed, pulsed, waiters>>
  PROVE  IInv'
  <1>. USE BoundedQueueAssumption DEF BoundedQueueAssumption
  <1>p. pc \in [Threads -> PCs]
    BY DEF IInv, TypeOK, PCs
  <1>n. /\ Len(queue) \in Nat /\ capacity \in Nat /\ waiters \in Nat
        /\ \A P : Cardinality(At(P)) \in Nat /\ Cardinality(At(P)') \in Nat
    BY QueueOps, WhereFinite DEF IInv, TypeOK, At
  <1>1. CASE /\ AtBound
             /\ pc' = [pc EXCEPT ![t] = "push_asleep"]
             /\ finite' = [finite EXCEPT ![t] = f]
             /\ UNCHANGED <<queue, capacity, errored>>
    <2>1. At(PopStates)' = At(PopStates) /\ At({"pop_woken"})' = At({"pop_woken"})
      BY <1>1, <1>p DEF At, Where, PopStates, Resting, Results
    <2>2. TypeOK'
      BY <1>1 DEF IInv, TypeOK, At, Where, PushStates, PopStates, Resting, Results
    <2>3. WithinBound' /\ WaitersCounted'
      BY <1>1, <2>1 DEF IInv, WithinBound, WaitersCounted
    <2>4. NobodySleepsThrough' /\ OnePulseAtATime'
      BY <1>1, <1>p DEF IInv, NobodySleepsThrough, OnePulseAtATime, At, Where, PCs, Resting, Results
    <2>5. NoValueForgotten'
      BY <1>1, <1>p, <2>1 DEF IInv, NoValueForgotten, At, Where, PCs
    <2>6. NoSpaceForgotten'
      BY <1>1, <1>n DEF NoSpaceForgotten, AtBound
    <2>7. ErrorMeansNobodyWaitsToPush'
      <3>1. ~errored
        BY DEF IInv, ErrorMeansNobodyWaitsToPush, At, Where, PushStates
      <3>2. Bound < capacity \/ Bound = 0
        BY <1>1, <1>n, QueueOps DEF IInv, WithinBound, AtBound, TypeOK
      <3>. QED
        BY <1>1, <3>1, <3>2 DEF ErrorMeansNobodyWaitsToPush
    <2>. QED
      BY <2>2, <2>3, <2>4, <2>5, <2>6, <2>7 DEF IInv
  <1>2. CASE /\ ~AtBound
             /\ QueuePush(v)
             /\ pc' \in Signal([pc EXCEPT ![t] = "success"], "pop_asleep", "pop_woken")
             /\ CallEnds(t)
             /\ UNCHANGED errored
    <2>. DEFINE p == [pc EXCEPT ![t] = "success"]
    <2>1. /\ p \in [Threads -> PCs]
          /\ Where(p, PopStates) = At(PopStates)
          /\ Where(p, {"pop_woken"}) = At({"pop_woken"})
      BY <1>p DEF At, Where, PCs, PopStates, Resting, Results
    <2>2. pc[t] = "push_woken" =>
            Cardinality(Where(p, {"push_woken"})) = Cardinality(At({"push_woken"})) - 1
      BY <1>p, MoveOut DEF At
    <2>3. pc[t] # "push_woken" => Where(p, {"push_woken"}) = At({"push_woken"})
      BY <1>p DEF At, Where
    <2>4. /\ pc' \in [Threads -> PCs]
          /\ \A u \in Threads : pc'[u] # p[u] => p[u] = "pop_asleep" /\ pc'[u] = "pop_woken"
          /\ At(PopStates)' = At(PopStates)
          /\ At({"push_woken"})' = Where(p, {"push_woken"})
          /\ At({"pop_asleep"})' # {} =>
               Cardinality(At({"pop_woken"})') = Cardinality(At({"pop_woken"})) + 1
      <3>. HIDE DEF p
      <3>1. pc' \in Signal(p, "pop_asleep", "pop_woken")
        BY <1>2 DEF p
      <3>. QED
        BY <2>1, <3>1, SignalAvailable DEF At
    <2>5. /\ queue' \in Seq(Values)
          /\ Len(queue') = Len(queue) + 1
          /\ capacity' = IF RingFull THEN GrownCapacity ELSE capacity
      BY <1>2, QueueOps DEF QueuePush, IInv, TypeOK
    <2>6. TypeOK'
      <3>1. \A u \in At(PushStates)' : val'[u] \in Values
        BY <1>p, <2>4 DEF IInv, TypeOK, At, Where, PushStates
      <3>2. capacity' \in Nat
        BY <1>n, <2>5 DEF GrownCapacity
      <3>. QED
        BY <1>2, <2>4, <2>5, <3>1, <3>2 DEF IInv, TypeOK, CallEnds, PCs
    <2>7. WithinBound'
      BY <1>2, <1>n, <2>5, QueueOps DEF IInv, TypeOK, WithinBound, AtBound, RingFull, GrownCapacity
    <2>8. WaitersCounted'
      BY <2>4 DEF IInv, WaitersCounted
    <2>9. NobodySleepsThrough' /\ OnePulseAtATime'
      BY <1>2, <1>p, <2>4 DEF IInv, NobodySleepsThrough, OnePulseAtATime, At, Where, PCs, Resting, Results
    <2>10. NoValueForgotten'
      <3>. SUFFICES ASSUME At({"pop_asleep"})' # {}
                    PROVE  Len(queue') <= Cardinality(At({"pop_woken"})')
        BY DEF NoValueForgotten
      <3>1. At({"pop_asleep"}) # {}
        BY <1>p, <2>4 DEF At, Where
      <3>. QED
        BY <1>n, <2>4, <2>5, <3>1 DEF IInv, NoValueForgotten
    <2>11. NoSpaceForgotten'
      <3>. SUFFICES ASSUME At({"push_asleep"})' # {}
                    PROVE  Bound <= Len(queue') + Cardinality(At({"push_woken"})')
        BY DEF NoSpaceForgotten
      <3>1. At({"push_asleep"}) # {}
        BY <1>p, <2>4 DEF At, Where
      <3>. QED
        BY <1>n, <2>2, <2>3, <2>4, <2>5, <3>1 DEF IInv, NoSpaceForgotten
    <2>12. ErrorMeansNobodyWaitsToPush'
      <3>1. At(PushStates)' \subseteq At(PushStates)
        BY <1>p, <2>4 DEF At, Where, PushStates
      <3>2. At(PushStates) # {} => Bound < capacity' \/ Bound = 0
        BY <1>n, <2>5 DEF IInv, ErrorMeansNobodyWaitsToPush, GrownCapacity
      <3>. QED
        BY <1>2, <3>1, <3>2 DEF IInv, ErrorMeansNobodyWaitsToPush
    <2>. QED
      BY <2>6, <2>7, <2>8, <2>9, <2>10, <2>11, <2>12 DEF IInv
  <1>3. CASE /\ ~AtBound
             /\ RingFull
             /\ errored' = TRUE
             /\ pc' = [pc EXCEPT ![t] = "error"]
             /\ CallEnds(t)
             /\ UNCHANGED <<queue, capacity>>
    <2>1. At(PushStates) = {}
      BY <1>3, <1>n, QueueOps DEF IInv, ErrorMeansNobodyWaitsToPush, RingFull, AtBound, TypeOK
    <2>2. /\ At(PushStates)' = {}
          /\ At({"push_asleep"})' = {}
      BY <1>3, <1>p, <2>1 DEF At, Where, PushStates
    <2>3. At(PopStates)' = At(PopStates) /\ At({"pop_woken"})' = At({"pop_woken"})
      BY <1>3, <1>p DEF At, Where, PopStates, Resting, Results
    <2>4. TypeOK'
      BY <1>3 DEF IInv, TypeOK, At, Where, CallEnds, PushStates, PopStates, Resting, Results
    <2>5. WithinBound' /\ WaitersCounted'
      BY <1>3, <2>3 DEF IInv, WithinBound, WaitersCounted
    <2>6. NobodySleepsThrough' /\ OnePulseAtATime'
      BY <1>3, <1>p DEF IInv, NobodySleepsThrough, OnePulseAtATime, At, Where, PCs, Resting, Results
    <2>7. NoValueForgotten' /\ NoSpaceForgotten' /\ ErrorMeansNobodyWaitsToPush'
      <3>1. At({"pop_asleep"})' = At({"pop_asleep"})
        BY <1>3, <1>p DEF At, Where, Resting, Results
      <3>. QED
        BY <1>3, <2>2, <2>3, <3>1 DEF IInv, NoValueForgotten, NoSpaceForgotten, ErrorMeansNobodyWaitsToPush
    <2>. QED
      BY <2>4, <2>5, <2>6, <2>7 DEF IInv
  <1>. QED
    BY <1>1, <1>2, <1>3 DEF PushLoop

\* The loop of pop(), entered by a new call or after a wake-up; w is the
\* value of m_waiters without the thread itself.
LEMMA PopLoopKeepsInv ==
  ASSUME IInv,
         NEW t \in Threads, NEW f \in BOOLEAN, NEW w \in Nat,
         PopLoop(t, f, w),
         \/ pc[t] \in Resting /\ w = waiters
         \/ pc[t] = "pop_woken" /\ waiters = w + 1,
         UNCHANGED <<capacity, closed, pulsed, errored>>
  PROVE  IInv'
  <1>. USE BoundedQueueAssumption DEF BoundedQueueAssumption
  <1>p. pc \in [Threads -> PCs]
    BY DEF IInv, TypeOK, PCs
  <1>n. /\ Len(queue) \in Nat /\ capacity \in Nat /\ waiters \in Nat
        /\ \A P : Cardinality(At(P)) \in Nat /\ Cardinality(At(P)') \in Nat
    BY QueueOps, WhereFinite DEF IInv, TypeOK, At
  <1>w. ASSUME NEW s \in PCs \ PopStates
        PROVE  Cardinality(Where([pc EXCEPT ![t] = s], PopStates)) = w
    <2>1. CASE pc[t] = "pop_woken"
      <3>1. Cardinality(Where([pc EXCEPT ![t] = s], PopStates)) = Cardinality(Where(pc, PopStates)) - 1
        BY <1>p, <2>1, MoveOut DEF PopStates
      <3>. QED
        BY <1>n, <2>1, <3>1 DEF IInv, WaitersCounted, At, Resting, Results
    <2>2. CASE pc[t] \in Resting
      <3>1. Where([pc EXCEPT ![t] = s], PopStates) = Where(pc, PopStates)
        BY <1>p, <2>2 DEF Where, PopStates, Resting, Results
      <3>. QED
        BY <1>n, <2>2, <3>1 DEF IInv, WaitersCounted, At, Resting, Results
    <2>. QED
      BY <2>1, <2>2
  <1>1. CASE /\ queue # <<>>
             /\ queue' = Tail(queue)
             /\ val' = [val EXCEPT ![t] = Head(queue)]
             /\ waiters' = w
             /\ pc' \in Signal([pc EXCEPT ![t] = "success"], "push_asleep", "push_woken")
             /\ CallEnds(t)
    <2>. DEFINE p == [pc EXCEPT ![t] = "success"]
    <2>1. /\ p \in [Threads -> PCs]
          /\ Cardinality(Where(p, PopStates)) = w
          /\ Where(p, {"push_woken"}) = At({"push_woken"})
      BY <1>p, <1>w DEF At, Where, PCs, PopStates, Resting, Results
    <2>2. pc[t] = "pop_woken" =>
            Cardinality(Where(p, {"pop_woken"})) = Cardinality(At({"pop_woken"})) - 1
      BY <1>p, MoveOut DEF At
    <2>3. pc[t] # "pop_woken" => Where(p, {"pop_woken"}) = At({"pop_woken"})
      BY <1>p DEF At, Where
    <2>4. /\ pc' \in [Threads -> PCs]
          /\ \A u \in Threads : pc'[u] # p[u] => p[u] = "push_asleep" /\ pc'[u] = "push_woken"
          /\ Cardinality(At(PopStates)') = w
          /\ At({"pop_woken"})' = Where(p, {"pop_woken"})
          /\ At({"push_asleep"})' # {} =>
               Cardinality(At({"push_woken"})') = Cardinality(At({"push_woken"})) + 1
      <3>. HIDE DEF p
      <3>1. pc' \in Signal(p, "push_asleep", "push_woken")
        BY <1>1 DEF p
      <3>. QED
        BY <2>1, <3>1, SignalSpace DEF At
    <2>5. queue' \in Seq(Values) /\ Len(queue') = Len(queue) - 1 /\ Head(queue) \in Values
      BY <1>1, QueueOps DEF IInv, TypeOK
    <2>6. TypeOK'
      <3>1. \A u \in At(PushStates)' : u # t /\ u \in At(PushStates)
        BY <1>p, <2>4 DEF At, Where, PushStates
      <3>2. \A u \in At(PushStates)' : val'[u] \in Values
        BY <1>1, <3>1 DEF IInv, TypeOK, At, Where
      <3>. QED
        BY <1>1, <2>4, <2>5, <3>2 DEF IInv, TypeOK, CallEnds, PCs
    <2>7. WithinBound'
      BY <1>1, <1>n, <2>5, QueueOps DEF IInv, TypeOK, WithinBound
    <2>8. WaitersCounted'
      BY <1>1, <2>4 DEF WaitersCounted
    <2>9. NobodySleepsThrough' /\ OnePulseAtATime'
      BY <1>1, <1>p, <2>4 DEF IInv, NobodySleepsThrough, OnePulseAtATime, At, Where, PCs, Resting, Results
    <2>10. NoValueForgotten'
      <3>. SUFFICES ASSUME At({"pop_asleep"})' # {}
                    PROVE  Len(queue') <= Cardinality(At({"pop_woken"})')
        BY DEF NoValueForgotten
      <3>1. At({"pop_asleep"}) # {}
        BY <1>p, <2>4 DEF At, Where
      <3>. QED
        BY <1>n, <2>2, <2>3, <2>4, <2>5, <3>1 DEF IInv, NoValueForgotten
    <2>11. NoSpaceForgotten'
      <3>. SUFFICES ASSUME At({"push_asleep"})' # {}
                    PROVE  Bound <= Len(queue') + Cardinality(At({"push_woken"})')
        BY DEF NoSpaceForgotten
      <3>1. At({"push_asleep"}) # {}
        BY <1>p, <2>4 DEF At, Where
      <3>. QED
        BY <1>n, <2>4, <2>5, <3>1 DEF IInv, NoSpaceForgotten
    <2>12. ErrorMeansNobodyWaitsToPush'
      <3>1. At(PushStates)' \subseteq At(PushStates)
        BY <1>p, <2>4 DEF At, Where, PushStates
      <3>. QED
        BY <1>n, <3>1 DEF IInv, ErrorMeansNobodyWaitsToPush
    <2>. QED
      BY <2>6, <2>7, <2>8, <2>9, <2>10, <2>11, <2>12 DEF IInv
  <1>2. ASSUME NEW r \in Results, queue = <<>>, PopReturns(t, r, w)
        PROVE  IInv'
    <2>1. /\ Cardinality(At(PopStates)') = w
          /\ At(PushStates)' = At(PushStates)
          /\ At({"push_asleep"})' = At({"push_asleep"})
          /\ At({"push_woken"})' = At({"push_woken"})
      BY <1>2, <1>p, <1>w DEF PopReturns, At, Where, PCs, PushStates, PopStates, Resting, Results
    <2>2. TypeOK' /\ WithinBound' /\ WaitersCounted'
      BY <1>2, <2>1 DEF IInv, TypeOK, WithinBound, WaitersCounted, PopReturns, CallEnds, Resting
    <2>3. NobodySleepsThrough' /\ OnePulseAtATime'
      BY <1>2, <1>p DEF IInv, NobodySleepsThrough, OnePulseAtATime, PopReturns, At, Where, PCs, Resting, Results
    <2>4. NoValueForgotten'
      BY <1>2, <1>n, QueueOps DEF NoValueForgotten, PopReturns, IInv, TypeOK
    <2>5. NoSpaceForgotten' /\ ErrorMeansNobodyWaitsToPush'
      BY <1>2, <2>1 DEF IInv, NoSpaceForgotten, ErrorMeansNobodyWaitsToPush, PopReturns
    <2>. QED
      BY <2>2, <2>3, <2>4, <2>5 DEF IInv
  <1>3. CASE /\ queue = <<>>
             /\ ~pulsed
             /\ ~closed
             /\ waiters' = w + 1
             /\ pc' = [pc EXCEPT ![t] = "pop_asleep"]
             /\ finite' = [finite EXCEPT ![t] = f]
             /\ UNCHANGED <<queue, val>>
    <2>1. Cardinality(At(PopStates)') = w + 1
      <3>1. CASE pc[t] = "pop_woken"
        BY <1>3, <1>p, <1>n, <3>1 DEF At, Where, IInv, WaitersCounted, PopStates, Resting, Results
      <3>2. CASE pc[t] \in Resting
        <4>1. Cardinality(At(PopStates)') = Cardinality(At(PopStates)) + 1
          BY <1>3, <1>p, <3>2, MoveIn DEF At, PopStates, Resting, Results
        <4>. QED
          BY <4>1, <3>2 DEF IInv, WaitersCounted, Resting, Results
      <3>. QED
        BY <3>1, <3>2
    <2>2. /\ At(PushStates)' = At(PushStates)
          /\ At({"push_asleep"})' = At({"push_asleep"})
          /\ At({"push_woken"})' = At({"push_woken"})
      BY <1>3, <1>p DEF At, Where, PushStates, Resting, Results
    <2>3. TypeOK' /\ WithinBound' /\ WaitersCounted'
      BY <1>3, <2>1, <2>2 DEF IInv, TypeOK, WithinBound, WaitersCounted, PopStates
    <2>4. NobodySleepsThrough' /\ OnePulseAtATime'
      BY <1>3, <1>p DEF IInv, NobodySleepsThrough, OnePulseAtATime, At, Where, PCs, Resting, Results
    <2>5. NoValueForgotten'
      BY <1>3, <1>n, QueueOps DEF NoValueForgotten, IInv, TypeOK
    <2>6. NoSpaceForgotten' /\ ErrorMeansNobodyWaitsToPush'
      BY <1>3, <2>2 DEF IInv, NoSpaceForgotten, ErrorMeansNobodyWaitsToPush
    <2>. QED
      BY <2>3, <2>4, <2>5, <2>6 DEF IInv
  <1>. QED
    BY <1>1, <1>2, <1>3 DEF PopLoop, Results

\* A thread that leaves push()'s wait, or never enters it, changing nothing.
LEMMA PushReturnsKeepsInv ==
  ASSUME IInv,
         NEW t \in Threads, NEW r \in Results,
         PushReturns(t, r),
         \/ pc[t] \in Resting
         \/ pc[t] = "push_expired"
         \/ pc[t] = "push_woken" /\ closed,
         val' \in [Threads -> Values \cup {NoValue}],
         \A u \in Threads \ {t} : val'[u] = val[u],
         UNCHANGED <<closed, pulsed, waiters>>
  PROVE  IInv'
  <1>p. pc \in [Threads -> PCs]
    BY DEF IInv, TypeOK, PCs
  <1>1. /\ At(PopStates)' = At(PopStates)
        /\ At({"pop_asleep"})' = At({"pop_asleep"})
        /\ At({"pop_woken"})' = At({"pop_woken"})
        /\ At({"push_asleep"})' = At({"push_asleep"})
        /\ At(PushStates)' = At(PushStates) \ {t}
    BY <1>p DEF PushReturns, At, Where, PushStates, PopStates, Resting, Results
  <1>2. TypeOK'
    BY <1>1 DEF IInv, TypeOK, PushReturns, CallEnds, Resting, At, Where
  <1>3. WithinBound' /\ WaitersCounted' /\ NoValueForgotten'
    BY <1>1 DEF IInv, WithinBound, WaitersCounted, NoValueForgotten, PushReturns
  <1>4. NobodySleepsThrough' /\ OnePulseAtATime'
    BY <1>p DEF IInv, NobodySleepsThrough, OnePulseAtATime, PushReturns, At, Where, PCs, Resting, Results
  <1>5. NoSpaceForgotten'
    <2>1. CASE closed
      BY <1>1, <2>1 DEF IInv, NobodySleepsThrough, NoSpaceForgotten, At, Where
    <2>2. CASE pc[t] # "push_woken"
      <3>1. At({"push_woken"})' = At({"push_woken"})
        BY <1>p, <2>2 DEF PushReturns, At, Where, Results
      <3>. QED
        BY <1>1, <3>1 DEF IInv, NoSpaceForgotten, PushReturns
    <2>. QED
      BY <2>1, <2>2 DEF Resting, Results
  <1>6. ErrorMeansNobodyWaitsToPush'
    BY <1>1 DEF IInv, ErrorMeansNobodyWaitsToPush, PushReturns
  <1>. QED
    BY <1>2, <1>3, <1>4, <1>5, <1>6 DEF IInv

\* A waiter whose deadline has passed takes itself off m_waiters.
LEMMA PopTimesOutKeepsInv ==
  ASSUME IInv, NEW t \in Threads, PopTimesOut(t)
  PROVE  IInv'
  <1>p. pc \in [Threads -> PCs]
    BY DEF IInv, TypeOK, PCs
  <1>1. /\ Cardinality(At(PopStates)') = waiters - 1
        /\ Cardinality(At(PopStates)') \in Nat
    BY <1>p, MoveOut, WhereFinite
       DEF IInv, WaitersCounted, PopTimesOut, PopReturns, At, PopStates
  <1>2. /\ At({"pop_asleep"})' = At({"pop_asleep"})
        /\ At({"pop_woken"})' = At({"pop_woken"})
        /\ At({"push_asleep"})' = At({"push_asleep"})
        /\ At({"push_woken"})' = At({"push_woken"})
        /\ At(PushStates)' = At(PushStates)
    BY <1>p DEF PopTimesOut, PopReturns, At, Where, PushStates
  <1>3. TypeOK' /\ WithinBound' /\ WaitersCounted'
    BY <1>1, <1>2 DEF IInv, TypeOK, WithinBound, WaitersCounted, PopTimesOut, PopReturns, CallEnds, Resting, Results
  <1>4. NobodySleepsThrough' /\ OnePulseAtATime'
    BY <1>p DEF IInv, NobodySleepsThrough, OnePulseAtATime, PopTimesOut, PopReturns, At, Where, PCs
  <1>5. NoValueForgotten' /\ NoSpaceForgotten' /\ ErrorMeansNobodyWaitsToPush'
    BY <1>2 DEF IInv, NoValueForgotten, NoSpaceForgotten, ErrorMeansNobodyWaitsToPush, PopTimesOut, PopReturns
  <1>. QED
    BY <1>3, <1>4, <1>5 DEF IInv

\* close() leaves nobody asleep.
LEMMA CloseKeepsInv ==
  ASSUME IInv, NEW t \in Threads, Close(t)
  PROVE  IInv'
  <1>p. pc \in [Threads -> PCs]
    BY DEF IInv, TypeOK, PCs
  <1>1. /\ pc' \in [Threads -> PCs]
        /\ At({"pop_asleep"})' = {}
        /\ At({"push_asleep"})' = {}
        /\ At({"push_asleep", "pop_asleep"})' = {}
    BY <1>p DEF Close, Broadcast, At, Where, PCs, PushStates, PopStates, Resting
  <1>2. /\ At(PopStates)' = At(PopStates)
        /\ At(PushStates)' = At(PushStates)
        /\ At({"pulse_spin"})' = At({"pulse_spin"})
    BY <1>p DEF Close, Broadcast, At, Where, PushStates, PopStates, Resting, Results
  <1>3. TypeOK' /\ WithinBound' /\ WaitersCounted'
    BY <1>1, <1>2 DEF IInv, TypeOK, WithinBound, WaitersCounted, Close, PCs
  <1>4. NobodySleepsThrough' /\ OnePulseAtATime' /\ NoValueForgotten' /\ NoSpaceForgotten'
    BY <1>1, <1>2 DEF IInv, NobodySleepsThrough, OnePulseAtATime, NoValueForgotten, NoSpaceForgotten, Close
  <1>5. ErrorMeansNobodyWaitsToPush'
    BY <1>2 DEF IInv, ErrorMeansNobodyWaitsToPush, Close
  <1>. QED
    BY <1>3, <1>4, <1>5 DEF IInv

\* pulse() leaves nobody asleep in pop(), and nobody else is inside pulse().
LEMMA PulseKeepsInv ==
  ASSUME IInv, NEW t \in Threads, Pulse(t)
  PROVE  IInv'
  <1>p. pc \in [Threads -> PCs]
    BY DEF IInv, TypeOK, PCs
  <1>1. /\ pc' \in [Threads -> PCs]
        /\ At({"pop_asleep"})' = {}
        /\ At({"push_asleep"})' = At({"push_asleep"})
        /\ At({"push_woken"})' = At({"push_woken"})
    BY <1>p DEF Pulse, Broadcast, At, Where, PCs, PushStates, PopStates, Resting, Results
  <1>2. /\ At(PopStates)' = At(PopStates)
        /\ At(PushStates)' = At(PushStates)
    BY <1>p DEF Pulse, Broadcast, At, Where, PushStates, PopStates, Resting, Results
  <1>3. At({"pulse_spin"})' = {t}
    BY <1>p DEF IInv, OnePulseAtATime, Pulse, Broadcast, At, Where
  <1>4. TypeOK' /\ WithinBound' /\ WaitersCounted'
    BY <1>1, <1>2 DEF IInv, TypeOK, WithinBound, WaitersCounted, Pulse, PCs
  <1>5. NobodySleepsThrough'
    BY <1>p, <1>1 DEF IInv, NobodySleepsThrough, Pulse, Broadcast, At, Where
  <1>6. OnePulseAtATime' /\ NoValueForgotten'
    BY <1>1, <1>3 DEF OnePulseAtATime, NoValueForgotten, Pulse
  <1>7. NoSpaceForgotten' /\ ErrorMeansNobodyWaitsToPush'
    BY <1>1, <1>2 DEF IInv, NoSpaceForgotten, ErrorMeansNobodyWaitsToPush, Pulse
  <1>. QED
    BY <1>4, <1>5, <1>6, <1>7 DEF IInv

\* A pulse that ends leaves the wait sets alone.
LEMMA PulseEndsKeepsInv ==
  ASSUME IInv, NEW t \in Threads, PulseEnds(t)
  PROVE  IInv'
  <1>p. pc \in [Threads -> PCs]
    BY DEF IInv, TypeOK, PCs
  <1>1. /\ At(PopStates)' = At(PopStates)
        /\ At({"pop_asleep"})' = At({"pop_asleep"})
        /\ At({"pop_woken"})' = At({"pop_woken"})
        /\ At({"push_asleep"})' = At({"push_asleep"})
        /\ At({"push_woken"})' = At({"push_woken"})
        /\ At(PushStates)' = At(PushStates)
        /\ At({"push_asleep", "pop_asleep"})' = At({"push_asleep", "pop_asleep"})
    BY <1>p DEF PulseEnds, At, Where, PushStates, PopStates
  <1>2. At({"pulse_spin"})' = {}
    BY <1>p DEF IInv, OnePulseAtATime, PulseEnds, At, Where
  <1>3. TypeOK' /\ WithinBound' /\ WaitersCounted'
    BY <1>1 DEF IInv, TypeOK, WithinBound, WaitersCounted, PulseEnds, Resting
  <1>4. NobodySleepsThrough' /\ OnePulseAtATime'
    BY <1>1, <1>2 DEF IInv, NobodySleepsThrough, OnePulseAtATime, PulseEnds
  <1>5. NoValueForgotten' /\ NoSpaceForgotten' /\ ErrorMeansNobodyWaitsToPush'
    BY <1>1 DEF IInv, NoValueForgotten, NoSpaceForgotten, ErrorMeansNobodyWaitsToPush, PulseEnds
  <1>. QED
    BY <1>3, <1>4, <1>5 DEF IInv

\* A wait that ends without a signal moves a sleeper, and only a sleeper.
LEMMA WaitEndsKeepsInv ==
  ASSUME IInv, NEW t \in Threads, WakeSpuriously(t) \/ DeadlinePasses(t)
  PROVE  IInv'
  <1>. DEFINE same == UNCHANGED <<queue, capacity, closed, pulsed, errored, waiters, val, finite>>
  <1>p. pc \in [Threads -> PCs]
    BY DEF IInv, TypeOK, PCs
  <1>n. \A P : Cardinality(At(P)) \in Nat /\ Cardinality(At(P)') \in Nat
    BY WhereFinite DEF At
  <1>1. ASSUME NEW s \in {"push_woken", "push_expired"},
               pc[t] = "push_asleep", pc' = [pc EXCEPT ![t] = s], same
        PROVE  IInv'
    <2>1. /\ At(PopStates)' = At(PopStates)
          /\ At({"pop_asleep"})' = At({"pop_asleep"})
          /\ At({"pop_woken"})' = At({"pop_woken"})
          /\ At(PushStates)' = At(PushStates)
          /\ At({"pulse_spin"})' = At({"pulse_spin"})
          /\ At({"push_asleep"})' \subseteq At({"push_asleep"})
          /\ At({"push_asleep", "pop_asleep"})' \subseteq At({"push_asleep", "pop_asleep"})
      BY <1>1, <1>p DEF At, Where, PushStates, PopStates
    <2>2. \/ At({"push_woken"})' = At({"push_woken"})
          \/ Cardinality(At({"push_woken"})') = Cardinality(At({"push_woken"})) + 1
      <3>1. CASE s = "push_woken"
        BY <1>1, <1>p, <3>1, MoveIn DEF At
      <3>2. CASE s = "push_expired"
        BY <1>1, <1>p, <3>2 DEF At, Where
      <3>. QED
        BY <3>1, <3>2
    <2>3. TypeOK' /\ WithinBound' /\ WaitersCounted'
      BY <1>1, <2>1 DEF IInv, TypeOK, WithinBound, WaitersCounted, PushStates
    <2>4. NobodySleepsThrough' /\ OnePulseAtATime' /\ NoValueForgotten' /\ ErrorMeansNobodyWaitsToPush'
      BY <1>1, <2>1 DEF IInv, NobodySleepsThrough, OnePulseAtATime, NoValueForgotten, ErrorMeansNobodyWaitsToPush
    <2>5. NoSpaceForgotten'
      BY <1>1, <1>n, <2>1, <2>2, BoundedQueueAssumption, QueueOps
         DEF IInv, TypeOK, NoSpaceForgotten, BoundedQueueAssumption
    <2>. QED
      BY <2>3, <2>4, <2>5 DEF IInv
  <1>2. ASSUME NEW s \in {"pop_woken", "pop_expired"},
               pc[t] = "pop_asleep", pc' = [pc EXCEPT ![t] = s], same
        PROVE  IInv'
    <2>1. /\ At(PopStates)' = At(PopStates)
          /\ At({"push_asleep"})' = At({"push_asleep"})
          /\ At({"push_woken"})' = At({"push_woken"})
          /\ At(PushStates)' = At(PushStates)
          /\ At({"pulse_spin"})' = At({"pulse_spin"})
          /\ At({"pop_asleep"})' \subseteq At({"pop_asleep"})
          /\ At({"push_asleep", "pop_asleep"})' \subseteq At({"push_asleep", "pop_asleep"})
      BY <1>2, <1>p DEF At, Where, PushStates, PopStates
    <2>2. \/ At({"pop_woken"})' = At({"pop_woken"})
          \/ Cardinality(At({"pop_woken"})') = Cardinality(At({"pop_woken"})) + 1
      <3>1. CASE s = "pop_woken"
        BY <1>2, <1>p, <3>1, MoveIn DEF At
      <3>2. CASE s = "pop_expired"
        BY <1>2, <1>p, <3>2 DEF At, Where
      <3>. QED
        BY <3>1, <3>2
    <2>3. TypeOK' /\ WithinBound' /\ WaitersCounted'
      BY <1>2, <2>1 DEF IInv, TypeOK, WithinBound, WaitersCounted, PopStates
    <2>4. NobodySleepsThrough' /\ OnePulseAtATime' /\ NoSpaceForgotten' /\ ErrorMeansNobodyWaitsToPush'
      BY <1>2, <2>1 DEF IInv, NobodySleepsThrough, OnePulseAtATime, NoSpaceForgotten, ErrorMeansNobodyWaitsToPush
    <2>5. NoValueForgotten'
      BY <1>2, <1>n, <2>1, <2>2, QueueOps DEF IInv, TypeOK, NoValueForgotten
    <2>. QED
      BY <2>3, <2>4, <2>5 DEF IInv
  <1>. QED
    BY <1>1, <1>2 DEF WakeSpuriously, DeadlinePasses

-----------------------------------------------------------------------------
(* Initiation, consecution and the theorems.                                *)

\* Initiation.
LEMMA InitInv == Init => IInv
  <1>. SUFFICES ASSUME Init PROVE IInv
    OBVIOUS
  <1>1. /\ At(PopStates) = {} /\ At(PushStates) = {} /\ At({"pulse_spin"}) = {}
        /\ At({"pop_asleep"}) = {} /\ At({"push_asleep"}) = {}
    BY DEF Init, At, Where, PopStates, PushStates
  <1>2. TypeOK
    <2>1. queue \in Seq(Values)
      BY DEF Init
    <2>2. pc \in [Threads -> Resting \cup {"pulse_spin"} \cup PushStates \cup PopStates]
      BY DEF Init, Resting
    <2>3. val \in [Threads -> Values \cup {NoValue}] /\ finite \in [Threads -> BOOLEAN]
      BY DEF Init
    <2>4. capacity \in Nat /\ waiters \in Nat
      BY DEF Init
    <2>5. \A t \in At(PushStates) : val[t] \in Values
      BY <1>1
    <2>6. closed \in BOOLEAN /\ pulsed \in BOOLEAN /\ errored \in BOOLEAN
      BY DEF Init
    <2>. QED
      BY <2>1, <2>2, <2>3, <2>4, <2>5, <2>6 DEF TypeOK
  <1>3. WithinBound
    BY QueueOps, BoundedQueueAssumption DEF Init, WithinBound, BoundedQueueAssumption
  <1>4. WaitersCounted
    BY <1>1, FS_EmptySet DEF Init, WaitersCounted
  <1>. QED
    BY <1>1, <1>2, <1>3, <1>4
       DEF Init, IInv, NobodySleepsThrough, OnePulseAtATime, NoValueForgotten,
           NoSpaceForgotten, ErrorMeansNobodyWaitsToPush

\* Consecution, one step per action.
LEMMA NextInv == IInv /\ [Next]_vars => IInv'
  <1>. SUFFICES ASSUME IInv, [Next]_vars PROVE IInv'
    OBVIOUS
  <1>w. waiters \in Nat /\ val \in [Threads -> Values \cup {NoValue}] /\ finite \in [Threads -> BOOLEAN]
    BY DEF IInv, TypeOK
  <1>1. ASSUME NEW t \in Threads, NEW v \in Values, NEW f \in BOOLEAN, Push(t, v, f)
        PROVE  IInv'
    <2>1. val' \in [Threads -> Values \cup {NoValue}] /\ \A u \in Threads \ {t} : val'[u] = val[u]
      BY <1>1, <1>w DEF Push
    <2>2. CASE ~errored /\ ~closed /\ PushLoop(t, v, f)
      BY <1>1, <2>2, PushLoopKeepsInv DEF Push
    <2>3. ASSUME NEW r \in Results, PushReturns(t, r)
          PROVE  IInv'
      BY <1>1, <2>1, <2>3, PushReturnsKeepsInv DEF Push
    <2>. QED
      BY <1>1, <2>2, <2>3 DEF Push, Results
  <1>2. ASSUME NEW t \in Threads, PushWakes(t)
        PROVE  IInv'
    <2>1. val[t] \in Values /\ val = [val EXCEPT ![t] = val[t]]
      BY <1>2 DEF IInv, TypeOK, PushWakes, At, Where, PushStates
    <2>2. CASE closed /\ PushReturns(t, "closed")
      BY <1>2, <1>w, <2>2, PushReturnsKeepsInv DEF PushWakes, Results
    <2>3. CASE ~closed /\ PushLoop(t, val[t], finite[t])
      BY <1>2, <1>w, <2>1, <2>3, PushLoopKeepsInv DEF PushWakes, Resting, Results
    <2>. QED
      BY <1>2, <2>2, <2>3 DEF PushWakes
  <1>3. ASSUME NEW t \in Threads, PushTimesOut(t)
        PROVE  IInv'
    BY <1>3, <1>w, PushReturnsKeepsInv DEF PushTimesOut, Results
  <1>4. ASSUME NEW t \in Threads, NEW f \in BOOLEAN, Pop(t, f)
        PROVE  IInv'
    <2>1. CASE ~errored /\ PopLoop(t, f, waiters)
      BY <1>4, <1>w, <2>1, PopLoopKeepsInv DEF Pop
    <2>2. CASE errored /\ PopReturns(t, "error", waiters)
      BY <1>4, <2>2, <1>w, PushReturnsKeepsInv DEF Pop, PopReturns, PushReturns, Results
    <2>. QED
      BY <1>4, <2>1, <2>2 DEF Pop
  <1>5. ASSUME NEW t \in Threads, PopWakes(t)
        PROVE  IInv'
    <2>1. waiters - 1 \in Nat
      <3>1. t \in At(PopStates)
        BY <1>5 DEF PopWakes, At, Where, PopStates
      <3>2. waiters # 0
        BY <3>1, WhereFinite, FS_EmptySet DEF IInv, WaitersCounted, At
      <3>. QED
        BY <1>w, <3>2
    <2>2. waiters = (waiters - 1) + 1
      BY <1>w
    <2>. QED
      BY <1>5, <1>w, <2>1, <2>2, PopLoopKeepsInv DEF PopWakes
  <1>6. ASSUME NEW t \in Threads, PopTimesOut(t) PROVE IInv'
    BY <1>6, PopTimesOutKeepsInv
  <1>7. ASSUME NEW t \in Threads, Close(t) PROVE IInv'
    BY <1>7, CloseKeepsInv
  <1>8. ASSUME NEW t \in Threads, Pulse(t) PROVE IInv'
    BY <1>8, PulseKeepsInv
  <1>9. ASSUME NEW t \in Threads, PulseEnds(t) PROVE IInv'
    BY <1>9, PulseEndsKeepsInv
  <1>10. ASSUME NEW t \in Threads, WakeSpuriously(t) \/ DeadlinePasses(t) PROVE IInv'
    BY <1>10, WaitEndsKeepsInv
  <1>11. CASE UNCHANGED vars
    BY <1>11 DEF vars, IInv, TypeOK, WithinBound, WaitersCounted, NobodySleepsThrough,
       OnePulseAtATime, NoValueForgotten, NoSpaceForgotten, ErrorMeansNobodyWaitsToPush, At, Where
  <1>. QED
    BY <1>1, <1>2, <1>3, <1>4, <1>5, <1>6, <1>7, <1>8, <1>9, <1>10, <1>11 DEF Next

\* The inductive invariant IInv holds in every reachable state.
THEOREM Invariance == Spec => []IInv
  BY InitInv, NextInv, PTL DEF Spec

\* Types are kept; in particular m_waiters never goes below zero, although
\* it is decremented on two different ways out of pop()'s wait.
THEOREM TypesKept == Spec => []TypeOK
  BY Invariance, PTL DEF IInv

\* The queue never holds more than m_bound values and its ring is never full.
THEOREM BoundKept == Spec => []WithinBound
  BY Invariance, PTL DEF IInv

\* m_waiters counts the threads in pop()'s wait.
THEOREM WaitersAreCounted == Spec => []WaitersCounted
  BY Invariance, PTL DEF IInv

\* close() and pulse() reach every sleeper, and no wake-up of push() or pop() is
\* lost.
THEOREM NothingIsForgotten == Spec => []NothingForgotten
  BY Invariance, PTL DEF IInv, NothingForgotten

\* m_pulsed is set exactly while one thread is inside pulse()'s loop.
THEOREM PulsesExclude == Spec => []OnePulseAtATime
  BY Invariance, PTL DEF IInv

\* A push that has waited never fails for want of memory.
THEOREM WaitedPushNeverFails == Spec => []ErrorMeansNobodyWaitsToPush
  BY Invariance, PTL DEF IInv

\* When m_pulsed is cleared nobody is left in pop()'s wait.
THEOREM PulseIsThorough == Spec => PulseLetsEverybodyOut
  <1>1. IInv /\ [Next]_vars => [pulsed /\ ~pulsed' => At(PopStates) = {}]_vars
    <2>. SUFFICES ASSUME IInv, Next, pulsed, ~pulsed' PROVE At(PopStates) = {}
      BY DEF vars
    <2>1. waiters = 0
      BY DEF Next, Push, PushWakes, PushTimesOut, Pop, PopWakes, PopTimesOut, Close,
             Pulse, PulseEnds, WakeSpuriously, DeadlinePasses
    <2>2. Cardinality(At(PopStates)) = 0
      BY <2>1 DEF IInv, WaitersCounted
    <2>. QED
      BY <2>2, WhereFinite, FS_EmptySet DEF At
  <1>. QED
    BY <1>1, Invariance, PTL DEF Spec, PulseLetsEverybodyOut

-----------------------------------------------------------------------------
(* BoundedQueue implements ClosableFifo.  The proof needs the invariant:    *)
(* a value is never refused for want of memory to a push that has waited    *)
(* (ErrorMeansNobodyWaitsToPush), m_pulsed stands for the call inside       *)
(* pulse() (OnePulseAtATime), and m_waiters for those in pop()'s wait       *)
(* (WaitersCounted).                                                        *)

calls == [t \in Threads |-> BlockedIn(t)]

\* What the abstract call of a thread says of its program counter.
LEMMA BlockedInIs ==
  ASSUME NEW t \in Threads, pc[t] \in PCs
  PROVE  /\ BlockedIn(t) = "pop" <=> pc[t] \in PopStates
         /\ BlockedIn(t) = "push" <=> pc[t] \in PushStates
         /\ BlockedIn(t) = "pulse" <=> pc[t] = "pulse_spin"
         /\ pc[t] \in Resting => BlockedIn(t) = pc[t] /\ BlockedIn(t) \notin Fifo!Operations
  BY DEF BlockedIn, PCs, PopStates, PushStates, Resting, Results, Fifo!Operations

\* The abstract sets of blocked threads.
LEMMA BlockedSets ==
  ASSUME pc \in [Threads -> PCs]
  PROVE  /\ Fifo!Blocked("pulse") = At({"pulse_spin"})
         /\ Fifo!Blocked("pop") = At(PopStates)
  BY BlockedInIs DEF Fifo!Blocked, At, Where

\* m_pulsed is the abstract "somebody is inside pulse()".
LEMMA PulsingIsPulsed ==
  ASSUME IInv
  PROVE  Fifo!Pulsing <=> pulsed
  BY BlockedSets DEF IInv, TypeOK, PCs, OnePulseAtATime, Fifo!Pulsing

\* Threads that move within a wait do not change their abstract call.
LEMMA CallsMove ==
  ASSUME pc \in [Threads -> PCs], pc' \in [Threads -> PCs], NEW t \in Threads,
         \A u \in Threads \ {t} :
           \/ pc'[u] = pc[u]
           \/ pc[u] \in PushStates /\ pc'[u] \in PushStates
           \/ pc[u] \in PopStates /\ pc'[u] \in PopStates
  PROVE  calls' = [calls EXCEPT ![t] = BlockedIn(t)']
  <1>1. \A u \in Threads \ {t} : BlockedIn(u)' = BlockedIn(u)
    BY DEF BlockedIn, PCs, PopStates, PushStates, Resting, Results
  <1>. QED
    BY <1>1 DEF calls

\* The abstract call of a thread that has moved to the state s.
LEMMA CallsBecome ==
  ASSUME pc \in [Threads -> PCs], pc' \in [Threads -> PCs], NEW t \in Threads,
         \A u \in Threads \ {t} :
           \/ pc'[u] = pc[u]
           \/ pc[u] \in PushStates /\ pc'[u] \in PushStates
           \/ pc[u] \in PopStates /\ pc'[u] \in PopStates
  PROVE  /\ pc'[t] \in Resting => calls' = [calls EXCEPT ![t] = pc'[t]]
         /\ pc'[t] \in PushStates => calls' = [calls EXCEPT ![t] = "push"]
         /\ pc'[t] \in PopStates => calls' = [calls EXCEPT ![t] = "pop"]
         /\ pc'[t] = "pulse_spin" => calls' = [calls EXCEPT ![t] = "pulse"]
  BY CallsMove DEF BlockedIn, PCs, PopStates, PushStates, Resting, Results

-----------------------------------------------------------------------------
(* One lemma per kind of step.                                              *)

\* What every step lemma assumes of the state before it.
LEMMA Facts ==
  ASSUME IInv
  PROVE  /\ pc \in [Threads -> PCs]
         /\ \A t \in Threads : /\ calls[t] = BlockedIn(t)
                               /\ pc[t] \in Resting <=> Fifo!Outside(t)
                               /\ pc[t] \in PopStates <=> calls[t] = "pop"
                               /\ pc[t] \in PushStates <=> calls[t] = "push"
                               /\ pc[t] \in PushStates => val[t] \in Values
         /\ \A t \in Threads : [calls EXCEPT ![t] = calls[t]] = calls
         /\ queue \in Seq(Values)
         /\ val \in [Threads -> Values \cup {NoValue}]
  <1>1. pc \in [Threads -> PCs]
    BY DEF IInv, TypeOK, PCs
  <1>3. \A t \in Threads : pc[t] \in PushStates => val[t] \in Values
    BY DEF IInv, TypeOK, At, Where
  <1>4. \A t \in Threads : pc[t] \in Resting <=> Fifo!Outside(t)
    BY <1>1 DEF BlockedIn, PCs, PopStates, PushStates, Resting, Results, Fifo!Outside, Fifo!Operations
  <1>5. \A t \in Threads : /\ pc[t] \in PopStates <=> calls[t] = "pop"
                           /\ pc[t] \in PushStates <=> calls[t] = "push"
    BY <1>1, BlockedInIs DEF calls
  <1>6. \A t \in Threads : [calls EXCEPT ![t] = calls[t]] = calls
    BY DEF calls
  <1>. QED
    BY <1>1, <1>3, <1>6, <1>4, <1>5 DEF calls, IInv, TypeOK

\* A turn of push()'s loop blocks, succeeds or fails; one that has waited
\* cannot fail, for the ring is large enough.
LEMMA PushLoopRefines ==
  ASSUME IInv, pc' \in [Threads -> PCs],
         NEW t \in Threads, NEW v \in Values, NEW f \in BOOLEAN,
         PushLoop(t, v, f),
         \/ pc[t] \in Resting /\ ~errored
         \/ pc[t] = "push_woken" /\ v = val[t],
         ~closed,
         val' = [val EXCEPT ![t] = v],
         UNCHANGED <<closed, pulsed, waiters>>
  PROVE  Fifo!Next \/ UNCHANGED Fifo!fifoVars
  <1>1. pc[t] = "push_woken" => ~errored /\ (Bound < capacity \/ Bound = 0)
    BY DEF IInv, ErrorMeansNobodyWaitsToPush, At, Where, PushStates
  <1>e. ~errored
    BY <1>1
  <1>2. CASE /\ AtBound
             /\ pc' = [pc EXCEPT ![t] = "push_asleep"]
             /\ UNCHANGED <<queue, capacity, errored>>
    <2>1. calls' = [calls EXCEPT ![t] = "push"]
      BY <1>2, Facts, CallsBecome DEF PushStates
    <2>2. CASE pc[t] \in Resting
      <3>1. Fifo!PushBlocks(t, v)
        BY <1>2, <1>e, <2>1, <2>2, Facts DEF Fifo!PushBlocks, Fifo!Block, AtBound, calls
      <3>. QED
        BY <3>1 DEF Fifo!Next
    <2>3. CASE pc[t] = "push_woken" /\ v = val[t]
      <3>1. calls' = calls
        BY <2>1, <2>3, Facts DEF PushStates
      <3>. QED
        BY <1>2, <2>3, <3>1, Facts DEF Fifo!fifoVars, calls
    <2>. QED
      BY <2>2, <2>3
  <1>3. CASE /\ ~AtBound
             /\ QueuePush(v)
             /\ pc' \in Signal([pc EXCEPT ![t] = "success"], "pop_asleep", "pop_woken")
             /\ UNCHANGED errored
    <2>1. /\ pc'[t] = "success"
          /\ \A u \in Threads \ {t} :
               pc'[u] = pc[u] \/ (pc[u] \in PopStates /\ pc'[u] \in PopStates)
      BY <1>3, Facts DEF Signal, Where, PopStates
    <2>2. calls' = [calls EXCEPT ![t] = "success"]
      BY <2>1, Facts, CallsBecome DEF Resting, Results
    <2>3. Fifo!PushSucceeds(t, v)
      BY <1>3, <1>e, <2>2, Facts, QueueOps, BoundedQueueAssumption
         DEF Fifo!PushSucceeds, Fifo!Return, AtBound, calls, QueuePush, PushStates, BoundedQueueAssumption
    <2>. QED
      BY <2>3 DEF Fifo!Next
  <1>4. CASE /\ ~AtBound
             /\ RingFull
             /\ errored' = TRUE
             /\ pc' = [pc EXCEPT ![t] = "error"]
             /\ UNCHANGED <<queue, capacity>>
    <2>1. pc[t] \in Resting
      BY <1>1, <1>4, QueueOps, BoundedQueueAssumption
         DEF AtBound, RingFull, IInv, TypeOK, WithinBound, BoundedQueueAssumption
    <2>2. calls' = [calls EXCEPT ![t] = "error"]
      BY <1>4, Facts, CallsBecome DEF Resting, Results
    <2>3. Fifo!PushFails(t, v)
      BY <1>4, <1>e, <2>1, <2>2, Facts, QueueOps, BoundedQueueAssumption
         DEF Fifo!PushFails, Fifo!Return, AtBound, calls, BoundedQueueAssumption
    <2>. QED
      BY <2>3 DEF Fifo!Next
  <1>. QED
    BY <1>2, <1>3, <1>4 DEF PushLoop

\* A push that returns without a turn of the loop.
LEMMA PushReturnsRefines ==
  ASSUME IInv, pc' \in [Threads -> PCs],
         NEW t \in Threads, NEW v \in Values, NEW r \in Results,
         \/ pc[t] \in Resting /\ errored /\ r = "error"
         \/ pc[t] \in Resting /\ ~errored /\ closed /\ r = "closed"
         \/ pc[t] = "push_woken" /\ v = val[t] /\ closed /\ r = "closed",
         pc' = [pc EXCEPT ![t] = r],
         val' = [val EXCEPT ![t] = v],
         UNCHANGED <<queue, closed, errored>>
  PROVE  Fifo!Next
  <1>1. calls' = [calls EXCEPT ![t] = r]
    BY Facts, CallsBecome DEF Resting
  <1>2. Fifo!PushRefused(t, v)
    BY <1>1, Facts DEF Fifo!PushRefused, Fifo!Return, calls, PushStates
  <1>. QED
    BY <1>2 DEF Fifo!Next

\* A turn of pop()'s loop.
LEMMA PopLoopRefines ==
  ASSUME IInv, pc' \in [Threads -> PCs],
         NEW t \in Threads, NEW f \in BOOLEAN, NEW w \in Nat,
         PopLoop(t, f, w),
         (pc[t] \in Resting /\ ~errored) \/ pc[t] = "pop_woken",
         UNCHANGED <<capacity, closed, pulsed, errored>>
  PROVE  Fifo!Next \/ UNCHANGED Fifo!fifoVars
  <1>m. Fifo!MayPop(t)
    BY Facts DEF Fifo!MayPop, PopStates, calls
  <1>1. CASE /\ queue # <<>>
             /\ queue' = Tail(queue)
             /\ val' = [val EXCEPT ![t] = Head(queue)]
             /\ pc' \in Signal([pc EXCEPT ![t] = "success"], "push_asleep", "push_woken")
    <2>1. /\ pc'[t] = "success"
          /\ \A u \in Threads \ {t} :
               pc'[u] = pc[u] \/ (pc[u] \in PushStates /\ pc'[u] \in PushStates)
      BY <1>1, Facts DEF Signal, Where, PushStates
    <2>2. calls' = [calls EXCEPT ![t] = "success"]
      BY <2>1, Facts, CallsBecome DEF Resting, Results
    <2>3. Fifo!PopSucceeds(t)
      BY <1>1, <1>m, <2>2 DEF Fifo!PopSucceeds, Fifo!Return, calls
    <2>. QED
      BY <2>3 DEF Fifo!Next
  <1>2. ASSUME NEW r \in {"pulsed", "closed"}, queue = <<>>,
               r = "pulsed" => pulsed, r = "closed" => closed,
               PopReturns(t, r, w)
        PROVE  Fifo!Next
    <2>1. calls' = [calls EXCEPT ![t] = r]
      BY <1>2, Facts, CallsBecome DEF PopReturns, Resting, Results
    <2>2. Fifo!PopRefused(t)
      BY <1>2, <1>m, <2>1, PulsingIsPulsed DEF Fifo!PopRefused, Fifo!Return, calls, PopReturns
    <2>. QED
      BY <2>2 DEF Fifo!Next
  <1>3. CASE /\ queue = <<>>
             /\ ~pulsed
             /\ ~closed
             /\ pc' = [pc EXCEPT ![t] = "pop_asleep"]
             /\ UNCHANGED <<queue, val>>
    <2>1. calls' = [calls EXCEPT ![t] = "pop"]
      BY <1>3, Facts, CallsBecome DEF PopStates
    <2>2. CASE pc[t] \in Resting /\ ~errored
      <3>1. Fifo!PopBlocks(t)
        BY <1>3, <2>1, <2>2, Facts, PulsingIsPulsed DEF Fifo!PopBlocks, Fifo!Block, calls
      <3>. QED
        BY <3>1 DEF Fifo!Next
    <2>3. CASE pc[t] = "pop_woken"
      <3>1. calls' = calls
        BY <2>1, <2>3, Facts DEF PopStates
      <3>. QED
        BY <1>3, <3>1 DEF Fifo!fifoVars, calls
    <2>. QED
      BY <2>2, <2>3
  <1>. QED
    BY <1>1, <1>2, <1>3 DEF PopLoop

\* A timed wait that is over, from either call.
LEMMA TimeOutRefines ==
  ASSUME IInv, pc' \in [Threads -> PCs],
         NEW t \in Threads, PushTimesOut(t) \/ PopTimesOut(t)
  PROVE  Fifo!Next
  <1>1. pc' = [pc EXCEPT ![t] = "timedout"]
    BY DEF PushTimesOut, PopTimesOut, PushReturns, PopReturns
  <1>2. calls' = [calls EXCEPT ![t] = "timedout"]
    BY <1>1, Facts, CallsBecome DEF Resting, Results
  <1>3. pc[t] \in PushStates \/ pc[t] \in PopStates
    BY DEF PushTimesOut, PopTimesOut, PushStates, PopStates
  <1>4. Fifo!TimesOut(t)
    BY <1>2, <1>3, Facts
       DEF Fifo!TimesOut, Fifo!Return, calls, PushTimesOut, PopTimesOut, PushReturns, PopReturns
  <1>. QED
    BY <1>4 DEF Fifo!Next

\* close() and the two ends of pulse().
LEMMA CloseRefines ==
  ASSUME IInv, pc' \in [Threads -> PCs], NEW t \in Threads, Close(t)
  PROVE  Fifo!Next
  <1>1. /\ pc'[t] = "idle"
        /\ \A u \in Threads \ {t} :
             \/ pc'[u] = pc[u]
             \/ pc[u] \in PushStates /\ pc'[u] \in PushStates
             \/ pc[u] \in PopStates /\ pc'[u] \in PopStates
    BY Facts DEF Close, Broadcast, PushStates, PopStates
  <1>2. calls' = [calls EXCEPT ![t] = "idle"]
    BY <1>1, Facts, CallsBecome DEF Resting
  <1>3. Fifo!Close(t)
    BY <1>2, Facts DEF Close, Fifo!Close, Fifo!Return, calls
  <1>. QED
    BY <1>3 DEF Fifo!Next

LEMMA PulseRefines ==
  ASSUME IInv, pc' \in [Threads -> PCs], NEW t \in Threads, Pulse(t)
  PROVE  Fifo!Next
  <1>1. /\ pc'[t] = "pulse_spin"
        /\ \A u \in Threads \ {t} :
             \/ pc'[u] = pc[u]
             \/ pc[u] \in PopStates /\ pc'[u] \in PopStates
    BY Facts DEF Pulse, Broadcast, PopStates
  <1>2. calls' = [calls EXCEPT ![t] = "pulse"]
    BY <1>1, Facts, CallsBecome
  <1>3. Fifo!PulseBlocks(t)
    BY <1>2, Facts, PulsingIsPulsed DEF Pulse, Fifo!PulseBlocks, Fifo!Block, calls
  <1>. QED
    BY <1>3 DEF Fifo!Next

LEMMA PulseEndsRefines ==
  ASSUME IInv, pc' \in [Threads -> PCs], NEW t \in Threads, PulseEnds(t)
  PROVE  Fifo!Next
  <1>1. calls' = [calls EXCEPT ![t] = "idle"]
    BY Facts, CallsBecome DEF PulseEnds, Resting
  <1>2. At(PopStates) = {}
    BY WhereFinite, FS_EmptySet DEF PulseEnds, IInv, WaitersCounted, At
  <1>3. Fifo!PulseEnds(t)
    BY <1>1, <1>2, Facts, BlockedSets, BlockedInIs
       DEF PulseEnds, Fifo!PulseEnds, Fifo!Return, calls
  <1>. QED
    BY <1>3 DEF Fifo!Next

\* A wait that ends without a signal is no abstract step.
LEMMA WaitEndsRefines ==
  ASSUME IInv, pc' \in [Threads -> PCs],
         NEW t \in Threads, WakeSpuriously(t) \/ DeadlinePasses(t)
  PROVE  UNCHANGED Fifo!fifoVars
  <1>1. \/ pc[t] \in PushStates /\ pc'[t] \in PushStates /\ calls' = [calls EXCEPT ![t] = "push"]
        \/ pc[t] \in PopStates /\ pc'[t] \in PopStates /\ calls' = [calls EXCEPT ![t] = "pop"]
    BY Facts, CallsBecome DEF WakeSpuriously, DeadlinePasses, PushStates, PopStates
  <1>2. calls' = calls
    BY <1>1, Facts DEF calls
  <1>. QED
    BY <1>2 DEF Fifo!fifoVars, calls, WakeSpuriously, DeadlinePasses

-----------------------------------------------------------------------------
\* The initial states map to the abstract initial state.
LEMMA InitRefines == Init => Fifo!Init
  BY DEF Init, Fifo!Init, BlockedIn, PushStates, PopStates

\* Every step maps to an abstract step or to a stutter.
LEMMA NextRefines ==
  ASSUME IInv, IInv', [Next]_vars
  PROVE  Fifo!Next \/ UNCHANGED Fifo!fifoVars
  <1>p. pc' \in [Threads -> PCs]
    BY DEF IInv, TypeOK, PCs
  <1>w. waiters \in Nat /\ waiters' \in Nat /\ finite \in [Threads -> BOOLEAN]
    BY DEF IInv, TypeOK
  <1>1. ASSUME NEW t \in Threads, NEW v \in Values, NEW f \in BOOLEAN, Push(t, v, f)
        PROVE  Fifo!Next \/ UNCHANGED Fifo!fifoVars
    <2>1. CASE ~errored /\ ~closed /\ PushLoop(t, v, f)
      BY <1>1, <1>p, <2>1, PushLoopRefines DEF Push
    <2>2. ASSUME NEW r \in {"error", "closed"},
                 r = "error" => errored, r = "closed" => ~errored /\ closed,
                 PushReturns(t, r)
          PROVE  Fifo!Next
      BY <1>1, <1>p, <2>2, PushReturnsRefines DEF Push, PushReturns, Results
    <2>. QED
      BY <1>1, <2>1, <2>2 DEF Push
  <1>2. ASSUME NEW t \in Threads, PushWakes(t)
        PROVE  Fifo!Next \/ UNCHANGED Fifo!fifoVars
    <2>1. val[t] \in Values /\ val' = [val EXCEPT ![t] = val[t]]
      BY <1>2, Facts DEF PushWakes, PushStates
    <2>2. CASE closed /\ PushReturns(t, "closed")
      BY <1>2, <1>p, <2>1, <2>2, PushReturnsRefines DEF PushWakes, PushReturns, Results
    <2>3. CASE ~closed /\ PushLoop(t, val[t], finite[t])
      BY <1>2, <1>p, <1>w, <2>1, <2>3, PushLoopRefines DEF PushWakes
    <2>. QED
      BY <1>2, <2>2, <2>3 DEF PushWakes
  <1>3. ASSUME NEW t \in Threads, PushTimesOut(t) \/ PopTimesOut(t)
        PROVE  Fifo!Next
    BY <1>3, <1>p, TimeOutRefines
  <1>4. ASSUME NEW t \in Threads, NEW f \in BOOLEAN, Pop(t, f)
        PROVE  Fifo!Next \/ UNCHANGED Fifo!fifoVars
    <2>1. CASE ~errored /\ PopLoop(t, f, waiters)
      BY <1>4, <1>p, <1>w, <2>1, PopLoopRefines DEF Pop
    <2>2. CASE errored /\ PopReturns(t, "error", waiters)
      <3>1. calls' = [calls EXCEPT ![t] = "error"]
        BY <1>p, <2>2, Facts, CallsBecome DEF PopReturns, Resting, Results
      <3>2. Fifo!PopRefused(t)
        BY <1>4, <2>2, <3>1, Facts DEF Pop, PopReturns, Fifo!PopRefused, Fifo!Return, calls
      <3>. QED
        BY <3>2 DEF Fifo!Next
    <2>. QED
      BY <1>4, <2>1, <2>2 DEF Pop
  <1>5. ASSUME NEW t \in Threads, PopWakes(t)
        PROVE  Fifo!Next \/ UNCHANGED Fifo!fifoVars
    <2>1. waiters - 1 \in Nat
      <3>1. t \in At(PopStates)
        BY <1>5 DEF PopWakes, At, Where, PopStates
      <3>. QED
        BY <1>w, <3>1, WhereFinite, FS_EmptySet DEF IInv, WaitersCounted, At
    <2>. QED
      BY <1>5, <1>p, <1>w, <2>1, PopLoopRefines DEF PopWakes
  <1>6. ASSUME NEW t \in Threads, Close(t) PROVE Fifo!Next
    BY <1>6, <1>p, CloseRefines
  <1>7. ASSUME NEW t \in Threads, Pulse(t) PROVE Fifo!Next
    BY <1>7, <1>p, PulseRefines
  <1>8. ASSUME NEW t \in Threads, PulseEnds(t) PROVE Fifo!Next
    BY <1>8, <1>p, PulseEndsRefines
  <1>9. ASSUME NEW t \in Threads, WakeSpuriously(t) \/ DeadlinePasses(t)
        PROVE  UNCHANGED Fifo!fifoVars
    BY <1>9, <1>p, WaitEndsRefines
  <1>10. CASE UNCHANGED vars
    BY <1>10 DEF vars, Fifo!fifoVars, BlockedIn
  <1>. QED
    BY <1>1, <1>2, <1>3, <1>4, <1>5, <1>6, <1>7, <1>8, <1>9, <1>10 DEF Next

\* A BoundedQueue of objects implements ClosableFifo: each call takes effect
\* at one instant, in FIFO order, exactly once.
THEOREM Refinement == Spec => ImplementsClosableFifo
  <1>1. IInv /\ IInv' /\ [Next]_vars => [Fifo!Next]_(Fifo!fifoVars)
    BY NextRefines
  <1>. QED
    BY <1>1, InitRefines, Invariance, PTL DEF Spec, ImplementsClosableFifo, Fifo!Spec

-----------------------------------------------------------------------------
(* Atomic                                                                   *)

\* A loop has its new value of the one it has read first, if the second read
\* has found the same.
LoopTells(t) ==
  /\ atomicPc[t] \in {"again", "swap"} => op[t].kind # "cas" /\ ~A!IsInstruction(op[t])
  /\ atomicPc[t] = "again" => op[t].kind # "exchange"
  /\ atomicPc[t] = "swap" /\ ~apart[t] => newVal[t] = A!Effect(op[t], oldVal[t])

AtomicInv ==
  /\ op \in [Users -> A!Operations \cup {A!None}] /\ atomicPc \in [Users -> {"idle", "called", "again", "swap"}]
  /\ DOMAIN oldVal = Users /\ DOMAIN newVal = Users /\ DOMAIN ret = Users /\ apart \in [Users -> BOOLEAN]
  /\ oldVal = [t \in Users |-> oldVal[t]] /\ newVal = [t \in Users |-> newVal[t]] /\ ret = [t \in Users |-> ret[t]]
  /\ \A t \in Users : LoopTells(t)

\* An operation that returns acts in this step, and nothing else changes m_val.
ActsNow ==
  /\ \A t \in Users :
       atomicPc[t] # "idle" /\ atomicPc'[t] = "idle" /\ ~A!SumOfAnother(t) =>
         cell' = A!Effect(op[t], cell) /\ ret'[t] = A!Returned(op[t], cell)
  /\ cell' # cell => \E t \in Users : atomicPc[t] # "idle" /\ atomicPc'[t] = "idle"

LEMMA AtomicInit == A!Init => AtomicInv
BY DEF A!Init, AtomicInv, LoopTells

LEMMA AtomicStep == AtomicInv /\ [A!Next]_A!vars => AtomicInv' /\ (ActsNow \/ UNCHANGED A!vars)
<1> SUFFICES ASSUME AtomicInv, [A!Next]_A!vars
             PROVE  AtomicInv' /\ (ActsNow \/ UNCHANGED A!vars)
  OBVIOUS
<1>1. CASE UNCHANGED A!vars
  BY <1>1 DEF AtomicInv, LoopTells, A!vars, A!IsInstruction, A!Effect, A!Amount
<1>2. ASSUME NEW t \in Users, A!Call(t)
      PROVE  AtomicInv' /\ ActsNow
  <2>1. \A u \in Users : u # t => atomicPc'[u] = atomicPc[u] /\ op'[u] = op[u]
    BY <1>2 DEF AtomicInv, A!Call
  <2>2. atomicPc'[t] = "called"
    BY <1>2 DEF AtomicInv, A!Call
  <2>3. \A u \in Users : LoopTells(u)'
    BY <1>2, <2>1, <2>2 DEF AtomicInv, LoopTells, A!Call, A!IsInstruction, A!Effect, A!Amount
  <2>4. AtomicInv'
    BY <1>2, <2>3 DEF AtomicInv, A!Call
  <2>. QED
    BY <1>2, <2>1, <2>2, <2>4 DEF ActsNow, A!Call
<1>3. ASSUME NEW t \in Users, A!Instruction(t)
      PROVE  AtomicInv' /\ ActsNow
  <2>1. \A u \in Users : u # t => atomicPc'[u] = atomicPc[u] /\ op'[u] = op[u] /\ oldVal'[u] = oldVal[u] /\ newVal'[u] = newVal[u] /\ apart'[u] = apart[u]
    BY <1>3 DEF AtomicInv, A!Instruction, A!Return
  <2>2. atomicPc'[t] = "idle" /\ ret'[t] = A!Returned(op[t], cell)
    BY <1>3 DEF AtomicInv, A!Instruction, A!Return
  <2>3. ASSUME NEW u \in Users PROVE LoopTells(u)'
    <3>1. CASE u = t
      BY <2>2, <3>1 DEF LoopTells
    <3>2. CASE u # t
      <4>1. build' = build
        BY <1>3 DEF A!Instruction
      <4>2. LoopTells(u)
        BY DEF AtomicInv
      <4>. QED
        BY <2>1, <3>2, <4>1, <4>2 DEF LoopTells, A!IsInstruction, A!Effect, A!Amount
    <3>. QED
      BY <3>1, <3>2
  <2>4. AtomicInv'
    BY <1>3, <2>3 DEF AtomicInv, A!Instruction, A!Return
  <2>. QED
    <3>1. cell' = A!Effect(op[t], cell) /\ atomicPc[t] # "idle"
      BY <1>3 DEF A!Instruction
    <3>. QED
      BY <2>1, <2>2, <2>4, <3>1, Zenon DEF ActsNow
<1>4. ASSUME NEW t \in Users, A!Read(t)
      PROVE  AtomicInv' /\ ActsNow
  <2>1. \A u \in Users : u # t => atomicPc'[u] = atomicPc[u] /\ oldVal'[u] = oldVal[u] /\ newVal'[u] = newVal[u] /\ apart'[u] = apart[u]
    BY <1>4 DEF AtomicInv, A!Read
  <2>2. /\ oldVal'[t] = cell /\ newVal'[t] = op[t].arg
        /\ atomicPc'[t] = IF op[t].kind = "exchange" THEN "swap" ELSE "again"
        /\ apart'[t] = FALSE
    BY <1>4 DEF AtomicInv, A!Read
  <2>3. \A u \in Users : LoopTells(u)'
    BY <1>4, <2>1, <2>2 DEF AtomicInv, LoopTells, A!Read, A!IsInstruction, A!Effect, A!Amount
  <2>4. AtomicInv'
    BY <1>4, <2>3 DEF AtomicInv, A!Read
  <2>. QED
    BY <1>4, <2>1, <2>2, <2>4 DEF ActsNow, A!Read
<1>5. ASSUME NEW t \in Users, A!ReadAgain(t)
      PROVE  AtomicInv' /\ ActsNow
  <2>1. \A u \in Users : u # t => atomicPc'[u] = atomicPc[u] /\ newVal'[u] = newVal[u] /\ apart'[u] = apart[u]
    BY <1>5 DEF AtomicInv, A!ReadAgain
  <2>2. newVal'[t] = A!Effect(op[t], cell) /\ atomicPc'[t] = "swap" /\ apart'[t] = (cell # oldVal[t])
    BY <1>5 DEF AtomicInv, A!ReadAgain
  <2>3. \A u \in Users : LoopTells(u)'
    BY <1>5, <2>1, <2>2 DEF AtomicInv, LoopTells, A!ReadAgain, A!IsInstruction, A!Effect, A!Amount
  <2>4. AtomicInv'
    BY <1>5, <2>3 DEF AtomicInv, A!ReadAgain
  <2>. QED
    BY <1>5, <2>1, <2>2, <2>4 DEF ActsNow, A!ReadAgain
<1>6. ASSUME NEW t \in Users, A!Swap(t)
      PROVE  AtomicInv' /\ ActsNow
  <2>1. CASE A!Unchanged(t)
    <3>1. /\ cell' = newVal[t]
          /\ A!Return(t, IF op[t].kind = "exchange" THEN oldVal[t] ELSE newVal[t])
          /\ build' = build /\ atomicPc[t] = "swap"
      BY <1>6, <2>1 DEF A!Swap
    <3>2. \A u \in Users : u # t => atomicPc'[u] = atomicPc[u] /\ op'[u] = op[u] /\ oldVal'[u] = oldVal[u] /\ newVal'[u] = newVal[u] /\ apart'[u] = apart[u]
      BY <3>1 DEF AtomicInv, A!Return
    <3>3. atomicPc'[t] = "idle" /\ ret'[t] = IF op[t].kind = "exchange" THEN oldVal[t] ELSE newVal[t]
      BY <3>1 DEF AtomicInv, A!Return
    <3>4. ASSUME NEW u \in Users PROVE LoopTells(u)'
      <4>1. CASE u = t
        BY <3>3, <4>1 DEF LoopTells
      <4>2. CASE u # t
        <5>1. LoopTells(u)
          BY DEF AtomicInv
        <5>. QED
          BY <3>1, <3>2, <4>2, <5>1 DEF LoopTells, A!IsInstruction, A!Effect, A!Amount
      <4>. QED
        BY <4>1, <4>2
    <3>5. AtomicInv'
      BY <3>1, <3>4 DEF AtomicInv, A!Return
    <3>6. ~apart[t] => newVal[t] = A!Effect(op[t], cell) /\ oldVal[t] = cell
      BY <2>1, <3>1 DEF AtomicInv, LoopTells, A!Unchanged
    <3>7. op[t].kind # "cas" /\ ~A!IsInstruction(op[t]) /\ op[t] \in A!Operations \cup {A!None}
      BY <3>1 DEF AtomicInv, LoopTells
    <3>8. ~apart[t] => ret'[t] = A!Returned(op[t], cell)
      BY <3>3, <3>6, <3>7 DEF A!Returned, A!IsInstruction
    <3>9. ~A!SumOfAnother(t) => cell' = A!Effect(op[t], cell) /\ ret'[t] = A!Returned(op[t], cell)
      BY <3>1, <3>6, <3>8, Zenon DEF A!SumOfAnother
    <3>10. atomicPc[t] # "idle" /\ \A u \in Users : u # t => ~(atomicPc[u] # "idle" /\ atomicPc'[u] = "idle")
      BY <3>1, <3>2
    <3>. QED
      BY <3>3, <3>5, <3>9, <3>10, Zenon DEF ActsNow
  <2>2. CASE ~A!Unchanged(t)
    <3>1. /\ atomicPc' = [atomicPc EXCEPT ![t] = "called"] /\ build' = build
          /\ UNCHANGED <<cell, op, oldVal, newVal, ret, apart>>
      BY <1>6, <2>2 DEF A!Swap
    <3>2. \A u \in Users : atomicPc'[u] = IF u = t THEN "called" ELSE atomicPc[u]
      BY <3>1 DEF AtomicInv
    <3>3. \A u \in Users : LoopTells(u)'
      BY <3>1, <3>2 DEF AtomicInv, LoopTells, A!IsInstruction, A!Effect, A!Amount
    <3>4. AtomicInv'
      BY <3>1, <3>3 DEF AtomicInv
    <3>. QED
      BY <3>1, <3>2, <3>4 DEF ActsNow
  <2>. QED
    BY <2>1, <2>2
<1>. QED
  BY <1>1, <1>2, <1>3, <1>4, <1>5, <1>6 DEF A!Next

\* Atomic: whatever a build has instructions for, an operation acts at one
\* instant and returns what belongs to it, for any threads and any word, also when
\* the word comes back to an earlier value; but for the swap of an add() whose two
\* reads of the word have found different values.
THEOREM AtomicIsAtomic == MCSpec => AtomicActsAtOneInstant
<1>1. MCInit => A!Init
  BY DEF MCInit
<1>2. [MCNext]_<<used, vars, ringVars, guardVars, allocatorVars, loggerVars, atomicVars, tlsVars>> => [A!Next]_A!vars
  BY DEF MCNext, atomicVars, A!vars
<1>. QED
  BY <1>1, <1>2, AtomicInit, AtomicStep, PTL DEF MCSpec, AtomicActsAtOneInstant, A!ActsAtOneInstant, ActsNow

-----------------------------------------------------------------------------
(* Guards                                                                   *)

GuardRecords == [read : BOOLEAN, acquired : BOOLEAN]

\* The guards of a scope that hold the lock, for reading or not, and how many.
Kinds == {"read", "write"}
Kind(read) == IF read THEN "read" ELSE "write"
Holding(s, kind) == {i \in DOMAIN s : s[i].acquired /\ Kind(s[i].read) = kind}
Count(s, kind) == Cardinality(Holding(s, kind))
OneIf(g, kind) == IF g.acquired /\ Kind(g.read) = kind THEN 1 ELSE 0

\* How often the thread has the mutex.
Depth(t) == IF writer = t THEN depth ELSE 0

\* The lock: nobody reads while somebody writes, and only a Mutex recurses.
LockOK ==
  /\ rw \in BOOLEAN /\ writer \in Users \cup {NULL} /\ depth \in Nat /\ reads \in [Users -> Nat]
  /\ writer = NULL <=> depth = 0
  /\ rw /\ writer # NULL => depth = 1 /\ \A t \in Users : reads[t] = 0
  /\ ~rw => \A t \in Users : reads[t] = 0

\* A thread has the lock at least as often as its guards say, and no oftener
\* unless one of them acquired twice.
GuardsHold(t) ==
  /\ guards[t] \in Seq(GuardRecords)
  /\ reads[t] >= Count(guards[t], "read") /\ Depth(t) >= Count(guards[t], "write")
  /\ t \notin twice => reads[t] = Count(guards[t], "read") /\ Depth(t) = Count(guards[t], "write")
  /\ ~rw => \A i \in DOMAIN guards[t] : ~guards[t][i].read

GuardInv ==
  /\ LockOK
  /\ guards = [t \in Users |-> guards[t]]
  /\ \A t \in Users : GuardsHold(t)

\* Cardinality is the same operator wherever it is named.
LEMMA SameCount ==
  ASSUME NEW S
  PROVE  G!Cardinality(S) = Cardinality(S)
BY DEF Cardinality, G!Cardinality

\* Numbers moved up by one are as many.
LEMMA Shifted ==
  ASSUME NEW S \in SUBSET Nat, IsFiniteSet(S)
  PROVE  /\ IsFiniteSet({i + 1 : i \in S})
         /\ Cardinality({i + 1 : i \in S}) = Cardinality(S)
<1> DEFINE U == {i + 1 : i \in S}
           f == [i \in S |-> i + 1]
<1>1. f \in Bijection(S, U)
  <2>1. f \in [S -> U]
    BY Zenon
  <2>2. \A a, b \in S : f[a] = f[b] => a = b
    BY SMT
  <2>3. \A u \in U : \E i \in S : f[i] = u
    BY Zenon
  <2>. QED
    BY <2>1, <2>2, <2>3, Zenon DEF Bijection, Injection, Surjection, IsInjective
<1>2. ExistsBijection(S, U)
  BY <1>1 DEF ExistsBijection
<1>. QED
  BY <1>2, FS_Bijection

\* The guards of a thread are finitely many.
LEMMA CountType ==
  ASSUME NEW s \in Seq(GuardRecords), NEW kind
  PROVE  Holding(s, kind) \subseteq 1 .. Len(s) /\ IsFiniteSet(Holding(s, kind)) /\ Count(s, kind) \in Nat
<1>1. IsFiniteSet(1 .. Len(s)) /\ Holding(s, kind) \in SUBSET (1 .. Len(s))
  BY FS_Interval DEF Holding
<1>2. IsFiniteSet(Holding(s, kind))
  BY <1>1, FS_Subset
<1>. QED
  BY <1>1, <1>2, FS_CardinalityType DEF Count

\* One more guard counts for one if it has acquired.
LEMMA OneMoreGuard ==
  ASSUME NEW s \in Seq(GuardRecords), NEW g \in GuardRecords, NEW kind \in Kinds
  PROVE  /\ <<g>> \o s \in Seq(GuardRecords)
         /\ Count(<<g>> \o s, kind) = Count(s, kind) + OneIf(g, kind)
<1> DEFINE up == {i + 1 : i \in Holding(s, kind)}
           more == <<g>> \o s
<1>1. more \in Seq(GuardRecords) /\ Len(more) = Len(s) + 1 /\ more[1] = g /\ \A i \in 1 .. Len(s) : more[i + 1] = s[i]
  BY DEF GuardRecords
<1>2. Holding(more, kind) = IF g.acquired /\ Kind(g.read) = kind THEN up \cup {1} ELSE up
  <2>1. \A i \in 2 .. Len(s) + 1 : i - 1 \in 1 .. Len(s) /\ more[i] = s[i - 1]
    BY <1>1
  <2>2. \A i \in 1 .. Len(s) + 1 : i = 1 \/ i \in 2 .. Len(s) + 1
    OBVIOUS
  <2>3. DOMAIN more = 1 .. Len(s) + 1 /\ DOMAIN s = 1 .. Len(s)
    BY <1>1
  <2>4. \A i \in 2 .. Len(s) + 1 : i \in Holding(more, kind) <=> i \in up
    BY <2>1, <2>3 DEF Holding
  <2>5. 1 \notin up /\ \A i \in up : i \in 2 .. Len(s) + 1
    BY <2>3 DEF Holding
  <2>6. 1 \in Holding(more, kind) <=> g.acquired /\ Kind(g.read) = kind
    BY <1>1, <2>3 DEF Holding
  <2>7. \A i \in Holding(more, kind) : i \in 1 .. Len(s) + 1
    BY <2>3 DEF Holding
  <2>. HIDE DEF up, more
  <2>8. \A i : i \in Holding(more, kind) <=> (i = 1 /\ g.acquired /\ Kind(g.read) = kind) \/ i \in up
    BY <2>2, <2>4, <2>5, <2>6, <2>7
  <2>. QED
    BY <2>8
<1>3. IsFiniteSet(up) /\ Cardinality(up) = Count(s, kind) /\ Count(s, kind) \in Nat
  BY CountType, Shifted DEF Count
<1>4. 1 \notin up
  BY CountType
<1>5. Cardinality(up \cup {1}) = Count(s, kind) + 1
  BY <1>3, <1>4, FS_AddElement
<1>. HIDE DEF up, more
<1>6. Count(more, kind) = Count(s, kind) + OneIf(g, kind)
  BY <1>2, <1>3, <1>5 DEF Count, OneIf
<1>. QED
  BY <1>1, <1>6 DEF more

\* Where the guards are then.
LEMMA GuardPlaces ==
  ASSUME NEW s \in Seq(GuardRecords), NEW g \in GuardRecords
  PROVE  \A i \in DOMAIN (<<g>> \o s) :
           (<<g>> \o s)[i] = g \/ (i - 1 \in DOMAIN s /\ (<<g>> \o s)[i] = s[i - 1])
<1> DEFINE more == <<g>> \o s
<1>1. more \in Seq(GuardRecords) /\ Len(more) = Len(s) + 1 /\ more[1] = g /\ \A i \in 1 .. Len(s) : more[i + 1] = s[i]
  BY DEF GuardRecords
<1>2. DOMAIN more = 1 .. Len(s) + 1 /\ DOMAIN s = 1 .. Len(s)
  BY <1>1
<1>. HIDE DEF more
<1>3. ASSUME NEW i \in 2 .. Len(s) + 1
      PROVE  more[i] = s[i - 1] /\ i - 1 \in 1 .. Len(s)
  <2>1. i - 1 \in 1 .. Len(s) /\ (i - 1) + 1 = i
    OBVIOUS
  <2>2. more[(i - 1) + 1] = s[i - 1]
    BY <1>1, <2>1
  <2>. QED
    BY <2>1, <2>2
<1>4. \A i \in 1 .. Len(s) + 1 : i = 1 \/ i \in 2 .. Len(s) + 1
  OBVIOUS
<1>5. \A i \in 1 .. Len(s) + 1 : more[i] = g \/ (i - 1 \in 1 .. Len(s) /\ more[i] = s[i - 1])
  <2>1. more[1] = g
    BY <1>1
  <2>. QED
    BY <2>1, <1>3, <1>4, Zenon
<1>. QED
  BY <1>2, <1>5, Zenon DEF more

\* The innermost guard and the others.
LEMMA Innermost ==
  ASSUME NEW s \in Seq(GuardRecords), s # <<>>
  PROVE  /\ Head(s) \in GuardRecords /\ Tail(s) \in Seq(GuardRecords) /\ s = <<Head(s)>> \o Tail(s)
         /\ \A kind \in Kinds : Count(s, kind) = Count(Tail(s), kind) + OneIf(Head(s), kind)
<1>1. Head(s) \in GuardRecords /\ Tail(s) \in Seq(GuardRecords) /\ s = <<Head(s)>> \o Tail(s)
  OBVIOUS
<1>2. \A kind \in Kinds : Count(<<Head(s)>> \o Tail(s), kind) = Count(Tail(s), kind) + OneIf(Head(s), kind)
  BY <1>1, OneMoreGuard, Zenon
<1>. QED
  BY <1>1, <1>2, Zenon

\* Who takes the lock has it once more, and nobody else oftener or less.
LEMMA Taking ==
  ASSUME UsersAssumption, LockOK, NEW t \in Users, NEW read \in BOOLEAN, read => rw, rw' = rw,
         G!CanTake(t, read), G!Take(t, read)
  PROVE  /\ LockOK'
         /\ \A u \in Users \ {t} : reads'[u] = reads[u] /\ Depth(u)' = Depth(u)
         /\ reads'[t] = reads[t] + IF read THEN 1 ELSE 0
         /\ Depth(t)' = Depth(t) + IF read THEN 0 ELSE 1
BY DEF UsersAssumption, LockOK, Depth, G!CanTake, G!Take, G!Readers

\* Who gives it back has it once less.
LEMMA Giving ==
  ASSUME UsersAssumption, LockOK, NEW t \in Users, NEW read \in BOOLEAN, rw' = rw,
         read => reads[t] > 0, ~read => Depth(t) > 0, G!Give(t, read)
  PROVE  /\ LockOK'
         /\ \A u \in Users \ {t} : reads'[u] = reads[u] /\ Depth(u)' = Depth(u)
         /\ reads'[t] = reads[t] - IF read THEN 1 ELSE 0
         /\ Depth(t)' = Depth(t) - IF read THEN 0 ELSE 1
BY DEF UsersAssumption, LockOK, Depth, G!Give

\* A step of t leaves the guards and the locks of the others alone.
LEMMA OthersKeep ==
  ASSUME GuardInv, NEW t \in Users, NEW s, guards' = [guards EXCEPT ![t] = s], rw' = rw,
         \A u \in Users \ {t} : reads'[u] = reads[u] /\ Depth(u)' = Depth(u),
         \A u \in Users \ {t} : u \in twice' <=> u \in twice,
         LockOK', GuardsHold(t)'
  PROVE  GuardInv'
<1>1. \A u \in Users \ {t} : guards'[u] = guards[u]
  BY DEF GuardInv
<1>2. \A u \in Users \ {t} : GuardsHold(u)'
  BY <1>1 DEF GuardInv, GuardsHold
<1>. QED
  BY <1>2 DEF GuardInv

\* What an open scope has: its innermost guard and the others.
LEMMA OpenScope ==
  ASSUME GuardInv, NEW t \in Users, G!Open(t)
  PROVE  /\ LockOK /\ GuardsHold(t) /\ reads[t] \in Nat /\ Depth(t) \in Nat
         /\ G!Inner(t) \in GuardRecords /\ Tail(guards[t]) \in Seq(GuardRecords)
         /\ ~rw => ~G!Inner(t).read /\ \A i \in DOMAIN Tail(guards[t]) : ~Tail(guards[t])[i].read
<1>1. guards[t] \in Seq(GuardRecords) /\ guards[t] # <<>> /\ LockOK /\ GuardsHold(t)
  BY DEF GuardInv, GuardsHold, G!Open
<1>2. G!Inner(t) \in GuardRecords /\ Tail(guards[t]) \in Seq(GuardRecords)
  BY <1>1 DEF G!Inner
<1>3. 1 \in DOMAIN guards[t] /\ G!Inner(t) = guards[t][1]
  BY <1>1 DEF G!Inner
<1>4. \A i \in DOMAIN Tail(guards[t]) : i + 1 \in DOMAIN guards[t] /\ Tail(guards[t])[i] = guards[t][i + 1]
  BY <1>1
<1>. QED
  BY <1>1, <1>2, <1>3, <1>4 DEF GuardsHold, LockOK, Depth

\* How many of its guards hold the lock.
LEMMA OpenCounts ==
  ASSUME GuardInv, NEW t \in Users, G!Open(t), NEW kind \in Kinds
  PROVE  /\ Count(guards[t], kind) = Count(Tail(guards[t]), kind) + OneIf(G!Inner(t), kind)
         /\ Count(Tail(guards[t]), kind) \in Nat /\ OneIf(G!Inner(t), kind) \in {0, 1}
<1>1. guards[t] \in Seq(GuardRecords) /\ guards[t] # <<>>
  BY DEF GuardInv, GuardsHold, G!Open
<1>2. Tail(guards[t]) \in Seq(GuardRecords) /\ OneIf(G!Inner(t), kind) \in {0, 1}
  BY <1>1 DEF OneIf
<1>. QED
  BY <1>1, <1>2, Innermost, CountType DEF G!Inner

\* And how many after the innermost guard is marked.
LEMMA MarkCounts ==
  ASSUME GuardInv, NEW t \in Users, G!Open(t), NEW acquired \in BOOLEAN, G!Marks(t, acquired), NEW kind \in Kinds
  PROVE  /\ guards' = [guards EXCEPT ![t] = guards'[t]]
         /\ guards'[t] \in Seq(GuardRecords)
         /\ ~rw => \A i \in DOMAIN guards'[t] : ~guards'[t][i].read
         /\ Count(guards'[t], kind) = Count(Tail(guards[t]), kind)
              + IF acquired /\ kind = Kind(G!Inner(t).read) THEN 1 ELSE 0
<1> DEFINE g == [G!Inner(t) EXCEPT !.acquired = acquired]
           s == Tail(guards[t])
<1>1. guards' = [guards EXCEPT ![t] = <<g>> \o s] /\ guards'[t] = <<g>> \o s
  BY DEF G!Marks, GuardInv
<1>2. g \in GuardRecords /\ g.read = G!Inner(t).read /\ g.acquired = acquired
  BY OpenScope DEF GuardRecords
<1>3. s \in Seq(GuardRecords) /\ (~rw => ~g.read /\ \A i \in DOMAIN s : ~s[i].read)
  BY <1>2, OpenScope
<1>4. OneIf(g, kind) = IF acquired /\ kind = Kind(G!Inner(t).read) THEN 1 ELSE 0
  BY <1>2 DEF OneIf
<1>. HIDE DEF g, s
<1>5. \A i \in DOMAIN guards'[t] : guards'[t][i] = g \/ (i - 1 \in DOMAIN s /\ guards'[t][i] = s[i - 1])
  BY <1>1, <1>2, <1>3, GuardPlaces
<1>6. guards'[t] \in Seq(GuardRecords) /\ Count(guards'[t], kind) = Count(s, kind) + OneIf(g, kind)
  BY <1>1, <1>2, <1>3, OneMoreGuard
<1>. QED
  BY <1>1, <1>3, <1>4, <1>5, <1>6 DEF s

\* Giving back what the innermost guard has.
LEMMA InnerGives ==
  ASSUME UsersAssumption, GuardInv, NEW t \in Users, G!Open(t), G!Inner(t).acquired, G!Give(t, G!Inner(t).read), rw' = rw
  PROVE  /\ LockOK'
         /\ \A u \in Users \ {t} : reads'[u] = reads[u] /\ Depth(u)' = Depth(u)
         /\ reads'[t] = reads[t] - OneIf(G!Inner(t), "read")
         /\ Depth(t)' = Depth(t) - OneIf(G!Inner(t), "write")
<1> DEFINE read == G!Inner(t).read
<1>1. read \in BOOLEAN /\ LockOK /\ GuardsHold(t)
  BY OpenScope DEF GuardRecords
<1>2. OneIf(G!Inner(t), "read") = (IF read THEN 1 ELSE 0) /\ OneIf(G!Inner(t), "write") = (IF read THEN 0 ELSE 1)
  BY <1>1 DEF OneIf, Kind
<1>3. /\ Count(guards[t], "read") = Count(Tail(guards[t]), "read") + OneIf(G!Inner(t), "read")
      /\ Count(guards[t], "write") = Count(Tail(guards[t]), "write") + OneIf(G!Inner(t), "write")
      /\ Count(Tail(guards[t]), "read") \in Nat /\ Count(Tail(guards[t]), "write") \in Nat
  BY OpenCounts DEF Kinds
<1>4. reads[t] \in Nat /\ Depth(t) \in Nat
  BY OpenScope
<1>5. (read => reads[t] > 0) /\ (~read => Depth(t) > 0)
  BY <1>1, <1>2, <1>3, <1>4 DEF GuardsHold
<1>. QED
  BY <1>1, <1>2, <1>5, Giving

LEMMA GuardStep == UsersAssumption /\ GuardInv /\ [G!Next]_G!vars => GuardInv'
<1> SUFFICES ASSUME UsersAssumption, GuardInv, [G!Next]_G!vars
             PROVE  GuardInv'
  OBVIOUS
<1>1. CASE UNCHANGED G!vars
  BY <1>1 DEF GuardInv, LockOK, GuardsHold, Depth, G!vars
<1>2. ASSUME NEW t \in Users, NEW read \in BOOLEAN, NEW acq \in BOOLEAN, G!Construct(t, read, acq)
      PROVE  GuardInv'
  <2> DEFINE g == [read |-> read, acquired |-> acq]
  <2>1. g \in GuardRecords /\ g.read = read /\ g.acquired = acq
    BY DEF GuardRecords
  <2>2. /\ guards' = [guards EXCEPT ![t] = <<g>> \o guards[t]] /\ rw' = rw /\ twice' = twice /\ (read => rw)
        /\ IF acq THEN G!CanTake(t, read) /\ G!Take(t, read) ELSE UNCHANGED <<writer, depth, reads>>
    BY <1>2 DEF G!Construct, G!Untouched
  <2>3. guards'[t] = <<g>> \o guards[t] /\ guards[t] \in Seq(GuardRecords) /\ GuardsHold(t) /\ LockOK
    BY <2>2 DEF GuardInv, GuardsHold
  <2>. HIDE DEF g
  <2>4. /\ guards'[t] \in Seq(GuardRecords)
        /\ Count(guards'[t], "read") = Count(guards[t], "read") + OneIf(g, "read")
        /\ Count(guards'[t], "write") = Count(guards[t], "write") + OneIf(g, "write")
        /\ Count(guards[t], "read") \in Nat /\ Count(guards[t], "write") \in Nat
    BY <2>1, <2>3, OneMoreGuard, CountType DEF Kinds
  <2>5. ~rw => \A i \in DOMAIN guards'[t] : ~guards'[t][i].read
    <3>1. \A i \in DOMAIN guards'[t] : guards'[t][i] = g \/ (i - 1 \in DOMAIN guards[t] /\ guards'[t][i] = guards[t][i - 1])
      BY <2>1, <2>3, GuardPlaces
    <3>. QED
      BY <2>1, <2>2, <2>3, <3>1 DEF GuardsHold
  <2>6. /\ LockOK'
        /\ \A u \in Users \ {t} : reads'[u] = reads[u] /\ Depth(u)' = Depth(u)
        /\ reads'[t] = reads[t] + OneIf(g, "read")
        /\ Depth(t)' = Depth(t) + OneIf(g, "write")
    <3>1. CASE acq
      BY <2>1, <2>2, <2>3, <3>1, Taking DEF OneIf, Kind, Kind
    <3>2. CASE ~acq
      BY <2>1, <2>2, <2>3, <3>2 DEF OneIf, Kind, LockOK, Depth
    <3>. QED
      BY <3>1, <3>2
  <2>7. OneIf(g, "read") \in Nat /\ OneIf(g, "write") \in Nat /\ reads[t] \in Nat /\ Depth(t) \in Nat
    BY <2>3 DEF OneIf, Kind, LockOK, Depth
  <2>8. GuardsHold(t)'
    <3>1. reads[t] >= Count(guards[t], "read") /\ Depth(t) >= Count(guards[t], "write")
      BY <2>3 DEF GuardsHold
    <3>2. reads'[t] >= Count(guards'[t], "read")
      BY <3>1, <2>4, <2>6, <2>7
    <3>3. Depth(t)' >= Count(guards'[t], "write")
      BY <3>1, <2>4, <2>6, <2>7
    <3>4. t \notin twice' => reads[t] = Count(guards[t], "read") /\ Depth(t) = Count(guards[t], "write")
      BY <2>2, <2>3 DEF GuardsHold
    <3>. QED
      BY <2>4, <2>5, <2>6, <3>2, <3>3, <3>4, <2>2 DEF GuardsHold
  <2>. QED
    BY <2>2, <2>6, <2>8, OthersKeep
<1>3. ASSUME NEW t \in Users, G!Acquire(t)
      PROVE  GuardInv'
  <2> DEFINE read == G!Inner(t).read
             acquired == G!Inner(t).acquired
  <2>1. /\ G!Open(t) /\ G!CanTake(t, read) /\ G!Take(t, read) /\ G!Marks(t, TRUE) /\ rw' = rw
        /\ twice' = IF acquired THEN twice \cup {t} ELSE twice
    BY <1>3 DEF G!Acquire
  <2>2. read \in BOOLEAN /\ acquired \in BOOLEAN /\ (read => rw) /\ LockOK /\ GuardsHold(t) /\ reads[t] \in Nat /\ Depth(t) \in Nat
    BY <2>1, OpenScope DEF GuardRecords
  <2>3. /\ OneIf(G!Inner(t), "read") = (IF acquired /\ read THEN 1 ELSE 0)
        /\ OneIf(G!Inner(t), "write") = (IF acquired /\ ~read THEN 1 ELSE 0)
    BY <2>2 DEF OneIf, Kind
  <2>4. /\ Count(guards[t], "read") = Count(Tail(guards[t]), "read") + OneIf(G!Inner(t), "read")
        /\ Count(guards[t], "write") = Count(Tail(guards[t]), "write") + OneIf(G!Inner(t), "write")
        /\ Count(Tail(guards[t]), "read") \in Nat /\ Count(Tail(guards[t]), "write") \in Nat
    BY <2>1, OpenCounts DEF Kinds
  <2>5. /\ guards' = [guards EXCEPT ![t] = guards'[t]] /\ guards'[t] \in Seq(GuardRecords)
        /\ ~rw => \A i \in DOMAIN guards'[t] : ~guards'[t][i].read
        /\ Count(guards'[t], "read") = Count(Tail(guards[t]), "read") + IF read THEN 1 ELSE 0
        /\ Count(guards'[t], "write") = Count(Tail(guards[t]), "write") + IF read THEN 0 ELSE 1
    BY <2>1, <2>2, MarkCounts DEF Kinds, Kind
  <2>. HIDE DEF read, acquired
  <2>6. /\ LockOK'
        /\ \A u \in Users \ {t} : reads'[u] = reads[u] /\ Depth(u)' = Depth(u)
        /\ reads'[t] = reads[t] + IF read THEN 1 ELSE 0
        /\ Depth(t)' = Depth(t) + IF read THEN 0 ELSE 1
    BY <2>1, <2>2, Taking
  <2>7. reads'[t] >= Count(guards'[t], "read") /\ Depth(t)' >= Count(guards'[t], "write")
    BY <2>2, <2>3, <2>4, <2>5, <2>6 DEF GuardsHold
  <2>8. t \notin twice' => reads'[t] = Count(guards'[t], "read") /\ Depth(t)' = Count(guards'[t], "write")
    BY <2>1, <2>2, <2>3, <2>4, <2>5, <2>6 DEF GuardsHold
  <2>9. GuardsHold(t)'
    BY <2>1, <2>5, <2>7, <2>8 DEF GuardsHold
  <2>. QED
    BY <2>1, <2>5, <2>6, <2>9, OthersKeep
<1>4. ASSUME NEW t \in Users, G!TimesOut(t)
      PROVE  GuardInv'
  <2>1. G!Open(t) /\ ~rw /\ ~G!CanTake(t, FALSE) /\ G!Marks(t, FALSE) /\ UNCHANGED <<rw, writer, depth, reads, twice>>
    BY <1>4 DEF G!TimesOut, G!Untouched
  <2>2. LockOK /\ GuardsHold(t) /\ Depth(t) = 0 /\ reads[t] = 0
    BY <2>1, OpenScope DEF G!CanTake, Depth, LockOK
  <2>3. /\ Count(guards[t], "read") = Count(Tail(guards[t]), "read") + OneIf(G!Inner(t), "read")
        /\ Count(guards[t], "write") = Count(Tail(guards[t]), "write") + OneIf(G!Inner(t), "write")
        /\ Count(Tail(guards[t]), "read") \in Nat /\ Count(Tail(guards[t]), "write") \in Nat
        /\ OneIf(G!Inner(t), "read") \in {0, 1} /\ OneIf(G!Inner(t), "write") \in {0, 1}
    BY <2>1, OpenCounts DEF Kinds
  <2>4. /\ guards' = [guards EXCEPT ![t] = guards'[t]] /\ guards'[t] \in Seq(GuardRecords)
        /\ ~rw => \A i \in DOMAIN guards'[t] : ~guards'[t][i].read
        /\ Count(guards'[t], "read") = Count(Tail(guards[t]), "read") + 0
        /\ Count(guards'[t], "write") = Count(Tail(guards[t]), "write") + 0
    BY <2>1, MarkCounts DEF Kinds
  <2>5. Count(guards'[t], "read") = 0 /\ Count(guards'[t], "write") = 0
    BY <2>2, <2>3, <2>4 DEF GuardsHold
  <2>6. LockOK' /\ \A u \in Users : reads'[u] = reads[u] /\ Depth(u)' = Depth(u)
    BY <2>1, <2>2 DEF LockOK, Depth
  <2>7. GuardsHold(t)'
    BY <2>1, <2>2, <2>4, <2>5, <2>6 DEF GuardsHold
  <2>. QED
    BY <2>1, <2>4, <2>6, <2>7, OthersKeep
<1>5. ASSUME NEW t \in Users, G!Release(t)
      PROVE  GuardInv'
  <2>1. /\ G!Open(t) /\ G!Inner(t).acquired /\ G!Give(t, G!Inner(t).read) /\ G!Marks(t, FALSE)
        /\ rw' = rw /\ twice' = twice
    BY <1>5 DEF G!Release
  <2>2. /\ Count(guards[t], "read") = Count(Tail(guards[t]), "read") + OneIf(G!Inner(t), "read")
        /\ Count(guards[t], "write") = Count(Tail(guards[t]), "write") + OneIf(G!Inner(t), "write")
        /\ Count(Tail(guards[t]), "read") \in Nat /\ Count(Tail(guards[t]), "write") \in Nat
        /\ OneIf(G!Inner(t), "read") \in {0, 1} /\ OneIf(G!Inner(t), "write") \in {0, 1}
    BY <2>1, OpenCounts DEF Kinds
  <2>3. /\ guards' = [guards EXCEPT ![t] = guards'[t]] /\ guards'[t] \in Seq(GuardRecords)
        /\ ~rw => \A i \in DOMAIN guards'[t] : ~guards'[t][i].read
        /\ Count(guards'[t], "read") = Count(Tail(guards[t]), "read") + 0
        /\ Count(guards'[t], "write") = Count(Tail(guards[t]), "write") + 0
    BY <2>1, MarkCounts DEF Kinds
  <2>4. GuardsHold(t) /\ reads[t] \in Nat /\ Depth(t) \in Nat
    BY <2>1, OpenScope
  <2>5. /\ LockOK'
        /\ \A u \in Users \ {t} : reads'[u] = reads[u] /\ Depth(u)' = Depth(u)
        /\ reads'[t] = reads[t] - OneIf(G!Inner(t), "read")
        /\ Depth(t)' = Depth(t) - OneIf(G!Inner(t), "write")
    BY <2>1, InnerGives
  <2>6. GuardsHold(t)'
    BY <2>1, <2>2, <2>3, <2>4, <2>5 DEF GuardsHold
  <2>. QED
    BY <2>1, <2>3, <2>5, <2>6, OthersKeep
<1>6. ASSUME NEW t \in Users, G!Destruct(t)
      PROVE  GuardInv'
  <2>1. /\ G!Open(t) /\ guards' = [guards EXCEPT ![t] = Tail(guards[t])] /\ rw' = rw /\ twice' = twice
        /\ IF G!Inner(t).acquired THEN G!Give(t, G!Inner(t).read) ELSE UNCHANGED <<writer, depth, reads>>
    BY <1>6 DEF G!Destruct, G!Untouched
  <2>2. guards'[t] = Tail(guards[t])
    BY <2>1 DEF GuardInv
  <2>3. /\ Count(guards[t], "read") = Count(Tail(guards[t]), "read") + OneIf(G!Inner(t), "read")
        /\ Count(guards[t], "write") = Count(Tail(guards[t]), "write") + OneIf(G!Inner(t), "write")
        /\ Count(Tail(guards[t]), "read") \in Nat /\ Count(Tail(guards[t]), "write") \in Nat
        /\ OneIf(G!Inner(t), "read") \in {0, 1} /\ OneIf(G!Inner(t), "write") \in {0, 1}
    BY <2>1, OpenCounts DEF Kinds
  <2>4. /\ LockOK /\ GuardsHold(t) /\ reads[t] \in Nat /\ Depth(t) \in Nat /\ Tail(guards[t]) \in Seq(GuardRecords)
        /\ ~rw => \A i \in DOMAIN Tail(guards[t]) : ~Tail(guards[t])[i].read
    BY <2>1, OpenScope
  <2>5. /\ LockOK'
        /\ \A u \in Users \ {t} : reads'[u] = reads[u] /\ Depth(u)' = Depth(u)
        /\ reads'[t] = reads[t] - OneIf(G!Inner(t), "read")
        /\ Depth(t)' = Depth(t) - OneIf(G!Inner(t), "write")
    <3>1. CASE G!Inner(t).acquired
      BY <2>1, <3>1, InnerGives
    <3>2. CASE ~G!Inner(t).acquired
      BY <2>1, <2>4, <3>2 DEF OneIf, LockOK, Depth
    <3>. QED
      BY <3>1, <3>2
  <2>6. GuardsHold(t)'
    BY <2>1, <2>2, <2>3, <2>4, <2>5 DEF GuardsHold
  <2>. QED
    BY <2>1, <2>5, <2>6, OthersKeep
<1>. QED
  BY <1>1, <1>2, <1>3, <1>4, <1>5, <1>6 DEF G!Next

LEMMA GuardInit == UsersAssumption /\ G!Init => GuardInv
<1> SUFFICES ASSUME UsersAssumption, G!Init
             PROVE  GuardInv
  OBVIOUS
<1>1. \A kind : Holding(<<>>, kind) = {}
  BY DEF Holding
<1>2. \A kind : Count(<<>>, kind) = 0
  BY <1>1, FS_EmptySet DEF Count
<1>. QED
  BY <1>2 DEF G!Init, GuardInv, GuardsHold, LockOK, Depth, UsersAssumption

\* What the invariant says is what the guards promise.
LEMMA GuardsAreTrue == UsersAssumption /\ GuardInv => G!GuardsKeepTheLock
<1> SUFFICES ASSUME UsersAssumption, GuardInv
             PROVE  G!GuardsKeepTheLock
  OBVIOUS
<1> DEFINE Acquired(t, read) == G!Cardinality({i \in DOMAIN guards[t] : guards[t][i].acquired /\ guards[t][i].read = read})
<1>1. \A t \in Users : Acquired(t, TRUE) = Count(guards[t], "read") /\ Acquired(t, FALSE) = Count(guards[t], "write")
  <2> SUFFICES ASSUME NEW t \in Users
               PROVE  Acquired(t, TRUE) = Count(guards[t], "read") /\ Acquired(t, FALSE) = Count(guards[t], "write")
    OBVIOUS
  <2>1. \A i \in DOMAIN guards[t] : guards[t][i] \in GuardRecords
    BY DEF GuardInv, GuardsHold
  <2>2. \A i \in DOMAIN guards[t] : guards[t][i].read \in BOOLEAN
    BY <2>1 DEF GuardRecords
  <2>3. {i \in DOMAIN guards[t] : guards[t][i].acquired /\ guards[t][i].read = TRUE} = Holding(guards[t], "read")
    BY <2>2 DEF Holding, Kind
  <2>4. {i \in DOMAIN guards[t] : guards[t][i].acquired /\ guards[t][i].read = FALSE} = Holding(guards[t], "write")
    BY <2>2 DEF Holding, Kind
  <2>. QED
    BY <2>3, <2>4, SameCount, Zenon DEF Count
<1>. HIDE DEF Acquired
<1>. DEFINE R(t) == Acquired(t, TRUE)
            W(t) == Acquired(t, FALSE)
<1>2. \A t \in Users : R(t) = Count(guards[t], "read") /\ W(t) = Count(guards[t], "write")
  BY <1>1
<1>. HIDE DEF R, W
<1>3. \A t \in Users : rw /\ writer = t => G!Readers = {} /\ depth = 1
  BY DEF GuardInv, LockOK, G!Readers, UsersAssumption
<1>4. twice = {} => \A u \in Users : reads[u] = Count(guards[u], "read") /\ Depth(u) = Count(guards[u], "write")
  BY DEF GuardInv, GuardsHold
<1>5. \A t \in Users : Depth(t) > 0 => \A u \in Users \ {t} : Depth(u) = 0 /\ reads[u] = 0
  BY DEF GuardInv, LockOK, Depth, UsersAssumption
<1>6. \A t \in Users :
        /\ twice = {} => reads[t] = R(t) /\ (IF writer = t THEN depth ELSE 0) = W(t)
        /\ twice = {} /\ W(t) > 0 => \A u \in Users \ {t} : W(u) + R(u) = 0
  BY <1>4, <1>5, <1>2 DEF Depth
<1>. QED
  BY <1>3, <1>6, Zenon DEF G!GuardsKeepTheLock, Acquired, R, W

-----------------------------------------------------------------------------
(* LockedAllocator                                                          *)

Calls ==
  [op : {"none", "allocate", "free", "reallocate"}, at : {"none", "locks", "buffer", "behind"}, block : Blocks \cup {NULL}]

AllocatorTypes ==
  /\ locks \in BOOLEAN /\ lock \in Users \cup {NULL}
  /\ buffer \subseteq Blocks /\ behind \subseteq Blocks /\ had \subseteq Blocks
  /\ call \in [Users -> Calls]

\* A call is under way or it is Idle, and has the block it was given.
CallIsWhole(t) ==
  /\ call[t].op = "none" <=> call[t].at = "none"
  /\ call[t].block # NULL <=> call[t].op \in {"free", "reallocate"}
  /\ call[t].at = "behind" /\ call[t].block # NULL => call[t].block \in behind

\* The lock is that of the thread inside the buffer's allocator; without a
\* lock one thread at most is in a call.
LockTells ==
  IF locks THEN \A t \in Users : lock = t <=> call[t].at = "buffer"
  ELSE /\ lock = NULL
       /\ \A t \in Users : call[t].at # "locks"
       /\ \A t, u \in Users : t # u => call[t].at = "none" \/ call[u].at = "none"

\* The blocks are those of the program and those of the calls, each of one.
BlocksAreHeld ==
  /\ buffer \cap behind = {} /\ had \subseteq buffer \cup behind
  /\ \A t \in Users : call[t].block # NULL => call[t].block \in (buffer \cup behind) \ had
  /\ \A b \in (buffer \cup behind) \ had : \E t \in Users : call[t].block = b
  /\ \A t, u \in Users : call[t].block # NULL /\ t # u => call[t].block # call[u].block

\* The calls that may need one more block.
Asking == {t \in Users : call[t].op \in {"allocate", "reallocate"}}

RoomIsLeft ==
  /\ Cardinality(buffer) <= BufferRoom
  /\ Cardinality(Blocks) >= Cardinality(buffer \cup behind) + Cardinality(Asking)

AllocatorInv ==
  /\ AllocatorTypes
  /\ \A t \in Users : CallIsWhole(t)
  /\ LockTells
  /\ BlocksAreHeld
  /\ RoomIsLeft

\* Cardinality is the same operator wherever it is named.
LEMMA SameNumber ==
  ASSUME NEW S
  PROVE  M!Cardinality(S) = Cardinality(S)
BY DEF Cardinality, M!Cardinality

\* Everything counted here is finite.
LEMMA AllFinite ==
  ASSUME AllocatorsAssumption, AllocatorTypes
  PROVE  /\ IsFiniteSet(buffer) /\ IsFiniteSet(behind) /\ IsFiniteSet(buffer \cup behind) /\ IsFiniteSet(Asking)
         /\ Cardinality(buffer) \in Nat /\ Cardinality(buffer \cup behind) \in Nat /\ Cardinality(Asking) \in Nat
         /\ Cardinality(Blocks) \in Nat
<1>1. IsFiniteSet(Blocks) /\ IsFiniteSet(Users)
  BY DEF AllocatorsAssumption
<1>2. buffer \in SUBSET Blocks /\ behind \in SUBSET Blocks /\ buffer \cup behind \in SUBSET Blocks /\ Asking \in SUBSET Users
  BY DEF AllocatorTypes, Asking
<1>3. IsFiniteSet(buffer) /\ IsFiniteSet(behind) /\ IsFiniteSet(buffer \cup behind) /\ IsFiniteSet(Asking)
  BY <1>1, <1>2, FS_Subset
<1>. QED
  BY <1>1, <1>3, FS_CardinalityType

\* A call that may need a block finds one that is nowhere in use.
LEMMA NewBlockIsNew ==
  ASSUME AllocatorsAssumption, AllocatorInv, NEW t \in Users, call[t].op \in {"allocate", "reallocate"}
  PROVE  M!NewBlock \in Blocks \ (buffer \cup behind)
<1>1. t \in Asking /\ AllocatorTypes /\ RoomIsLeft
  BY DEF Asking, AllocatorInv
<1>2. Cardinality(Asking) # 0
  BY <1>1, AllFinite, FS_EmptySet
<1>3. Cardinality(buffer \cup behind) # Cardinality(Blocks)
  BY <1>1, <1>2, AllFinite DEF RoomIsLeft
<1>4. buffer \cup behind \subseteq Blocks /\ buffer \cup behind # Blocks
  BY <1>1, <1>3 DEF AllocatorTypes
<1>5. \E b \in Blocks : b \notin buffer \cup behind
  BY <1>4
<1>. QED
  BY <1>5 DEF M!NewBlock

\* A thread that stays in its call moves only on its way.
LEMMA CallGoesOn ==
  ASSUME AllocatorInv, NEW t \in Users, NEW at \in {"buffer", "behind"}, M!Goes(t, at), call[t].at # "none",
         UNCHANGED <<locks, buffer, behind, had>>, lock' \in Users \cup {NULL},
         at = "behind" /\ call[t].block # NULL => call[t].block \in behind,
         LockTells'
  PROVE  AllocatorInv'
<1>1. /\ call' \in [Users -> Calls]
      /\ \A u \in Users : call'[u].op = call[u].op /\ call'[u].block = call[u].block
      /\ \A u \in Users \ {t} : call'[u] = call[u]
      /\ call'[t].at = at
  BY DEF AllocatorInv, AllocatorTypes, M!Goes, Calls
<1>2. AllocatorTypes'
  BY <1>1 DEF AllocatorInv, AllocatorTypes
<1>3. \A u \in Users : CallIsWhole(u)'
  BY <1>1 DEF AllocatorInv, CallIsWhole
<1>4. BlocksAreHeld'
  BY <1>1 DEF AllocatorInv, BlocksAreHeld
<1>5. Asking' = Asking
  BY <1>1 DEF Asking
<1>6. RoomIsLeft'
  BY <1>5 DEF AllocatorInv, RoomIsLeft
<1>. QED
  BY <1>2, <1>3, <1>4, <1>6 DEF AllocatorInv

\* A thread that goes out of the buffer's allocator leaves the lock to others.
LEMMA LockIsLeft ==
  ASSUME AllocatorsAssumption, AllocatorInv, NEW t \in Users, locks' = locks,
         call[t].at \in {"buffer", "behind"}, M!Unlocks(t) \/ (call[t].at = "behind" /\ lock' = lock),
         \A u \in Users \ {t} : call'[u] = call[u],
         call'[t].at \in {"none", "behind"}
  PROVE  LockTells' /\ lock' \in Users \cup {NULL}
<1>1. \A u \in Users \ {t} : call'[u].at = call[u].at
  OBVIOUS
<1>. QED
  BY <1>1 DEF AllocatorsAssumption, AllocatorInv, AllocatorTypes, LockTells, M!Unlocks

\* The call of t ends and leaves the block b, its own or a new one, or none.
Leaves(t, b) ==
  /\ call[t].at \in {"buffer", "behind"} /\ M!Ends(t, b)
  /\ LockTells' /\ lock' \in Users \cup {NULL} /\ locks' = locks
  /\ buffer' \subseteq Blocks /\ behind' \subseteq Blocks /\ buffer' \cap behind' = {}
  /\ \A c \in behind : c # call[t].block => c \in behind'
  /\ buffer' \cup behind' = ((buffer \cup behind) \ {call[t].block}) \cup ({b} \ {NULL})
  /\ b # NULL => call[t].op \in {"allocate", "reallocate"} /\ b \notin had
  /\ b \in buffer \cup behind => b = call[t].block
  /\ Cardinality(buffer') <= BufferRoom

LEMMA EndedWell ==
  ASSUME AllocatorsAssumption, AllocatorInv, NEW t \in Users, NEW b \in Blocks \cup {NULL}, Leaves(t, b)
  PROVE  AllocatorInv'
<1> USE DEF Leaves
<1>1. /\ call' \in [Users -> Calls]
      /\ \A u \in Users \ {t} : call'[u] = call[u]
      /\ call'[t].op = "none" /\ call'[t].at = "none" /\ call'[t].block = NULL
      /\ had' = had \cup ({b} \ {NULL})
  <2>1. M!Idle \in Calls /\ M!Idle.op = "none" /\ M!Idle.at = "none" /\ M!Idle.block = NULL
    BY DEF M!Idle, Calls
  <2>2. call' = [call EXCEPT ![t] = M!Idle] /\ had' = had \cup ({b} \ {NULL}) /\ call \in [Users -> Calls]
    BY DEF AllocatorInv, AllocatorTypes, M!Ends
  <2>3. call' \in [Users -> Calls] /\ call'[t] = M!Idle /\ \A u \in Users \ {t} : call'[u] = call[u]
    BY <2>1, <2>2
  <2>. QED
    BY <2>1, <2>2, <2>3
<1>2. AllocatorTypes'
  BY <1>1 DEF AllocatorInv, AllocatorTypes
<1>3. \A u \in Users \ {t} : /\ CallIsWhole(u)
                             /\ call[u].block # NULL => /\ call[u].block # call[t].block
                                                        /\ call[u].block # b
                                                        /\ call[u].block \in (buffer \cup behind) \ had
  BY DEF AllocatorInv, BlocksAreHeld
<1>4. \A u \in Users : CallIsWhole(u)'
  BY <1>1, <1>3 DEF CallIsWhole
<1>5. BlocksAreHeld'
  <2>1. had' \subseteq buffer' \cup behind'
    <3>1. call[t].block = NULL \/ call[t].block \notin had
      BY DEF AllocatorInv, BlocksAreHeld
    <3>. QED
      BY <1>1, <3>1 DEF AllocatorInv, AllocatorTypes, AllocatorsAssumption, BlocksAreHeld
  <2>2. ASSUME NEW u \in Users, call'[u].block # NULL
        PROVE  call'[u].block \in (buffer' \cup behind') \ had'
    BY <1>1, <1>3, <2>2
  <2>3. ASSUME NEW c \in (buffer' \cup behind') \ had'
        PROVE  \E u \in Users : call'[u].block = c
    <3>1. c \in (buffer \cup behind) \ had /\ c # call[t].block
      BY <1>1, <2>3
    <3>2. PICK u \in Users : call[u].block = c
      BY <3>1 DEF AllocatorInv, BlocksAreHeld
    <3>. QED
      BY <1>1, <3>1, <3>2
  <2>4. \A u, v \in Users : call'[u].block # NULL /\ u # v => call'[u].block # call'[v].block
    BY <1>1 DEF AllocatorInv, BlocksAreHeld
  <2>. QED
    BY <2>1, <2>2, <2>3, <2>4, Zenon DEF BlocksAreHeld
<1>6. RoomIsLeft'
  <2>1. Asking' = Asking \ {t} /\ (t \in Asking <=> call[t].op \in {"allocate", "reallocate"})
    BY <1>1 DEF Asking
  <2>2. Cardinality(Asking') = IF call[t].op \in {"allocate", "reallocate"} THEN Cardinality(Asking) - 1 ELSE Cardinality(Asking)
    BY <2>1, AllFinite, FS_RemoveElement DEF AllocatorInv
  <2>3. /\ IsFiniteSet(buffer \cup behind) /\ Cardinality(buffer \cup behind) \in Nat /\ Cardinality(Asking) \in Nat
        /\ Cardinality(Blocks) \in Nat
    BY AllFinite DEF AllocatorInv
  <2> DEFINE rest == (buffer \cup behind) \ {call[t].block}
  <2>4. IsFiniteSet(rest) /\ Cardinality(rest) \in Nat /\ Cardinality(rest) <= Cardinality(buffer \cup behind)
    <3>1. rest \in SUBSET (buffer \cup behind)
      OBVIOUS
    <3>. QED
      BY <2>3, <3>1, FS_Subset, FS_CardinalityType
  <2> DEFINE used1 == Cardinality(buffer \cup behind)
             used2 == Cardinality(buffer' \cup behind')
             asks1 == Cardinality(Asking)
             asks2 == Cardinality(Asking')
  <2>5. used2 + asks2 <= used1 + asks1
    <3>1. CASE b = NULL
      <4>1. buffer' \cup behind' = rest
        BY <3>1
      <4>2. used2 \in Nat /\ used2 <= used1
        BY <2>4, <4>1, Zenon
      <4>3. used1 \in Nat /\ asks1 \in Nat /\ (asks2 = asks1 \/ asks2 = asks1 - 1)
        BY <2>2, <2>3, Zenon
      <4>. HIDE DEF used1, used2, asks1, asks2
      <4>. QED
        BY <4>2, <4>3
    <3>2. CASE b # NULL
      <4>1. buffer' \cup behind' = rest \cup {b}
        BY <3>2
      <4>2. Cardinality(rest \cup {b}) = Cardinality(rest) \/ Cardinality(rest \cup {b}) = Cardinality(rest) + 1
        BY <2>4, FS_AddElement, Zenon
      <4>3. used2 = Cardinality(rest) \/ used2 = Cardinality(rest) + 1
        BY <4>1, <4>2, Zenon
      <4>4. used1 \in Nat /\ asks1 \in Nat /\ asks2 = asks1 - 1
        BY <2>2, <2>3, <3>2
      <4>. HIDE DEF used1, used2, asks1, asks2, rest
      <4>. QED
        BY <2>4, <4>3, <4>4 DEF used1
    <3>. QED
      BY <3>1, <3>2
  <2>6. Cardinality(Blocks) >= used1 + asks1 /\ Cardinality(Blocks) \in Nat /\ used1 \in Nat /\ asks1 \in Nat
    BY <2>3 DEF AllocatorInv, RoomIsLeft
  <2>7. used2 \in Nat /\ asks2 \in Nat
    <3>1. buffer' \cup behind' \in SUBSET Blocks /\ Asking' \in SUBSET Users
      BY DEF Asking
    <3>2. IsFiniteSet(buffer' \cup behind') /\ IsFiniteSet(Asking')
      BY <3>1, FS_Subset DEF AllocatorsAssumption
    <3>. QED
      BY <3>2, FS_CardinalityType
  <2>. HIDE DEF used1, used2, asks1, asks2
  <2>8. Cardinality(Blocks) >= used2 + asks2
    BY <2>5, <2>6, <2>7
  <2>. QED
    BY <2>8 DEF RoomIsLeft, used2, asks2
<1>7. LockTells'
  OBVIOUS
<1>. QED
  BY ONLY <1>2, <1>4, <1>5, <1>6, <1>7 DEF AllocatorInv

\* The start of a call.
LEMMA CallStarts ==
  ASSUME AllocatorsAssumption, AllocatorInv, NEW t \in Users, NEW kind \in {"allocate", "free", "reallocate"}, NEW b,
         kind = "allocate" <=> b = NULL, b \in had \cup {NULL}, M!Starts(t, kind, b)
  PROVE  AllocatorInv'
<1> DEFINE at == IF locks THEN "locks" ELSE "buffer"
<1>1. /\ call[t] = M!Idle /\ (kind # "free" => M!Spare)
      /\ call' = [call EXCEPT ![t] = [op |-> kind, at |-> at, block |-> b]]
      /\ had' = had \ {b} /\ UNCHANGED <<locks, lock, buffer, behind>>
      /\ locks \/ \A u \in Users : call[u] = M!Idle
  BY DEF M!Starts, M!MayCall
<1>2. /\ call' \in [Users -> Calls]
      /\ \A u \in Users \ {t} : call'[u] = call[u]
      /\ call'[t].op = kind /\ call'[t].at = at /\ call'[t].block = b
  BY <1>1 DEF AllocatorInv, AllocatorTypes, Calls
<1>3. call[t].op = "none" /\ call[t].at = "none" /\ call[t].block = NULL
  BY <1>1 DEF M!Idle
<1>4. AllocatorTypes'
  BY <1>1, <1>2 DEF AllocatorInv, AllocatorTypes
<1>5. \A u \in Users : CallIsWhole(u)'
  BY <1>1, <1>2 DEF AllocatorInv, CallIsWhole
<1>6. LockTells'
  <2>1. CASE locks
    BY <1>1, <1>2, <1>3, <2>1 DEF AllocatorInv, LockTells
  <2>2. CASE ~locks
    BY <1>1, <1>2, <1>3, <2>2 DEF AllocatorInv, LockTells, M!Idle
  <2>. QED
    BY <2>1, <2>2
<1>7. BlocksAreHeld'
  <2>1. \A u \in Users : call[u].block # b \/ b = NULL
    BY DEF AllocatorInv, BlocksAreHeld
  <2>2. had' \subseteq buffer' \cup behind' /\ buffer' \cap behind' = {}
    BY <1>1 DEF AllocatorInv, BlocksAreHeld
  <2>3. \A u \in Users : call'[u].block # NULL => call'[u].block \in (buffer' \cup behind') \ had'
    BY <1>1, <1>2 DEF AllocatorInv, BlocksAreHeld
  <2>4. ASSUME NEW c \in (buffer' \cup behind') \ had'
        PROVE  \E u \in Users : call'[u].block = c
    <3>1. CASE c = b
      BY <1>2, <3>1
    <3>2. CASE c # b
      <4>1. c \in (buffer \cup behind) \ had
        BY <1>1, <2>4, <3>2
      <4>2. PICK u \in Users : call[u].block = c
        BY <4>1 DEF AllocatorInv, BlocksAreHeld
      <4>3. c # NULL
        BY <4>1 DEF AllocatorsAssumption, AllocatorInv, AllocatorTypes
      <4>. QED
        BY <1>2, <1>3, <4>2, <4>3
    <3>. QED
      BY <3>1, <3>2
  <2>5. \A u, v \in Users : call'[u].block # NULL /\ u # v => call'[u].block # call'[v].block
    BY <1>2, <2>1 DEF AllocatorInv, BlocksAreHeld
  <2>. QED
    BY <2>2, <2>3, <2>4, <2>5, Zenon DEF BlocksAreHeld
<1>8. RoomIsLeft'
  <2>1. CASE kind = "free"
    <3>1. Asking' = Asking
      BY <1>2, <1>3, <2>1 DEF Asking
    <3>. QED
      BY <1>1, <3>1 DEF AllocatorInv, RoomIsLeft
  <2>2. CASE kind # "free"
    <3>1. Asking' = Asking \cup {t} /\ t \notin Asking
      BY <1>2, <1>3, <2>2 DEF Asking
    <3>2. Cardinality(Asking') = Cardinality(Asking) + 1
      BY <3>1, AllFinite, FS_AddElement DEF AllocatorInv
    <3>3. Cardinality(Blocks) > Cardinality(buffer \cup behind) + Cardinality(Asking)
      BY <1>1, <2>2, SameNumber DEF M!Spare, Asking
    <3>4. /\ Cardinality(buffer \cup behind) \in Nat /\ Cardinality(Asking) \in Nat /\ Cardinality(Blocks) \in Nat
          /\ Cardinality(buffer) <= BufferRoom
      BY AllFinite DEF AllocatorInv, RoomIsLeft
    <3>. QED
      BY <1>1, <3>2, <3>3, <3>4 DEF RoomIsLeft
  <2>. QED
    BY <2>1, <2>2
<1>. QED
  BY <1>4, <1>5, <1>6, <1>7, <1>8 DEF AllocatorInv

LEMMA AllocatorInit == AllocatorsAssumption /\ M!Init => AllocatorInv
<1> SUFFICES ASSUME AllocatorsAssumption, M!Init
             PROVE  AllocatorInv
  OBVIOUS
<1>1. AllocatorTypes /\ LockTells /\ BlocksAreHeld /\ \A t \in Users : CallIsWhole(t)
  BY DEF M!Init, M!Idle, AllocatorsAssumption, AllocatorTypes, Calls, LockTells, BlocksAreHeld, CallIsWhole
<1>2. Asking = {} /\ buffer = {} /\ buffer \cup behind = {}
  BY DEF M!Init, M!Idle, Asking
<1>3. Cardinality({}) = 0 /\ Cardinality(Blocks) \in Nat
  BY <1>1, FS_EmptySet, AllFinite
<1>4. RoomIsLeft
  BY <1>2, <1>3 DEF RoomIsLeft, AllocatorsAssumption
<1>. QED
  BY <1>1, <1>4 DEF AllocatorInv

\* Where the block of a call is that frees or reallocates.
LEMMA CallFindsItsBlock ==
  ASSUME AllocatorInv, NEW t \in Users, NEW kind \in {"free", "reallocate"}, NEW at \in {"buffer", "behind"},
         M!Reaches(t, kind, at)
  PROVE  /\ call[t].op = kind /\ call[t].at = at /\ call[t].block \in M!Has(t, at)
         /\ call[t].block \in Blocks /\ call[t].block \notin had
         /\ at = "behind" => call[t].block \notin buffer
         /\ at = "buffer" => call[t].block \notin behind
BY DEF AllocatorInv, AllocatorTypes, CallIsWhole, BlocksAreHeld, M!Reaches, M!At, M!Has

\* Removing a block from the buffer, and adding one after that, leaves room.
LEMMA BufferHasRoom ==
  ASSUME AllocatorsAssumption, AllocatorInv, NEW b \in buffer, NEW n
  PROVE  /\ Cardinality(buffer \ {b}) <= BufferRoom
         /\ Cardinality((buffer \ {b}) \cup {n}) <= BufferRoom
<1>1. IsFiniteSet(buffer) /\ Cardinality(buffer) \in Nat /\ Cardinality(buffer) <= BufferRoom
  BY AllFinite DEF AllocatorInv, RoomIsLeft
<1>2. IsFiniteSet(buffer \ {b}) /\ Cardinality(buffer \ {b}) = Cardinality(buffer) - 1
  BY <1>1, FS_RemoveElement
<1>3. Cardinality((buffer \ {b}) \cup {n}) = IF n \in buffer \ {b} THEN Cardinality(buffer \ {b}) ELSE Cardinality(buffer \ {b}) + 1
  BY <1>2, FS_AddElement
<1>4. BufferRoom \in Nat
  BY DEF AllocatorsAssumption
<1>5. IsFiniteSet((buffer \ {b}) \cup {n})
  BY <1>2, FS_AddElement
<1>6. Cardinality((buffer \ {b}) \cup {n}) \in Nat
  BY <1>5, FS_CardinalityType
<1>. QED
  BY <1>1, <1>2, <1>3, <1>4, <1>6

LEMMA AllocatorStep == AllocatorsAssumption /\ AllocatorInv /\ [M!Next]_M!vars => AllocatorInv'
<1> SUFFICES ASSUME AllocatorsAssumption, AllocatorInv, [M!Next]_M!vars
             PROVE  AllocatorInv'
  OBVIOUS
<1>1. CASE UNCHANGED M!vars
  <2>1. Asking' = Asking
    BY <1>1 DEF Asking, M!vars
  <2>. QED
    BY <1>1, <2>1 DEF AllocatorInv, AllocatorTypes, CallIsWhole, LockTells, BlocksAreHeld, RoomIsLeft, M!vars
<1>2. ASSUME NEW t \in Users, M!Starts(t, "allocate", NULL)
      PROVE  AllocatorInv'
  BY <1>2, CallStarts
<1>3. ASSUME NEW t \in Users, NEW b \in had, NEW kind \in {"free", "reallocate"}, M!Starts(t, kind, b)
      PROVE  AllocatorInv'
  <2>1. b # NULL
    BY DEF AllocatorsAssumption, AllocatorInv, AllocatorTypes
  <2>. QED
    BY <1>3, <2>1, CallStarts
<1>4. ASSUME NEW t \in Users, M!Locks(t)
      PROVE  AllocatorInv'
  <2>1. call[t].at = "locks" /\ lock = NULL /\ lock' = t /\ M!Goes(t, "buffer") /\ UNCHANGED <<locks, buffer, behind, had>>
    BY <1>4 DEF M!Locks
  <2>2. /\ \A u \in Users \ {t} : call'[u].at = call[u].at
        /\ call'[t].at = "buffer"
    BY <2>1 DEF AllocatorInv, AllocatorTypes, M!Goes, Calls
  <2>3. LockTells'
    BY <2>1, <2>2 DEF AllocatorsAssumption, AllocatorInv, LockTells
  <2>. QED
    BY <2>1, <2>3, CallGoesOn
<1>5. ASSUME NEW t \in Users, M!AllocateInBuffer(t)
      PROVE  AllocatorInv'
  <2> DEFINE n == M!NewBlock
  <2>1. /\ call[t].op = "allocate" /\ call[t].at = "buffer" /\ M!Cardinality(buffer) < BufferRoom
        /\ buffer' = buffer \cup {n} /\ M!Unlocks(t) /\ M!Ends(t, n) /\ UNCHANGED <<locks, behind>>
    BY <1>5 DEF M!AllocateInBuffer, M!At
  <2>2. n \in Blocks \ (buffer \cup behind)
    BY <2>1, NewBlockIsNew
  <2>. HIDE DEF n
  <2>3. call[t].block = NULL /\ NULL \notin Blocks
    BY <2>1 DEF AllocatorsAssumption, AllocatorInv, CallIsWhole
  <2>4. \A u \in Users \ {t} : call'[u] = call[u]
    BY <2>1 DEF AllocatorInv, AllocatorTypes, M!Ends
  <2>5. call'[t].at = "none"
    BY <2>1 DEF AllocatorInv, AllocatorTypes, M!Ends, M!Idle
  <2>6. LockTells' /\ lock' \in Users \cup {NULL}
    BY <2>1, <2>4, <2>5, LockIsLeft
  <2>7. Cardinality(buffer') <= BufferRoom
    <3>1. IsFiniteSet(buffer) /\ Cardinality(buffer) \in Nat /\ Cardinality(buffer) < BufferRoom
      BY <2>1, SameNumber, AllFinite DEF AllocatorInv
    <3>2. Cardinality(buffer \cup {n}) = IF n \in buffer THEN Cardinality(buffer) ELSE Cardinality(buffer) + 1
      BY <3>1, FS_AddElement
    <3>. QED
      BY <2>1, <3>1, <3>2 DEF AllocatorsAssumption
  <2>8. /\ buffer' \subseteq Blocks /\ behind' \subseteq Blocks /\ buffer' \cap behind' = {}
        /\ buffer' \cup behind' = ((buffer \cup behind) \ {call[t].block}) \cup ({n} \ {NULL})
        /\ n \notin had
    BY <2>1, <2>2, <2>3 DEF AllocatorInv, AllocatorTypes, BlocksAreHeld
  <2>9. Leaves(t, n)
    BY <2>1, <2>2, <2>6, <2>7, <2>8 DEF Leaves
  <2>. QED
    BY <2>2, <2>9, EndedWell
<1>6. ASSUME NEW t \in Users, M!NoRoom(t)
      PROVE  AllocatorInv'
  <2>1. call[t].op = "allocate" /\ call[t].at = "buffer" /\ M!Unlocks(t) /\ M!Goes(t, "behind") /\ UNCHANGED <<locks, buffer, behind, had>>
    BY <1>6 DEF M!NoRoom, M!At
  <2>2. (\A u \in Users \ {t} : call'[u] = call[u]) /\ call'[t].at = "behind" /\ call[t].block = NULL
    BY <2>1 DEF AllocatorInv, AllocatorTypes, CallIsWhole, M!Goes, Calls
  <2>3. LockTells' /\ lock' \in Users \cup {NULL}
    BY <2>1, <2>2, LockIsLeft
  <2>. QED
    BY <2>1, <2>2, <2>3, CallGoesOn
<1>7. ASSUME NEW t \in Users, M!AllocateBehind(t)
      PROVE  AllocatorInv'
  <2> DEFINE n == M!NewBlock
  <2>1. call[t].op = "allocate" /\ call[t].at = "behind" /\ UNCHANGED <<locks, lock, buffer>>
    BY <1>7 DEF M!AllocateBehind, M!At
  <2>2. n \in Blocks \ (buffer \cup behind)
    BY <2>1, NewBlockIsNew
  <2>3. call[t].block = NULL /\ NULL \notin Blocks
    BY <2>1 DEF AllocatorsAssumption, AllocatorInv, CallIsWhole
  <2>4. \/ behind' = behind \cup {n} /\ M!Ends(t, n)
        \/ behind' = behind /\ M!Ends(t, NULL)
    BY <1>7 DEF M!AllocateBehind
  <2>. HIDE DEF n
  <2>5. (\A u \in Users \ {t} : call'[u] = call[u]) /\ call'[t].at = "none"
    BY <2>4 DEF AllocatorInv, AllocatorTypes, M!Ends, M!Idle
  <2>6. LockTells' /\ lock' \in Users \cup {NULL}
    BY <2>1, <2>5, LockIsLeft
  <2>7. Cardinality(buffer') <= BufferRoom
    BY <2>1 DEF AllocatorInv, RoomIsLeft
  <2>8. CASE behind' = behind \cup {n} /\ M!Ends(t, n)
    <3>1. /\ buffer' \subseteq Blocks /\ behind' \subseteq Blocks /\ buffer' \cap behind' = {}
          /\ buffer' \cup behind' = ((buffer \cup behind) \ {call[t].block}) \cup ({n} \ {NULL})
          /\ n \notin had
      BY <2>1, <2>2, <2>3, <2>8 DEF AllocatorInv, AllocatorTypes, BlocksAreHeld
    <3>2. Leaves(t, n)
      BY <2>1, <2>2, <2>6, <2>7, <2>8, <3>1 DEF Leaves
    <3>. QED
      BY <2>2, <3>2, EndedWell
  <2>9. CASE behind' = behind /\ M!Ends(t, NULL)
    <3>1. /\ buffer' \subseteq Blocks /\ behind' \subseteq Blocks /\ buffer' \cap behind' = {}
          /\ buffer' \cup behind' = ((buffer \cup behind) \ {call[t].block}) \cup ({NULL} \ {NULL})
          /\ NULL \notin buffer \cup behind
      BY <2>1, <2>3, <2>9 DEF AllocatorInv, AllocatorTypes, BlocksAreHeld
    <3>2. Leaves(t, NULL)
      BY <2>1, <2>6, <2>7, <2>9, <3>1 DEF Leaves
    <3>. QED
      BY <2>2, <3>2, EndedWell
  <2>. QED
    BY <2>4, <2>8, <2>9
<1>8. ASSUME NEW t \in Users, M!NotOurs(t)
      PROVE  AllocatorInv'
  <2>1. /\ call[t].op \in {"free", "reallocate"} /\ call[t].at = "buffer" /\ call[t].block \notin buffer
        /\ M!Unlocks(t) /\ M!Goes(t, "behind") /\ UNCHANGED <<locks, buffer, behind, had>>
    BY <1>8 DEF M!NotOurs
  <2>2. /\ \A u \in Users \ {t} : call'[u] = call[u]
        /\ call'[t].at = "behind"
    BY <2>1 DEF AllocatorInv, AllocatorTypes, M!Goes, Calls
  <2>3. call[t].block \in behind
    BY <2>1 DEF AllocatorInv, CallIsWhole, BlocksAreHeld
  <2>4. LockTells' /\ lock' \in Users \cup {NULL}
    BY <2>1, <2>2, LockIsLeft
  <2>. QED
    BY <2>1, <2>3, <2>4, CallGoesOn
<1>9. ASSUME NEW t \in Users, NEW at \in {"buffer", "behind"}, M!Free(t, at)
      PROVE  AllocatorInv'
  <2>1. /\ M!Reaches(t, "free", at) /\ M!Sets(at, M!Has(t, at) \ {call[t].block})
        /\ M!Unlocks(t) /\ M!Ends(t, NULL) /\ locks' = locks
    BY <1>9 DEF M!Free
  <2>2. /\ call[t].op = "free" /\ call[t].at = at /\ call[t].block \in M!Has(t, at)
        /\ call[t].block \in Blocks /\ call[t].block \notin had
        /\ at = "behind" => call[t].block \notin buffer
        /\ at = "buffer" => call[t].block \notin behind
    BY <2>1, CallFindsItsBlock
  <2>3. (\A u \in Users \ {t} : call'[u] = call[u]) /\ call'[t].at = "none"
    BY <2>1 DEF AllocatorInv, AllocatorTypes, M!Ends, M!Idle
  <2>4. LockTells' /\ lock' \in Users \cup {NULL}
    BY <2>1, <2>2, <2>3, LockIsLeft
  <2>5. /\ buffer' \subseteq Blocks /\ behind' \subseteq Blocks /\ buffer' \cap behind' = {}
        /\ buffer' \cup behind' = ((buffer \cup behind) \ {call[t].block}) \cup ({NULL} \ {NULL})
        /\ NULL \notin buffer \cup behind
        /\ \A c \in behind : c # call[t].block => c \in behind'
    BY <2>1, <2>2 DEF AllocatorsAssumption, AllocatorInv, AllocatorTypes, BlocksAreHeld, M!Sets, M!Has
  <2>6. Cardinality(buffer') <= BufferRoom
    <3>1. buffer' = buffer \/ (call[t].block \in buffer /\ buffer' = buffer \ {call[t].block})
      BY <2>1, <2>2 DEF M!Sets, M!Has
    <3>. QED
      BY <3>1, BufferHasRoom DEF AllocatorInv, RoomIsLeft
  <2>7. Leaves(t, NULL)
    BY <2>1, <2>2, <2>4, <2>5, <2>6 DEF Leaves
  <2>. QED
    BY <2>7, EndedWell
<1>10. ASSUME NEW t \in Users, NEW at \in {"buffer", "behind"}, M!Reallocate(t, at)
       PROVE  AllocatorInv'
  <2> DEFINE n == M!NewBlock
             b == call[t].block
  <2>1. M!Reaches(t, "reallocate", at) /\ M!Unlocks(t) /\ locks' = locks
    BY <1>10 DEF M!Reallocate
  <2>2. \/ M!Sets(at, (M!Has(t, at) \ {b}) \cup {n}) /\ M!Ends(t, n)
        \/ M!Ends(t, b) /\ UNCHANGED <<buffer, behind>>
    BY <1>10 DEF M!Reallocate
  <2>3. /\ call[t].op = "reallocate" /\ call[t].at = at /\ b \in M!Has(t, at)
        /\ b \in Blocks /\ b \notin had
        /\ at = "behind" => b \notin buffer
        /\ at = "buffer" => b \notin behind
    BY <2>1, CallFindsItsBlock
  <2>4. n \in Blocks \ (buffer \cup behind)
    BY <2>3, NewBlockIsNew
  <2>. HIDE DEF n
  <2>5. NULL \notin Blocks /\ n \notin had
    BY <2>4 DEF AllocatorsAssumption, AllocatorInv, BlocksAreHeld
  <2>6. (\A u \in Users \ {t} : call'[u] = call[u]) /\ call'[t].at = "none"
    BY <2>2 DEF AllocatorInv, AllocatorTypes, M!Ends, M!Idle
  <2>7. LockTells' /\ lock' \in Users \cup {NULL}
    BY <2>1, <2>3, <2>6, LockIsLeft
  <2>8. CASE M!Sets(at, (M!Has(t, at) \ {b}) \cup {n}) /\ M!Ends(t, n)
    <3>1. /\ buffer' \subseteq Blocks /\ behind' \subseteq Blocks /\ buffer' \cap behind' = {}
          /\ buffer' \cup behind' = ((buffer \cup behind) \ {b}) \cup ({n} \ {NULL})
          /\ \A c \in behind : c # b => c \in behind'
      BY <2>3, <2>4, <2>5, <2>8 DEF AllocatorInv, AllocatorTypes, BlocksAreHeld, M!Sets, M!Has
    <3>2. Cardinality(buffer') <= BufferRoom
      <4>1. buffer' = buffer \/ (b \in buffer /\ buffer' = (buffer \ {b}) \cup {n})
        BY <2>3, <2>8 DEF M!Sets, M!Has
      <4>. QED
        BY <4>1, BufferHasRoom DEF AllocatorInv, RoomIsLeft
    <3>3. Leaves(t, n)
      BY <2>1, <2>3, <2>4, <2>5, <2>7, <2>8, <3>1, <3>2 DEF Leaves
    <3>. QED
      BY <2>3, <2>4, <3>3, EndedWell
  <2>9. CASE M!Ends(t, b) /\ UNCHANGED <<buffer, behind>>
    <3>1. /\ buffer' \subseteq Blocks /\ behind' \subseteq Blocks /\ buffer' \cap behind' = {}
          /\ buffer' \cup behind' = ((buffer \cup behind) \ {b}) \cup ({b} \ {NULL})
          /\ \A c \in behind : c # b => c \in behind'
      BY <2>3, <2>5, <2>9 DEF AllocatorInv, AllocatorTypes, BlocksAreHeld, M!Has
    <3>2. Cardinality(buffer') <= BufferRoom
      BY <2>9 DEF AllocatorInv, RoomIsLeft
    <3>3. Leaves(t, b)
      BY <2>1, <2>3, <2>7, <2>9, <3>1, <3>2 DEF Leaves
    <3>. QED
      BY <2>3, <2>4, <3>3, EndedWell
  <2>. QED
    BY <2>2, <2>8, <2>9
<1>. QED
  BY <1>1, <1>2, <1>3, <1>4, <1>5, <1>6, <1>7, <1>8, <1>9, <1>10 DEF M!Next

\* What the invariant says is what the allocator promises.
LEMMA AllocatorIsTrue == AllocatorsAssumption /\ UsersAssumption /\ AllocatorInv => M!BlocksHaveOneHome
<1> SUFFICES ASSUME AllocatorsAssumption, UsersAssumption, AllocatorInv
             PROVE  M!BlocksHaveOneHome
  OBVIOUS
<1> DEFINE calling == {t \in Users : call[t].block # NULL}
           inside == {t \in Users : call[t].at = "buffer"}
           held == {call[t].block : t \in calling}
<1>1. IsFiniteSet(calling) /\ IsFiniteSet(inside)
  <2>1. calling \in SUBSET Users /\ inside \in SUBSET Users
    OBVIOUS
  <2>. QED
    BY <2>1, FS_Subset DEF AllocatorsAssumption
<1>2. Cardinality(inside) <= 1
  <2>1. \A t, u \in inside : t = u
    BY DEF AllocatorInv, LockTells
  <2>2. CASE inside = {}
    <3>1. Cardinality({}) = 0
      BY FS_EmptySet
    <3>. HIDE DEF inside
    <3>. QED
      BY <2>2, <3>1
  <2>3. CASE inside # {}
    <3>1. PICK t \in inside : TRUE
      BY <2>3
    <3>2. inside = {t}
      BY <2>1, <3>1
    <3>3. Cardinality({t}) = 1
      BY FS_Singleton
    <3>. HIDE DEF inside
    <3>. QED
      BY <3>2, <3>3
  <2>. QED
    BY <2>2, <2>3
<1>3. lock # NULL => call[lock].at = "buffer"
  BY DEF AllocatorInv, AllocatorTypes, LockTells
<1>4. buffer \cap behind = {} /\ Cardinality(buffer) <= BufferRoom
  BY DEF AllocatorInv, BlocksAreHeld, RoomIsLeft
<1>5. buffer \cup behind = had \cup held /\ had \cap held = {}
  <2>1. NULL \notin buffer \cup behind
    BY DEF AllocatorInv, AllocatorTypes, AllocatorsAssumption
  <2>2. \A b : b \in held <=> \E t \in Users : call[t].block # NULL /\ call[t].block = b
    OBVIOUS
  <2>. HIDE DEF held
  <2>. QED
    BY <2>1, <2>2 DEF AllocatorInv, BlocksAreHeld
<1>6. IsFiniteSet(held) /\ Cardinality(held) = Cardinality(calling)
  <2> DEFINE f == [t \in calling |-> call[t].block]
  <2>1. f \in Bijection(calling, held)
    <3>1. f \in [calling -> held]
      BY Zenon
    <3>2. \A t, u \in calling : f[t] = f[u] => t = u
      BY DEF AllocatorInv, BlocksAreHeld
    <3>3. \A b \in held : \E t \in calling : f[t] = b
      BY Zenon
    <3>. QED
      BY <3>1, <3>2, <3>3, Zenon DEF Bijection, Injection, Surjection, IsInjective
  <2>2. ExistsBijection(calling, held)
    BY <2>1 DEF ExistsBijection
  <2>. QED
    BY <1>1, <2>2, FS_Bijection
<1>7. Cardinality(buffer \cup behind) = Cardinality(had) + Cardinality(calling)
  <2>1. had \in SUBSET Blocks /\ IsFiniteSet(Blocks)
    BY DEF AllocatorInv, AllocatorTypes, AllocatorsAssumption
  <2>2. IsFiniteSet(had)
    BY <2>1, FS_Subset
  <2>3. Cardinality(had) \in Nat /\ Cardinality(held) \in Nat
    BY <1>6, <2>2, FS_CardinalityType
  <2>4. Cardinality(had \cup held) = Cardinality(had) + Cardinality(held) - Cardinality(had \cap held)
    BY <1>6, <2>2, FS_Union
  <2>5. Cardinality(had \cap held) = 0
    BY <1>5, FS_EmptySet, Zenon
  <2>6. Cardinality(had \cup held) = Cardinality(had) + Cardinality(held)
    <3>. HIDE DEF held
    <3>. QED
      BY <2>3, <2>4, <2>5
  <2>. QED
    BY <1>5, <1>6, <2>6, Zenon
<1>. HIDE DEF held, calling, inside
<1>8. /\ M!Cardinality(inside) <= 1 /\ M!Cardinality(buffer) <= BufferRoom
      /\ M!Cardinality(buffer \cup behind) = M!Cardinality(had) + M!Cardinality(calling)
  BY <1>2, <1>4, <1>7, SameNumber
<1>. QED
  BY <1>3, <1>4, <1>5, <1>8, Zenon DEF M!BlocksHaveOneHome, held, calling, inside

-----------------------------------------------------------------------------
(* The two together                                                         *)

\* Guard, ReadGuard and LockedAllocator: whatever threads do with them, each
\* has the lock as often as its guards say, and every block has one home.
THEOREM LocksStayKept == MCSpec => []LocksAreKept
<1> USE UsersAssumption, AllocatorsAssumption
<1>1. MCInit => GuardInv /\ AllocatorInv
  BY GuardInit, AllocatorInit DEF MCInit
<1>2. GuardInv /\ AllocatorInv /\ [MCNext]_<<used, vars, ringVars, guardVars, allocatorVars, loggerVars, atomicVars, tlsVars>>
        => GuardInv' /\ AllocatorInv'
  <2>1. [MCNext]_<<used, vars, ringVars, guardVars, allocatorVars, loggerVars, atomicVars, tlsVars>> => [G!Next]_G!vars
    BY DEF MCNext, guardVars, G!vars
  <2>2. [MCNext]_<<used, vars, ringVars, guardVars, allocatorVars, loggerVars, atomicVars, tlsVars>> => [M!Next]_M!vars
    BY DEF MCNext, allocatorVars, M!vars
  <2>. QED
    BY <2>1, <2>2, GuardStep, AllocatorStep
<1>3. GuardInv /\ AllocatorInv => LocksAreKept
  BY GuardsAreTrue, AllocatorIsTrue DEF LocksAreKept
<1>. QED
  BY <1>1, <1>2, <1>3, PTL DEF MCSpec

-----------------------------------------------------------------------------
(* Queue                                                                    *)

\* A ring that has no array yet, or both ends inside its array.
RingOK(r) ==
  \/ r = Ring!NewRing
  \/ /\ r = [cap |-> r.cap, data |-> r.data, front |-> r.front, back |-> r.back]
     /\ r.cap \in Nat /\ r.cap >= 2 /\ r.front \in 0 .. r.cap - 1 /\ r.back \in 0 .. r.cap - 1
     /\ r.data = [p \in 0 .. r.cap - 1 |-> r.data[p]]

\* The place p is between the ends, which may be to both sides of them.
Between(r, p) == IF r.front <= r.back THEN r.front <= p /\ p < r.back ELSE r.front <= p \/ p < r.back

\* There are objects between the ends and nowhere else.
Live(r) == \A p \in 0 .. r.cap - 1 : r.data[p] = Raw <=> ~Between(r, p)

\* The values of a ring: those of another and, where there is one more, v.
SameValues(r, s) == Ring!Size(r) = Ring!Size(s) /\ \A i \in 1 .. Ring!Size(s) : Ring!Contents(r)[i] = Ring!Contents(s)[i]
OneMoreValue(r, s, v) ==
  /\ Ring!Size(r) = Ring!Size(s) + 1
  /\ \A i \in 1 .. Ring!Size(s) : Ring!Contents(r)[i] = Ring!Contents(s)[i]
  /\ Ring!Contents(r)[Ring!Size(r)] = v

\* The remainders that a ring takes are of sums below twice its capacity.
LEMMA Remainder ==
  ASSUME NEW c \in Nat \ {0}, NEW n \in 0 .. 2 * c - 1
  PROVE  n % c = IF n < c THEN n ELSE n - c
BY SMT

\* The place after another.
LEMMA NextPlace ==
  ASSUME NEW c \in Nat, c >= 2, NEW p \in 0 .. c - 1
  PROVE  (p + 1) % c = (IF p + 1 = c THEN 0 ELSE p + 1) /\ (p + 1) % c \in 0 .. c - 1
<1> DEFINE sum == p + 1
<1>1. c \in Nat \ {0} /\ sum \in 0 .. 2 * c - 1
  OBVIOUS
<1>. HIDE DEF sum
<1>2. sum % c = IF sum < c THEN sum ELSE sum - c
  BY <1>1, Remainder
<1>. QED
  BY <1>2 DEF sum

\* How many values there are.
LEMMA RingSize ==
  ASSUME NEW r, RingOK(r)
  PROVE  /\ Ring!Size(r) \in Nat
         /\ r.cap = 0 => r = Ring!NewRing /\ Ring!Size(r) = 0
         /\ r.cap # 0 => Ring!Size(r) = (IF r.front <= r.back THEN r.back - r.front ELSE r.cap - r.front + r.back)
                         /\ Ring!Size(r) < r.cap
<1>1. CASE r = Ring!NewRing
  BY <1>1 DEF Ring!NewRing, Ring!Size
<1>2. CASE r # Ring!NewRing
  <2>1. r.cap \in Nat /\ r.cap >= 2 /\ r.front \in 0 .. r.cap - 1 /\ r.back \in 0 .. r.cap - 1
    BY <1>2 DEF RingOK
  <2>2. r.cap - r.front + r.back \in 0 .. 2 * r.cap - 1
    BY <2>1
  <2>3. Ring!Size(r) = (r.cap - r.front + r.back) % r.cap
    BY <2>1 DEF Ring!Size
  <2> DEFINE sum == r.cap - r.front + r.back
  <2>4. r.cap \in Nat \ {0} /\ sum \in 0 .. 2 * r.cap - 1
    BY <2>1, <2>2
  <2>5. sum % r.cap = IF sum < r.cap THEN sum ELSE sum - r.cap
    BY <2>4, Remainder, Zenon
  <2>6. Ring!Size(r) = IF sum < r.cap THEN sum ELSE sum - r.cap
    BY <2>3, <2>5, Zenon
  <2>. QED
    BY <2>1, <2>6
<1>. QED
  BY <1>1, <1>2

\* Where they are.
LEMMA RingPlaces ==
  ASSUME NEW r, RingOK(r), r.cap # 0, NEW i \in 0 .. Ring!Size(r) - 1
  PROVE  /\ Ring!At(r, i) = IF r.front + i < r.cap THEN r.front + i ELSE r.front + i - r.cap
         /\ Ring!At(r, i) \in 0 .. r.cap - 1 /\ Between(r, Ring!At(r, i))
         /\ Ring!Contents(r)[i + 1] = r.data[Ring!At(r, i)]
<1>1. r.cap \in Nat /\ r.cap >= 2 /\ r.front \in 0 .. r.cap - 1 /\ r.back \in 0 .. r.cap - 1
  BY DEF RingOK, Ring!NewRing
<1>2. r.front + i \in 0 .. 2 * r.cap - 1
  BY <1>1, RingSize
<1>3. Ring!At(r, i) = IF r.front + i < r.cap THEN r.front + i ELSE r.front + i - r.cap
  <2> DEFINE sum == r.front + i
  <2>1. r.cap \in Nat \ {0} /\ sum \in 0 .. 2 * r.cap - 1 /\ Ring!At(r, i) = sum % r.cap
    BY <1>1, <1>2 DEF Ring!At
  <2>. HIDE DEF sum
  <2>2. Ring!At(r, i) = IF sum < r.cap THEN sum ELSE sum - r.cap
    BY <2>1, Remainder
  <2>. QED
    BY <1>1, <2>2, RingSize DEF sum
<1>4. Ring!At(r, i) \in 0 .. r.cap - 1 /\ Between(r, Ring!At(r, i))
  BY <1>1, <1>3, RingSize DEF Between
<1>5. i + 1 \in 1 .. Ring!Size(r) /\ (i + 1) - 1 = i
  BY RingSize
<1>. QED
  BY <1>3, <1>4, <1>5 DEF Ring!Contents

\* And the other way round: every place between the ends is that of a value.
LEMMA RingPlacesAll ==
  ASSUME NEW r, RingOK(r), r.cap # 0, NEW p \in 0 .. r.cap - 1, Between(r, p)
  PROVE  \E i \in 0 .. Ring!Size(r) - 1 : Ring!At(r, i) = p
<1> DEFINE i == IF r.front <= p THEN p - r.front ELSE p - r.front + r.cap
<1>1. r.cap \in Nat /\ r.cap >= 2 /\ r.front \in 0 .. r.cap - 1 /\ r.back \in 0 .. r.cap - 1
  BY DEF RingOK, Ring!NewRing
<1>2. i \in 0 .. Ring!Size(r) - 1
  BY <1>1, RingSize DEF Between
<1>3. Ring!At(r, i) = IF r.front + i < r.cap THEN r.front + i ELSE r.front + i - r.cap
  BY <1>2, RingPlaces
<1>4. Ring!At(r, i) = p
  BY <1>1, <1>3
<1>. QED
  BY <1>2, <1>4

\* The values as a sequence.
LEMMA ContentsIsSequence ==
  ASSUME NEW r, RingOK(r)
  PROVE  /\ Ring!Contents(r) \in Seq({Ring!Contents(r)[i] : i \in 1 .. Ring!Size(r)})
         /\ Len(Ring!Contents(r)) = Ring!Size(r)
<1> DEFINE n == Ring!Size(r)
           U == {Ring!Contents(r)[i] : i \in 1 .. n}
<1>1. n \in Nat
  BY RingSize
<1>2. Ring!Contents(r) \in [1 .. n -> U]
  BY DEF Ring!Contents
<1>. HIDE DEF n, U
<1>3. Ring!Contents(r) \in Seq(U) /\ Len(Ring!Contents(r)) = n
  BY <1>1, <1>2
<1>. QED
  BY <1>3 DEF n, U

\* A ring with an array, and its parts.
LEMMA RingParts ==
  ASSUME NEW r, RingOK(r), r.cap # 0
  PROVE  /\ r = [cap |-> r.cap, data |-> r.data, front |-> r.front, back |-> r.back]
         /\ r.cap \in Nat /\ r.cap >= 2 /\ r.front \in 0 .. r.cap - 1 /\ r.back \in 0 .. r.cap - 1
         /\ r.data = [p \in 0 .. r.cap - 1 |-> r.data[p]]
BY DEF RingOK, Ring!NewRing

\* What is put at the back.
LEMMA PutPlaces ==
  ASSUME NEW r, RingOK(r), r.cap # 0, NEW v
  PROVE  /\ RingOK(Ring!Put(r, v))
         /\ Ring!Put(r, v).cap = r.cap /\ Ring!Put(r, v).front = r.front
         /\ Ring!Put(r, v).back = IF r.back + 1 = r.cap THEN 0 ELSE r.back + 1
         /\ \A p \in 0 .. r.cap - 1 : Ring!Put(r, v).data[p] = IF p = r.back THEN v ELSE r.data[p]
<1> DEFINE s == Ring!Put(r, v)
           end == IF r.back + 1 = r.cap THEN 0 ELSE r.back + 1
           d == [r.data EXCEPT ![r.back] = v]
<1>1. /\ r = [cap |-> r.cap, data |-> r.data, front |-> r.front, back |-> r.back]
      /\ r.cap \in Nat /\ r.cap >= 2 /\ r.front \in 0 .. r.cap - 1 /\ r.back \in 0 .. r.cap - 1
      /\ r.data = [p \in 0 .. r.cap - 1 |-> r.data[p]]
  BY RingParts
<1>2. (r.back + 1) % r.cap = end /\ end \in 0 .. r.cap - 1
  BY <1>1, NextPlace
<1>3. s = [r EXCEPT !.data = d, !.back = end]
  BY <1>2, Zenon DEF Ring!Put
<1>4. d = [p \in 0 .. r.cap - 1 |-> IF p = r.back THEN v ELSE r.data[p]]
  BY <1>1
<1>. HIDE DEF s, d, end
<1>5. s = [cap |-> r.cap, data |-> d, front |-> r.front, back |-> end]
  BY <1>1, <1>3
<1>6. s.cap = r.cap /\ s.front = r.front /\ s.back = end /\ s.data = d
  BY <1>5
<1>7. d = [p \in 0 .. r.cap - 1 |-> d[p]] /\ \A p \in 0 .. r.cap - 1 : d[p] = IF p = r.back THEN v ELSE r.data[p]
  BY <1>4
<1>8. RingOK(s)
  BY <1>1, <1>2, <1>5, <1>6, <1>7 DEF RingOK
<1>. QED
  BY <1>6, <1>7, <1>8 DEF s, end

\* A value is put where there is room.
LEMMA PutAppends ==
  ASSUME NEW r, RingOK(r), r.cap # 0, Ring!Size(r) < r.cap - 1, NEW v
  PROVE  /\ OneMoreValue(Ring!Put(r, v), r, v)
         /\ Live(r) /\ v # Raw => Live(Ring!Put(r, v))
<1> DEFINE s == Ring!Put(r, v)
           end == IF r.back + 1 = r.cap THEN 0 ELSE r.back + 1
<1>1. r.cap \in Nat /\ r.cap >= 2 /\ r.front \in 0 .. r.cap - 1 /\ r.back \in 0 .. r.cap - 1
  BY RingParts
<1>2. /\ s.cap = r.cap /\ s.front = r.front /\ s.back = end /\ end \in 0 .. r.cap - 1
      /\ \A p \in 0 .. r.cap - 1 : s.data[p] = IF p = r.back THEN v ELSE r.data[p]
  BY <1>1, PutPlaces
<1>3. RingOK(s)
  BY PutPlaces
<1>. HIDE DEF s
<1>4. Ring!Size(s) = Ring!Size(r) + 1
  <2>1. /\ Ring!Size(s) = (IF s.front <= s.back THEN s.back - s.front ELSE s.cap - s.front + s.back)
        /\ Ring!Size(r) = (IF r.front <= r.back THEN r.back - r.front ELSE r.cap - r.front + r.back)
    BY <1>1, <1>2, <1>3, RingSize
  <2>2. CASE r.back + 1 = r.cap
    <3>1. s.back = 0
      BY <1>2, <2>2
    <3>. QED
      BY <1>1, <1>2, <2>1, <2>2, <3>1
  <2>3. CASE r.back + 1 # r.cap
    <3>1. s.back = r.back + 1
      BY <1>2, <2>3
    <3>. QED
      BY <1>1, <1>2, <2>1, <2>3, <3>1
  <2>. QED
    BY <2>2, <2>3
<1>5. ASSUME NEW i \in 0 .. Ring!Size(r)
      PROVE  Ring!Contents(s)[i + 1] = IF i = Ring!Size(r) THEN v ELSE Ring!Contents(r)[i + 1]
  <2>1. Ring!Size(r) \in Nat /\ i \in 0 .. Ring!Size(s) - 1
    BY <1>4, RingSize
  <2>2. /\ Ring!At(s, i) = IF s.front + i < s.cap THEN s.front + i ELSE s.front + i - s.cap
        /\ Ring!At(s, i) \in 0 .. s.cap - 1 /\ Ring!Contents(s)[i + 1] = s.data[Ring!At(s, i)]
    BY <1>1, <1>2, <1>3, <2>1, RingPlaces
  <2>3. CASE i = Ring!Size(r)
    <3>1. Ring!At(s, i) = r.back
      BY <1>1, <1>2, <2>2, <2>3, RingSize
    <3>. QED
      BY <1>2, <2>2, <2>3, <3>1
  <2>4. CASE i # Ring!Size(r)
    <3>1. i \in 0 .. Ring!Size(r) - 1
      BY <2>1, <2>4
    <3>2. /\ Ring!At(r, i) = IF r.front + i < r.cap THEN r.front + i ELSE r.front + i - r.cap
          /\ Between(r, Ring!At(r, i)) /\ Ring!Contents(r)[i + 1] = r.data[Ring!At(r, i)]
      BY <3>1, RingPlaces
    <3>3. Ring!At(s, i) = Ring!At(r, i)
      BY <1>2, <2>2, <3>2
    <3>4. Ring!At(r, i) # r.back
      BY <1>1, <3>2, RingSize DEF Between
    <3>. QED
      BY <1>2, <2>2, <2>4, <3>2, <3>3, <3>4
  <2>. QED
    BY <2>3, <2>4
<1>6. OneMoreValue(s, r, v)
  <2>1. Ring!Size(r) \in Nat
    BY RingSize
  <2>2. Ring!Contents(s)[Ring!Size(s)] = v
    BY <1>4, <1>5, <2>1
  <2>3. ASSUME NEW i \in 1 .. Ring!Size(r)
        PROVE  Ring!Contents(s)[i] = Ring!Contents(r)[i]
    <3>1. i - 1 \in 0 .. Ring!Size(r) /\ i - 1 # Ring!Size(r) /\ (i - 1) + 1 = i
      BY <2>1
    <3>2. Ring!Contents(s)[(i - 1) + 1] = Ring!Contents(r)[(i - 1) + 1]
      BY <1>5, <3>1
    <3>. QED
      BY <3>1, <3>2
  <2>. QED
    BY <1>4, <2>2, <2>3 DEF OneMoreValue
<1>7. ASSUME Live(r), v # Raw
       PROVE  Live(s)
  <2>1. \A p \in 0 .. r.cap - 1 : Between(s, p) <=> Between(r, p) \/ p = r.back
    BY <1>1, <1>2, RingSize DEF Between
  <2>. QED
    BY <1>1, <1>2, <1>7, <2>1 DEF Live
<1>. QED
  BY <1>6, <1>7 DEF s

\* The objects of a full ring move to the start of a longer one.
LEMMA ObjectsAreMoved ==
  ASSUME RingAssumption, NEW r, RingOK(r), Ring!NeedsGrowth(r)
  PROVE  /\ RingOK(Ring!GrownObjects(r)) /\ SameValues(Ring!GrownObjects(r), r)
         /\ Ring!GrownObjects(r).cap # 0 /\ Ring!Size(Ring!GrownObjects(r)) < Ring!GrownObjects(r).cap - 1
         /\ Live(r) => Live(Ring!GrownObjects(r))
<1> DEFINE s == Ring!GrownObjects(r)
           n == Ring!Size(r)
           c == Ring!NewSize(r)
<1>1. n \in Nat /\ c \in Nat /\ c >= 2 /\ n < c - 1 /\ n <= r.cap /\ r.cap \in Nat
  <2>1. CASE r.cap = 0
    BY <2>1, RingSize DEF Ring!NewSize, RingAssumption
  <2>2. CASE r.cap # 0
    <3>1. r.cap \in Nat /\ r.cap >= 2
      BY <2>2 DEF RingOK, Ring!NewRing
    <3>. QED
      BY <2>2, <3>1, RingSize DEF Ring!NewSize, Ring!NeedsGrowth
  <2>. QED
    BY <2>1, <2>2
<1>2. /\ s = [cap |-> s.cap, data |-> s.data, front |-> s.front, back |-> s.back]
      /\ s.cap = c /\ s.front = 0 /\ s.back = n
      /\ s.data = [p \in 0 .. c - 1 |-> IF p < n THEN Ring!Contents(r)[p + 1] ELSE Raw]
  BY DEF Ring!GrownObjects
<1>. HIDE DEF s, n, c
<1>3. RingOK(s)
  BY <1>1, <1>2 DEF RingOK
<1>4. Ring!Size(s) = n /\ s.cap # 0
  BY <1>1, <1>2, <1>3, RingSize
<1>5. ASSUME NEW i \in 1 .. n
      PROVE  Ring!Contents(s)[i] = Ring!Contents(r)[i]
  <2>1. i - 1 \in 0 .. n - 1 /\ (i - 1) + 1 = i /\ i - 1 \in 0 .. c - 1
    BY <1>1
  <2>2. Ring!At(s, i - 1) = i - 1 /\ Ring!Contents(s)[(i - 1) + 1] = s.data[Ring!At(s, i - 1)]
    BY <1>1, <1>2, <1>3, <1>4, <2>1, RingPlaces
  <2>3. s.data[i - 1] = Ring!Contents(r)[(i - 1) + 1]
    BY <1>1, <1>2, <2>1
  <2>. QED
    BY <2>1, <2>2, <2>3
<1>6. SameValues(s, r)
  BY <1>4, <1>5 DEF SameValues, n
<1>7. ASSUME Live(r)
      PROVE  Live(s)
  <2>1. ASSUME NEW p \in 0 .. n - 1
        PROVE  Ring!Contents(r)[p + 1] # Raw
    <3>1. r.cap # 0 /\ p \in 0 .. Ring!Size(r) - 1
      BY <1>1 DEF n
    <3>2. Ring!Contents(r)[p + 1] = r.data[Ring!At(r, p)] /\ Ring!At(r, p) \in 0 .. r.cap - 1 /\ Between(r, Ring!At(r, p))
      BY <3>1, RingPlaces
    <3>. QED
      BY <1>7, <3>2 DEF Live
  <2>2. ASSUME NEW p \in 0 .. c - 1
        PROVE  s.data[p] = Raw <=> ~(p < n)
    BY <1>1, <1>2, <2>1
  <2>3. \A p \in 0 .. c - 1 : Between(s, p) <=> p < n
    BY <1>1, <1>2 DEF Between
  <2>. QED
    BY <1>2, <2>2, <2>3 DEF Live
<1>. QED
  BY <1>1, <1>2, <1>3, <1>4, <1>6, <1>7 DEF s

\* The bytes and the ends of plain data stay where they are.
LEMMA PlainPlaces ==
  ASSUME RingAssumption, NEW r, RingOK(r)
  PROVE  /\ RingOK(Ring!GrownPlain(r)) /\ Ring!GrownPlain(r).cap = Ring!NewSize(r) /\ Ring!NewSize(r) \in Nat /\ Ring!NewSize(r) >= 2
         /\ Ring!GrownPlain(r).front = r.front /\ Ring!GrownPlain(r).back = r.back
         /\ \A p \in 0 .. r.cap - 1 : Ring!GrownPlain(r).data[p] = r.data[p]
<1> DEFINE s == Ring!GrownPlain(r)
           c == Ring!NewSize(r)
           d == [p \in 0 .. c - 1 |-> IF p < r.cap THEN r.data[p] ELSE Raw]
<1>1. /\ r = [cap |-> r.cap, data |-> r.data, front |-> r.front, back |-> r.back]
      /\ r.cap \in Nat /\ c \in Nat /\ c >= 2 /\ r.cap <= c
      /\ r.front \in 0 .. c - 1 /\ r.back \in 0 .. c - 1
  <2>1. CASE r.cap = 0
    <3>1. r = Ring!NewRing
      BY <2>1 DEF RingOK
    <3>. QED
      BY <2>1, <3>1 DEF Ring!NewSize, RingAssumption, Ring!NewRing
  <2>2. CASE r.cap # 0
    <3>1. /\ r = [cap |-> r.cap, data |-> r.data, front |-> r.front, back |-> r.back]
          /\ r.cap \in Nat /\ r.cap >= 2 /\ r.front \in 0 .. r.cap - 1 /\ r.back \in 0 .. r.cap - 1
      BY <2>2, RingParts
    <3>2. c = 2 * r.cap
      BY <2>2 DEF Ring!NewSize
    <3>. HIDE DEF c
    <3>. QED
      BY <3>1, <3>2
  <2>. QED
    BY <2>1, <2>2
<1>2. s = [r EXCEPT !.cap = c, !.data = d]
  BY DEF Ring!GrownPlain
<1>3. d = [p \in 0 .. c - 1 |-> d[p]] /\ \A p \in 0 .. r.cap - 1 : d[p] = r.data[p]
  BY <1>1
<1>. HIDE DEF s, c, d
<1>4. s.cap = c /\ s.front = r.front /\ s.back = r.back /\ s.data = d /\ s = [cap |-> s.cap, data |-> s.data, front |-> s.front, back |-> s.back]
  BY <1>1, <1>2
<1>5. RingOK(s)
  BY <1>1, <1>3, <1>4 DEF RingOK
<1>. QED
  BY <1>1, <1>3, <1>4, <1>5 DEF s, c

\* Plain data that is not wrapped is the same in a longer array.
LEMMA PlainDataStays ==
  ASSUME RingAssumption, NEW r, RingOK(r), Ring!NeedsGrowth(r), r.cap = 0 \/ r.front = 0
  PROVE  /\ SameValues(Ring!GrownPlain(r), r)
         /\ Ring!Size(Ring!GrownPlain(r)) < Ring!GrownPlain(r).cap - 1
<1> DEFINE s == Ring!GrownPlain(r)
           n == Ring!Size(r)
           c == Ring!NewSize(r)
<1>1. n \in Nat /\ c \in Nat /\ c >= 2 /\ n < c - 1 /\ n <= r.cap /\ r.cap \in Nat /\ r.front = 0 /\ r.back = n
  <2>1. CASE r.cap = 0
    BY <2>1, RingSize DEF Ring!NewSize, RingAssumption, Ring!NewRing
  <2>2. CASE r.cap # 0
    <3>1. r.cap \in Nat /\ r.cap >= 2 /\ r.front = 0 /\ r.back \in 0 .. r.cap - 1
      BY <2>2, RingParts
    <3>. QED
      BY <2>2, <3>1, RingSize DEF Ring!NewSize, Ring!NeedsGrowth
  <2>. QED
    BY <2>1, <2>2
<1>2. RingOK(s) /\ s.cap = c /\ s.front = 0 /\ s.back = n /\ \A p \in 0 .. r.cap - 1 : s.data[p] = r.data[p]
  BY <1>1, PlainPlaces
<1>. HIDE DEF s, n, c
<1>3. Ring!Size(s) = n /\ s.cap # 0
  BY <1>1, <1>2, RingSize
<1>4. ASSUME NEW i \in 1 .. n
      PROVE  Ring!Contents(s)[i] = Ring!Contents(r)[i]
  <2>1. i - 1 \in 0 .. n - 1 /\ (i - 1) + 1 = i /\ i - 1 \in 0 .. c - 1 /\ i - 1 < r.cap /\ r.cap # 0
    BY <1>1
  <2>2. Ring!At(s, i - 1) = i - 1 /\ Ring!Contents(s)[(i - 1) + 1] = s.data[Ring!At(s, i - 1)]
    BY <1>1, <1>2, <1>3, <2>1, RingPlaces
  <2>3. Ring!At(r, i - 1) = i - 1 /\ Ring!Contents(r)[(i - 1) + 1] = r.data[Ring!At(r, i - 1)]
    BY <1>1, <2>1, RingPlaces DEF n
  <2>4. s.data[i - 1] = r.data[i - 1]
    BY <1>1, <1>2, <2>1
  <2>. QED
    BY <2>1, <2>2, <2>3, <2>4
<1>5. SameValues(s, r)
  BY <1>3, <1>4 DEF SameValues, n
<1>. QED
  BY <1>1, <1>2, <1>3, <1>5 DEF s

\* A value is pushed, unless a wrapped ring of plain data grows for it; that
\* ring is still one.
LEMMA PushedAppends ==
  ASSUME RingAssumption, pod \in BOOLEAN, NEW r, RingOK(r), NEW v
  PROVE  /\ RingOK(Ring!Pushed(r, v)) /\ Ring!Pushed(r, v).cap # 0
         /\ ~(pod /\ r.cap # 0 /\ Ring!NeedsGrowth(r) /\ r.front # 0) => OneMoreValue(Ring!Pushed(r, v), r, v)
         /\ ~pod /\ Live(r) /\ v # Raw => Live(Ring!Pushed(r, v))
<1>1. CASE ~Ring!NeedsGrowth(r)
  <2>1. Ring!Pushed(r, v) = Ring!Put(r, v)
    BY <1>1 DEF Ring!Pushed
  <2>2. r.cap # 0 /\ Ring!Size(r) # r.cap - 1
    BY <1>1 DEF Ring!NeedsGrowth
  <2>3. Ring!Size(r) < r.cap - 1
    <3>1. r.cap \in Nat /\ Ring!Size(r) \in Nat /\ Ring!Size(r) < r.cap
      BY <2>2, RingSize, RingParts
    <3>. QED
      BY <2>2, <3>1
  <2>. QED
    BY <2>1, <2>2, <2>3, PutPlaces, PutAppends
<1>2. CASE Ring!NeedsGrowth(r) /\ ~pod
  <2> DEFINE g == Ring!GrownObjects(r)
  <2>1. Ring!Pushed(r, v) = Ring!Put(g, v)
    BY <1>2 DEF Ring!Pushed, Ring!Grown
  <2>2. RingOK(g) /\ SameValues(g, r) /\ g.cap # 0 /\ Ring!Size(g) < g.cap - 1 /\ (Live(r) => Live(g))
    BY <1>2, ObjectsAreMoved
  <2>. HIDE DEF g
  <2>3. RingOK(Ring!Put(g, v)) /\ Ring!Put(g, v).cap # 0 /\ OneMoreValue(Ring!Put(g, v), g, v)
    BY <2>2, PutPlaces, PutAppends
  <2>4. Live(r) /\ v # Raw => Live(Ring!Put(g, v))
    BY <2>2, PutAppends
  <2>5. OneMoreValue(Ring!Put(g, v), r, v)
    BY <2>2, <2>3 DEF OneMoreValue, SameValues
  <2>. QED
    BY <2>1, <2>3, <2>4, <2>5
<1>3. CASE Ring!NeedsGrowth(r) /\ pod
  <2> DEFINE g == Ring!GrownPlain(r)
  <2>1. Ring!Pushed(r, v) = Ring!Put(g, v)
    BY <1>3 DEF Ring!Pushed, Ring!Grown
  <2>2. RingOK(g) /\ g.cap # 0
    BY PlainPlaces
  <2>3. r.cap = 0 \/ r.front = 0 => SameValues(g, r) /\ Ring!Size(g) < g.cap - 1
    BY <1>3, PlainDataStays
  <2>. HIDE DEF g
  <2>4. RingOK(Ring!Put(g, v)) /\ Ring!Put(g, v).cap # 0
    BY <2>2, PutPlaces
  <2>5. ASSUME r.cap = 0 \/ r.front = 0
        PROVE  OneMoreValue(Ring!Put(g, v), r, v)
    <3>1. OneMoreValue(Ring!Put(g, v), g, v)
      BY <2>2, <2>3, <2>5, PutAppends
    <3>. QED
      BY <2>3, <2>5, <3>1 DEF OneMoreValue, SameValues
  <2>. QED
    BY <1>3, <2>1, <2>4, <2>5
<1>. QED
  BY <1>1, <1>2, <1>3

\* What has been vacated: nothing of plain data, the given places of objects.
LEMMA VacatedPlaces ==
  ASSUME pod \in BOOLEAN, NEW r, RingOK(r), r.cap # 0, NEW places
  PROVE  /\ Ring!Vacated(r, places) = [p \in 0 .. r.cap - 1 |-> Ring!Vacated(r, places)[p]]
         /\ \A p \in 0 .. r.cap - 1 :
              Ring!Vacated(r, places)[p] = IF ~pod /\ p \in places THEN Raw ELSE r.data[p]
<1>1. r.data = [p \in 0 .. r.cap - 1 |-> r.data[p]]
  BY RingParts
<1>2. DOMAIN r.data = 0 .. r.cap - 1
  BY <1>1
<1>3. CASE pod
  BY <1>1, <1>3 DEF Ring!Vacated
<1>4. CASE ~pod
  BY <1>2, <1>4 DEF Ring!Vacated
<1>. QED
  BY <1>3, <1>4

\* The first value leaves.
Popped(r) == [r EXCEPT !.data = Ring!Vacated(r, {r.front}), !.front = (@ + 1) % r.cap]

LEMMA PopTakesFirst ==
  ASSUME pod \in BOOLEAN, NEW r, RingOK(r), r.front # r.back
  PROVE  /\ RingOK(Popped(r))
         /\ Ring!Size(r) = Ring!Size(Popped(r)) + 1
         /\ \A i \in 1 .. Ring!Size(Popped(r)) : Ring!Contents(Popped(r))[i] = Ring!Contents(r)[i + 1]
         /\ ~pod /\ Live(r) => Live(Popped(r))
<1> DEFINE s == Popped(r)
           start == IF r.front + 1 = r.cap THEN 0 ELSE r.front + 1
           d == Ring!Vacated(r, {r.front})
<1>1. r.cap # 0
  BY DEF RingOK, Ring!NewRing
<1>2. /\ r = [cap |-> r.cap, data |-> r.data, front |-> r.front, back |-> r.back]
      /\ r.cap \in Nat /\ r.cap >= 2 /\ r.front \in 0 .. r.cap - 1 /\ r.back \in 0 .. r.cap - 1
  BY <1>1, RingParts
<1>3. (r.front + 1) % r.cap = start /\ start \in 0 .. r.cap - 1
  BY <1>2, NextPlace
<1>4. s = [r EXCEPT !.data = d, !.front = start]
  <2>1. s = [r EXCEPT !.data = d, !.front = (r.front + 1) % r.cap]
    BY <1>2 DEF Popped
  <2>. QED
    BY <1>3, <2>1, Zenon
<1>5. /\ d = [p \in 0 .. r.cap - 1 |-> d[p]]
      /\ \A p \in 0 .. r.cap - 1 : d[p] = IF ~pod /\ p \in {r.front} THEN Raw ELSE r.data[p]
  <2> DEFINE places == {r.front}
  <2>. HIDE DEF places
  <2>1. /\ Ring!Vacated(r, places) = [p \in 0 .. r.cap - 1 |-> Ring!Vacated(r, places)[p]]
        /\ \A p \in 0 .. r.cap - 1 : Ring!Vacated(r, places)[p] = IF ~pod /\ p \in places THEN Raw ELSE r.data[p]
    BY <1>1, VacatedPlaces
  <2>. QED
    BY <2>1, Zenon DEF places
<1>. HIDE DEF s, d
<1>6. /\ s = [cap |-> r.cap, data |-> d, front |-> start, back |-> r.back]
      /\ s.cap = r.cap /\ s.data = d /\ s.front = start /\ s.back = r.back
  <2>. HIDE DEF start
  <2>. QED
    BY <1>2, <1>4
<1>7. RingOK(s)
  <2>. HIDE DEF start
  <2>. QED
    BY <1>2, <1>3, <1>5, <1>6 DEF RingOK
<1>8. Ring!Size(r) = Ring!Size(s) + 1
  <2>1. /\ Ring!Size(s) = (IF s.front <= s.back THEN s.back - s.front ELSE s.cap - s.front + s.back)
        /\ Ring!Size(r) = (IF r.front <= r.back THEN r.back - r.front ELSE r.cap - r.front + r.back)
    BY <1>1, <1>6, <1>7, RingSize
  <2>2. CASE r.front + 1 = r.cap
    BY <1>2, <1>6, <2>1, <2>2
  <2>3. CASE r.front + 1 # r.cap
    BY <1>2, <1>6, <2>1, <2>3
  <2>. QED
    BY <2>2, <2>3
<1>9. ASSUME NEW i \in 1 .. Ring!Size(s)
      PROVE  Ring!Contents(s)[i] = Ring!Contents(r)[i + 1]
  <2>1. Ring!Size(s) \in Nat /\ i - 1 \in 0 .. Ring!Size(s) - 1 /\ (i - 1) + 1 = i /\ i \in 1 .. Ring!Size(r) - 1 /\ i \in 0 .. Ring!Size(r) - 1
    BY <1>7, <1>8, RingSize
  <2>2. /\ Ring!At(s, i - 1) = IF s.front + (i - 1) < s.cap THEN s.front + (i - 1) ELSE s.front + (i - 1) - s.cap
        /\ Ring!Contents(s)[(i - 1) + 1] = s.data[Ring!At(s, i - 1)]
    BY <1>1, <1>6, <1>7, <2>1, RingPlaces
  <2>3. /\ Ring!At(r, i) = IF r.front + i < r.cap THEN r.front + i ELSE r.front + i - r.cap
        /\ Ring!At(r, i) \in 0 .. r.cap - 1 /\ Ring!Contents(r)[i + 1] = r.data[Ring!At(r, i)]
    BY <1>1, <2>1, RingPlaces
  <2>4. Ring!Size(r) \in Nat /\ Ring!Size(r) < r.cap
    BY <1>1, RingSize
  <2>5. Ring!At(s, i - 1) = Ring!At(r, i) /\ Ring!At(r, i) # r.front
    <3>1. r.cap \in Nat /\ r.front \in 0 .. r.cap - 1 /\ i \in Nat /\ i >= 1 /\ i < r.cap
      BY <1>2, <2>1, <2>4
    <3>2. CASE r.front + 1 = r.cap
      <4>1. s.front = 0 /\ s.cap = r.cap
        BY <1>6, <3>2
      <4>2. Ring!At(s, i - 1) = i - 1 /\ Ring!At(r, i) = i - 1
        BY <2>2, <2>3, <3>1, <3>2, <4>1
      <4>. QED
        BY <3>1, <3>2, <4>2
    <3>3. CASE r.front + 1 # r.cap
      <4>1. s.front = r.front + 1 /\ s.cap = r.cap
        BY <1>6, <3>3
      <4>2. s.front + (i - 1) = r.front + i
        BY <3>1, <4>1
      <4>3. Ring!At(s, i - 1) = Ring!At(r, i)
        BY <2>2, <2>3, <3>1, <4>1, <4>2
      <4>4. Ring!At(r, i) # r.front
        BY <2>3, <3>1
      <4>. QED
        BY <4>3, <4>4
    <3>. QED
      BY <3>2, <3>3
  <2>. QED
    BY <1>5, <1>6, <2>1, <2>2, <2>3, <2>5
<1>10. ASSUME ~pod, Live(r)
       PROVE  Live(s)
  <2>1. \A p \in 0 .. r.cap - 1 : Between(s, p) <=> Between(r, p) /\ p # r.front
    <3>1. CASE r.front + 1 = r.cap
      BY <1>2, <1>6, <3>1 DEF Between
    <3>2. CASE r.front + 1 # r.cap
      BY <1>2, <1>6, <3>2 DEF Between
    <3>. QED
      BY <3>1, <3>2
  <2>2. ASSUME NEW p \in 0 .. r.cap - 1
        PROVE  s.data[p] = Raw <=> ~Between(s, p)
    BY <1>5, <1>6, <1>10, <2>1, <2>2 DEF Live
  <2>. QED
    BY <1>6, <2>2 DEF Live
<1>. QED
  BY <1>7, <1>8, <1>9, <1>10 DEF s

\* All of them leave.
Cleared(r) ==
  [r EXCEPT !.data = Ring!Vacated(r, {Ring!At(r, i) : i \in 0 .. Ring!Size(r) - 1}), !.front = r.back]

LEMMA ClearLeavesNone ==
  ASSUME pod \in BOOLEAN, NEW r, RingOK(r)
  PROVE  /\ RingOK(Cleared(r)) /\ Ring!Size(Cleared(r)) = 0
         /\ ~pod /\ Live(r) => Live(Cleared(r))
<1> DEFINE s == Cleared(r)
           places == {Ring!At(r, i) : i \in 0 .. Ring!Size(r) - 1}
           d == Ring!Vacated(r, places)
<1>1. CASE r.cap = 0
  <2>1. r = [cap |-> 0, data |-> <<>>, front |-> 0, back |-> 0]
    BY <1>1, RingSize DEF Ring!NewRing
  <2>2. d = <<>>
    <3>1. r.data = <<>>
      BY <2>1
    <3>2. Ring!Vacated(r, places) = IF pod THEN <<>> ELSE [p \in DOMAIN <<>> |-> IF p \in places THEN Raw ELSE <<>>[p]]
      BY <3>1 DEF Ring!Vacated
    <3>3. [p \in DOMAIN <<>> |-> IF p \in places THEN Raw ELSE <<>>[p]] = <<>>
      <4>. HIDE DEF places
      <4>. QED
        OBVIOUS
    <3>. QED
      BY <3>2, <3>3
  <2>3. s = [r EXCEPT !.data = d, !.front = r.back]
    BY DEF Cleared
  <2>. HIDE DEF s, d
  <2>4. s = Ring!NewRing
    BY <2>1, <2>2, <2>3 DEF Ring!NewRing
  <2>5. RingOK(s) /\ s.cap = 0
    BY <2>4 DEF RingOK, Ring!NewRing
  <2>6. Ring!Size(s) = 0
    BY <2>5, RingSize
  <2>. QED
    BY <2>5, <2>6 DEF Live, s
<1>2. CASE r.cap # 0
  <2>1. /\ r = [cap |-> r.cap, data |-> r.data, front |-> r.front, back |-> r.back]
        /\ r.cap \in Nat /\ r.cap >= 2 /\ r.front \in 0 .. r.cap - 1 /\ r.back \in 0 .. r.cap - 1
    BY <1>2, RingParts
  <2>. HIDE DEF places
  <2>2. /\ d = [p \in 0 .. r.cap - 1 |-> d[p]]
        /\ \A p \in 0 .. r.cap - 1 : d[p] = IF ~pod /\ p \in places THEN Raw ELSE r.data[p]
    BY <1>2, VacatedPlaces
  <2>3. s = [r EXCEPT !.data = d, !.front = r.back]
    BY DEF Cleared, places
  <2>. HIDE DEF s, d
  <2>4. /\ s = [cap |-> r.cap, data |-> d, front |-> r.back, back |-> r.back]
        /\ s.cap = r.cap /\ s.data = d /\ s.front = r.back /\ s.back = r.back
    BY <2>1, <2>3
  <2>5. RingOK(s)
    BY <2>1, <2>2, <2>4 DEF RingOK
  <2>6. Ring!Size(s) = 0
    BY <1>2, <2>1, <2>4, <2>5, RingSize
  <2>7. ASSUME ~pod, Live(r)
        PROVE  Live(s)
    <3>1. \A p \in 0 .. r.cap - 1 : ~Between(s, p)
      BY <2>1, <2>4 DEF Between
    <3>2. ASSUME NEW p \in 0 .. r.cap - 1
          PROVE  s.data[p] = Raw
      <4>1. CASE p \in places
        BY <2>2, <2>4, <2>7, <4>1
      <4>2. CASE p \notin places
        <5>1. ~Between(r, p)
          BY <1>2, <4>2, RingPlacesAll DEF places
        <5>. QED
          BY <2>2, <2>4, <2>7, <4>2, <5>1 DEF Live
      <4>. QED
        BY <4>1, <4>2
    <3>. QED
      BY <2>4, <3>1, <3>2 DEF Live
  <2>. QED
    BY <2>5, <2>6, <2>7 DEF s
<1>. QED
  BY <1>1, <1>2

\* A set of naturals has a least member.
LEMMA LeastOf ==
  ASSUME NEW S, S \subseteq Nat, S # {}
  PROVE  \E m \in S : \A k \in S : m <= k
<1> DEFINE R == OpToRel(<, Nat)
<1>1. IsWellFoundedOn(R, Nat)
  BY NatLessThanWellFounded
<1>2. \A x, y \in Nat : x < y => <<x, y>> \in R
  BY DEF OpToRel
<1>. HIDE DEF R
<1>3. PICK m \in S : \A k \in S : ~ (<<k, m>> \in R)
  BY <1>1, WFMin
<1>4. ASSUME NEW k \in S
      PROVE  m <= k
  <2>1. ~ (k < m)
    BY <1>2, <1>3
  <2>. QED
    BY <2>1
<1>. QED
  BY <1>4

\* The rings that values are pushed to, one after the other.
Fills(fill, s, n) ==
  fill = [k \in 0 .. n |-> IF k = 0 THEN Ring!NewRing ELSE Ring!Pushed(fill[k - 1], s[k])]

\* There are such rings for any number of values ...
LEMMA FillExists ==
  ASSUME NEW s, NEW n \in Nat
  PROVE  \E fill : Fills(fill, s, n)
<1> DEFINE Without == {m \in Nat : ~ \E fill : Fills(fill, s, m)}
<1>1. ASSUME Without # {}
      PROVE  FALSE
  <2>1. PICK m \in Without : \A k \in Without : m <= k
    BY <1>1, LeastOf
  <2>2. CASE m = 0
    <3> DEFINE f == [k \in 0 .. 0 |-> Ring!NewRing]
    <3>1. Fills(f, s, 0)
      BY DEF Fills
    <3>. QED
      BY <2>1, <2>2, <3>1
  <2>3. CASE m # 0
    <3>1. m \in Nat /\ m - 1 \in Nat /\ m - 1 \notin Without
      BY <2>1, <2>3
    <3>2. PICK f : Fills(f, s, m - 1)
      BY <3>1
    <3> DEFINE g == [k \in 0 .. m |-> IF k < m THEN f[k] ELSE Ring!Pushed(f[m - 1], s[m])]
    <3>3. ASSUME NEW k \in 0 .. m
          PROVE  g[k] = IF k = 0 THEN Ring!NewRing ELSE Ring!Pushed(g[k - 1], s[k])
      <4>1. CASE k = m
        BY <2>3, <3>1, <4>1
      <4>2. CASE k # m
        <5>1. k \in 0 .. m - 1 /\ (k = 0 \/ k - 1 \in 0 .. m - 1)
          BY <3>1, <4>2
        <5>2. f[k] = IF k = 0 THEN Ring!NewRing ELSE Ring!Pushed(f[k - 1], s[k])
          BY <3>2, <5>1 DEF Fills
        <5>3. g[k] = f[k] /\ (k = 0 \/ g[k - 1] = f[k - 1])
          BY <3>1, <5>1
        <5>. QED
          BY <5>2, <5>3
      <4>. QED
        BY <4>1, <4>2
    <3>4. g = [k \in 0 .. m |-> g[k]]
      OBVIOUS
    <3>. HIDE DEF g
    <3>5. Fills(g, s, m)
      BY <3>3, <3>4 DEF Fills
    <3>. QED
      BY <2>1, <3>5
  <2>. QED
    BY <2>2, <2>3
<1>. QED
  BY <1>1

\* ... and a copy is the last of them.
LEMMA FilledIsLast ==
  ASSUME NEW s, Len(s) \in Nat
  PROVE  \E fill : Fills(fill, s, Len(s)) /\ Ring!Filled(s) = fill[Len(s)]
<1> DEFINE f == CHOOSE fill : Fills(fill, s, Len(s))
<1>1. Fills(f, s, Len(s))
  BY FillExists
<1>2. Ring!Filled(s) = f[Len(s)]
  BY DEF Ring!Filled, Fills
<1>. QED
  BY <1>1, <1>2

\* The values of a ring of objects, pushed to a new one, make the same queue.
LEMMA CopyIsSame ==
  ASSUME RingAssumption, pod = FALSE, NEW r, RingOK(r), Live(r)
  PROVE  LET copy == Ring!Filled(Ring!Contents(r))
         IN  RingOK(copy) /\ Live(copy) /\ SameValues(copy, r)
<1> DEFINE s == Ring!Contents(r)
           n == Ring!Size(r)
           Good(q, k) == RingOK(q) /\ Live(q) /\ Ring!Size(q) = k /\ \A i \in 1 .. k : Ring!Contents(q)[i] = s[i]
<1>1. n \in Nat /\ Len(s) = n
  BY RingSize, ContentsIsSequence
<1>2. ASSUME NEW i \in 1 .. n
      PROVE  s[i] # Raw
  <2>1. r.cap # 0 /\ i - 1 \in 0 .. n - 1 /\ (i - 1) + 1 = i
    BY <1>1, RingSize
  <2>2. /\ Ring!At(r, i - 1) \in 0 .. r.cap - 1 /\ Between(r, Ring!At(r, i - 1))
        /\ s[(i - 1) + 1] = r.data[Ring!At(r, i - 1)]
    BY <2>1, RingPlaces
  <2>. QED
    BY <2>1, <2>2 DEF Live
<1>3. PICK f : Fills(f, s, n) /\ Ring!Filled(s) = f[n]
  BY <1>1, FilledIsLast
<1> DEFINE Bad == {k \in 0 .. n : ~Good(f[k], k)}
<1>4. ASSUME Bad # {}
      PROVE  FALSE
  <2>1. Bad \subseteq Nat
    BY <1>1
  <2>. HIDE DEF Good, s, n
  <2>2. PICK k \in Bad : \A j \in Bad : k <= j
    BY <1>4, <2>1, LeastOf
  <2>3. k \in 0 .. n /\ ~Good(f[k], k)
    OBVIOUS
  <2>4. CASE k = 0
    <3>1. f[k] = Ring!NewRing
      BY <1>3, <2>3, <2>4 DEF Fills
    <3>2. RingOK(f[k]) /\ f[k].cap = 0
      BY <3>1 DEF RingOK, Ring!NewRing
    <3>3. Live(f[k]) /\ Ring!Size(f[k]) = 0
      BY <3>2, RingSize DEF Live
    <3>. QED
      BY <2>3, <2>4, <3>2, <3>3 DEF Good
  <2>5. CASE k # 0
    <3>1. k \in Nat /\ k - 1 \in 0 .. n /\ k - 1 \notin Bad /\ k \in 1 .. n /\ (k - 1) + 1 = k
      BY <1>1, <2>2, <2>3, <2>5
    <3>2. Good(f[k - 1], k - 1)
      BY <3>1
    <3>3. f[k] = Ring!Pushed(f[k - 1], s[k])
      BY <1>3, <2>3, <2>5 DEF Fills
    <3>4. s[k] # Raw
      BY <1>2, <3>1
    <3>5. RingOK(f[k - 1]) /\ Live(f[k - 1])
      BY <3>2 DEF Good
    <3>6. RingOK(f[k]) /\ Live(f[k]) /\ OneMoreValue(f[k], f[k - 1], s[k])
      BY <3>3, <3>4, <3>5, PushedAppends
    <3>7. Ring!Size(f[k]) = k /\ Ring!Contents(f[k])[k] = s[k]
      BY <3>1, <3>2, <3>6 DEF Good, OneMoreValue
    <3>8. \A i \in 1 .. k - 1 : Ring!Contents(f[k])[i] = s[i]
      BY <3>1, <3>2, <3>6 DEF Good, OneMoreValue
    <3>9. \A i \in 1 .. k : i = k \/ i \in 1 .. k - 1
      BY <3>1
    <3>. QED
      BY <2>3, <3>6, <3>7, <3>8, <3>9 DEF Good
  <2>. QED
    BY <2>4, <2>5
<1>5. Good(f[n], n)
  BY <1>1, <1>4
<1>. QED
  BY <1>3, <1>5 DEF SameValues

\* Outside the values there are no objects, as the property says it.
LEMMA LiveOutside ==
  ASSUME NEW r, RingOK(r), Live(r)
  PROVE  \A p \in 0 .. r.cap - 1 :
           r.data[p] = Raw <=> p \notin {Ring!At(r, i) : i \in 0 .. Len(Ring!Contents(r)) - 1}
<1>1. Len(Ring!Contents(r)) = Ring!Size(r)
  BY ContentsIsSequence
<1>2. ASSUME NEW p \in 0 .. r.cap - 1
      PROVE  Between(r, p) <=> p \in {Ring!At(r, i) : i \in 0 .. Ring!Size(r) - 1}
  <2>1. r.cap # 0
    BY RingParts
  <2>2. \A i \in 0 .. Ring!Size(r) - 1 : Between(r, Ring!At(r, i))
    BY <2>1, RingPlaces
  <2>3. Between(r, p) => \E i \in 0 .. Ring!Size(r) - 1 : Ring!At(r, i) = p
    BY <2>1, RingPlacesAll
  <2>. QED
    BY <2>2, <2>3
<1>. QED
  BY <1>1, <1>2 DEF Live

\* What the steps do to the sequence of values.
LEMMA AsSequences ==
  ASSUME NEW r, RingOK(r), NEW q, RingOK(q)
  PROVE  /\ SameValues(q, r) => Ring!Contents(q) = Ring!Contents(r)
         /\ Ring!Size(q) = 0 => Ring!Contents(q) = <<>>
         /\ \A v : OneMoreValue(q, r, v) =>
              /\ Len(Ring!Contents(q)) = Len(Ring!Contents(r)) + 1
              /\ SubSeq(Ring!Contents(q), 1, Len(Ring!Contents(r))) = Ring!Contents(r)
         /\ /\ Ring!Size(r) = Ring!Size(q) + 1
            /\ \A i \in 1 .. Ring!Size(q) : Ring!Contents(q)[i] = Ring!Contents(r)[i + 1]
            => Ring!Contents(r) # <<>> /\ Ring!Contents(q) = Tail(Ring!Contents(r))
<1> DEFINE a == Ring!Contents(r)
           b == Ring!Contents(q)
           U == {a[i] : i \in 1 .. Ring!Size(r)} \cup {b[i] : i \in 1 .. Ring!Size(q)}
<1>1. /\ a \in Seq(U) /\ Len(a) = Ring!Size(r) /\ Ring!Size(r) \in Nat
      /\ b \in Seq(U) /\ Len(b) = Ring!Size(q) /\ Ring!Size(q) \in Nat
  <2>1. a \in [1 .. Ring!Size(r) -> U] /\ b \in [1 .. Ring!Size(q) -> U]
    BY DEF Ring!Contents
  <2>2. Ring!Size(r) \in Nat /\ Ring!Size(q) \in Nat
    BY RingSize
  <2>. HIDE DEF a, b, U
  <2>. QED
    BY <2>1, <2>2
<1>. HIDE DEF a, b, U
<1>2. ASSUME SameValues(q, r)
      PROVE  b = a
  <2>1. Len(b) = Len(a) /\ \A i \in 1 .. Len(a) : b[i] = a[i]
    BY <1>1, <1>2 DEF SameValues, a, b
  <2>. QED
    BY <1>1, <2>1
<1>3. ASSUME Ring!Size(q) = 0
      PROVE  b = <<>>
  BY <1>1, <1>3
<1>4. ASSUME NEW v, OneMoreValue(q, r, v)
      PROVE  Len(b) = Len(a) + 1 /\ SubSeq(b, 1, Len(a)) = a
  <2>1. Len(b) = Len(a) + 1 /\ \A i \in 1 .. Len(a) : b[i] = a[i]
    BY <1>1, <1>4 DEF OneMoreValue, a, b
  <2>. QED
    BY <1>1, <2>1
<1>5. ASSUME Ring!Size(r) = Ring!Size(q) + 1, \A i \in 1 .. Ring!Size(q) : b[i] = a[i + 1]
      PROVE  a # <<>> /\ b = Tail(a)
  <2>1. Len(a) = Len(b) + 1 /\ \A i \in 1 .. Len(b) : b[i] = a[i + 1]
    BY <1>1, <1>5
  <2>2. a # <<>>
    BY <1>1, <2>1
  <2>3. Tail(a) \in Seq(U) /\ Len(Tail(a)) = Len(b) /\ \A i \in 1 .. Len(b) : Tail(a)[i] = a[i + 1]
    BY <1>1, <2>1, <2>2
  <2>. QED
    BY <1>1, <2>1, <2>2, <2>3
<1>. QED
  BY <1>2, <1>3, <1>4, <1>5 DEF a, b

\* The ring is one, torn only if of plain data; other data has its objects
\* exactly between the ends.
RingInv ==
  /\ pod \in BOOLEAN /\ torn \in BOOLEAN
  /\ torn => pod
  /\ RingOK(ring)
  /\ ~pod => Live(ring)

FifoStep ==
  \/ Ring!Contents(ring') \in {Ring!Contents(ring), <<>>}
  \/ Ring!Contents(ring) # <<>> /\ Ring!Contents(ring') = Tail(Ring!Contents(ring))
  \/ /\ Len(Ring!Contents(ring')) = Len(Ring!Contents(ring)) + 1
     /\ SubSeq(Ring!Contents(ring'), 1, Len(Ring!Contents(ring))) = Ring!Contents(ring)

\* A step keeps the ring, and, while it is not torn, is one of a queue.
LEMMA RingStep ==
  ASSUME RingAssumption, RingInv, Ring!Next \/ UNCHANGED Ring!vars
  PROVE  RingInv' /\ (~torn' => FifoStep)
<1>1. pod \in BOOLEAN /\ torn \in BOOLEAN /\ (torn => pod) /\ RingOK(ring) /\ (~pod => Live(ring))
  BY DEF RingInv
<1>2. ASSUME NEW v \in Items, Ring!Push(v)
      PROVE  RingInv' /\ (~torn' => FifoStep)
  <2>1. /\ ring' = Ring!Pushed(ring, v) /\ pod' = pod
        /\ torn' = (torn \/ (pod /\ ring.cap # 0 /\ Ring!NeedsGrowth(ring) /\ ring.front # 0))
    BY <1>2 DEF Ring!Push
  <2>2. v # Raw
    BY DEF RingAssumption
  <2>3. RingOK(ring') /\ (~pod => Live(ring'))
    BY <1>1, <2>1, <2>2, PushedAppends
  <2>4. ~torn' => OneMoreValue(ring', ring, v)
    BY <1>1, <2>1, PushedAppends
  <2>5. ~torn' => FifoStep
    BY <1>1, <2>3, <2>4, AsSequences DEF FifoStep
  <2>6. torn' \in BOOLEAN /\ (torn' => pod)
    BY <1>1, <2>1, Zenon
  <2>. QED
    BY <1>1, <2>1, <2>3, <2>5, <2>6 DEF RingInv
<1>3. ASSUME Ring!Pop
      PROVE  RingInv' /\ (~torn' => FifoStep)
  <2>1. ring' = Popped(ring) /\ ring.front # ring.back /\ pod' = pod /\ torn' = torn
    BY <1>3 DEF Ring!Pop, Popped
  <2>2. /\ RingOK(ring') /\ Ring!Size(ring) = Ring!Size(ring') + 1
        /\ \A i \in 1 .. Ring!Size(ring') : Ring!Contents(ring')[i] = Ring!Contents(ring)[i + 1]
        /\ ~pod => Live(ring')
    BY <1>1, <2>1, PopTakesFirst
  <2>3. FifoStep
    BY <1>1, <2>2, AsSequences DEF FifoStep
  <2>. QED
    BY <1>1, <2>1, <2>2, <2>3 DEF RingInv
<1>4. ASSUME Ring!Clear
      PROVE  RingInv' /\ (~torn' => FifoStep)
  <2>1. ring' = Cleared(ring) /\ pod' = pod /\ torn' = torn
    BY <1>4 DEF Ring!Clear, Cleared
  <2>2. RingOK(ring') /\ Ring!Size(ring') = 0 /\ (~pod => Live(ring'))
    BY <1>1, <2>1, ClearLeavesNone
  <2>3. FifoStep
    BY <1>1, <2>2, AsSequences DEF FifoStep
  <2>. QED
    BY <1>1, <2>1, <2>2, <2>3 DEF RingInv
<1>5. ASSUME Ring!AssignCopy
      PROVE  RingInv' /\ (~torn' => FifoStep)
  <2>1. ring' = Ring!Filled(Ring!Contents(ring)) /\ pod = FALSE /\ pod' = pod /\ torn' = torn
    BY <1>1, <1>5 DEF Ring!AssignCopy
  <2>2. RingOK(ring') /\ Live(ring') /\ SameValues(ring', ring)
    BY <1>1, <2>1, CopyIsSame
  <2>3. FifoStep
    BY <1>1, <2>2, AsSequences DEF FifoStep
  <2>. QED
    BY <1>1, <2>1, <2>2, <2>3 DEF RingInv
<1>6. ASSUME UNCHANGED Ring!vars
      PROVE  RingInv' /\ (~torn' => FifoStep)
  <2>1. ring' = ring /\ pod' = pod /\ torn' = torn
    BY <1>6 DEF Ring!vars
  <2>. QED
    BY <2>1 DEF RingInv, FifoStep
<1>. QED
  BY <1>2, <1>3, <1>4, <1>5, <1>6 DEF Ring!Next, Ring!PushFails

\* Queue: however the ring wraps and grows, a step appends one value, takes
\* the first, or empties the queue, and outside it there are no live objects;
\* for plain data only until a ring that is wrapped grows.
THEOREM RingIsFifo == MCSpec => RingActsAsFifo
<1> DEFINE mcVars == <<used, vars, ringVars, guardVars, allocatorVars, loggerVars, atomicVars, tlsVars>>
<1>1. MCInit => RingInv
  <2>. SUFFICES ASSUME MCInit PROVE RingInv
    OBVIOUS
  <2>1. pod \in BOOLEAN /\ ring = Ring!NewRing /\ torn = FALSE
    BY DEF MCInit, Ring!Init
  <2>2. RingOK(ring) /\ ring.cap = 0
    BY <2>1 DEF RingOK, Ring!NewRing
  <2>3. Live(ring)
    BY <2>2 DEF Live
  <2>. QED
    BY <2>1, <2>2, <2>3 DEF RingInv
<1>2. [MCNext]_mcVars => [Ring!Next]_Ring!vars
  BY DEF MCNext, ringVars, Ring!vars
<1>3. RingInv /\ [MCNext]_mcVars => RingInv' /\ (~torn' => FifoStep)
  BY <1>2, RingStep, RingAssumption
<1> DEFINE Act == [~torn' =>
       \E old \in {Ring!Contents(ring)}, new \in {Ring!Contents(ring')} :
         /\ \/ new \in {old, <<>>}
            \/ old # <<>> /\ new = Tail(old)
            \/ Len(new) = Len(old) + 1 /\ SubSeq(new, 1, Len(old)) = old
         /\ \/ pod
            \/ \A p \in 0 .. ring'.cap - 1 :
                 ring'.data[p] = Raw <=> p \notin {Ring!At(ring', i) : i \in 0 .. Len(new) - 1}]_(Ring!vars)
<1>4. RingInv /\ RingInv' /\ (~torn' => FifoStep) /\ [Ring!Next]_Ring!vars => Act
  <2>. SUFFICES ASSUME RingInv, RingInv', ~torn' => FifoStep, ~torn', [Ring!Next]_Ring!vars PROVE
         /\ FifoStep
         /\ pod \/ \A p \in 0 .. ring'.cap - 1 :
                     ring'.data[p] = Raw <=> p \notin {Ring!At(ring', i) : i \in 0 .. Len(Ring!Contents(ring')) - 1}
    BY Zenon DEF FifoStep
  <2>1. pod' = pod
    BY DEF Ring!Next, Ring!Push, Ring!PushFails, Ring!Pop, Ring!Clear, Ring!AssignCopy, Ring!vars
  <2>2. RingOK(ring') /\ (~pod => Live(ring'))
    BY <2>1 DEF RingInv
  <2>. QED
    BY <2>2, LiveOutside
<1>. QED
  BY <1>1, <1>2, <1>3, <1>4, PTL DEF MCSpec, RingActsAsFifo, Ring!ActsAsFifo

-----------------------------------------------------------------------------
(* Logger                                                                   *)

LogFrames ==
  [pos : Nat, inside : BOOLEAN, heard : Seq(Outputs), all : SUBSET Outputs, shifted : BOOLEAN]

NoneTwice(s) == \A i, j \in DOMAIN s : s[i] = s[j] => i = j

LogTypes ==
  /\ owner \in Users \cup {NULL} /\ logDepth \in Nat
  /\ outputs \in Seq(Outputs) /\ NoneTwice(outputs)
  /\ loop \in [Users -> Seq(LogFrames)]

\* One thread logs: the one that has the lock, as often as it has calls.
OneLogs ==
  /\ IF owner = NULL THEN logDepth = 0 ELSE loop[owner] # <<>>
  /\ \A t \in Users : loop[t] # <<>> => owner = t /\ logDepth = Len(loop[t])

\* How many outputs a call has come to.
Reached(f) == IF f.inside THEN f.pos ELSE f.pos - 1

\* A call that no output has been taken from behind has been heard by those
\* that it has come to, and all that it owes the message to are there.
LogIsOn(f, outs) ==
  /\ f.pos <= Len(outs)
  /\ Len(f.heard) = Reached(f) /\ \A j \in 1 .. Reached(f) : f.heard[j] = outs[j]
  /\ \A o \in f.all : \E j \in 1 .. Len(outs) : outs[j] = o
LogIsOver(f) == NoneTwice(f.heard) /\ \A o \in f.all : \E j \in 1 .. Len(f.heard) : f.heard[j] = o

FrameHears(f, outs) ==
  /\ f.pos = 0 => ~f.inside
  /\ f.pos # 0 /\ ~f.inside => f.pos <= Len(outs)
  /\ ~f.shifted => IF f.pos # 0 THEN LogIsOn(f, outs) ELSE LogIsOver(f)

\* Only the innermost call is not inside a callback.
LoggerInv ==
  /\ LogTypes
  /\ OneLogs
  /\ \A t \in Users : \A i \in DOMAIN loop[t] : FrameHears(loop[t][i], outputs) /\ (i > 1 => loop[t][i].inside)

\* An output is connected behind the others.
LEMMA ConnectKeeps ==
  ASSUME NEW f \in LogFrames, NEW outs \in Seq(Outputs), NEW o \in Outputs, FrameHears(f, outs)
  PROVE  FrameHears(f, Append(outs, o))
<1> DEFINE new == Append(outs, o)
<1>1. /\ Len(outs) \in Nat /\ Len(new) = Len(outs) + 1 /\ f.pos \in Nat /\ f.inside \in BOOLEAN
      /\ \A j \in 1 .. Len(outs) : new[j] = outs[j]
  BY DEF LogFrames
<1>. HIDE DEF new
<1>2. ASSUME LogIsOn(f, outs), f.pos # 0
      PROVE  LogIsOn(f, new)
  <2>1. Reached(f) \in 0 .. Len(outs)
    BY <1>1, <1>2 DEF LogIsOn, Reached
  <2>2. \A j \in 1 .. Reached(f) : f.heard[j] = new[j]
    BY <1>1, <1>2, <2>1 DEF LogIsOn
  <2>3. \A p \in f.all : \E j \in 1 .. Len(new) : new[j] = p
    <3>1. \A j \in 1 .. Len(outs) : j \in 1 .. Len(new)
      BY <1>1
    <3>. QED
      BY <1>1, <1>2, <3>1 DEF LogIsOn
  <2>. QED
    BY <1>1, <1>2, <2>2, <2>3 DEF LogIsOn
<1>. QED
  BY <1>1, <1>2 DEF FrameHears, new

\* Two sequences one after the other.
LEMMA Joined ==
  ASSUME NEW S, NEW a \in Seq(S), NEW b \in Seq(S)
  PROVE  /\ Len(a \o b) = Len(a) + Len(b)
         /\ \A j \in 1 .. Len(a) + Len(b) : (a \o b)[j] = IF j <= Len(a) THEN a[j] ELSE b[j - Len(a)]
OBVIOUS

\* One is taken away, and what it was behind is marked.
LEMMA DisconnectKeeps ==
  ASSUME NEW f \in LogFrames, NEW outs \in Seq(Outputs), NEW o \in Outputs, FrameHears(f, outs), f.inside,
         NEW place \in DOMAIN outs, outs[place] = o
  PROVE  FrameHears([f EXCEPT !.all = @ \ {o}, !.shifted = @ \/ place <= f.pos], L!RemoveAt(outs, place))
<1> DEFINE new == L!RemoveAt(outs, place)
           g == [f EXCEPT !.all = @ \ {o}, !.shifted = @ \/ place <= f.pos]
<1>1. /\ Len(outs) \in Nat /\ place \in 1 .. Len(outs) /\ f.pos \in Nat /\ Len(new) = Len(outs) - 1
      /\ \A j \in 1 .. place - 1 : new[j] = outs[j]
      /\ \A j \in place .. Len(outs) - 1 : new[j] = outs[j + 1]
  <2> DEFINE a == SubSeq(outs, 1, place - 1)
             b == SubSeq(outs, place + 1, Len(outs))
  <2>1. Len(outs) \in Nat /\ place \in 1 .. Len(outs) /\ f.pos \in Nat /\ new = a \o b
    BY DEF LogFrames, L!RemoveAt
  <2>2. /\ a \in Seq(Outputs) /\ Len(a) = place - 1 /\ \A j \in 1 .. place - 1 : a[j] = outs[j]
        /\ b \in Seq(Outputs) /\ Len(b) = Len(outs) - place /\ \A j \in 1 .. Len(outs) - place : b[j] = outs[place + j]
    BY <2>1
  <2>. HIDE DEF a, b, new
  <2>3. /\ Len(new) = Len(outs) - 1
        /\ \A j \in 1 .. place - 1 : new[j] = a[j]
        /\ \A j \in place .. Len(outs) - 1 : new[j] = b[j - (place - 1)]
    <3>1. /\ Len(a \o b) = Len(a) + Len(b)
          /\ \A j \in 1 .. Len(a) + Len(b) : (a \o b)[j] = IF j <= Len(a) THEN a[j] ELSE b[j - Len(a)]
      BY <2>2, Joined
    <3>2. /\ Len(new) = (place - 1) + (Len(outs) - place)
          /\ \A j \in 1 .. (place - 1) + (Len(outs) - place) :
               new[j] = IF j <= place - 1 THEN a[j] ELSE b[j - (place - 1)]
      BY <2>1, <2>2, <3>1, Zenon
    <3>3. (place - 1) + (Len(outs) - place) = Len(outs) - 1 /\ Len(outs) \in Nat /\ place \in 1 .. Len(outs)
      BY <2>1
    <3>4. ASSUME NEW j \in 1 .. place - 1
          PROVE  j \in 1 .. Len(outs) - 1 /\ j <= place - 1
      BY <3>3
    <3>5. ASSUME NEW j \in place .. Len(outs) - 1
          PROVE  j \in 1 .. Len(outs) - 1 /\ ~(j <= place - 1)
      BY <3>3
    <3>6. Len(new) = Len(outs) - 1 /\ \A j \in 1 .. Len(outs) - 1 : new[j] = IF j <= place - 1 THEN a[j] ELSE b[j - (place - 1)]
      BY <3>2, <3>3, Zenon
    <3>. QED
      BY <3>4, <3>5, <3>6, Zenon
  <2>4. ASSUME NEW j \in place .. Len(outs) - 1
        PROVE  b[j - (place - 1)] = outs[j + 1]
    <3>1. j - (place - 1) \in 1 .. Len(outs) - place /\ place + (j - (place - 1)) = j + 1
      BY <2>1
    <3>2. b[j - (place - 1)] = outs[place + (j - (place - 1))]
      BY <2>2, <3>1
    <3>. QED
      BY <3>1, <3>2
  <2>. QED
    BY <2>1, <2>2, <2>3, <2>4
<1>2. /\ g.pos = f.pos /\ g.inside = f.inside /\ g.heard = f.heard /\ g.all = f.all \ {o}
      /\ g.shifted = (f.shifted \/ place <= f.pos)
  BY DEF LogFrames
<1>. HIDE DEF new, g
<1>3. f.pos # 0
  BY DEF FrameHears
<1>4. ASSUME ~g.shifted
      PROVE  LogIsOn(g, new)
  <2>1. ~f.shifted /\ f.pos < place
    <3>1. ~f.shifted /\ ~(place <= f.pos)
      BY <1>2, <1>4, Zenon
    <3>. QED
      BY <1>1, <3>1
  <2>2. LogIsOn(f, outs)
    BY <1>3, <2>1 DEF FrameHears
  <2>3. Reached(g) = f.pos /\ Reached(f) = f.pos
    BY <1>2 DEF Reached
  <2>4. Len(g.heard) = f.pos /\ \A j \in 1 .. f.pos : g.heard[j] = outs[j]
    BY <1>2, <2>2, <2>3 DEF LogIsOn
  <2>5. \A j \in 1 .. f.pos : j \in 1 .. place - 1
    BY <1>1, <2>1
  <2>6. ASSUME NEW p \in g.all
        PROVE  \E j \in 1 .. Len(new) : new[j] = p
    <3>1. p # o /\ p \in f.all
      BY <1>2
    <3>2. PICK j \in 1 .. Len(outs) : outs[j] = p
      BY <2>2, <3>1 DEF LogIsOn
    <3>3. j # place
      BY <3>1, <3>2
    <3>4. CASE j < place
      <4>1. j \in 1 .. place - 1 /\ j \in 1 .. Len(new)
        BY <1>1, <3>4
      <4>. QED
        BY <1>1, <3>2, <4>1
    <3>5. CASE j > place
      <4>1. j - 1 \in place .. Len(outs) - 1 /\ j - 1 \in 1 .. Len(new) /\ (j - 1) + 1 = j
        BY <1>1, <3>5
      <4>2. new[j - 1] = outs[(j - 1) + 1]
        BY <1>1, <4>1
      <4>. QED
        BY <3>2, <4>1, <4>2
    <3>. QED
      BY <1>1, <3>3, <3>4, <3>5
  <2>7. f.pos <= Len(new)
    BY <1>1, <2>1
  <2>. QED
    BY <1>1, <1>2, <2>3, <2>4, <2>5, <2>6, <2>7 DEF LogIsOn
<1>. QED
  BY <1>2, <1>3, <1>4 DEF FrameHears, g, new

\* The next output is called.
LEMMA CallIsHeard ==
  ASSUME NEW f \in LogFrames, NEW outs \in Seq(Outputs), FrameHears(f, outs), ~f.inside, f.pos # 0
  PROVE  LET g == [f EXCEPT !.inside = TRUE, !.heard = Append(@, outs[f.pos])]
         IN  g \in LogFrames /\ FrameHears(g, outs) /\ g.inside
<1> DEFINE g == [f EXCEPT !.inside = TRUE, !.heard = Append(@, outs[f.pos])]
<1>1. f.pos \in 1 .. Len(outs) /\ outs[f.pos] \in Outputs /\ f.heard \in Seq(Outputs)
  BY DEF LogFrames, FrameHears
<1>2. /\ g \in LogFrames /\ g.pos = f.pos /\ g.inside = TRUE /\ g.heard = Append(f.heard, outs[f.pos])
      /\ g.all = f.all /\ g.shifted = f.shifted
  <2> DEFINE more == Append(f.heard, outs[f.pos])
             h == [f EXCEPT !.inside = TRUE, !.heard = more]
  <2>1. more \in Seq(Outputs) /\ f.heard \in Seq(Outputs)
    BY <1>1
  <2>2. g = h
    OBVIOUS
  <2>. HIDE DEF more, g
  <2>3. h \in LogFrames /\ h.pos = f.pos /\ h.inside = TRUE /\ h.heard = more /\ h.all = f.all /\ h.shifted = f.shifted
    BY <2>1 DEF LogFrames
  <2>. QED
    BY <2>2, <2>3 DEF more
<1>. HIDE DEF g
<1>3. ASSUME ~f.shifted
      PROVE  LogIsOn(g, outs)
  <2>1. LogIsOn(f, outs)
    BY <1>3 DEF FrameHears
  <2>2. Reached(f) = f.pos - 1 /\ Reached(g) = f.pos
    BY <1>2 DEF Reached
  <2>3. Len(f.heard) = f.pos - 1 /\ \A j \in 1 .. f.pos - 1 : f.heard[j] = outs[j]
    BY <2>1, <2>2 DEF LogIsOn
  <2>4. Len(g.heard) = f.pos /\ \A j \in 1 .. f.pos : g.heard[j] = outs[j]
    BY <1>1, <1>2, <2>3
  <2>. QED
    BY <1>1, <1>2, <2>1, <2>2, <2>4 DEF LogIsOn
<1>. QED
  BY <1>1, <1>2, <1>3 DEF FrameHears, g

\* The output returns: the call goes on to the next, or has come to the end.
LEMMA ReturnIsOver ==
  ASSUME NEW f \in LogFrames, NEW outs \in Seq(Outputs), NoneTwice(outs), FrameHears(f, outs), f.inside
  PROVE  LET g == [f EXCEPT !.inside = FALSE, !.pos = IF @ < Len(outs) THEN @ + 1 ELSE 0]
         IN  g \in LogFrames /\ FrameHears(g, outs)
<1> DEFINE next == IF f.pos < Len(outs) THEN f.pos + 1 ELSE 0
           g == [f EXCEPT !.inside = FALSE, !.pos = IF @ < Len(outs) THEN @ + 1 ELSE 0]
<1>1. f.pos \in Nat /\ Len(outs) \in Nat /\ next \in Nat /\ f.pos # 0
  BY DEF LogFrames, FrameHears
<1>3. /\ g \in LogFrames /\ g.pos = next /\ g.inside = FALSE /\ g.heard = f.heard
      /\ g.all = f.all /\ g.shifted = f.shifted
  <2>1. g.inside = FALSE /\ g.heard = f.heard /\ g.all = f.all /\ g.shifted = f.shifted
    BY DEF LogFrames
  <2>2. g.pos = next
    BY DEF LogFrames
  <2>3. g \in LogFrames
    BY <1>1 DEF LogFrames
  <2>. QED
    BY <2>1, <2>2, <2>3
<1>. HIDE DEF next, g
<1>4. ASSUME ~f.shifted
      PROVE  LogIsOn(f, outs) /\ Reached(f) = f.pos /\ f.pos <= Len(outs) /\ Len(f.heard) = f.pos /\ \A j \in 1 .. f.pos : f.heard[j] = outs[j]
  BY <1>1, <1>4 DEF FrameHears, LogIsOn, Reached
<1>5. ASSUME f.pos < Len(outs)
      PROVE  g \in LogFrames /\ FrameHears(g, outs)
  <2>1. g.pos = f.pos + 1 /\ Reached(g) = f.pos /\ g.pos <= Len(outs) /\ g.pos # 0
    BY <1>1, <1>3, <1>5 DEF next, Reached
  <2>2. ~f.shifted => LogIsOn(g, outs)
    BY <1>1, <1>3, <1>4, <2>1 DEF LogIsOn
  <2>. QED
    BY <1>3, <2>1, <2>2, Zenon DEF FrameHears
<1>6. ASSUME ~(f.pos < Len(outs))
      PROVE  g \in LogFrames /\ FrameHears(g, outs)
  <2>1. g.pos = 0
    BY <1>3, <1>6 DEF next
  <2>2. ASSUME ~f.shifted
        PROVE  LogIsOver(g)
    <3>1. f.pos = Len(outs)
      BY <1>1, <1>4, <1>6, <2>2
    <3>2. Len(g.heard) = Len(outs) /\ \A j \in 1 .. Len(outs) : g.heard[j] = outs[j]
      BY <1>3, <1>4, <2>2, <3>1
    <3>3. g.heard \in Seq(Outputs) /\ DOMAIN g.heard = 1 .. Len(outs) /\ DOMAIN outs = 1 .. Len(outs)
      BY <1>3, <3>2 DEF LogFrames
    <3>4. NoneTwice(g.heard)
      BY <3>2, <3>3 DEF NoneTwice
    <3>5. \A o \in g.all : \E j \in 1 .. Len(g.heard) : g.heard[j] = o
      BY <1>3, <1>4, <2>2, <3>2 DEF LogIsOn
    <3>. QED
      BY <3>4, <3>5 DEF LogIsOver
  <2>. QED
    BY <1>3, <2>1, <2>2, Zenon DEF FrameHears
<1>. QED
  BY <1>5, <1>6 DEF g

\* With the lock in one thread's hands nobody else has a call.
LEMMA OthersAreQuiet ==
  ASSUME OneLogs, NEW t \in Users, owner \in {NULL, t}, NULL \notin Users
  PROVE  \A u \in Users \ {t} : loop[u] = <<>>
BY DEF OneLogs

LEMMA LogStep ==
  ASSUME LoggerInv, UsersAssumption, L!Next \/ UNCHANGED L!vars
  PROVE  LoggerInv'
<1>1. /\ owner \in Users \cup {NULL} /\ logDepth \in Nat /\ outputs \in Seq(Outputs) /\ NoneTwice(outputs)
      /\ loop \in [Users -> Seq(LogFrames)] /\ NULL \notin Users
      /\ \A t \in Users : \A i \in DOMAIN loop[t] : FrameHears(loop[t][i], outputs) /\ (i > 1 => loop[t][i].inside)
  BY DEF LoggerInv, LogTypes, UsersAssumption
<1>2. OneLogs
  BY DEF LoggerInv
<1>3. \A t \in Users : loop[t] \in Seq(LogFrames) /\ Len(loop[t]) \in Nat /\ DOMAIN loop[t] = 1 .. Len(loop[t])
  BY <1>1
\* What an acting thread's own calls are in.
<1>4. ASSUME NEW t \in Users, L!Acts(t)
      PROVE  \A i \in DOMAIN loop[t] : loop[t][i].inside
  <2>1. \A i \in DOMAIN loop[t] : i = 1 \/ i > 1
    BY <1>3
  <2>2. loop[t] # <<>> => loop[t][1].inside
    BY <1>3, <1>4 DEF L!Acts, L!InCallback
  <2>3. loop[t] = <<>> => DOMAIN loop[t] = {}
    OBVIOUS
  <2>. QED
    BY <1>1, <2>1, <2>2, <2>3
<1>5. ASSUME NEW t \in Users, NEW o \in Outputs, L!Connect(t, o)
      PROVE  LoggerInv'
  <2>1. /\ L!Acts(t) /\ owner \in {NULL, t} /\ outputs' = Append(outputs, o) /\ owner' = owner /\ logDepth' = logDepth /\ loop' = loop
        /\ o \notin L!ToSet(outputs)
    BY <1>5 DEF L!Connect, L!MayLock
  <2>2. outputs' \in Seq(Outputs)
    BY <1>1, <2>1
  <2>3. NoneTwice(outputs')
    <3>1. \A i \in DOMAIN outputs : outputs[i] # o
      BY <2>1 DEF L!ToSet
    <3>2. /\ DOMAIN outputs' = 1 .. Len(outputs) + 1 /\ DOMAIN outputs = 1 .. Len(outputs) /\ outputs'[Len(outputs) + 1] = o
          /\ \A i \in 1 .. Len(outputs) : outputs'[i] = outputs[i]
      BY <1>1, <2>1
    <3>3. \A i \in 1 .. Len(outputs) + 1 : i = Len(outputs) + 1 \/ i \in 1 .. Len(outputs)
      BY <1>1
    <3>. QED
      BY <1>1, <3>1, <3>2, <3>3 DEF NoneTwice
  <2>4. \A u \in Users : \A i \in DOMAIN loop[u] : FrameHears(loop[u][i], outputs')
    BY <1>1, <1>3, <2>1, ConnectKeeps
  <2>5. OneLogs'
    BY <1>2, <2>1 DEF OneLogs
  <2>. QED
    BY <1>1, <2>1, <2>2, <2>3, <2>4, <2>5 DEF LoggerInv, LogTypes
<1>6. ASSUME NEW t \in Users, NEW o \in Outputs, L!Disconnect(t, o)
      PROVE  LoggerInv'
  <2>1. PICK place \in {i \in DOMAIN outputs : outputs[i] = o} :
          /\ outputs' = L!RemoveAt(outputs, place)
          /\ loop' = [loop EXCEPT ![t] =
               [i \in DOMAIN loop[t] |-> [loop[t][i] EXCEPT !.all = @ \ {o}, !.shifted = @ \/ place <= loop[t][i].pos]]]
          /\ L!Acts(t) /\ owner \in {NULL, t} /\ owner' = owner /\ logDepth' = logDepth
    BY <1>6 DEF L!Disconnect, L!MayLock
  <2> DEFINE Cut(f) == [f EXCEPT !.all = @ \ {o}, !.shifted = @ \/ place <= f.pos]
  <2>2. \A f \in LogFrames : Cut(f) \in LogFrames /\ Cut(f).inside = f.inside
    BY DEF LogFrames
  <2>3. /\ outputs' \in Seq(Outputs) /\ NoneTwice(outputs')
    <3> DEFINE a == SubSeq(outputs, 1, place - 1)
               b == SubSeq(outputs, place + 1, Len(outputs))
    <3>1. Len(outputs) \in Nat /\ place \in 1 .. Len(outputs) /\ outputs' = a \o b
      <4>1. place \in DOMAIN outputs /\ outputs' = a \o b
        BY <2>1 DEF L!RemoveAt
      <4>. QED
        BY <1>1, <4>1
    <3>2. /\ a \in Seq(Outputs) /\ Len(a) = place - 1 /\ \A j \in 1 .. place - 1 : a[j] = outputs[j]
          /\ b \in Seq(Outputs) /\ Len(b) = Len(outputs) - place /\ \A j \in 1 .. Len(outputs) - place : b[j] = outputs[place + j]
      <4>1. place \in 1 .. Len(outputs) /\ Len(outputs) \in Nat
        BY <3>1
      <4>. QED
        BY <1>1, <4>1
    <3>. HIDE DEF a, b
    <3>3. /\ outputs' \in Seq(Outputs) /\ DOMAIN outputs' = 1 .. Len(outputs) - 1
          /\ \A j \in DOMAIN outputs' : outputs'[j] = IF j < place THEN a[j] ELSE b[j - (place - 1)]
      BY <3>1, <3>2
    <3>4. \A j \in DOMAIN outputs' : j >= place => j - (place - 1) \in 1 .. Len(outputs) - place /\ place + (j - (place - 1)) = j + 1
      BY <3>1, <3>3
    <3>5. \A j \in DOMAIN outputs' : outputs'[j] = IF j < place THEN outputs[j] ELSE outputs[j + 1]
      <4>1. TAKE j \in DOMAIN outputs'
      <4>2. CASE j < place
        BY <3>1, <3>2, <3>3, <4>2
      <4>3. CASE ~(j < place)
        <5>1. outputs'[j] = b[j - (place - 1)]
          BY <3>3, <4>3
        <5>2. j - (place - 1) \in 1 .. Len(outputs) - place /\ place + (j - (place - 1)) = j + 1
          BY <3>1, <3>3, <3>4, <4>3
        <5>3. b[j - (place - 1)] = outputs[place + (j - (place - 1))]
          BY <3>2, <5>2
        <5>. QED
          BY <4>3, <5>1, <5>2, <5>3
      <4>. QED
        BY <4>2, <4>3
    <3>6. ASSUME NEW i \in DOMAIN outputs', NEW j \in DOMAIN outputs', outputs'[i] = outputs'[j]
          PROVE  i = j
      <4> DEFINE k == IF i < place THEN i ELSE i + 1
                 m == IF j < place THEN j ELSE j + 1
      <4>1. k \in 1 .. Len(outputs) /\ m \in 1 .. Len(outputs)
        <5>1. i \in 1 .. Len(outputs) - 1 /\ j \in 1 .. Len(outputs) - 1
          BY <3>3
        <5>2. Len(outputs) \in Nat /\ place \in 1 .. Len(outputs)
          BY <3>1
        <5>. QED
          BY <5>1, <5>2
      <4>2. outputs'[i] = outputs[k] /\ outputs'[j] = outputs[m]
        BY <3>5
      <4>3. DOMAIN outputs = 1 .. Len(outputs)
        BY <1>1
      <4>. HIDE DEF k, m
      <4>4. k = m
        BY <1>1, <3>6, <4>1, <4>2, <4>3 DEF NoneTwice
      <4>. QED
        BY <3>1, <3>3, <4>4 DEF k, m
    <3>. QED
      BY <3>3, <3>6 DEF NoneTwice
  <2>4. loop'[t] = [i \in DOMAIN loop[t] |-> Cut(loop[t][i])] /\ \A u \in Users \ {t} : loop'[u] = loop[u]
    BY <1>1, <2>1
  <2>. HIDE DEF Cut
  <2>5. loop'[t] \in Seq(LogFrames) /\ Len(loop'[t]) = Len(loop[t]) /\ DOMAIN loop'[t] = DOMAIN loop[t]
    <3>1. \A i \in 1 .. Len(loop[t]) : Cut(loop[t][i]) \in LogFrames
      BY <1>3, <2>2
    <3>. QED
      BY <1>3, <2>4, <3>1
  <2>6. loop' \in [Users -> Seq(LogFrames)]
    BY <1>1, <2>1, <2>5
  <2>7. \A i \in DOMAIN loop'[t] : FrameHears(loop'[t][i], outputs') /\ loop'[t][i].inside
    <3>1. TAKE i \in DOMAIN loop'[t]
    <3>2. loop[t][i] \in LogFrames /\ FrameHears(loop[t][i], outputs) /\ loop[t][i].inside
      <4>1. i \in DOMAIN loop[t] /\ L!Acts(t) /\ loop[t] \in Seq(LogFrames)
        BY <1>3, <2>1, <2>5
      <4>2. FrameHears(loop[t][i], outputs) /\ loop[t][i].inside
        BY <1>1, <1>4, <4>1, Zenon
      <4>. QED
        BY <4>1, <4>2
    <3>3. FrameHears(Cut(loop[t][i]), L!RemoveAt(outputs, place))
      BY <1>1, <2>1, <3>2, DisconnectKeeps DEF Cut
    <3>4. loop'[t][i] = Cut(loop[t][i])
      BY <2>4, <2>5
    <3>. QED
      BY <2>1, <2>2, <3>2, <3>3, <3>4
  <2>8. \A u \in Users \ {t} : loop'[u] = <<>>
    BY <1>1, <1>2, <2>1, <2>4, OthersAreQuiet
  <2>9. OneLogs'
    <3>1. loop'[t] # <<>> <=> loop[t] # <<>>
      BY <1>3, <2>5
    <3>. QED
      BY <1>2, <2>1, <2>5, <2>8, <3>1 DEF OneLogs
  <2>10. \A u \in Users : \A i \in DOMAIN loop'[u] : FrameHears(loop'[u][i], outputs') /\ (i > 1 => loop'[u][i].inside)
    <3>1. \A u \in Users \ {t} : DOMAIN loop'[u] = {}
      BY <2>8
    <3>. QED
      BY <2>7, <3>1
  <2>. QED
    BY <1>1, <2>1, <2>3, <2>6, <2>9, <2>10 DEF LoggerInv, LogTypes
<1>7. ASSUME NEW t \in Users, L!Log(t)
      PROVE  LoggerInv'
  <2> DEFINE first == IF outputs = <<>> THEN 0 ELSE 1
             f == [pos |-> first, inside |-> FALSE, heard |-> <<>>, all |-> L!ToSet(outputs), shifted |-> FALSE]
  <2>1. /\ L!Acts(t) /\ owner \in {NULL, t} /\ owner' = t /\ logDepth' = logDepth + 1 /\ outputs' = outputs
        /\ loop' = [loop EXCEPT ![t] = <<f>> \o loop[t]]
    BY <1>7, <1>1 DEF L!Log, L!MayLock
  <2>2. f \in LogFrames /\ first \in Nat
    BY <1>1 DEF LogFrames, L!ToSet
  <2>3. f.pos = first /\ f.inside = FALSE /\ f.heard = <<>> /\ f.all = L!ToSet(outputs) /\ f.shifted = FALSE
    OBVIOUS
  <2>. HIDE DEF f
  <2>4. FrameHears(f, outputs)
    <3>1. CASE outputs = <<>>
      <4>1. f.pos = 0 /\ f.all = {}
        BY <2>3, <3>1 DEF L!ToSet
      <4>2. NoneTwice(f.heard)
        BY <2>3 DEF NoneTwice
      <4>. QED
        BY <2>3, <4>1, <4>2 DEF FrameHears, LogIsOver
    <3>2. CASE outputs # <<>>
      <4>1. f.pos = 1 /\ 1 <= Len(outputs) /\ Reached(f) = 0 /\ Len(f.heard) = 0
        BY <1>1, <2>3, <3>2 DEF Reached
      <4>2. \A o \in f.all : \E j \in 1 .. Len(outputs) : outputs[j] = o
        BY <1>1, <2>3 DEF L!ToSet
      <4>. QED
        BY <2>3, <4>1, <4>2 DEF FrameHears, LogIsOn
    <3>. QED
      BY <3>1, <3>2
  <2>5. loop'[t] = <<f>> \o loop[t] /\ \A u \in Users \ {t} : loop'[u] = loop[u]
    BY <1>1, <2>1
  <2>6. /\ loop'[t] \in Seq(LogFrames) /\ Len(loop'[t]) = Len(loop[t]) + 1 /\ loop'[t][1] = f /\ DOMAIN loop'[t] = 1 .. Len(loop[t]) + 1
        /\ \A i \in 2 .. Len(loop[t]) + 1 : loop'[t][i] = loop[t][i - 1]
    BY <1>3, <2>2, <2>5
  <2>7. \A i \in DOMAIN loop'[t] : FrameHears(loop'[t][i], outputs') /\ (i > 1 => loop'[t][i].inside)
    <3>1. TAKE i \in DOMAIN loop'[t]
    <3>2. CASE i = 1
      BY <2>1, <2>4, <2>6, <3>2
    <3>3. CASE i # 1
      <4>1. i \in 2 .. Len(loop[t]) + 1 /\ i - 1 \in DOMAIN loop[t]
        BY <1>3, <2>6, <3>3
      <4>. QED
        BY <1>1, <1>4, <2>1, <2>6, <4>1
    <3>. QED
      BY <3>2, <3>3
  <2>8. loop' \in [Users -> Seq(LogFrames)]
    BY <1>1, <2>1, <2>5, <2>6
  <2>9. \A u \in Users \ {t} : loop'[u] = <<>>
    BY <1>1, <1>2, <2>1, <2>5, OthersAreQuiet
  <2>10. OneLogs'
    <3>1. logDepth' = Len(loop'[t])
      <4>1. CASE loop[t] # <<>>
        BY <1>2, <2>1, <2>6, <4>1 DEF OneLogs
      <4>2. CASE loop[t] = <<>>
        <5>1. logDepth = 0
          BY <1>2, <2>1, <4>2 DEF OneLogs
        <5>. QED
          BY <2>1, <2>6, <4>2, <5>1
      <4>. QED
        BY <4>1, <4>2
    <3>2. loop'[t] # <<>> /\ owner' # NULL
      BY <1>1, <1>3, <2>1, <2>6
    <3>. QED
      BY <2>1, <2>9, <3>1, <3>2 DEF OneLogs
  <2>11. \A u \in Users : \A i \in DOMAIN loop'[u] : FrameHears(loop'[u][i], outputs') /\ (i > 1 => loop'[u][i].inside)
    <3>1. \A u \in Users \ {t} : DOMAIN loop'[u] = {}
      BY <2>9
    <3>. QED
      BY <2>7, <3>1
  <2>. QED
    BY <1>1, <2>1, <2>8, <2>10, <2>11 DEF LoggerInv, LogTypes
\* A thread's innermost call is replaced by g, by nothing where it ends.
<1>8. ASSUME NEW t \in Users, NEW g \in LogFrames, loop[t] # <<>>, loop' = [loop EXCEPT ![t] = <<g>> \o Tail(@)],
             FrameHears(g, outputs), UNCHANGED <<owner, logDepth, outputs>>
      PROVE  LoggerInv'
  <2>1. loop'[t] = <<g>> \o Tail(loop[t]) /\ \A u \in Users \ {t} : loop'[u] = loop[u]
    BY <1>1, <1>8
  <2>2. /\ loop'[t] \in Seq(LogFrames) /\ Len(loop'[t]) = Len(loop[t]) /\ loop'[t][1] = g /\ DOMAIN loop'[t] = 1 .. Len(loop[t])
        /\ \A i \in 2 .. Len(loop[t]) : loop'[t][i] = loop[t][i]
    BY <1>3, <1>8, <2>1
  <2>3. \A i \in DOMAIN loop'[t] : FrameHears(loop'[t][i], outputs') /\ (i > 1 => loop'[t][i].inside)
    <3>1. TAKE i \in DOMAIN loop'[t]
    <3>2. CASE i = 1
      BY <1>8, <2>2, <3>2
    <3>3. CASE i # 1
      <4>1. i \in 2 .. Len(loop[t]) /\ i \in DOMAIN loop[t]
        BY <1>3, <2>2, <3>3
      <4>. QED
        BY <1>1, <1>8, <2>2, <4>1
    <3>. QED
      BY <3>2, <3>3
  <2>4. loop' \in [Users -> Seq(LogFrames)]
    BY <1>1, <1>8, <2>1, <2>2
  <2>5. loop'[t] # <<>>
    BY <1>3, <1>8, <2>2
  <2>6. OneLogs'
    BY <1>2, <1>8, <2>1, <2>2, <2>5 DEF OneLogs
  <2>7. \A u \in Users : \A i \in DOMAIN loop'[u] : FrameHears(loop'[u][i], outputs') /\ (i > 1 => loop'[u][i].inside)
    BY <1>1, <1>8, <2>1, <2>3
  <2>. QED
    BY <1>1, <1>8, <2>4, <2>6, <2>7 DEF LoggerInv, LogTypes
<1>9. ASSUME NEW t \in Users, loop[t] # <<>>
      PROVE  loop[t][1] \in LogFrames /\ FrameHears(loop[t][1], outputs) /\ Head(loop[t]) = loop[t][1]
  BY <1>1, <1>3, <1>9
<1>10. ASSUME NEW t \in Users, L!Calls(t)
       PROVE  LoggerInv'
  <2> DEFINE f == loop[t][1]
             g == [f EXCEPT !.inside = TRUE, !.heard = Append(@, outputs[f.pos])]
  <2>1. loop[t] # <<>> /\ UNCHANGED <<owner, logDepth, outputs>> /\ ~L!Frame(t).inside /\ L!Frame(t).pos # 0
        /\ L!Moves(t, [L!Frame(t) EXCEPT !.inside = TRUE, !.heard = Append(@, outputs[L!Frame(t).pos])])
    BY <1>10 DEF L!Calls
  <2>2. L!Frame(t) = f /\ f \in LogFrames /\ FrameHears(f, outputs)
    BY <1>9, <2>1 DEF L!Frame
  <2>3. loop' = [loop EXCEPT ![t] = <<g>> \o Tail(@)] /\ ~f.inside /\ f.pos # 0
    BY <2>1, <2>2 DEF L!Moves
  <2>4. g \in LogFrames /\ FrameHears(g, outputs)
    BY <1>1, <2>2, <2>3, CallIsHeard
  <2>. QED
    BY <1>8, <2>1, <2>3, <2>4
<1>11. ASSUME NEW t \in Users, L!Returns(t)
       PROVE  LoggerInv'
  <2> DEFINE f == loop[t][1]
             g == [f EXCEPT !.inside = FALSE, !.pos = IF @ < Len(outputs) THEN @ + 1 ELSE 0]
  <2>1. loop[t] # <<>> /\ UNCHANGED <<owner, logDepth, outputs>> /\ Head(loop[t]).inside
        /\ L!Moves(t, [L!Frame(t) EXCEPT !.inside = FALSE, !.pos = IF @ < Len(outputs) THEN @ + 1 ELSE 0])
    BY <1>11 DEF L!Returns, L!InCallback
  <2>2. L!Frame(t) = f /\ f \in LogFrames /\ FrameHears(f, outputs) /\ f.inside
    BY <1>9, <2>1 DEF L!Frame
  <2>3. loop' = [loop EXCEPT ![t] = <<g>> \o Tail(@)]
    BY <2>1, <2>2 DEF L!Moves
  <2>4. g \in LogFrames /\ FrameHears(g, outputs)
    BY <1>1, <2>2, ReturnIsOver
  <2>. QED
    BY <1>8, <2>1, <2>3, <2>4
<1>12. ASSUME NEW t \in Users, L!EndsLog(t)
       PROVE  LoggerInv'
  <2>1. /\ loop[t] # <<>> /\ logDepth' = logDepth - 1 /\ owner' = (IF logDepth = 1 THEN NULL ELSE owner)
        /\ loop' = [loop EXCEPT ![t] = Tail(@)] /\ outputs' = outputs
    BY <1>12 DEF L!EndsLog
  <2>2. owner = t /\ logDepth = Len(loop[t])
    BY <1>2, <2>1 DEF OneLogs
  <2>3. loop'[t] = Tail(loop[t]) /\ \A u \in Users \ {t} : loop'[u] = <<>>
    BY <1>1, <1>2, <2>1, <2>2, OthersAreQuiet
  <2>4. /\ loop'[t] \in Seq(LogFrames) /\ Len(loop'[t]) = Len(loop[t]) - 1 /\ DOMAIN loop'[t] = 1 .. Len(loop[t]) - 1
        /\ \A i \in 1 .. Len(loop[t]) - 1 : loop'[t][i] = loop[t][i + 1]
        /\ Len(loop[t]) >= 1
    <3> DEFINE stack == loop[t]
    <3>1. stack \in Seq(LogFrames) /\ stack # <<>> /\ loop'[t] = Tail(stack)
      BY <1>3, <2>1, <2>3
    <3>. HIDE DEF stack
    <3>2. /\ Tail(stack) \in Seq(LogFrames) /\ Len(Tail(stack)) = Len(stack) - 1 /\ Len(stack) \in Nat
          /\ \A i \in 1 .. Len(stack) - 1 : Tail(stack)[i] = stack[i + 1]
      BY <3>1
    <3>3. Len(stack) >= 1
      BY <3>1
    <3>. QED
      BY <3>1, <3>2, <3>3 DEF stack
  <2>5. loop' \in [Users -> Seq(LogFrames)]
    BY <1>1, <2>1, <2>3, <2>4
  <2>6. \A u \in Users : \A i \in DOMAIN loop'[u] : FrameHears(loop'[u][i], outputs') /\ (i > 1 => loop'[u][i].inside)
    <3>1. ASSUME NEW i \in DOMAIN loop'[t]
          PROVE  FrameHears(loop'[t][i], outputs') /\ loop'[t][i].inside
      <4>1. i \in 1 .. Len(loop[t]) - 1 /\ i + 1 \in DOMAIN loop[t] /\ i + 1 > 1
        BY <1>3, <2>4
      <4>. QED
        BY <1>1, <2>1, <2>4, <4>1
    <3>2. \A u \in Users \ {t} : DOMAIN loop'[u] = {}
      BY <2>3
    <3>. QED
      BY <3>1, <3>2
  <2>7. OneLogs'
    <3>1. CASE logDepth = 1
      <4>1. loop'[t] = <<>> /\ owner' = NULL /\ logDepth' = 0
        BY <2>1, <2>2, <2>4, <3>1
      <4>. QED
        BY <2>3, <4>1 DEF OneLogs
    <3>2. CASE logDepth # 1
      <4>1. owner' = t /\ t # NULL /\ logDepth' = Len(loop'[t]) /\ Len(loop'[t]) # 0
        BY <1>1, <1>3, <2>1, <2>2, <2>4, <3>2
      <4>2. loop'[t] # <<>>
        BY <4>1
      <4>. QED
        BY <2>3, <4>1, <4>2 DEF OneLogs
    <3>. QED
      BY <3>1, <3>2
  <2>8. owner' \in Users \cup {NULL} /\ logDepth' \in Nat
    BY <1>1, <1>3, <2>1, <2>2, <2>4
  <2>. QED
    BY <1>1, <2>1, <2>5, <2>6, <2>7, <2>8 DEF LoggerInv, LogTypes
<1>13. ASSUME UNCHANGED L!vars
       PROVE  LoggerInv'
  <2>1. owner' = owner /\ logDepth' = logDepth /\ outputs' = outputs /\ loop' = loop
    BY <1>13 DEF L!vars
  <2>. QED
    BY <1>1, <1>2, <2>1 DEF LoggerInv, LogTypes, OneLogs
<1>. QED
  BY <1>5, <1>6, <1>7, <1>10, <1>11, <1>12, <1>13 DEF L!Next

LEMMA LogInit ==
  ASSUME L!Init, UsersAssumption
  PROVE  LoggerInv
<1>1. owner = NULL /\ logDepth = 0 /\ outputs = <<>> /\ loop = [t \in Users |-> <<>>]
  BY DEF L!Init
<1>2. LogTypes
  BY <1>1 DEF LogTypes, NoneTwice
<1>3. OneLogs
  BY <1>1 DEF OneLogs
<1>4. \A t \in Users : DOMAIN loop[t] = {}
  BY <1>1
<1>. QED
  BY <1>2, <1>3, <1>4 DEF LoggerInv

\* A sequence in which nothing is twice has as many members as places.
LEMMA NoneTwiceCounts ==
  ASSUME NEW s \in Seq(Outputs), NoneTwice(s)
  PROVE  L!Cardinality(L!ToSet(s)) = Len(s)
<1> DEFINE n == Len(s)
           S == L!ToSet(s)
<1>1. n \in Nat /\ DOMAIN s = 1 .. n /\ S = {s[i] : i \in 1 .. n}
  BY DEF L!ToSet
<1>2. s \in [1 .. n -> S]
  BY <1>1
<1>3. s \in Bijection(1 .. n, S)
  <2>1. \A i, j \in 1 .. n : s[i] = s[j] => i = j
    BY <1>1 DEF NoneTwice
  <2>2. \A x \in S : \E i \in 1 .. n : s[i] = x
    BY <1>1
  <2>. HIDE DEF n, S
  <2>. QED
    BY <1>2, <2>1, <2>2, Zenon DEF Bijection, Injection, Surjection, IsInjective
<1>. HIDE DEF n, S
<1>4. Cardinality(S) = n
  <2>1. ExistsBijection(1 .. n, S)
    BY <1>3, Zenon DEF ExistsBijection
  <2>. QED
    BY <1>1, <2>1, FS_CountingElements
<1>. QED
  BY <1>4 DEF n, S, Cardinality, L!Cardinality

LEMMA OutputsHear ==
  ASSUME LoggerInv
  PROVE  L!EveryOutputHears
<1>1. ASSUME NEW t \in Users, NEW i \in DOMAIN loop[t], ~loop[t][i].shifted
      PROVE  /\ loop[t][i].pos = 0 => loop[t][i].all \subseteq L!ToSet(loop[t][i].heard)
             /\ L!Cardinality(L!ToSet(loop[t][i].heard)) = Len(loop[t][i].heard)
  <2> DEFINE f == loop[t][i]
  <2>1. f \in LogFrames /\ FrameHears(f, outputs) /\ outputs \in Seq(Outputs) /\ NoneTwice(outputs)
    BY DEF LoggerInv, LogTypes
  <2>. HIDE DEF f
  <2>2. f.heard \in Seq(Outputs) /\ DOMAIN f.heard = 1 .. Len(f.heard) /\ Len(f.heard) \in Nat /\ f.pos \in Nat
    BY <2>1 DEF LogFrames
  <2>3. NoneTwice(f.heard)
    <3>1. CASE f.pos = 0
      BY <1>1, <2>1, <3>1 DEF FrameHears, LogIsOver, f
    <3>2. CASE f.pos # 0
      <4>1. LogIsOn(f, outputs)
        BY <1>1, <2>1, <3>2 DEF FrameHears, f
      <4>2. /\ Len(f.heard) <= Len(outputs) /\ \A j \in 1 .. Len(f.heard) : f.heard[j] = outputs[j]
            /\ DOMAIN outputs = 1 .. Len(outputs)
        BY <2>1, <2>2, <4>1 DEF LogIsOn, Reached, LogFrames
      <4>3. \A j \in DOMAIN f.heard : j \in DOMAIN outputs
        BY <2>1, <2>2, <4>2
      <4>. QED
        BY <2>1, <2>2, <4>2, <4>3 DEF NoneTwice
    <3>. QED
      BY <3>1, <3>2
  <2>4. f.pos = 0 => f.all \subseteq L!ToSet(f.heard)
    BY <1>1, <2>1, <2>2 DEF FrameHears, LogIsOver, L!ToSet, f
  <2>. QED
    BY <2>2, <2>3, <2>4, NoneTwiceCounts DEF f
<1>2. \A t, u \in Users : loop[t] # <<>> /\ loop[u] # <<>> => t = u
  BY DEF LoggerInv, OneLogs
<1>. QED
  BY <1>1, <1>2, Zenon DEF L!EveryOutputHears

\* Logger: a message reaches all outputs that are there throughout, once, and
\* no two are between the outputs at once, for any threads, outputs and depth.
THEOREM OutputsAreReached == MCSpec => []EveryOutputHears
<1>1. MCInit => LoggerInv
  BY LogInit, UsersAssumption DEF MCInit
<1>2. [MCNext]_<<used, vars, ringVars, guardVars, allocatorVars, loggerVars, atomicVars, tlsVars>> => (L!Next \/ UNCHANGED L!vars)
  BY DEF MCNext, loggerVars, L!vars
<1>3. LoggerInv /\ (L!Next \/ UNCHANGED L!vars) => LoggerInv'
  BY LogStep, UsersAssumption
<1>4. LoggerInv => EveryOutputHears
  BY OutputsHear DEF EveryOutputHears
<1>. QED
  BY <1>1, <1>2, <1>3, <1>4, PTL DEF MCSpec
-----------------------------------------------------------------------------
(* TLS                                                                      *)

Rows == 1 .. Rounds
Listed(g, k) == \E n \in DOMAIN g.dtors : g.dtors[n] = k

\* A value whose key is listed waits for its destructor; one with a destructor
\* whose key is listed no more has had it called.
ValuesWait(g, e, w) ==
  /\ NoneTwice(g.dtors)
  /\ \A k \in Keys : Listed(g, k) => k \in DOMAIN g.vals /\ e[g.vals[k]] = 0
  /\ \A k \in DOMAIN g.vals : g.vals[k] \in w /\ ~Listed(g, k) => e[g.vals[k]] = 1

\* No value is there twice, and none that has a destructor is lost.
ValuesKept(gl, e, w) ==
  /\ \A i \in Rows : gl[i] # NULL => ValuesWait(gl[i], e, w)
  /\ \A i, j \in Rows : gl[i] # NULL /\ gl[j] # NULL =>
       \A k \in DOMAIN gl[i].vals, l \in DOMAIN gl[j].vals : gl[i].vals[k] = gl[j].vals[l] => i = j /\ k = l
  /\ \A v \in w : \E i \in Rows : gl[i] # NULL /\ v \in TL!In(gl[i])
  /\ \A v \in Vals : e[v] <= 1

TLSTypes ==
  /\ global \in [Rows -> TL!TLSGlobal \cup {NULL}]
  /\ slot \in Rows \cup {NULL} /\ (slot # NULL => global[slot] # NULL)
  /\ dying \in Rows \cup {NULL} /\ (dying # NULL => global[dying] # NULL)
  /\ ended \in [Vals -> Nat]

\* How far the end of the thread, or of the process, has come.
PhaseTells ==
  \/ phase = "runs" /\ dying = NULL /\ \A i \in Rows : i # slot => global[i] = NULL
  \/ phase = "destructs" /\ (dying # NULL => slot # dying)
  \/ phase = "exits" /\ slot = dying /\ dying # NULL
  \/ phase = "over" /\ slot = NULL /\ dying = NULL

\* A TLSGlobal is referred to by its blocks and its thread; one that is neither
\* in use nor being destroyed has nothing left to call, unless it is kept.
CountsTell(i) ==
  /\ global[i].refs = global[i].blocks + (IF slot = i /\ phase # "exits" THEN 1 ELSE 0)
  /\ i = dying => global[i].blocks = 0
  /\ i # slot /\ i # dying /\ global[i].blocks = 0 => global[i].dtors = <<>>

TLSOK ==
  /\ TLSTypes /\ PhaseTells
  /\ \A i \in Rows : global[i] # NULL => CountsTell(i)
  /\ ValuesKept(global, ended, owed)

TLSInv == fault = {} => TLSOK

\* What is known of the parts of a TLSGlobal.
LEMMA GlobalParts ==
  ASSUME NEW g \in TL!TLSGlobal
  PROVE  /\ g.refs \in Nat /\ g.blocks \in Nat /\ g.dtors \in Seq(Keys)
         /\ DOMAIN g.vals \subseteq Keys /\ \A k \in DOMAIN g.vals : g.vals[k] \in Vals
         /\ \A k : Listed(g, k) => k \in Keys
BY DEF TL!TLSGlobal, Listed

\* The last of a sequence and those before it.
LEMMA LastTaken ==
  ASSUME NEW S, NEW s \in Seq(S), s # <<>>, NoneTwice(s)
  PROVE  /\ TL!Front(s) \in Seq(S) /\ TL!Last(s) \in S /\ NoneTwice(TL!Front(s))
         /\ \E n \in DOMAIN s : s[n] = TL!Last(s)
         /\ \A x : (\E n \in DOMAIN TL!Front(s) : TL!Front(s)[n] = x) <=> (\E n \in DOMAIN s : s[n] = x) /\ x # TL!Last(s)
<1> DEFINE f == TL!Front(s)
           z == TL!Last(s)
<1>1. Len(s) \in Nat \ {0} /\ f = SubSeq(s, 1, Len(s) - 1) /\ z = s[Len(s)] /\ DOMAIN s = 1 .. Len(s)
  BY DEF TL!Front, TL!Last
<1>2. f \in Seq(S) /\ DOMAIN f = 1 .. Len(s) - 1 /\ (\A n \in 1 .. Len(s) - 1 : f[n] = s[n]) /\ z \in S
  BY <1>1
<1>. HIDE DEF f, z
<1>3. Len(s) \in DOMAIN s /\ s[Len(s)] = z
  BY <1>1
<1>4. NoneTwice(f)
  BY <1>1, <1>2 DEF NoneTwice
<1>5. ASSUME NEW x
      PROVE  (\E n \in DOMAIN f : f[n] = x) <=> (\E n \in DOMAIN s : s[n] = x) /\ x # z
  <2>1. ASSUME NEW n \in DOMAIN f, f[n] = x
        PROVE  (\E m \in DOMAIN s : s[m] = x) /\ x # z
    <3>1. n \in 1 .. Len(s) - 1 /\ n \in DOMAIN s /\ n # Len(s) /\ s[n] = x
      BY <1>1, <1>2, <2>1
    <3>. QED
      BY <1>3, <3>1 DEF NoneTwice
  <2>2. ASSUME NEW n \in DOMAIN s, s[n] = x, x # z
        PROVE  \E m \in DOMAIN f : f[m] = x
    <3>1. n \in 1 .. Len(s) - 1
      BY <1>1, <2>2
    <3>. QED
      BY <1>2, <2>2, <3>1
  <2>. QED
    BY <2>1, <2>2
<1>. QED
  BY <1>2, <1>3, <1>4, <1>5 DEF f, z

\* A value is set, and a new key is listed if it comes with a destructor.
LEMMA SetGlobalIs ==
  ASSUME NEW g \in TL!TLSGlobal, NEW k \in Keys, NEW v \in Vals, NEW d \in BOOLEAN,
         NoneTwice(g.dtors), \A x \in Keys : Listed(g, x) => x \in DOMAIN g.vals
  PROVE  LET h == TL!SetGlobal(g, k, v, d)
         IN  /\ h \in TL!TLSGlobal /\ h.refs = g.refs /\ h.blocks = g.blocks
             /\ DOMAIN h.vals = DOMAIN g.vals \cup {k} /\ h.vals[k] = v
             /\ \A x \in DOMAIN g.vals : x # k => h.vals[x] = g.vals[x]
             /\ \A x : Listed(h, x) <=> Listed(g, x) \/ (x = k /\ k \notin DOMAIN g.vals /\ d)
             /\ NoneTwice(h.dtors)
<1> DEFINE h == TL!SetGlobal(g, k, v, d)
           f == [x \in DOMAIN g.vals \cup {k} |-> IF x = k THEN v ELSE g.vals[x]]
           s == IF k \notin DOMAIN g.vals /\ d THEN Append(g.dtors, k) ELSE g.dtors
<1>1. /\ g.refs \in Nat /\ g.blocks \in Nat /\ g.dtors \in Seq(Keys)
      /\ DOMAIN g.vals \subseteq Keys /\ \A x \in DOMAIN g.vals : g.vals[x] \in Vals
  BY GlobalParts
<1>2. /\ h.refs = g.refs /\ h.blocks = g.blocks /\ h.vals = f /\ h.dtors = s
      /\ h = [refs |-> g.refs, vals |-> f, dtors |-> s, blocks |-> g.blocks]
  <2> DEFINE P == UNION {[K -> Vals] : K \in SUBSET Keys}
  <2>1. g \in [refs : Nat, vals : P, dtors : Seq(Keys), blocks : Nat]
    BY DEF TL!TLSGlobal
  <2>2. h = [g EXCEPT !.vals = f, !.dtors = s]
    BY DEF TL!SetGlobal
  <2>. HIDE DEF P, h, f, s
  <2>. QED
    BY <2>1, <2>2
<1>3. f \in [DOMAIN g.vals \cup {k} -> Vals] /\ DOMAIN g.vals \cup {k} \in SUBSET Keys
  BY <1>1
<1>4. s \in Seq(Keys)
  BY <1>1
<1>5. h \in TL!TLSGlobal
  <2>1. f \in UNION {[K -> Vals] : K \in SUBSET Keys}
    BY <1>3
  <2>. HIDE DEF f, s, h
  <2>. QED
    BY <1>1, <1>2, <1>4, <2>1 DEF TL!TLSGlobal
<1>6. NoneTwice(s) /\ \A x : (\E n \in DOMAIN s : s[n] = x) <=> Listed(g, x) \/ (x = k /\ k \notin DOMAIN g.vals /\ d)
  <2>1. CASE k \notin DOMAIN g.vals /\ d
    <3> DEFINE a == Append(g.dtors, k)
    <3>1. s = a /\ ~Listed(g, k)
      BY <2>1
    <3>2. /\ Len(g.dtors) \in Nat /\ DOMAIN g.dtors = 1 .. Len(g.dtors) /\ DOMAIN a = 1 .. Len(g.dtors) + 1
          /\ a[Len(g.dtors) + 1] = k /\ \A n \in 1 .. Len(g.dtors) : a[n] = g.dtors[n]
      BY <1>1
    <3>. HIDE DEF a, s
    <3>3. \A n \in DOMAIN a : n \in DOMAIN g.dtors \/ n = Len(g.dtors) + 1
      BY <3>2
    <3>4. \A x : (\E n \in DOMAIN a : a[n] = x) <=> Listed(g, x) \/ x = k
      BY <3>2, <3>3 DEF Listed
    <3>5. NoneTwice(a)
      BY <3>1, <3>2, <3>3 DEF NoneTwice, Listed
    <3>. QED
      BY <2>1, <3>1, <3>4, <3>5
  <2>2. CASE ~(k \notin DOMAIN g.vals /\ d)
    BY <2>2 DEF Listed
  <2>. QED
    BY <2>1, <2>2
<1>7. DOMAIN f = DOMAIN g.vals \cup {k} /\ f[k] = v /\ \A x \in DOMAIN g.vals : x # k => f[x] = g.vals[x]
  OBVIOUS
<1>. HIDE DEF f, s, h
<1>8. \A x : Listed(h, x) <=> Listed(g, x) \/ (x = k /\ k \notin DOMAIN g.vals /\ d)
  BY <1>2, <1>6 DEF Listed
<1>. QED
  BY <1>2, <1>5, <1>6, <1>7, <1>8 DEF h

\* The same of a value that comes with a destructor: what it takes and gives.
ListIsRight(g) == g \in TL!TLSGlobal /\ NoneTwice(g.dtors) /\ \A x \in Keys : Listed(g, x) => x \in DOMAIN g.vals
OneKeySet(g, n, k) ==
  /\ n \in TL!TLSGlobal /\ n.refs = g.refs /\ n.blocks = g.blocks
  /\ DOMAIN n.vals = DOMAIN g.vals \cup {k}
  /\ \A x \in DOMAIN g.vals : x # k => n.vals[x] = g.vals[x]

LEMMA ValueWithDestructor ==
  ASSUME NEW g, ListIsRight(g), NEW k, k \in Keys, NEW v, v \in Vals
  PROVE  OneKeySet(g, TL!SetGlobal(g, k, v, TRUE), k)
<1> DEFINE d == TRUE
           m == TL!SetGlobal(g, k, v, d)
<1>1. g \in TL!TLSGlobal /\ NoneTwice(g.dtors) /\ \A x \in Keys : Listed(g, x) => x \in DOMAIN g.vals
  BY DEF ListIsRight
<1>2. d \in BOOLEAN /\ TL!SetGlobal(g, k, v, TRUE) = m
  OBVIOUS
<1>. HIDE DEF d
<1>3. /\ m \in TL!TLSGlobal /\ m.refs = g.refs /\ m.blocks = g.blocks
      /\ DOMAIN m.vals = DOMAIN g.vals \cup {k} /\ m.vals[k] = v
      /\ \A x \in DOMAIN g.vals : x # k => m.vals[x] = g.vals[x]
      /\ \A x : Listed(m, x) <=> Listed(g, x) \/ (x = k /\ k \notin DOMAIN g.vals /\ d)
      /\ NoneTwice(m.dtors)
  BY <1>1, <1>2, SetGlobalIs
<1>. HIDE DEF m
<1>. QED
  BY <1>2, <1>3 DEF OneKeySet

\* Values are kept where only the counts change or an empty TLSGlobal comes.
LEMMA ValuesStay ==
  ASSUME NEW gl, NEW hl, NEW e, NEW w, ValuesKept(gl, e, w),
         \A i \in Rows : gl[i] # NULL => hl[i] # NULL /\ hl[i].vals = gl[i].vals /\ hl[i].dtors = gl[i].dtors,
         \A i \in Rows : gl[i] = NULL => hl[i] = NULL \/ (hl[i].vals = <<>> /\ hl[i].dtors = <<>>)
  PROVE  ValuesKept(hl, e, w)
<1>1. \A i \in Rows : hl[i] # NULL => (gl[i] # NULL /\ hl[i].vals = gl[i].vals /\ hl[i].dtors = gl[i].dtors) \/ (hl[i].vals = <<>> /\ hl[i].dtors = <<>>)
  OBVIOUS
<1>2. DOMAIN <<>> = {}
  OBVIOUS
<1>3. ASSUME NEW i \in Rows, hl[i] # NULL
      PROVE  ValuesWait(hl[i], e, w)
  <2>1. CASE gl[i] # NULL /\ hl[i].vals = gl[i].vals /\ hl[i].dtors = gl[i].dtors
    BY <2>1 DEF ValuesKept, ValuesWait, Listed
  <2>2. CASE hl[i].vals = <<>> /\ hl[i].dtors = <<>>
    BY <1>2, <2>2 DEF ValuesWait, Listed, NoneTwice
  <2>. QED
    BY <1>1, <1>3, <2>1, <2>2
<1>4. ASSUME NEW i \in Rows, NEW j \in Rows, hl[i] # NULL, hl[j] # NULL,
             NEW k \in DOMAIN hl[i].vals, NEW l \in DOMAIN hl[j].vals, hl[i].vals[k] = hl[j].vals[l]
      PROVE  i = j /\ k = l
  <2>1. gl[i] # NULL /\ hl[i].vals = gl[i].vals /\ gl[j] # NULL /\ hl[j].vals = gl[j].vals
    BY <1>1, <1>2, <1>4
  <2>. QED
    BY <1>4, <2>1 DEF ValuesKept
<1>5. ASSUME NEW v \in w
      PROVE  \E i \in Rows : hl[i] # NULL /\ v \in TL!In(hl[i])
  <2>1. PICK i \in Rows : gl[i] # NULL /\ v \in TL!In(gl[i])
    BY DEF ValuesKept
  <2>2. hl[i] # NULL /\ hl[i].vals = gl[i].vals
    BY <2>1
  <2>. QED
    BY <2>1, <2>2 DEF TL!In
<1>6. \A v \in Vals : e[v] <= 1
  BY DEF ValuesKept
<1>. QED
  BY <1>3, <1>4, <1>5, <1>6 DEF ValuesKept

\* A value that is not in use is set.
LEMMA ValueComes ==
  ASSUME NEW gl \in [Rows -> TL!TLSGlobal \cup {NULL}], NEW e, NEW w, ValuesKept(gl, e, w),
         NEW i \in Rows, gl[i] \in TL!TLSGlobal, gl[i] # NULL,
         NEW k \in Keys, NEW v \in Vals, NEW d \in BOOLEAN, e[v] = 0, \A j \in Rows : gl[j] # NULL => v \notin TL!In(gl[j]),
         d /\ k \in DOMAIN gl[i].vals => Listed(gl[i], k),
         NEW hl, hl = [gl EXCEPT ![i] = TL!SetGlobal(gl[i], k, v, d)], hl[i] # NULL
  PROVE  ValuesKept(hl, e, (w \cup IF d THEN {v} ELSE {}) \ (TL!In(gl[i]) \ TL!In(hl[i])))
<1> DEFINE g == gl[i]
           h == hl[i]
           u == (w \cup IF d THEN {v} ELSE {}) \ (TL!In(g) \ TL!In(h))
<1>1. h = TL!SetGlobal(g, k, v, d) /\ \A j \in Rows : j # i => hl[j] = gl[j]
  OBVIOUS
<1>2. ValuesWait(g, e, w)
  BY DEF ValuesKept
<1>3. /\ DOMAIN h.vals = DOMAIN g.vals \cup {k} /\ h.vals[k] = v
      /\ \A x \in DOMAIN g.vals : x # k => h.vals[x] = g.vals[x]
      /\ \A x : Listed(h, x) <=> Listed(g, x) \/ (x = k /\ k \notin DOMAIN g.vals /\ d)
      /\ NoneTwice(h.dtors)
  <2>1. NoneTwice(g.dtors) /\ \A x \in Keys : Listed(g, x) => x \in DOMAIN g.vals
    BY <1>2 DEF ValuesWait
  <2>2. g \in TL!TLSGlobal
    OBVIOUS
  <2>. HIDE DEF g, h
  <2>. QED
    BY <1>1, <2>1, <2>2, SetGlobalIs
<1>4. \A j \in Rows : gl[j] # NULL => \A x \in DOMAIN gl[j].vals : gl[j].vals[x] # v
  BY DEF TL!In
<1>5. v \notin w
  BY DEF ValuesKept
<1>6. \A x \in u : x \in w \/ (x = v /\ d)
  OBVIOUS
<1>7. g # NULL /\ h # NULL /\ gl[i] = g /\ hl[i] = h
  OBVIOUS
<1>8. \A x \in u : x \in w => ~(x \in TL!In(g)) \/ x \in TL!In(h)
  OBVIOUS
<1>9. d => k \notin DOMAIN g.vals \/ Listed(g, k)
  OBVIOUS
<1>. HIDE DEF g, h, u
<1>10. ValuesWait(h, e, u)
  <2>1. ASSUME NEW x \in Keys, Listed(h, x)
        PROVE  x \in DOMAIN h.vals /\ e[h.vals[x]] = 0
    <3>1. CASE x = k
      BY <1>3, <3>1
    <3>2. CASE x # k
      <4>1. Listed(g, x)
        BY <1>3, <2>1, <3>2
      <4>2. x \in DOMAIN g.vals /\ e[g.vals[x]] = 0
        BY <1>2, <4>1 DEF ValuesWait
      <4>. QED
        BY <1>3, <3>2, <4>2
    <3>. QED
      BY <3>1, <3>2
  <2>2. ASSUME NEW x \in DOMAIN h.vals, h.vals[x] \in u, ~Listed(h, x)
        PROVE  e[h.vals[x]] = 1
    <3>1. x # k
      BY <1>3, <1>5, <1>6, <1>9, <2>2
    <3>2. x \in DOMAIN g.vals /\ h.vals[x] = g.vals[x] /\ ~Listed(g, x)
      BY <1>3, <2>2, <3>1
    <3>3. g.vals[x] \in w
      BY <1>4, <1>6, <1>7, <2>2, <3>2
    <3>. QED
      BY <1>2, <3>2, <3>3 DEF ValuesWait
  <2>. QED
    BY <1>3, <2>1, <2>2 DEF ValuesWait
<1>11. ASSUME NEW j \in Rows, j # i, gl[j] # NULL
       PROVE  ValuesWait(gl[j], e, u)
  <2>1. ValuesWait(gl[j], e, w)
    BY <1>11 DEF ValuesKept
  <2>2. \A x \in DOMAIN gl[j].vals : gl[j].vals[x] \in u => gl[j].vals[x] \in w
    BY <1>4, <1>6, <1>11
  <2>. QED
    BY <2>1, <2>2 DEF ValuesWait
<1>12. ASSUME NEW a \in Rows, NEW b \in Rows, hl[a] # NULL, hl[b] # NULL,
              NEW x \in DOMAIN hl[a].vals, NEW y \in DOMAIN hl[b].vals, hl[a].vals[x] = hl[b].vals[y]
       PROVE  a = b /\ x = y
  <2> DEFINE New(c, z) == c = i /\ z = k
             Old(c, z) == ~New(c, z) /\ gl[c] # NULL /\ z \in DOMAIN gl[c].vals /\ hl[c].vals[z] = gl[c].vals[z]
  <2>1. \A c \in Rows : hl[c] # NULL => \A z \in DOMAIN hl[c].vals : New(c, z) \/ Old(c, z)
    <3>1. TAKE c \in Rows
    <3>2. HAVE hl[c] # NULL
    <3>3. TAKE z \in DOMAIN hl[c].vals
    <3>4. CASE c = i
      BY <1>3, <1>7, <3>4
    <3>5. CASE c # i
      BY <1>1, <3>2, <3>5
    <3>. QED
      BY <3>4, <3>5
  <2>2. \A c \in Rows : \A z : (New(c, z) => hl[c].vals[z] = v) /\ (Old(c, z) => hl[c].vals[z] # v)
    BY <1>3, <1>4, <1>7
  <2>3. CASE New(a, x) /\ New(b, y)
    BY <2>3
  <2>4. CASE Old(a, x) /\ Old(b, y)
    BY <1>12, <2>4 DEF ValuesKept
  <2>. QED
    BY <1>12, <2>1, <2>2, <2>3, <2>4
<1>13. ASSUME NEW x \in u
       PROVE  \E j \in Rows : hl[j] # NULL /\ x \in TL!In(hl[j])
  <2>1. CASE x = v
    <3>1. x \in TL!In(h)
      BY <1>3, <2>1 DEF TL!In
    <3>. QED
      BY <1>7, <3>1
  <2>2. CASE x # v
    <3>1. x \in w
      BY <1>6, <2>2
    <3>2. PICK j \in Rows : gl[j] # NULL /\ x \in TL!In(gl[j])
      BY <3>1 DEF ValuesKept
    <3>3. CASE j = i
      BY <1>7, <1>8, <3>1, <3>2, <3>3
    <3>4. CASE j # i
      BY <1>1, <3>2, <3>4
    <3>. QED
      BY <3>3, <3>4
  <2>. QED
    BY <2>1, <2>2
<1>14. \A j \in Rows : hl[j] # NULL => ValuesWait(hl[j], e, u)
  BY <1>1, <1>7, <1>10, <1>11
<1>15. \A x \in Vals : e[x] <= 1
  BY DEF ValuesKept
<1>16. ValuesKept(hl, e, u)
  BY <1>12, <1>13, <1>14, <1>15 DEF ValuesKept
<1>. QED
  BY <1>16 DEF u, g, h

\* The destructor of the last key listed is called.
LEMMA ValueEnds ==
  ASSUME NEW gl \in [Rows -> TL!TLSGlobal \cup {NULL}], NEW e \in [Vals -> Nat], NEW w, ValuesKept(gl, e, w),
         NEW i \in Rows, gl[i] \in TL!TLSGlobal, gl[i] # NULL, gl[i].dtors # <<>>,
         NEW h, h = [gl[i] EXCEPT !.dtors = TL!Front(@)], h # NULL,
         NEW hl, hl = [gl EXCEPT ![i] = h], NEW f, f = [e EXCEPT ![gl[i].vals[TL!Last(gl[i].dtors)]] = @ + 1]
  PROVE  /\ h \in TL!TLSGlobal /\ h.refs = gl[i].refs /\ h.blocks = gl[i].blocks /\ h.vals = gl[i].vals
         /\ f \in [Vals -> Nat] /\ TL!Last(gl[i].dtors) \in DOMAIN gl[i].vals
         /\ ValuesKept(hl, f, w)
<1> DEFINE g == gl[i]
           k == TL!Last(g.dtors)
           v == g.vals[k]
<1>1. ValuesWait(g, e, w) /\ g \in TL!TLSGlobal
  BY DEF ValuesKept
<1>2. g.dtors \in Seq(Keys) /\ g.dtors # <<>> /\ NoneTwice(g.dtors)
  BY <1>1, GlobalParts DEF ValuesWait
<1>3. h = [g EXCEPT !.dtors = TL!Front(@)] /\ hl[i] = h /\ gl[i] = g /\ \A j \in Rows : j # i => hl[j] = gl[j]
  OBVIOUS
<1>4. /\ TL!Front(g.dtors) \in Seq(Keys) /\ k \in Keys /\ NoneTwice(TL!Front(g.dtors))
      /\ Listed(g, k)
      /\ \A x : (\E n \in DOMAIN TL!Front(g.dtors) : TL!Front(g.dtors)[n] = x) <=> Listed(g, x) /\ x # k
  BY <1>2, LastTaken DEF Listed
<1>5. f = [e EXCEPT ![v] = @ + 1]
  OBVIOUS
<1>. HIDE DEF g, k
<1>6. h \in TL!TLSGlobal /\ h.refs = g.refs /\ h.blocks = g.blocks /\ h.vals = g.vals /\ h.dtors = TL!Front(g.dtors)
  <2> DEFINE P == UNION {[K -> Vals] : K \in SUBSET Keys}
  <2>1. TL!TLSGlobal = [refs : Nat, vals : P, dtors : Seq(Keys), blocks : Nat]
    BY DEF TL!TLSGlobal
  <2>. HIDE DEF P
  <2>. QED
    BY <1>1, <1>3, <1>4, <2>1
<1>7. \A x : Listed(h, x) <=> Listed(g, x) /\ x # k
  <2> DEFINE s == TL!Front(g.dtors)
  <2>1. h.dtors = s /\ \A x : (\E n \in DOMAIN s : s[n] = x) <=> Listed(g, x) /\ x # k
    BY <1>4, <1>6, Zenon
  <2>. HIDE DEF s
  <2>2. \A x : Listed(h, x) <=> \E n \in DOMAIN s : s[n] = x
    BY <2>1 DEF Listed
  <2>. QED
    BY <2>1, <2>2, Zenon
<1>8. k \in DOMAIN g.vals /\ v \in Vals /\ e[v] = 0
  BY <1>1, <1>4, GlobalParts DEF ValuesWait
<1>. HIDE DEF v
<1>9. f \in [Vals -> Nat] /\ f[v] = 1 /\ \A x \in Vals : x # v => f[x] = e[x]
  BY <1>5, <1>8
<1>10. v = g.vals[k]
  BY DEF v
<1>11. \A j \in Rows : gl[j] # NULL => \A x \in DOMAIN gl[j].vals : gl[j].vals[x] = v => j = i /\ x = k
  BY <1>3, <1>8, <1>10 DEF ValuesKept
<1>12. \A j \in Rows : gl[j] # NULL => \A x \in DOMAIN gl[j].vals : gl[j].vals[x] \in Vals
  BY GlobalParts
<1>13. ValuesWait(h, f, w)
  <2>1. \A x \in DOMAIN g.vals : g.vals[x] \in Vals /\ (g.vals[x] = v => x = k)
    BY <1>3, <1>11, <1>12
  <2>2. ASSUME NEW x \in Keys, Listed(h, x)
        PROVE  x \in DOMAIN h.vals /\ f[h.vals[x]] = 0
    <3>1. x \in DOMAIN g.vals /\ e[g.vals[x]] = 0 /\ x # k
      BY <1>1, <1>7, <2>2 DEF ValuesWait
    <3>. QED
      BY <1>6, <1>9, <2>1, <3>1
  <2>3. ASSUME NEW x \in DOMAIN h.vals, h.vals[x] \in w, ~Listed(h, x)
        PROVE  f[h.vals[x]] = 1
    <3>1. CASE x = k
      BY <1>6, <1>9, <1>10, <3>1
    <3>2. CASE x # k
      <4>1. x \in DOMAIN g.vals /\ g.vals[x] \in w /\ ~Listed(g, x)
        BY <1>6, <1>7, <2>3, <3>2
      <4>2. e[g.vals[x]] = 1
        BY <1>1, <4>1 DEF ValuesWait
      <4>. QED
        BY <1>6, <1>9, <2>1, <3>2, <4>1, <4>2
    <3>. QED
      BY <3>1, <3>2
  <2>. QED
    BY <1>4, <1>6, <2>2, <2>3 DEF ValuesWait
<1>14. ASSUME NEW j \in Rows, j # i, gl[j] # NULL
       PROVE  ValuesWait(gl[j], f, w)
  <2>1. ValuesWait(gl[j], e, w)
    BY <1>14 DEF ValuesKept
  <2>2. \A x \in DOMAIN gl[j].vals : f[gl[j].vals[x]] = e[gl[j].vals[x]]
    BY <1>9, <1>11, <1>12, <1>14
  <2>. QED
    BY <2>1, <2>2 DEF ValuesWait
<1>15. \A j \in Rows : hl[j] # NULL => gl[j] # NULL /\ hl[j].vals = gl[j].vals /\ ValuesWait(hl[j], f, w)
  BY <1>3, <1>6, <1>13, <1>14
<1>16. \A j \in Rows : gl[j] # NULL => hl[j] # NULL
  BY <1>3
<1>17. \A x \in w : \E j \in Rows : hl[j] # NULL /\ x \in TL!In(hl[j])
  BY <1>15, <1>16 DEF ValuesKept, TL!In
<1>18. \A x \in Vals : f[x] <= 1
  BY <1>9 DEF ValuesKept
<1>19. \A a, b \in Rows : hl[a] # NULL /\ hl[b] # NULL =>
         \A x \in DOMAIN hl[a].vals, y \in DOMAIN hl[b].vals : hl[a].vals[x] = hl[b].vals[y] => a = b /\ x = y
  BY <1>15 DEF ValuesKept
<1>20. ValuesKept(hl, f, w)
  BY <1>15, <1>17, <1>18, <1>19 DEF ValuesKept
<1>. QED
  BY <1>6, <1>8, <1>9, <1>20 DEF g, k

\* Which TLSGlobal instance(true) gives, and that it makes the first time.
LEMMA InstanceIs ==
  ASSUME TLSAssumption, TLSTypes, PhaseTells, phase = "runs" \/ TL!Instance <= Rounds
  PROVE  /\ TL!Instance \in Rows /\ TL!Has \in TL!TLSGlobal /\ TL!Has # NULL
         /\ \/ slot # NULL /\ TL!Instance = slot /\ TL!Has = global[slot]
            \/ slot = NULL /\ global[TL!Instance] = NULL /\ TL!Has = TL!NewGlobal
<1>1. Rounds \in Nat \ {0} /\ NULL \notin Nat /\ NULL \notin TL!TLSGlobal
  BY DEF TLSAssumption
<1>2. CASE slot # NULL
  BY <1>1, <1>2 DEF TLSTypes, TL!Instance, TL!Has
<1>3. CASE slot = NULL
  <2> DEFINE S == {i \in 1 .. Rounds + 1 : i = Rounds + 1 \/ global[i] = NULL}
             Good(i) == (i = Rounds + 1 \/ global[i] = NULL) /\ \A j \in 1 .. i - 1 : global[j] # NULL
             f == TL!Fresh
  <2>1. \E i \in 1 .. Rounds + 1 : Good(i)
    <3>1. S \subseteq Nat /\ Rounds + 1 \in S
      BY <1>1
    <3>2. PICK m \in S : \A k \in S : m <= k
      BY <3>1, LeastOf
    <3>3. m \in 1 .. Rounds + 1 /\ (m = Rounds + 1 \/ global[m] = NULL)
      BY <3>2
    <3>4. ASSUME NEW j \in 1 .. m - 1
          PROVE  global[j] # NULL
      <4>1. j \in 1 .. Rounds + 1 /\ ~(m <= j)
        BY <1>1, <3>3
      <4>. QED
        BY <3>2, <4>1
    <3>. QED
      BY <3>3, <3>4
  <2>2. f = CHOOSE i \in 1 .. Rounds + 1 : Good(i)
    BY DEF TL!Fresh
  <2>. HIDE DEF f
  <2>3. f \in 1 .. Rounds + 1 /\ Good(f)
    BY <2>1, <2>2
  <2>4. f \in Rows /\ global[f] = NULL
    <3>1. CASE f <= Rounds
      BY <1>1, <2>3, <3>1 DEF Rows
    <3>2. CASE phase = "runs"
      <4>1. 1 \in Rows /\ global[1] = NULL
        BY <1>1, <1>3, <3>2 DEF PhaseTells, Rows
      <4>2. f = 1
        <5>1. ~(1 \in 1 .. f - 1)
          BY <2>3, <4>1
        <5>. QED
          BY <1>1, <2>3, <5>1
      <4>. QED
        BY <4>1, <4>2
    <3>3. TL!Instance = f
      BY <1>3 DEF TL!Instance, f
    <3>. QED
      BY <3>1, <3>2, <3>3
  <2>5. TL!Instance = f /\ TL!Has = TL!NewGlobal
    BY <1>3 DEF TL!Instance, TL!Has, f
  <2>6. TL!NewGlobal \in TL!TLSGlobal
    <3>1. <<>> \in UNION {[K -> Vals] : K \in SUBSET Keys}
      <4>1. <<>> \in [{} -> Vals] /\ {} \in SUBSET Keys
        OBVIOUS
      <4>. QED
        BY <4>1
    <3>2. <<>> \in Seq(Keys)
      OBVIOUS
    <3>. QED
      BY <3>1, <3>2 DEF TL!NewGlobal, TL!TLSGlobal
  <2>. QED
    BY <1>1, <1>3, <2>4, <2>5, <2>6
<1>. QED
  BY <1>2, <1>3

LEMMA NewGlobalIs ==
  /\ TL!NewGlobal.refs = 1 /\ TL!NewGlobal.blocks = 0 /\ TL!NewGlobal.vals = <<>> /\ TL!NewGlobal.dtors = <<>>
BY DEF TL!NewGlobal

\* The TLSGlobal of a thread that runs changes.
LEMMA BecomesKeeps ==
  ASSUME TLSAssumption, TLSOK, phase = "runs", dying = NULL, NEW g \in TL!TLSGlobal, TL!Becomes(g),
         g.refs = g.blocks + 1, phase' = phase, dying' = dying, ended' = ended,
         ValuesKept(global', ended, owed')
  PROVE  TLSOK'
<1>1. NULL \notin TL!TLSGlobal /\ NULL \notin Rows
  BY DEF TLSAssumption, Rows
<1>2. TL!Instance \in Rows /\ (slot = NULL \/ TL!Instance = slot)
  BY InstanceIs DEF TLSOK
<1>3. slot' = TL!Instance /\ global' = [global EXCEPT ![TL!Instance] = g]
  BY DEF TL!Becomes
<1>4. /\ global \in [Rows -> TL!TLSGlobal \cup {NULL}] /\ ended \in [Vals -> Nat]
      /\ \A i \in Rows : i # slot => global[i] = NULL
  BY DEF TLSOK, TLSTypes, PhaseTells
<1>5. global'[slot'] = g /\ \A i \in Rows : i # slot' => global'[i] = NULL
  BY <1>1, <1>2, <1>3, <1>4
<1>6. TLSTypes'
  BY <1>1, <1>2, <1>3, <1>4, <1>5 DEF TLSTypes
<1>7. PhaseTells'
  BY <1>5 DEF PhaseTells
<1>8. \A i \in Rows : global'[i] # NULL => CountsTell(i)'
  BY <1>1, <1>5 DEF CountsTell
<1>. QED
  BY <1>6, <1>7, <1>8 DEF TLSOK

\* Only counts change of the one a thread that runs has.
LEMMA RunsKeeps ==
  ASSUME TLSAssumption, TLSOK, phase = "runs", dying = NULL, NEW g \in TL!TLSGlobal, TL!Becomes(g),
         g.refs = g.blocks + 1, g.vals = TL!Has.vals, g.dtors = TL!Has.dtors,
         phase' = phase, dying' = dying, ended' = ended, owed' = owed
  PROVE  TLSOK'
<1>1. NULL \notin TL!TLSGlobal /\ global \in [Rows -> TL!TLSGlobal \cup {NULL}]
  BY DEF TLSAssumption, TLSOK, TLSTypes
<1>2. /\ TL!Instance \in Rows
      /\ \/ slot # NULL /\ TL!Instance = slot /\ TL!Has = global[slot]
         \/ slot = NULL /\ global[TL!Instance] = NULL /\ TL!Has = TL!NewGlobal
  BY InstanceIs DEF TLSOK
<1>3. global' = [global EXCEPT ![TL!Instance] = g]
  BY DEF TL!Becomes
<1>4. /\ \A i \in Rows : global[i] # NULL => global'[i] # NULL /\ global'[i].vals = global[i].vals /\ global'[i].dtors = global[i].dtors
      /\ \A i \in Rows : global[i] = NULL => global'[i] = NULL \/ (global'[i].vals = <<>> /\ global'[i].dtors = <<>>)
  <2> DEFINE p == TL!Instance
             o == TL!Has
  <2>1. p \in Rows /\ global'[p] = g /\ g # NULL /\ \A i \in Rows : i # p => global'[i] = global[i]
    BY <1>1, <1>2, <1>3
  <2>2. g.vals = o.vals /\ g.dtors = o.dtors
    OBVIOUS
  <2>3. (global[p] # NULL /\ o = global[p]) \/ (global[p] = NULL /\ o.vals = <<>> /\ o.dtors = <<>>)
    <3>1. slot # NULL => global[slot] # NULL
      BY DEF TLSOK, TLSTypes
    <3>. QED
      BY <1>2, <3>1, NewGlobalIs
  <2>. HIDE DEF p, o
  <2>. QED
    BY <2>1, <2>2, <2>3
<1>5. ValuesKept(global', ended, owed)
  BY <1>4, ValuesStay DEF TLSOK
<1>. QED
  BY <1>5, BecomesKeeps

\* What a thread that runs has is counted for it.
LEMMA HasIsCounted ==
  ASSUME TLSAssumption, TLSOK, phase = "runs"
  PROVE  /\ TL!Has \in TL!TLSGlobal /\ TL!Has.refs = TL!Has.blocks + 1 /\ TL!Has.blocks \in Nat
         /\ \A v \in TL!In(TL!Has) : v \in Vals
<1>1. /\ TL!Has \in TL!TLSGlobal
      /\ \/ slot # NULL /\ TL!Has = global[slot]
         \/ slot = NULL /\ TL!Has = TL!NewGlobal
  BY InstanceIs DEF TLSOK
<1>2. slot # NULL => slot \in Rows /\ CountsTell(slot)
  BY DEF TLSOK, TLSTypes
<1>. QED
  BY <1>1, <1>2, NewGlobalIs, GlobalParts DEF CountsTell, TL!In

\* Set() and TLSSingleton::init(): a value is set where the counts are right.
LEMMA SettingKeeps ==
  ASSUME TLSAssumption, TLSOK, phase = "runs", dying = NULL,
         NEW o \in TL!TLSGlobal, o.refs = o.blocks + 1, o.vals = TL!Has.vals, o.dtors = TL!Has.dtors,
         NEW k \in Keys, NEW v \in TL!Unused, NEW d \in BOOLEAN, TL!Becomes(TL!SetGlobal(o, k, v, d)),
         d /\ k \in DOMAIN o.vals => Listed(o, k),
         owed' = (owed \cup IF d THEN {v} ELSE {}) \ (TL!In(TL!Has) \ TL!In(global'[TL!Instance])),
         phase' = phase, dying' = dying, ended' = ended
  PROVE  TLSOK'
<1> DEFINE p == TL!Instance
           gl == [global EXCEPT ![p] = o]
           g == TL!SetGlobal(o, k, v, d)
<1>1. NULL \notin TL!TLSGlobal /\ global \in [Rows -> TL!TLSGlobal \cup {NULL}] /\ ended \in [Vals -> Nat]
  BY DEF TLSAssumption, TLSOK, TLSTypes
<1>2. /\ p \in Rows
      /\ \/ global[p] # NULL /\ TL!Has = global[p]
         \/ global[p] = NULL /\ TL!Has.vals = <<>> /\ TL!Has.dtors = <<>>
  <2>1. slot # NULL => global[slot] # NULL
    BY DEF TLSOK, TLSTypes
  <2>. QED
    BY <2>1, InstanceIs, NewGlobalIs DEF TLSOK
<1>3. global' = [global EXCEPT ![p] = g]
  BY DEF TL!Becomes
<1>4. v \in Vals /\ ended[v] = 0 /\ \A j \in Rows : global[j] # NULL => v \notin TL!In(global[j])
  BY DEF TL!Unused, Rows
<1>5. TL!In(o) = TL!In(TL!Has) /\ v \notin TL!In(o)
  <2>1. TL!In(o) = TL!In(TL!Has)
    BY DEF TL!In
  <2>2. v \notin TL!In(TL!Has)
    <3>1. CASE global[p] # NULL /\ TL!Has = global[p]
      BY <1>2, <1>4, <3>1
    <3>2. CASE TL!Has.vals = <<>>
      BY <3>2 DEF TL!In
    <3>. QED
      BY <1>2, <3>1, <3>2
  <2>. QED
    BY <2>1, <2>2
<1>. HIDE DEF p, g
<1>6. gl[p] = o /\ gl \in [Rows -> TL!TLSGlobal \cup {NULL}] /\ (\A j \in Rows : j # p => gl[j] = global[j]) /\ o # NULL
  BY <1>1, <1>2
<1>7. global' = [gl EXCEPT ![p] = g] /\ global'[p] = g
  BY <1>1, <1>2, <1>3
<1>. HIDE DEF gl
<1>8. ValuesKept(gl, ended, owed)
  <2> DEFINE q == TL!Has
  <2>1. ValuesKept(global, ended, owed) /\ o.vals = q.vals /\ o.dtors = q.dtors
    BY DEF TLSOK
  <2>2. (global[p] # NULL /\ q = global[p]) \/ (global[p] = NULL /\ q.vals = <<>> /\ q.dtors = <<>>)
    BY <1>2 DEF p
  <2>. HIDE DEF q
  <2>3. /\ \A i \in Rows : global[i] # NULL => gl[i] # NULL /\ gl[i].vals = global[i].vals /\ gl[i].dtors = global[i].dtors
        /\ \A i \in Rows : global[i] = NULL => gl[i] = NULL \/ (gl[i].vals = <<>> /\ gl[i].dtors = <<>>)
    BY <1>6, <2>1, <2>2
  <2>. QED
    BY <2>1, <2>3, ValuesStay
<1>9. \A j \in Rows : gl[j] # NULL => v \notin TL!In(gl[j])
  BY <1>4, <1>5, <1>6
<1>10. g \in TL!TLSGlobal /\ g.refs = g.blocks + 1
  <2>1. NoneTwice(o.dtors) /\ \A x \in Keys : Listed(o, x) => x \in DOMAIN o.vals
    BY <1>2, <1>6, <1>8 DEF ValuesKept, ValuesWait, p
  <2>2. v \in Vals
    BY <1>4
  <2>. QED
    BY <2>1, <2>2, SetGlobalIs DEF g
<1>11. ValuesKept(global', ended, (owed \cup IF d THEN {v} ELSE {}) \ (TL!In(gl[p]) \ TL!In(global'[p])))
  <2>1. p \in Rows
    BY <1>2 DEF p
  <2>2. gl[p] \in TL!TLSGlobal /\ gl[p] # NULL /\ v \in Vals /\ ended[v] = 0
    BY <1>4, <1>6
  <2>3. d /\ k \in DOMAIN gl[p].vals => Listed(gl[p], k)
    BY <1>6
  <2>4. global' = [gl EXCEPT ![p] = TL!SetGlobal(gl[p], k, v, d)] /\ global'[p] # NULL
    BY <1>1, <1>6, <1>7, <1>10 DEF g
  <2>. QED
    BY <1>6, <1>8, <1>9, <2>1, <2>2, <2>3, <2>4, ValueComes
<1>12. ValuesKept(global', ended, owed')
  BY <1>5, <1>6, <1>11 DEF p
<1>13. TL!Becomes(g)
  BY DEF g
<1>. QED
  BY <1>10, <1>12, <1>13, BecomesKeeps

\* A thread that runs.
LEMMA RunsStep ==
  ASSUME TLSAssumption, TLSInv, fault' = {}, fault = {}, phase = "runs", dying = NULL,
         \/ \E k \in Keys, v \in TL!Unused, d \in BOOLEAN : TL!Set(k, v, d)
         \/ \E k \in Keys : TL!SetFails(k)
         \/ \E k \in Keys, v \in TL!Unused : TL!InitSingleton(k, v)
         \/ TL!Allocate \/ TL!Free \/ TL!ReallocateToZero
  PROVE  TLSOK'
<1>1. TLSOK
  BY DEF TLSInv
<1>. USE <1>1
<1>2. TL!Has \in TL!TLSGlobal /\ TL!Has.refs = TL!Has.blocks + 1 /\ TL!Has.blocks \in Nat
  BY HasIsCounted
<1>3. ASSUME NEW k \in Keys, NEW v \in TL!Unused, NEW d \in BOOLEAN, TL!Set(k, v, d)
      PROVE  TLSOK'
  <2>1. /\ TL!Becomes(TL!SetGlobal(TL!Has, k, v, d))
        /\ owed' = (owed \cup IF d THEN {v} ELSE {}) \ (TL!In(TL!Has) \ TL!In(global'[TL!Instance]))
        /\ ~(d /\ k \in DOMAIN TL!Has.vals \ TL!ToSet(TL!Has.dtors))
        /\ phase' = phase /\ dying' = dying /\ ended' = ended
    BY <1>3 DEF TL!Set
  <2>2. d /\ k \in DOMAIN TL!Has.vals => Listed(TL!Has, k)
    BY <2>1 DEF Listed, TL!ToSet
  <2>. QED
    BY <1>2, <2>1, <2>2, SettingKeeps
<1>4. ASSUME NEW k \in Keys, TL!SetFails(k)
      PROVE  FALSE
  BY <1>4 DEF TL!SetFails
<1>5. \A n \in Nat : LET o == [TL!Has EXCEPT !.blocks = @ + 1, !.refs = @ + 1]
                     IN  o \in TL!TLSGlobal /\ o.refs = o.blocks + 1 /\ o.vals = TL!Has.vals /\ o.dtors = TL!Has.dtors
  <2> DEFINE P == UNION {[K -> Vals] : K \in SUBSET Keys}
             q == TL!Has
  <2>1. TL!TLSGlobal = [refs : Nat, vals : P, dtors : Seq(Keys), blocks : Nat]
    BY DEF TL!TLSGlobal
  <2>2. q \in TL!TLSGlobal /\ q.refs = q.blocks + 1
    BY <1>2
  <2>. HIDE DEF P, q
  <2>3. LET o == [q EXCEPT !.blocks = @ + 1, !.refs = @ + 1]
        IN  o \in TL!TLSGlobal /\ o.refs = o.blocks + 1 /\ o.vals = q.vals /\ o.dtors = q.dtors
    <3> DEFINE o == [q EXCEPT !.blocks = @ + 1, !.refs = @ + 1]
    <3>1. q.refs \in Nat /\ q.blocks \in Nat /\ q.vals \in P /\ q.dtors \in Seq(Keys)
      BY <2>1, <2>2
    <3>2. o = [refs |-> q.refs + 1, vals |-> q.vals, dtors |-> q.dtors, blocks |-> q.blocks + 1]
      <4> DEFINE a == [q EXCEPT !.blocks = q.blocks + 1]
      <4>1. a = [refs |-> q.refs, vals |-> q.vals, dtors |-> q.dtors, blocks |-> q.blocks + 1]
        BY <2>1, <2>2
      <4>2. o = [a EXCEPT !.refs = q.refs + 1]
        BY <4>1
      <4>. HIDE DEF a, o
      <4>. QED
        BY <4>1, <4>2
    <3>. HIDE DEF o
    <3>3. o \in TL!TLSGlobal /\ o.refs = q.refs + 1 /\ o.blocks = q.blocks + 1 /\ o.vals = q.vals /\ o.dtors = q.dtors
      BY <2>1, <3>1, <3>2
    <3>. QED
      BY <2>2, <3>1, <3>3 DEF o
  <2>. QED
    BY <2>3 DEF q
<1>6. ASSUME NEW k \in Keys, NEW v \in TL!Unused, TL!InitSingleton(k, v)
      PROVE  TLSOK'
  <2> DEFINE o == [TL!Has EXCEPT !.blocks = @ + 1, !.refs = @ + 1]
  <2>1. /\ TL!Becomes(TL!SetGlobal(o, k, v, TRUE)) /\ k \notin DOMAIN TL!Has.vals /\ owed' = owed \cup {v}
        /\ phase' = phase /\ dying' = dying /\ ended' = ended
    BY <1>6 DEF TL!InitSingleton
  <2>2. o \in TL!TLSGlobal /\ o.refs = o.blocks + 1 /\ o.vals = TL!Has.vals /\ o.dtors = TL!Has.dtors
    BY <1>5
  <2>. HIDE DEF o
  <2>3. TL!In(TL!Has) \subseteq TL!In(global'[TL!Instance])
    <3> DEFINE h == TL!SetGlobal(o, k, v, TRUE)
    <3>1. global'[TL!Instance] = h
      <4>1. TL!Instance \in Rows /\ global \in [Rows -> TL!TLSGlobal \cup {NULL}]
        BY InstanceIs DEF TLSOK, TLSTypes
      <4>. QED
        BY <2>1, <4>1 DEF TL!Becomes
    <3>2. h.vals = [x \in DOMAIN o.vals \cup {k} |-> IF x = k THEN v ELSE o.vals[x]]
      BY <2>2 DEF TL!SetGlobal, TL!TLSGlobal
    <3>. HIDE DEF h
    <3>3. \A x \in DOMAIN o.vals : x \in DOMAIN h.vals /\ h.vals[x] = o.vals[x]
      BY <2>1, <2>2, <3>2
    <3>. QED
      BY <2>2, <3>1, <3>3 DEF TL!In
  <2>4. owed' = (owed \cup IF TRUE THEN {v} ELSE {}) \ (TL!In(TL!Has) \ TL!In(global'[TL!Instance]))
    BY <2>1, <2>3
  <2>. QED
    BY <2>1, <2>2, <2>4, SettingKeeps
<1>7. CASE TL!Allocate
  <2>1. /\ TL!Becomes([TL!Has EXCEPT !.blocks = @ + 1, !.refs = @ + 1])
        /\ phase' = phase /\ dying' = dying /\ ended' = ended /\ owed' = owed
    BY <1>7 DEF TL!Allocate
  <2>. QED
    BY <1>5, <2>1, RunsKeeps
<1>8. CASE TL!Free
  <2> DEFINE g == TL!Release([TL!Has EXCEPT !.blocks = @ - 1])
             P == UNION {[K -> Vals] : K \in SUBSET Keys}
             q == TL!Has
  <2>1. slot # NULL /\ TL!Has.blocks > 0 /\ TL!Gives(g)
    BY <1>8 DEF TL!Free
  <2>2. TL!TLSGlobal = [refs : Nat, vals : P, dtors : Seq(Keys), blocks : Nat]
    BY DEF TL!TLSGlobal
  <2>3. g = [[q EXCEPT !.blocks = @ - 1] EXCEPT !.refs = @ - 1] /\ q \in TL!TLSGlobal /\ q.refs = q.blocks + 1 /\ q.blocks > 0
    BY <1>2, <2>1 DEF TL!Release
  <2>. HIDE DEF P, q, g
  <2>4. g \in TL!TLSGlobal /\ g.refs = g.blocks + 1 /\ g.refs # 0 /\ g.vals = q.vals /\ g.dtors = q.dtors
    <3>1. q.refs \in Nat /\ q.blocks \in Nat /\ q.blocks - 1 \in Nat /\ q.refs - 1 \in Nat /\ q.vals \in P /\ q.dtors \in Seq(Keys)
      BY <2>2, <2>3
    <3>2. g = [refs |-> q.refs - 1, vals |-> q.vals, dtors |-> q.dtors, blocks |-> q.blocks - 1]
      BY <2>2, <2>3
    <3>3. g \in TL!TLSGlobal /\ g.refs = q.refs - 1 /\ g.blocks = q.blocks - 1 /\ g.vals = q.vals /\ g.dtors = q.dtors
      BY <2>2, <3>1, <3>2
    <3>. QED
      BY <2>3, <3>1, <3>3
  <2>5. TL!Becomes(g) /\ phase' = phase /\ dying' = dying /\ ended' = ended /\ owed' = owed
    BY <2>1, <2>4 DEF TL!Gives, TL!Becomes, TL!Instance
  <2>. QED
    BY <2>4, <2>5, RunsKeeps DEF q
<1>9. CASE TL!ReallocateToZero
  BY <1>9 DEF TL!ReallocateToZero
<1>. QED
  BY <1>3, <1>4, <1>6, <1>7, <1>8, <1>9

\* The thread, or the process, lets go of what it has.
LEMMA ReleaseStep ==
  ASSUME TLSAssumption, TLSOK, dying = NULL, slot # NULL,
         \/ phase \in {"runs", "destructs"} /\ TL!ReleasesOne(slot, NULL, "destructs")
         \/ phase = "runs" /\ TL!ReleasesOne(slot, slot, "exits")
  PROVE  TLSOK'
<1> DEFINE g == global[slot]
           h == TL!Release(g)
<1>1. /\ NULL \notin TL!TLSGlobal /\ NULL \notin Rows /\ slot \in Rows
      /\ global \in [Rows -> TL!TLSGlobal \cup {NULL}] /\ g \in TL!TLSGlobal /\ ended \in [Vals -> Nat]
  BY DEF TLSAssumption, TLSOK, TLSTypes, Rows
<1>2. /\ phase \in {"runs", "destructs"}
      /\ global' = [global EXCEPT ![slot] = h]
      /\ dying' = IF g.refs = 1 THEN slot ELSE NULL
      /\ ended' = ended /\ owed' = owed
      /\ \/ slot' = NULL /\ phase' = IF dying' = NULL THEN "over" ELSE "destructs"
         \/ slot' = (IF dying' = NULL THEN NULL ELSE slot) /\ phase' = IF dying' = NULL THEN "over" ELSE "exits"
  BY <1>1 DEF TL!ReleasesOne
<1>3. \A i \in Rows : global[i] # NULL => CountsTell(i)
  BY DEF TLSOK
<1>4. g.refs = g.blocks + 1 /\ g.blocks \in Nat /\ g.refs \in Nat
  BY <1>1, <1>2, <1>3, GlobalParts DEF CountsTell
<1>5. h \in TL!TLSGlobal /\ h.refs = g.blocks /\ h.blocks = g.blocks /\ h.vals = g.vals /\ h.dtors = g.dtors
  <2> DEFINE P == UNION {[K -> Vals] : K \in SUBSET Keys}
  <2>1. TL!TLSGlobal = [refs : Nat, vals : P, dtors : Seq(Keys), blocks : Nat]
    BY DEF TL!TLSGlobal
  <2>2. h = [g EXCEPT !.refs = @ - 1]
    BY DEF TL!Release
  <2>. HIDE DEF P, h, g
  <2>3. g.vals \in P /\ g.dtors \in Seq(Keys)
    BY <1>1, <2>1
  <2>4. h = [refs |-> g.refs - 1, vals |-> g.vals, dtors |-> g.dtors, blocks |-> g.blocks]
    BY <1>1, <2>1, <2>2
  <2>. QED
    BY <1>4, <2>1, <2>3, <2>4
<1>6. global[slot] = g /\ global'[slot] = h /\ \A i \in Rows : i # slot => global'[i] = global[i]
  BY <1>1, <1>2
<1>. HIDE DEF g, h
<1>7. TLSTypes'
  BY <1>1, <1>2, <1>5, <1>6 DEF TLSTypes
<1>8. PhaseTells'
  BY <1>1, <1>2 DEF PhaseTells
<1>9. ASSUME NEW i \in Rows, global'[i] # NULL
      PROVE  CountsTell(i)'
  <2>1. CASE i = slot
    <3>1. CASE g.refs = 1
      BY <1>1, <1>2, <1>4, <1>5, <1>6, <2>1, <3>1 DEF CountsTell
    <3>2. CASE g.refs # 1
      BY <1>1, <1>2, <1>4, <1>5, <1>6, <2>1, <3>2 DEF CountsTell
    <3>. QED
      BY <3>1, <3>2
  <2>2. CASE i # slot
    BY <1>1, <1>2, <1>3, <1>6, <1>9, <2>2 DEF CountsTell
  <2>. QED
    BY <2>1, <2>2
<1>10. ValuesKept(global', ended', owed')
  <2>1. ValuesKept(global, ended, owed)
    BY DEF TLSOK
  <2>2. /\ \A i \in Rows : global[i] # NULL => global'[i] # NULL /\ global'[i].vals = global[i].vals /\ global'[i].dtors = global[i].dtors
        /\ \A i \in Rows : global[i] = NULL => global'[i] = NULL \/ (global'[i].vals = <<>> /\ global'[i].dtors = <<>>)
    BY <1>1, <1>5, <1>6
  <2>3. ValuesKept(global', ended, owed)
    BY <2>1, <2>2, ValuesStay
  <2>. QED
    BY <1>2, <2>3
<1>. QED
  BY <1>7, <1>8, <1>9, <1>10 DEF TLSOK

\* What the one that dies is, and that it calls a destructor for each key listed.
LEMMA DyingIs ==
  ASSUME TLSAssumption, TLSOK, dying # NULL
  PROVE  /\ phase \in {"destructs", "exits"} /\ (phase = "exits" <=> slot = dying)
         /\ dying \in Rows /\ TL!Dying = global[dying] /\ TL!Dying \in TL!TLSGlobal /\ TL!Dying # NULL
         /\ TL!Dying.refs = 0 /\ TL!Dying.blocks = 0
         /\ ValuesWait(TL!Dying, ended, owed)
         /\ TL!Dying.dtors # <<>> => TL!Last(TL!Dying.dtors) \in DOMAIN TL!Dying.vals
<1>1. phase \in {"destructs", "exits"} /\ (phase = "exits" <=> slot = dying)
  BY DEF TLSOK, PhaseTells
<1>2. dying \in Rows /\ TL!Dying = global[dying] /\ TL!Dying \in TL!TLSGlobal /\ TL!Dying # NULL
  BY DEF TLSAssumption, TLSOK, TLSTypes, TL!Dying
<1>3. CountsTell(dying) /\ ValuesWait(TL!Dying, ended, owed)
  BY <1>2 DEF TLSOK, ValuesKept
<1>4. TL!Dying.refs = 0 /\ TL!Dying.blocks = 0
  BY <1>1, <1>2, <1>3 DEF CountsTell
<1>5. ASSUME TL!Dying.dtors # <<>>
      PROVE  TL!Last(TL!Dying.dtors) \in DOMAIN TL!Dying.vals
  <2> DEFINE g == TL!Dying
  <2>1. g.dtors \in Seq(Keys) /\ g.dtors # <<>> /\ NoneTwice(g.dtors)
    BY <1>2, <1>3, <1>5, GlobalParts DEF ValuesWait
  <2>2. TL!Last(g.dtors) \in Keys /\ Listed(g, TL!Last(g.dtors))
    BY <2>1, LastTaken DEF Listed
  <2>. QED
    BY <1>3, <2>2 DEF ValuesWait
<1>. QED
  BY <1>1, <1>2, <1>3, <1>4, <1>5

\* A destructor has been called, and the rest may have changed the one in use.
LEMMA DyingGoesOn ==
  ASSUME TLSAssumption, TLSOK, dying # NULL, dying' = dying, phase' = phase, ended' \in [Vals -> Nat],
         global' \in [Rows -> TL!TLSGlobal \cup {NULL}], slot' \in Rows \cup {NULL},
         slot' # NULL => global'[slot'] # NULL,
         slot' = dying <=> slot = dying, slot = NULL \/ slot' = slot,
         global'[dying] # NULL, global'[dying].refs = 0, global'[dying].blocks = 0,
         slot' # NULL /\ slot' # dying => global'[slot'].refs = global'[slot'].blocks + 1,
         \A i \in Rows : i # dying /\ i # slot' => global'[i] = global[i],
         ValuesKept(global', ended', owed')
  PROVE  TLSOK'
<1>1. phase \in {"destructs", "exits"} /\ (phase = "exits" <=> slot = dying) /\ dying \in Rows /\ NULL \notin Rows
  BY DyingIs DEF TLSAssumption, Rows
<1>2. TLSTypes'
  BY <1>1 DEF TLSTypes
<1>3. PhaseTells'
  BY <1>1 DEF PhaseTells
<1>4. ASSUME NEW i \in Rows, global'[i] # NULL
      PROVE  CountsTell(i)'
  <2>1. CASE i = dying
    BY <1>1, <2>1 DEF CountsTell
  <2>2. CASE i # dying /\ i = slot'
    BY <1>1, <1>4, <2>2 DEF CountsTell
  <2>3. CASE i # dying /\ i # slot'
    <3>1. global'[i] = global[i] /\ CountsTell(i)
      BY <1>4, <2>3 DEF TLSOK
    <3>. QED
      BY <1>1, <2>3, <3>1 DEF CountsTell
  <2>. QED
    BY <2>1, <2>2, <2>3
<1>. QED
  BY <1>2, <1>3, <1>4 DEF TLSOK

\* The same of the one that dies.
LEMMA DyingEnds ==
  ASSUME global \in [Rows -> TL!TLSGlobal \cup {NULL}], ended \in [Vals -> Nat], ValuesKept(global, ended, owed),
         dying \in Rows, global[dying] \in TL!TLSGlobal, global[dying] # NULL, global[dying].dtors # <<>>,
         NEW h, h = [global[dying] EXCEPT !.dtors = TL!Front(@)], h # NULL,
         ended' = [ended EXCEPT ![global[dying].vals[TL!Last(global[dying].dtors)]] = @ + 1]
  PROVE  /\ h \in TL!TLSGlobal /\ h.refs = global[dying].refs /\ h.blocks = global[dying].blocks /\ h.vals = global[dying].vals
         /\ ended' \in [Vals -> Nat] /\ TL!Last(global[dying].dtors) \in DOMAIN global[dying].vals
         /\ ValuesKept([global EXCEPT ![dying] = h], ended', owed)
<1> DEFINE hl == [global EXCEPT ![dying] = h]
<1>1. hl = [global EXCEPT ![dying] = h]
  OBVIOUS
<1>. HIDE DEF hl
<1>2. h \in TL!TLSGlobal /\ h.refs = global[dying].refs /\ h.blocks = global[dying].blocks /\ h.vals = global[dying].vals
  BY <1>1, ValueEnds, SMTT(60)
<1>3. TL!Last(global[dying].dtors) \in DOMAIN global[dying].vals
  BY <1>1, ValueEnds, SMTT(60)
<1>4. ended' \in [Vals -> Nat]
  <2> DEFINE v == global[dying].vals[TL!Last(global[dying].dtors)]
  <2>1. ended \in [Vals -> Nat] /\ ended' = [ended EXCEPT ![v] = @ + 1]
    OBVIOUS
  <2>2. v \in Vals
    BY <1>3, GlobalParts
  <2>. HIDE DEF v
  <2>3. ended[v] + 1 \in Nat
    BY <2>1, <2>2
  <2>. QED
    BY <2>1, <2>2, <2>3
<1>5. ValuesKept(hl, ended', owed)
  BY <1>1, ValueEnds
<1>. QED
  BY <1>1, <1>2, <1>3, <1>4, <1>5

\* A destructor is called.
LEMMA CallsStep ==
  ASSUME TLSAssumption, TLSOK, fault' = {}, fault = {},
         \/ TL!CallsNothing \/ TL!CallsAllocator
         \/ \E k \in Keys, v \in TL!Unused : TL!CallsSet(k, v)
  PROVE  TLSOK'
<1> DEFINE g == TL!Dying
           h == TL!Popped
           gl == [global EXCEPT ![dying] = h]
<1>1. TL!Calls /\ TL!Ends /\ dying' = dying /\ phase' = phase
  BY DEF TL!CallsNothing, TL!CallsAllocator, TL!CallsSet
<1>2. /\ phase \in {"destructs", "exits"} /\ (phase = "exits" <=> slot = dying)
      /\ dying # NULL /\ dying \in Rows /\ g = global[dying] /\ g \in TL!TLSGlobal /\ g # NULL /\ g.refs = 0 /\ g.blocks = 0
      /\ g.dtors # <<>>
  BY <1>1, DyingIs DEF TL!Calls
<1>3. /\ NULL \notin TL!TLSGlobal /\ NULL \notin Rows
      /\ global \in [Rows -> TL!TLSGlobal \cup {NULL}] /\ ended \in [Vals -> Nat]
      /\ slot \in Rows \cup {NULL} /\ (slot # NULL => global[slot] # NULL)
  BY DEF TLSAssumption, TLSOK, TLSTypes, Rows
<1>4. ended' = [ended EXCEPT ![g.vals[TL!Last(g.dtors)]] = @ + 1] /\ h = [g EXCEPT !.dtors = TL!Front(@)]
  BY <1>1 DEF TL!Ends, TL!Popped
<1>. HIDE DEF g, h
<1>5. h # NULL
  <2> DEFINE P == UNION {[K -> Vals] : K \in SUBSET Keys}
  <2>1. TL!TLSGlobal = [refs : Nat, vals : P, dtors : Seq(Keys), blocks : Nat]
    BY DEF TL!TLSGlobal
  <2>2. TL!Front(g.dtors) \in Seq(Keys)
    <3>1. g.dtors \in Seq(Keys) /\ g.dtors # <<>>
      BY <1>2, GlobalParts
    <3>2. NoneTwice(g.dtors)
      BY <1>2, DyingIs DEF ValuesWait, g
    <3>. QED
      BY <3>1, <3>2, LastTaken
  <2>. HIDE DEF P
  <2>3. h \in TL!TLSGlobal
    BY <1>2, <1>4, <2>1, <2>2
  <2>. QED
    BY <1>3, <2>3
<1>6. /\ h \in TL!TLSGlobal /\ h.refs = 0 /\ h.blocks = 0 /\ h.vals = g.vals
      /\ ended' \in [Vals -> Nat] /\ TL!Last(g.dtors) \in DOMAIN g.vals
      /\ ValuesKept(gl, ended', owed)
  <2>1. ValuesKept(global, ended, owed)
    BY DEF TLSOK
  <2>. HIDE DEF gl
  <2>2. gl = [global EXCEPT ![dying] = h]
    BY DEF gl
  <2>3. /\ global[dying] \in TL!TLSGlobal /\ global[dying] # NULL /\ global[dying].dtors # <<>>
        /\ h = [global[dying] EXCEPT !.dtors = TL!Front(@)]
        /\ ended' = [ended EXCEPT ![global[dying].vals[TL!Last(global[dying].dtors)]] = @ + 1]
    BY <1>2, <1>4
  <2>4. /\ global \in [Rows -> TL!TLSGlobal \cup {NULL}] /\ ended \in [Vals -> Nat]
        /\ dying \in Rows /\ h # NULL
    BY <1>2, <1>3, <1>5
  <2>5. /\ h \in TL!TLSGlobal /\ h.refs = global[dying].refs /\ h.blocks = global[dying].blocks /\ h.vals = global[dying].vals
        /\ ended' \in [Vals -> Nat] /\ TL!Last(global[dying].dtors) \in DOMAIN global[dying].vals
        /\ ValuesKept([global EXCEPT ![dying] = h], ended', owed)
    BY <2>1, <2>3, <2>4, DyingEnds
  <2>. QED
    BY <1>2, <2>2, <2>5
<1>7. gl \in [Rows -> TL!TLSGlobal \cup {NULL}] /\ gl[dying] = h /\ \A i \in Rows : i # dying => gl[i] = global[i]
  BY <1>2, <1>3, <1>6
<1>8. slot # NULL /\ slot # dying => global[slot].refs = global[slot].blocks + 1
  <2>1. slot # NULL /\ slot # dying => CountsTell(slot)
    BY <1>3 DEF TLSOK
  <2>. QED
    BY <1>2, <2>1 DEF CountsTell
<1>9. CASE TL!CallsNothing
  <2>1. global' = gl /\ slot' = slot /\ owed' = owed
    BY <1>9 DEF TL!CallsNothing, h
  <2>. HIDE DEF gl
  <2>2. ValuesKept(global', ended', owed')
    BY <1>6, <2>1
  <2>3. /\ global' \in [Rows -> TL!TLSGlobal \cup {NULL}] /\ slot' \in Rows \cup {NULL}
        /\ slot' # NULL => global'[slot'] # NULL
        /\ slot' = dying <=> slot = dying
        /\ global'[dying] # NULL /\ global'[dying].refs = 0 /\ global'[dying].blocks = 0
        /\ slot' # NULL /\ slot' # dying => global'[slot'].refs = global'[slot'].blocks + 1
        /\ \A i \in Rows : i # dying /\ i # slot' => global'[i] = global[i]
    BY <1>2, <1>3, <1>5, <1>6, <1>7, <1>8, <2>1
  <2>. QED
    BY <1>1, <1>2, <1>6, <2>1, <2>2, <2>3, DyingGoesOn
<1>10. ASSUME slot # dying, TL!Instance <= Rounds
       PROVE  LET p == TL!Instance
                  q == TL!Has
              IN  /\ p \in Rows /\ p # dying /\ q \in TL!TLSGlobal /\ q # NULL /\ q.refs = q.blocks + 1
                  /\ slot = NULL \/ slot = p
                  /\ (global[p] # NULL /\ q = global[p]) \/ (global[p] = NULL /\ q.vals = <<>> /\ q.dtors = <<>>)
                  /\ ValuesKept([gl EXCEPT ![p] = q], ended', owed)
  <2> DEFINE p == TL!Instance
             q == TL!Has
             hl == [gl EXCEPT ![p] = q]
  <2>1. /\ p \in Rows /\ q \in TL!TLSGlobal /\ q # NULL
        /\ \/ slot # NULL /\ p = slot /\ q = global[slot]
           \/ slot = NULL /\ global[p] = NULL /\ q = TL!NewGlobal
    BY <1>10, InstanceIs DEF TLSOK
  <2>. HIDE DEF p, q, gl
  <2>2. p # dying /\ (slot = NULL \/ slot = p) /\ q.refs = q.blocks + 1
    BY <1>2, <1>8, <1>10, <2>1, NewGlobalIs
  <2>3. (global[p] # NULL /\ q = global[p]) \/ (global[p] = NULL /\ q.vals = <<>> /\ q.dtors = <<>>)
    BY <1>3, <2>1, NewGlobalIs
  <2>4. gl[p] = global[p] /\ hl[p] = q /\ \A i \in Rows : i # p => hl[i] = gl[i]
    BY <1>7, <2>1, <2>2
  <2>. HIDE DEF hl
  <2>5. /\ \A i \in Rows : gl[i] # NULL => hl[i] # NULL /\ hl[i].vals = gl[i].vals /\ hl[i].dtors = gl[i].dtors
        /\ \A i \in Rows : gl[i] = NULL => hl[i] = NULL \/ (hl[i].vals = <<>> /\ hl[i].dtors = <<>>)
    BY <2>1, <2>3, <2>4
  <2>6. ValuesKept(hl, ended', owed)
    BY <1>6, <2>5, ValuesStay
  <2>. QED
    BY <2>1, <2>2, <2>3, <2>6 DEF p, q, hl
<1>11. CASE TL!CallsAllocator
  <2> DEFINE p == TL!Instance
             q == TL!Has
  <2>1. slot # dying /\ p <= Rounds /\ slot' = p /\ global' = [global EXCEPT ![dying] = h, ![p] = q] /\ owed' = owed
    BY <1>11 DEF TL!CallsAllocator, h
  <2>2. /\ p \in Rows /\ p # dying /\ q \in TL!TLSGlobal /\ q # NULL /\ q.refs = q.blocks + 1
        /\ slot = NULL \/ slot = p
        /\ ValuesKept([gl EXCEPT ![p] = q], ended', owed)
    BY <1>10, <2>1
  <2>. HIDE DEF p, q
  <2>3. global' = [gl EXCEPT ![p] = q]
    BY <2>1
  <2>4. ValuesKept(global', ended', owed')
    BY <2>1, <2>2, <2>3
  <2>. HIDE DEF gl
  <2>5. /\ global' \in [Rows -> TL!TLSGlobal \cup {NULL}] /\ slot' \in Rows \cup {NULL}
        /\ slot' # NULL => global'[slot'] # NULL
        /\ slot' = dying <=> slot = dying
        /\ slot = NULL \/ slot' = slot
        /\ global'[dying] # NULL /\ global'[dying].refs = 0 /\ global'[dying].blocks = 0
        /\ slot' # NULL /\ slot' # dying => global'[slot'].refs = global'[slot'].blocks + 1
        /\ \A i \in Rows : i # dying /\ i # slot' => global'[i] = global[i]
    BY <1>2, <1>3, <1>5, <1>6, <1>7, <2>1, <2>2, <2>3
  <2>. QED
    BY <1>1, <1>2, <1>6, <2>4, <2>5, DyingGoesOn
<1>12. ASSUME NEW k \in Keys, NEW v \in Vals, v \in TL!Unused, TL!CallsSet(k, v)
       PROVE  TLSOK'
  <2>1. v \in Vals /\ ended[v] = 0 /\ \A j \in Rows : global[j] # NULL => v \notin TL!In(global[j])
    BY <1>12 DEF TL!Unused, Rows
  <2>2. v # g.vals[TL!Last(g.dtors)]
    BY <1>2, <1>6, <2>1 DEF TL!In
  <2>3. ended'[v] = 0
    BY <1>3, <1>4, <2>1, <2>2
  <2>4. k \notin DOMAIN TL!Has.vals /\ owed' = owed \cup {v}
    BY <1>12 DEF TL!CallsSet
  <2>5. CASE slot = dying
    <3> DEFINE n == TL!SetGlobal(h, k, v, TRUE)
    <3>1. global' = [global EXCEPT ![dying] = n] /\ slot' = slot
      BY <1>12, <2>5 DEF TL!CallsSet, h
    <3>2. k \notin DOMAIN h.vals
      BY <1>2, <1>6, <2>4, <2>5 DEF TL!Has
    <3>3. NoneTwice(h.dtors) /\ \A x \in Keys : Listed(h, x) => x \in DOMAIN h.vals
      BY <1>2, <1>5, <1>6, <1>7 DEF ValuesKept, ValuesWait
    <3>4. /\ n \in TL!TLSGlobal /\ n.refs = 0 /\ n.blocks = 0
          /\ DOMAIN n.vals = DOMAIN h.vals \cup {k}
          /\ \A x \in DOMAIN h.vals : x # k => n.vals[x] = h.vals[x]
      <4>1. ListIsRight(h) /\ v \in Vals
        BY <1>6, <2>1, <3>3 DEF ListIsRight
      <4>2. OneKeySet(h, n, k)
        BY <4>1, ValueWithDestructor, Zenon
      <4>. HIDE DEF n
      <4>. QED
        BY <1>6, <4>2 DEF OneKeySet
    <3>5. n = TL!SetGlobal(gl[dying], k, v, TRUE)
      BY <1>7
    <3>. HIDE DEF n, gl
    <3>6. TL!In(h) \subseteq TL!In(n)
      BY <3>2, <3>4 DEF TL!In
    <3>7. global' = [gl EXCEPT ![dying] = n] /\ global'[dying] = n /\ n # NULL
      BY <1>2, <1>3, <3>1, <3>4 DEF gl
    <3>8. \A j \in Rows : gl[j] # NULL => v \notin TL!In(gl[j])
      BY <1>2, <1>6, <1>7, <2>1 DEF TL!In
    <3>9. ValuesKept(global', ended', (owed \cup IF TRUE THEN {v} ELSE {}) \ (TL!In(gl[dying]) \ TL!In(global'[dying])))
      <4>1. gl[dying] \in TL!TLSGlobal /\ gl[dying] # NULL
        BY <1>5, <1>6, <1>7
      <4>2. global' = [gl EXCEPT ![dying] = TL!SetGlobal(gl[dying], k, v, TRUE)] /\ global'[dying] # NULL
        BY <3>5, <3>7
      <4>3. TRUE /\ k \in DOMAIN gl[dying].vals => Listed(gl[dying], k)
        BY <1>7, <3>2
      <4>4. dying \in Rows /\ v \in Vals /\ TRUE \in BOOLEAN
        BY <1>2, <2>1
      <4>. QED
        BY <1>6, <1>7, <2>3, <3>8, <4>1, <4>2, <4>3, <4>4, ValueComes
    <3>10. ValuesKept(global', ended', owed')
      BY <1>7, <2>4, <3>6, <3>7, <3>9
    <3>11. /\ global' \in [Rows -> TL!TLSGlobal \cup {NULL}]
           /\ \A i \in Rows : i # dying => global'[i] = global[i]
      BY <1>3, <3>1, <3>4
    <3>. QED
      BY <1>1, <1>2, <1>3, <1>6, <2>5, <3>1, <3>4, <3>7, <3>10, <3>11, DyingGoesOn
  <2>6. CASE slot # dying
    <3> DEFINE p == TL!Instance
               q == TL!Has
               n == TL!SetGlobal(q, k, v, TRUE)
               hl == [gl EXCEPT ![p] = q]
    <3>1. p <= Rounds /\ slot' = p /\ global' = [global EXCEPT ![dying] = h, ![p] = n]
      BY <1>12, <2>6 DEF TL!CallsSet, h
    <3>2. /\ p \in Rows /\ p # dying /\ q \in TL!TLSGlobal /\ q # NULL /\ q.refs = q.blocks + 1
          /\ slot = NULL \/ slot = p
          /\ (global[p] # NULL /\ q = global[p]) \/ (global[p] = NULL /\ q.vals = <<>> /\ q.dtors = <<>>)
          /\ ValuesKept(hl, ended', owed)
      BY <1>10, <2>6, <3>1
    <3>3. k \notin DOMAIN q.vals
      BY <2>4
    <3>. HIDE DEF p, q
    <3>4. hl \in [Rows -> TL!TLSGlobal \cup {NULL}] /\ hl[p] = q /\ \A i \in Rows : i # p => hl[i] = gl[i]
      BY <1>7, <3>2
    <3>5. NoneTwice(q.dtors) /\ \A x \in Keys : Listed(q, x) => x \in DOMAIN q.vals
      BY <3>2, <3>4 DEF ValuesKept, ValuesWait
    <3>6. /\ n \in TL!TLSGlobal /\ n.refs = q.refs /\ n.blocks = q.blocks
          /\ DOMAIN n.vals = DOMAIN q.vals \cup {k}
          /\ \A x \in DOMAIN q.vals : x # k => n.vals[x] = q.vals[x]
      <4>1. ListIsRight(q) /\ v \in Vals
        BY <2>1, <3>2, <3>5 DEF ListIsRight
      <4>2. OneKeySet(q, n, k)
        BY <4>1, ValueWithDestructor, Zenon
      <4>. HIDE DEF n
      <4>. QED
        BY <4>2 DEF OneKeySet
    <3>7. n = TL!SetGlobal(hl[p], k, v, TRUE)
      BY <3>4
    <3>. HIDE DEF n
    <3>8. TL!In(q) \subseteq TL!In(n)
      BY <3>3, <3>6 DEF TL!In
    <3>9. global' = [hl EXCEPT ![p] = n]
      BY <3>1
    <3>. HIDE DEF gl, hl
    <3>10. \A j \in Rows : gl[j] # NULL => v \notin TL!In(gl[j])
      BY <1>2, <1>6, <1>7, <2>1 DEF TL!In
    <3>11. v \notin TL!In(q)
      BY <2>1, <3>2 DEF TL!In
    <3>12. global'[p] = n /\ n # NULL /\ hl[p] \in TL!TLSGlobal /\ hl[p] # NULL
      BY <1>3, <3>2, <3>4, <3>6, <3>9
    <3>13. ValuesKept(global', ended', (owed \cup IF TRUE THEN {v} ELSE {}) \ (TL!In(hl[p]) \ TL!In(global'[p])))
      <4>1. global' = [hl EXCEPT ![p] = TL!SetGlobal(hl[p], k, v, TRUE)] /\ global'[p] # NULL
        BY <3>7, <3>9, <3>12
      <4>2. TRUE /\ k \in DOMAIN hl[p].vals => Listed(hl[p], k)
        BY <3>3, <3>4
      <4>3. \A j \in Rows : hl[j] # NULL => v \notin TL!In(hl[j])
        BY <3>4, <3>10, <3>11
      <4>4. p \in Rows /\ v \in Vals /\ TRUE \in BOOLEAN
        BY <2>1, <3>2
      <4>. QED
        BY <2>3, <3>2, <3>4, <3>12, <4>1, <4>2, <4>3, <4>4, ValueComes
    <3>14. ValuesKept(global', ended', owed')
      BY <2>4, <3>4, <3>8, <3>12, <3>13
    <3>15. /\ global' \in [Rows -> TL!TLSGlobal \cup {NULL}]
           /\ global'[dying] = h /\ \A i \in Rows : i # dying /\ i # p => global'[i] = global[i]
      BY <1>2, <1>7, <3>2, <3>4, <3>6, <3>9
    <3>16. /\ slot' \in Rows \cup {NULL} /\ slot' # NULL /\ global'[slot'] # NULL
           /\ slot' # dying /\ (slot = NULL \/ slot' = slot)
           /\ global'[slot'].refs = global'[slot'].blocks + 1
      BY <1>3, <3>1, <3>2, <3>6, <3>12
    <3>. QED
      BY <1>1, <1>2, <1>5, <1>6, <2>6, <3>1, <3>14, <3>15, <3>16, DyingGoesOn
  <2>. QED
    BY <2>5, <2>6
<1>13. \A v \in TL!Unused : v \in Vals
  BY DEF TL!Unused
<1>. QED
  BY <1>9, <1>11, <1>12, <1>13

\* Every step keeps what holds of the thread-local values.
LEMMA TLSStep ==
  ASSUME TLSAssumption, TLSInv, TL!Next
  PROVE  TLSInv'
<1>. SUFFICES ASSUME fault' = {}
              PROVE  TLSOK'
  BY DEF TLSInv
<1>1. CASE /\ phase = "runs" /\ dying = NULL
           /\ \/ \E k \in Keys, v \in TL!Unused, d \in BOOLEAN : TL!Set(k, v, d)
              \/ \E k \in Keys : TL!SetFails(k)
              \/ \E k \in Keys, v \in TL!Unused : TL!InitSingleton(k, v)
              \/ TL!Allocate \/ TL!Free \/ TL!ReallocateToZero
  <2>1. fault = {}
    <3>1. CASE \E k \in Keys, v \in TL!Unused, d \in BOOLEAN : TL!Set(k, v, d)
      BY <3>1 DEF TL!Set
    <3>2. CASE \E k \in Keys : TL!SetFails(k)
      BY <3>2 DEF TL!SetFails
    <3>3. CASE \E k \in Keys, v \in TL!Unused : TL!InitSingleton(k, v)
      BY <3>3 DEF TL!InitSingleton
    <3>4. CASE TL!Allocate \/ TL!Free \/ TL!ReallocateToZero
      BY <3>4 DEF TL!Allocate, TL!Free, TL!ReallocateToZero
    <3>. QED
      BY <1>1, <3>1, <3>2, <3>3, <3>4
  <2>. QED
    BY <1>1, <2>1, RunsStep
<1>2. CASE TL!ThreadDestruct \/ TL!Term
  <2>1. /\ fault = {} /\ dying = NULL /\ slot # NULL
        /\ \/ phase \in {"runs", "destructs"} /\ TL!ReleasesOne(slot, NULL, "destructs")
           \/ phase = "runs" /\ TL!ReleasesOne(slot, slot, "exits")
    BY <1>2 DEF TL!ThreadDestruct, TL!Term, TL!ReleasesOne
  <2>2. TLSOK
    BY <2>1 DEF TLSInv
  <2>. QED
    BY <2>1, <2>2, ReleaseStep
<1>3. CASE TL!CallsNothing \/ TL!CallsAllocator \/ \E k \in Keys, v \in TL!Unused : TL!CallsSet(k, v)
  <2>1. fault = {}
    BY <1>3 DEF TL!CallsNothing, TL!CallsAllocator, TL!CallsSet
  <2>2. TLSOK
    BY <2>1 DEF TLSInv
  <2>. QED
    BY <1>3, <2>1, <2>2, CallsStep
<1>4. CASE TL!SkipsKey
  <2>1. /\ fault = {} /\ dying # NULL /\ TL!Dying.dtors # <<>>
        /\ TL!Last(TL!Dying.dtors) \notin DOMAIN TL!Dying.vals
    BY <1>4 DEF TL!SkipsKey
  <2>2. TLSOK
    BY <2>1 DEF TLSInv
  <2>. QED
    BY <2>1, <2>2, DyingIs
<1>5. CASE TL!Deleted
  <2>1. /\ fault = {} /\ dying # NULL /\ TL!Dying.dtors = <<>> /\ dying' = NULL
        /\ slot' = IF slot = dying THEN NULL ELSE slot
        /\ phase' = IF slot' = NULL THEN "over" ELSE phase
        /\ global' = global /\ ended' = ended /\ owed' = owed
    BY <1>5 DEF TL!Deleted
  <2>2. TLSOK
    BY <2>1 DEF TLSInv
  <2>3. /\ phase \in {"destructs", "exits"} /\ (phase = "exits" <=> slot = dying)
        /\ dying \in Rows /\ global[dying].dtors = <<>>
    BY <2>1, <2>2, DyingIs DEF TL!Dying
  <2>4. TLSTypes'
    BY <2>1, <2>2 DEF TLSOK, TLSTypes
  <2>5. PhaseTells'
    BY <2>1, <2>3 DEF PhaseTells
  <2>6. ASSUME NEW i \in Rows, global'[i] # NULL
        PROVE  CountsTell(i)'
    <3>1. CountsTell(i) /\ global'[i] = global[i]
      BY <2>1, <2>2, <2>6 DEF TLSOK
    <3>2. NULL \notin Rows
      BY DEF TLSAssumption, Rows
    <3>3. (slot' = i /\ phase' # "exits") <=> (slot = i /\ phase # "exits")
      BY <2>1, <2>3, <3>2
    <3>4. i # slot' => i # slot \/ i = dying
      BY <2>1
    <3>. QED
      BY <2>1, <2>3, <3>1, <3>2, <3>3, <3>4 DEF CountsTell
  <2>7. ValuesKept(global', ended', owed')
    BY <2>1, <2>2 DEF TLSOK
  <2>. QED
    BY <2>4, <2>5, <2>6, <2>7 DEF TLSOK
<1>. QED
  BY <1>1, <1>2, <1>3, <1>4, <1>5 DEF TL!Next

LEMMA TLSStutter ==
  ASSUME TLSInv, UNCHANGED TL!vars
  PROVE  TLSInv'
<1>1. /\ global' = global /\ slot' = slot /\ phase' = phase /\ dying' = dying
      /\ ended' = ended /\ owed' = owed /\ fault' = fault
  BY DEF TL!vars
<1>2. TLSTypes => TLSTypes'
  BY <1>1 DEF TLSTypes
<1>3. PhaseTells => PhaseTells'
  BY <1>1 DEF PhaseTells
<1>4. \A i \in Rows : CountsTell(i) => CountsTell(i)'
  BY <1>1 DEF CountsTell
<1>. QED
  BY <1>1, <1>2, <1>3, <1>4 DEF TLSInv, TLSOK

LEMMA TLSStarts ==
  ASSUME TLSAssumption, TL!Init
  PROVE  TLSInv
<1>1. /\ global = [i \in Rows |-> NULL] /\ slot = NULL /\ phase = "runs" /\ dying = NULL
      /\ ended = [v \in Vals |-> 0] /\ owed = {}
  BY DEF TL!Init, Rows
<1>2. TLSTypes
  BY <1>1 DEF TLSTypes
<1>3. PhaseTells
  BY <1>1 DEF PhaseTells
<1>4. \A i \in Rows : global[i] = NULL
  BY <1>1
<1>5. \A v \in Vals : ended[v] <= 1
  BY <1>1
<1>6. ValuesKept(global, ended, owed)
  BY <1>1, <1>4, <1>5 DEF ValuesKept
<1>. QED
  BY <1>2, <1>3, <1>4, <1>6 DEF TLSInv, TLSOK

\* What is kept at the end has had its destructors called, unless memory is left.
LEMMA TLSEnds ==
  ASSUME TLSAssumption, TLSInv
  PROVE  TL!EndsValuesOnce
<1>. SUFFICES ASSUME fault = {}
              PROVE  /\ \A i \in {j \in 1 .. Rounds : global[j] # NULL} :
                          /\ global[i].refs = global[i].blocks + (IF slot = i /\ phase # "exits" THEN 1 ELSE 0)
                          /\ phase = "over" /\ global[i].blocks = 0 => \A v \in owed \cap TL!In(global[i]) : ended[v] = 1
                     /\ \A v \in Vals : ended[v] <= 1
                     /\ dying # NULL => TL!Dying.blocks = 0
  BY DEF TL!EndsValuesOnce
<1>1. TLSOK
  BY DEF TLSInv
<1>2. ASSUME NEW i \in Rows, global[i] # NULL
      PROVE  /\ global[i].refs = global[i].blocks + (IF slot = i /\ phase # "exits" THEN 1 ELSE 0)
             /\ phase = "over" /\ global[i].blocks = 0 => \A v \in owed \cap TL!In(global[i]) : ended[v] = 1
  <2>1. CountsTell(i) /\ ValuesWait(global[i], ended, owed)
    BY <1>1, <1>2 DEF TLSOK, ValuesKept
  <2>2. ASSUME phase = "over", global[i].blocks = 0, NEW v \in owed \cap TL!In(global[i])
        PROVE  ended[v] = 1
    <3>1. slot = NULL /\ dying = NULL /\ i # NULL
      BY <1>1, <2>2 DEF TLSOK, PhaseTells, TLSAssumption, Rows
    <3>2. global[i].dtors = <<>>
      BY <2>1, <2>2, <3>1 DEF CountsTell
    <3>3. PICK k \in DOMAIN global[i].vals : global[i].vals[k] = v
      BY <2>2 DEF TL!In
    <3>4. DOMAIN <<>> = {}
      OBVIOUS
    <3>5. ~Listed(global[i], k)
      BY <3>2, <3>4 DEF Listed
    <3>. QED
      BY <2>1, <2>2, <3>3, <3>5 DEF ValuesWait
  <2>. QED
    BY <2>1, <2>2 DEF CountsTell
<1>3. \A v \in Vals : ended[v] <= 1
  BY <1>1 DEF TLSOK, ValuesKept
<1>4. dying # NULL => TL!Dying.blocks = 0
  BY <1>1, DyingIs
<1>. QED
  BY <1>2, <1>3, <1>4 DEF Rows

\* As long as nothing has gone wrong that `fault' records, no destructor of a
\* thread-local value is called twice or while memory of its TLSGlobal is in use,
\* and when the thread is over that of every value set with one has been called,
\* unless memory is left (TLS.cpp).
THEOREM ValuesEndOnce == MCSpec => []EndsValuesOnce
<1>1. MCInit => TLSInv
  BY TLSAssumption, TLSStarts DEF MCInit
<1>2. TLSInv /\ [MCNext]_<<used, vars, ringVars, guardVars, allocatorVars, loggerVars, atomicVars, tlsVars>> => TLSInv'
  <2>1. SUFFICES ASSUME TLSInv, [MCNext]_<<used, vars, ringVars, guardVars, allocatorVars, loggerVars, atomicVars, tlsVars>>
                 PROVE  TLSInv'
    OBVIOUS
  <2>2. TL!Next \/ UNCHANGED TL!vars
    BY <2>1 DEF MCNext, tlsVars, TL!vars
  <2>. QED
    BY <2>1, <2>2, TLSAssumption, TLSStep, TLSStutter
<1>3. TLSInv => EndsValuesOnce
  BY TLSAssumption, TLSEnds DEF EndsValuesOnce
<1>. QED
  BY <1>1, <1>2, <1>3, PTL DEF MCSpec
================================================================================
