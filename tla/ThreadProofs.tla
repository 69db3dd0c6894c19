------------------------------ MODULE ThreadProofs ------------------------------
(***************************************************************************)
(* Theorems about Thread, for any numbers of objects, clients and owners.  *)
(* The invariant adds to the three that are stated there what the          *)
(* handshake of run() rests on: the caller holds its SharedPtr until       *)
(* started is set, and the pthread holds one from before that on.          *)
(*                                                                         *)
(* The second half has the same theorems of PoolSpec, where a thread may   *)
(* belong to a ThreadPool, and that the pool reuses only finished places.  *)
(***************************************************************************)
EXTENDS Thread, TLAPS

PthreadStates == {"none"} \cup InFunction \cup {"signalled", "exited"}

TypeOK ==
  /\ finished \in [Objects -> BOOLEAN]
  /\ pthread \in [Objects -> PthreadStates]
  /\ self \in [Objects -> BOOLEAN]
  /\ cancelled \in [Objects -> BOOLEAN]
  /\ owned \in [Owners -> SUBSET Objects]
  /\ pc \in [Clients -> {"idle", "starts", "joins", "cancels", "collects"}]
  /\ on \in [Clients -> Objects \cup {NoObject}]

\* ptrThis refers to the object from before started is set until the end.
HoldsItself ==
  \A o \in Objects :
    self[o] <=> pthread[o] \in {"referenced", "running", "ended", "signalled"}

\* The caller of run() keeps its SharedPtr while it waits for started.
RunnerHolds == \A c \in Clients : pc[c] = "starts" => on[c] \in owned[c]

IInv ==
  /\ TypeOK
  /\ HoldsItself
  /\ RunnerHolds
  /\ WrapperOutlivesStart
  /\ FinishedMeansOver

-----------------------------------------------------------------------------
LEMMA InvImpliesAlive == IInv => ObjectOutlivesPthread
  BY ThreadAssumption
  DEF IInv, TypeOK, HoldsItself, RunnerHolds, WrapperOutlivesStart, HasStarted,
      ObjectOutlivesPthread, Held, InFunction, ThreadAssumption

LEMMA InitInv == Init => IInv
  BY ThreadAssumption
  DEF Init, IInv, TypeOK, HoldsItself, RunnerHolds, WrapperOutlivesStart, HasStarted,
      FinishedMeansOver, InFunction, PthreadStates, ThreadAssumption

LEMMA RunKeepsInv ==
  ASSUME IInv, NEW c \in Clients, NEW o \in Objects, Run(c, o)
  PROVE  IInv'
  <1>. USE DEF IInv, Run, Begins, PthreadGoes
  <1>1. TypeOK'
    BY ThreadAssumption DEF TypeOK, InFunction, PthreadStates, ThreadAssumption
  <1>2. HoldsItself'
    BY DEF TypeOK, HoldsItself
  <1>3. RunnerHolds'
    BY ThreadAssumption DEF TypeOK, RunnerHolds, ThreadAssumption
  <1>4. WrapperOutlivesStart'
    BY DEF TypeOK, WrapperOutlivesStart, HasStarted
  <1>5. FinishedMeansOver'
    BY DEF TypeOK, FinishedMeansOver, InFunction
  <1>. QED
    BY <1>1, <1>2, <1>3, <1>4, <1>5

LEMMA RunReturnsKeepsInv ==
  ASSUME IInv, NEW c \in Clients, RunReturns(c)
  PROVE  IInv'
  <1>. USE DEF IInv, RunReturns, Steps
  <1>1. TypeOK'
    BY DEF TypeOK
  <1>2. HoldsItself' /\ RunnerHolds' /\ FinishedMeansOver'
    BY DEF TypeOK, HoldsItself, RunnerHolds, FinishedMeansOver
  <1>3. WrapperOutlivesStart'
    BY DEF TypeOK, WrapperOutlivesStart, HasStarted
  <1>. QED
    BY <1>1, <1>2, <1>3

\* The steps of a pthread.
LEMMA ThreadStepsKeepInv ==
  ASSUME IInv, NEW o \in Objects, ThreadSteps(o) \/ FunctionReturns(o)
  PROVE  IInv'
  <1>. USE DEF IInv, PthreadGoes
  <1>1. CASE TakesReference(o)
    BY <1>1 DEF TakesReference, TypeOK, HoldsItself, RunnerHolds, WrapperOutlivesStart,
                HasStarted, FinishedMeansOver, InFunction, PthreadStates
  <1>2. CASE SetsStarted(o)
    BY <1>2 DEF SetsStarted, TypeOK, HoldsItself, RunnerHolds, WrapperOutlivesStart,
                HasStarted, FinishedMeansOver, InFunction, PthreadStates
  <1>3. CASE FunctionReturns(o)
    BY <1>3 DEF FunctionReturns, TypeOK, HoldsItself, RunnerHolds, WrapperOutlivesStart,
                HasStarted, FinishedMeansOver, InFunction, PthreadStates
  <1>4. CASE SetsFinished(o)
    BY <1>4 DEF SetsFinished, TypeOK, HoldsItself, RunnerHolds, WrapperOutlivesStart,
                HasStarted, FinishedMeansOver, InFunction, PthreadStates
  <1>5. CASE Exits(o)
    BY <1>5 DEF Exits, TypeOK, HoldsItself, RunnerHolds, WrapperOutlivesStart,
                HasStarted, FinishedMeansOver, InFunction, PthreadStates
  <1>. QED
    BY <1>1, <1>2, <1>3, <1>4, <1>5 DEF ThreadSteps

\* A client that is not in run() goes on in join() or abort().
LEMMA ClientMovesKeepInv ==
  ASSUME IInv, NEW c \in Clients, pc[c] # "starts",
         NEW s \in {"idle", "joins", "cancels", "collects"},
         NEW o \in Objects \cup {NoObject},
         pc' = [pc EXCEPT ![c] = s], on' = [on EXCEPT ![c] = o],
         cancelled' \in [Objects -> BOOLEAN], \A oo \in Objects : cancelled[oo] => cancelled'[oo],
         UNCHANGED <<finished, pthread, self, owned>>
  PROVE  IInv'
  <1>1. TypeOK' /\ HoldsItself'
    BY DEF IInv, TypeOK, HoldsItself
  <1>2. RunnerHolds' /\ WrapperOutlivesStart'
    BY DEF IInv, TypeOK, RunnerHolds, WrapperOutlivesStart, HasStarted
  <1>3. FinishedMeansOver'
    BY DEF IInv, TypeOK, FinishedMeansOver
  <1>. QED
    BY <1>1, <1>2, <1>3 DEF IInv

LEMMA DropKeepsInv ==
  ASSUME IInv, NEW c \in Clients, NEW o \in Objects, Drop(c, o)
  PROVE  IInv'
  <1>1. c \in Owners /\ pc[c] = "idle"
    BY ThreadAssumption DEF Drop, Begins, ThreadAssumption
  <1>2. /\ pc' = [pc EXCEPT ![c] = pc'[c]] /\ pc'[c] \in {"idle", "cancels"}
        /\ on' = [on EXCEPT ![c] = on'[c]] /\ on'[c] \in Objects \cup {NoObject}
    BY <1>1 DEF IInv, TypeOK, Drop, Begins
  <1>3. owned' \in [Owners -> SUBSET Objects]
        /\ \A w \in Owners \ {c} : owned'[w] = owned[w]
    BY <1>1 DEF IInv, TypeOK, Drop
  <1>4. UNCHANGED <<finished, pthread, self, cancelled>>
    BY DEF Drop
  <1>5. TypeOK' /\ HoldsItself' /\ FinishedMeansOver'
    BY <1>2, <1>3, <1>4 DEF IInv, TypeOK, HoldsItself, FinishedMeansOver
  <1>6. RunnerHolds' /\ WrapperOutlivesStart'
    BY <1>1, <1>2, <1>3, <1>4, ThreadAssumption
    DEF IInv, TypeOK, RunnerHolds, WrapperOutlivesStart, HasStarted, ThreadAssumption
  <1>. QED
    BY <1>5, <1>6 DEF IInv

LEMMA ShareKeepsInv ==
  ASSUME IInv, NEW c \in Clients, NEW d \in Clients, NEW o \in Objects, Share(c, d, o)
  PROVE  IInv'
  BY ThreadAssumption
  DEF IInv, Share, TypeOK, HoldsItself, RunnerHolds, WrapperOutlivesStart, HasStarted,
      FinishedMeansOver, ThreadAssumption

LEMMA NextInv == IInv /\ [Next]_threadVars => IInv'
  <1>. SUFFICES ASSUME IInv, [Next]_threadVars PROVE IInv'
    OBVIOUS
  <1>1. ASSUME NEW o \in Objects, ThreadSteps(o) \/ FunctionReturns(o) PROVE IInv'
    BY <1>1, ThreadStepsKeepInv
  <1>2. ASSUME NEW c \in Clients, RunReturns(c) PROVE IInv'
    BY <1>2, RunReturnsKeepsInv
  <1>3. ASSUME NEW c \in Clients, JoinWaits(c) \/ JoinTimesOut(c) \/ Cancels(c) \/ Collects(c)
        PROVE  IInv'
    <2>1. /\ pc[c] # "starts"
          /\ \E s \in {"idle", "collects"} : pc' = [pc EXCEPT ![c] = s]
          /\ \E o \in Objects \cup {NoObject} : on' = [on EXCEPT ![c] = o]
      BY <1>3 DEF JoinWaits, JoinTimesOut, Cancels, Collects, Steps, IInv, TypeOK
    <2>2. /\ cancelled' \in [Objects -> BOOLEAN]
          /\ \A o \in Objects : cancelled[o] => cancelled'[o]
          /\ UNCHANGED <<finished, pthread, self, owned>>
      BY <1>3 DEF JoinWaits, JoinTimesOut, Cancels, Collects, Steps, IInv, TypeOK
    <2>. QED
      BY <2>1, <2>2, ClientMovesKeepInv
  <1>4. ASSUME NEW c \in Clients, NEW o \in Objects, Run(c, o) PROVE IInv'
    BY <1>4, RunKeepsInv
  <1>5. ASSUME NEW c \in Clients, NEW o \in Objects, Join(c, o) \/ Abort(c, o) PROVE IInv'
    <2>1. /\ pc[c] # "starts"
          /\ \E s \in {"joins", "cancels"} : pc' = [pc EXCEPT ![c] = s]
          /\ on' = [on EXCEPT ![c] = o]
          /\ cancelled' = cancelled /\ cancelled \in [Objects -> BOOLEAN]
          /\ UNCHANGED <<finished, pthread, self, owned>>
      BY <1>5 DEF Join, Abort, Begins, IInv, TypeOK
    <2>. QED
      BY <2>1, ClientMovesKeepInv
  <1>6. ASSUME NEW c \in Clients, NEW o \in Objects, Drop(c, o) PROVE IInv'
    BY <1>6, DropKeepsInv
  <1>7. ASSUME NEW c \in Clients, NEW o \in Objects, NEW d \in Clients, Share(c, d, o)
        PROVE  IInv'
    BY <1>7, ShareKeepsInv
  <1>8. CASE UNCHANGED threadVars
    BY <1>8 DEF threadVars, IInv, TypeOK, HoldsItself, RunnerHolds, WrapperOutlivesStart,
                HasStarted, FinishedMeansOver
  <1>. QED
    BY <1>1, <1>2, <1>3, <1>4, <1>5, <1>6, <1>7, <1>8 DEF Next, ClientNext, ClientSteps

THEOREM Invariance == Spec => []IInv
  BY InitInv, NextInv, PTL DEF Spec

\* A Thread object outlives its pthread, and the wrapper on the stack of run()
\* lives until the pthread has read it, whoever drops which SharedPtr.
THEOREM NothingIsOutlived == Spec => []NothingOutlived
  <1>1. IInv => NothingOutlived
    BY InvImpliesAlive DEF IInv, NothingOutlived
  <1>. QED
    BY <1>1, Invariance, PTL

\* Unless a thread is cancelled, m_finished says whether it is over.
THEOREM FinishedIsTrue == Spec => []FinishedMeansOver
  BY Invariance, PTL DEF IInv

-----------------------------------------------------------------------------
(* ThreadPool: what holds of threads holds of those of a pool, because the *)
(* client that has m_lock has returned from Thread::run() and keeps its    *)
(* SharedPtr until the list has taken it over.                             *)

LockHolderWaits == lock # Nobody => lock \in Users /\ pc[lock] = "idle" /\ owned[lock] # {}

PoolInv == IInv /\ LockHolderWaits

\* The steps of threads and clients that the pool's lock does not concern.
LEMMA AloneKeepsPoolInv ==
  ASSUME PoolInv, Alone(Next), lock # Nobody => pc'[lock] = pc[lock] /\ owned'[lock] = owned[lock]
  PROVE  PoolInv'
  BY NextInv DEF PoolInv, LockHolderWaits, Alone

LEMMA PoolRunsKeepsInv ==
  ASSUME PoolInv, NEW c \in Users, NEW o \in Pooled, PoolRuns(c, o)
  PROVE  PoolInv'
  <1>1. c \in Clients /\ o \in Objects /\ Run(c, o)
    BY ThreadPoolAssumption DEF ThreadPoolAssumption, PoolRuns
  <1>2. IInv'
    BY <1>1, RunKeepsInv DEF PoolInv
  <1>3. lock # Nobody => lock # c
    BY DEF PoolRuns, PoolInv, LockHolderWaits
  <1>4. lock # Nobody => pc'[lock] = pc[lock] /\ owned'[lock] = owned[lock]
    BY <1>1, <1>3, ThreadAssumption, ThreadPoolAssumption
    DEF Run, Begins, PoolInv, LockHolderWaits, IInv, TypeOK, ThreadAssumption, ThreadPoolAssumption
  <1>. QED
    BY <1>2, <1>4 DEF PoolInv, LockHolderWaits, PoolRuns

LEMMA PoolAcquiresKeepsInv ==
  ASSUME PoolInv, NEW c \in Users, PoolAcquires(c)
  PROVE  PoolInv'
  <1>1. IInv'
    BY DEF PoolInv, PoolAcquires, threadVars, IInv, TypeOK, HoldsItself, RunnerHolds,
           WrapperOutlivesStart, HasStarted, FinishedMeansOver
  <1>. QED
    BY <1>1 DEF PoolInv, PoolAcquires, LockHolderWaits, threadVars

\* The list takes over, or loses, threads that no client is starting.
LEMMA ListChangesKeepInv ==
  ASSUME IInv, NEW c \in Clients, pc[c] # "starts", NEW list \in SUBSET Objects, NEW mine \in SUBSET Objects,
         owned' = [owned EXCEPT ![Pool] = list, ![c] = mine],
         UNCHANGED <<finished, pthread, self, cancelled, pc, on>>
  PROVE  IInv'
  <1>1. TypeOK'
    BY DEF IInv, TypeOK
  <1>2. HoldsItself' /\ WrapperOutlivesStart' /\ FinishedMeansOver'
    BY DEF IInv, TypeOK, HoldsItself, WrapperOutlivesStart, HasStarted, FinishedMeansOver
  <1>3. RunnerHolds'
    BY ThreadAssumption, ThreadPoolAssumption
    DEF IInv, TypeOK, RunnerHolds, ThreadAssumption, ThreadPoolAssumption
  <1>. QED
    BY <1>1, <1>2, <1>3 DEF IInv

LEMMA PoolAddsKeepsInv ==
  ASSUME PoolInv, NEW c \in Users, lock = c, NEW list \in SUBSET Objects, PoolAdds(c, list)
  PROVE  PoolInv'
  <1>1. c \in Clients /\ pc[c] # "starts"
    BY ThreadPoolAssumption DEF ThreadPoolAssumption, PoolInv, LockHolderWaits
  <1>2. IInv'
    <2>1. owned' = [owned EXCEPT ![Pool] = list, ![c] = {}]
      BY DEF PoolAdds
    <2>. QED
      BY <1>1, <2>1, ListChangesKeepInv DEF PoolInv, PoolAdds
  <1>. QED
    BY <1>2 DEF PoolInv, LockHolderWaits, PoolAdds

LEMMA PoolJoinsKeepsInv ==
  ASSUME PoolInv, NEW c \in Users, NEW o \in Pooled, PoolJoins(c, o)
  PROVE  PoolInv'
  <1>1. c \in Clients /\ pc[c] # "starts" /\ lock = Nobody
    BY ThreadPoolAssumption DEF ThreadPoolAssumption, PoolJoins
  <1>2. owned' = [owned EXCEPT ![Pool] = owned[Pool] \ {o}, ![c] = owned[c]]
    BY <1>1, ThreadAssumption, ThreadPoolAssumption
    DEF PoolJoins, PoolInv, IInv, TypeOK, ThreadAssumption, ThreadPoolAssumption
  <1>3. owned[Pool] \ {o} \in SUBSET Objects /\ owned[c] \in SUBSET Objects
    BY <1>1, ThreadAssumption, ThreadPoolAssumption
    DEF PoolInv, IInv, TypeOK, ThreadAssumption, ThreadPoolAssumption
  <1>4. IInv'
    BY <1>1, <1>2, <1>3, ListChangesKeepInv DEF PoolInv, PoolJoins
  <1>. QED
    BY <1>1, <1>4 DEF PoolInv, LockHolderWaits, PoolJoins

\* What a step of the pool is: one of threads and clients as they are without a
\* pool, or a change to the list.
LEMMA PoolSteps ==
  ASSUME PoolInv, PoolNext
  PROVE  \/ Alone(Next) /\ (lock # Nobody => pc'[lock] = pc[lock] /\ owned'[lock] = owned[lock])
         \/ \E c \in Users : \/ PoolAcquires(c)
                             \/ \E o \in Pooled : PoolRuns(c, o) \/ PoolJoins(c, o) \/ PassesRunning(c, o)
                             \/ lock = c /\ \E list \in SUBSET Objects : PoolAdds(c, list)
  <1>1. lock # Nobody => lock \in Users /\ lock \in Clients /\ lock \in Owners /\ pc[lock] = "idle"
    BY ThreadAssumption, ThreadPoolAssumption
    DEF PoolInv, LockHolderWaits, ThreadAssumption, ThreadPoolAssumption
  <1>2. ASSUME NEW o \in Objects, Alone(ThreadSteps(o) \/ FunctionReturns(o))
        PROVE  Alone(Next) /\ (lock # Nobody => pc'[lock] = pc[lock] /\ owned'[lock] = owned[lock])
    <2>1. UNCHANGED <<pc, owned>>
      BY <1>2 DEF Alone, ThreadSteps, TakesReference, SetsStarted, SetsFinished, Exits, FunctionReturns
    <2>. QED
      BY <1>2, <2>1 DEF Alone, Next
  <1>3. ASSUME NEW c \in Clients \ Users, Alone(ClientNext(c, Clients \ Users, Objects \ Pooled))
        PROVE  Alone(Next) /\ (lock # Nobody => pc'[lock] = pc[lock] /\ owned'[lock] = owned[lock])
    <2>1. ClientNext(c, Clients, Objects)
      BY <1>3 DEF Alone, ClientNext
    <2>2. Alone(Next)
      BY <1>3, <2>1 DEF Alone, Next
    <2>. DEFINE Others ==
           /\ \E s : pc' = [pc EXCEPT ![c] = s]
           /\ \E d \in Clients \ Users : \E mine : owned' = [owned EXCEPT ![d] = mine]
    <2>3. Others
      <3>1. CASE ClientSteps(c) \/ JoinTimesOut(c)
        <4>1. owned' = owned /\ \E s : pc' = [pc EXCEPT ![c] = s]
          BY <3>1 DEF ClientSteps, RunReturns, JoinWaits, Cancels, Collects, JoinTimesOut, Steps
        <4>2. owned = [owned EXCEPT ![c] = owned[c]]
          BY DEF PoolInv, IInv, TypeOK
        <4>. QED
          BY <4>1, <4>2
      <3>2. ASSUME NEW o \in Objects, Run(c, o) \/ Join(c, o) \/ Abort(c, o) \/ Drop(c, o)
            PROVE  Others
        <4>1. \E s : pc' = [pc EXCEPT ![c] = s]
          BY <3>2 DEF Run, Join, Abort, Drop, Begins, PoolInv, IInv, TypeOK
        <4>2. \E mine : owned' = [owned EXCEPT ![c] = mine]
          BY <3>2 DEF Run, Join, Abort, Drop, PoolInv, IInv, TypeOK
        <4>. QED
          BY <4>1, <4>2
      <3>3. ASSUME NEW o \in Objects, NEW d \in Clients \ Users, Share(c, d, o)
            PROVE  Others
        BY <3>3 DEF Share, PoolInv, IInv, TypeOK
      <3>. QED
        BY <1>3, <3>1, <3>2, <3>3 DEF Alone, ClientNext
    <2>. QED
      BY <1>1, <2>2, <2>3 DEF PoolInv, IInv, TypeOK
  <1>4. ASSUME NEW c \in Users, Alone(RunReturns(c))
        PROVE  Alone(Next) /\ (lock # Nobody => pc'[lock] = pc[lock] /\ owned'[lock] = owned[lock])
    <2>1. c \in Clients
      BY ThreadPoolAssumption DEF ThreadPoolAssumption
    <2>2. Alone(Next)
      BY <1>4, <2>1 DEF Alone, Next, ClientNext, ClientSteps
    <2>. QED
      BY <1>1, <1>4, <2>1, <2>2 DEF Alone, RunReturns, Steps, PoolInv, IInv, TypeOK
  <1>5. m_threads \in SUBSET Objects
    BY ThreadPoolAssumption DEF m_threads, PoolInv, IInv, TypeOK, ThreadPoolAssumption
  <1>6. ASSUME NEW c \in Users, PushesBack(c) \/ \E o \in Pooled : ReplacesFinished(c, o)
        PROVE  lock = c /\ \E list \in SUBSET Objects : PoolAdds(c, list)
    <2>1. owned[c] \in SUBSET Objects
      BY ThreadAssumption, ThreadPoolAssumption
      DEF PoolInv, IInv, TypeOK, ThreadAssumption, ThreadPoolAssumption
    <2>2. CASE PushesBack(c)
      BY <1>5, <2>1, <2>2 DEF PushesBack
    <2>3. CASE \E o \in Pooled : ReplacesFinished(c, o)
      <3>1. PICK o \in Pooled : ReplacesFinished(c, o)
        BY <2>3
      <3>2. (m_threads \ {o}) \cup owned[c] \in SUBSET Objects
        BY <1>5, <2>1
      <3>. QED
        BY <3>1, <3>2 DEF ReplacesFinished
    <2>. QED
      BY <1>6, <2>2, <2>3
  <1>. QED
    BY <1>2, <1>3, <1>4, <1>6 DEF PoolNext

THEOREM PoolInvariance == PoolSpec => []PoolInv
  <1>1. PoolInit => PoolInv
    BY InitInv, ThreadPoolAssumption DEF PoolInit, PoolInv, LockHolderWaits
  <1>2. PoolInv /\ [PoolNext]_vars => PoolInv'
    <2>. SUFFICES ASSUME PoolInv, [PoolNext]_vars PROVE PoolInv'
      OBVIOUS
    <2>1. CASE UNCHANGED vars
      <3>1. IInv'
        BY <2>1, NextInv DEF PoolInv, vars
      <3>. QED
        BY <2>1, <3>1 DEF PoolInv, LockHolderWaits, vars, threadVars
    <2>2. CASE PoolNext
      <3>1. ASSUME NEW c \in Users, NEW o \in Pooled, PassesRunning(c, o) PROVE PoolInv'
        <4>1. IInv'
          BY <2>2, <3>1, NextInv DEF PoolInv, PassesRunning
        <4>. QED
          BY <2>2, <3>1, <4>1 DEF PoolInv, LockHolderWaits, PassesRunning, threadVars
      <3>. QED
        BY <2>2, <3>1, PoolSteps, AloneKeepsPoolInv, PoolAcquiresKeepsInv, PoolRunsKeepsInv,
           PoolJoinsKeepsInv, PoolAddsKeepsInv
    <2>. QED
      BY <2>1, <2>2
  <1>. QED
    BY <1>1, <1>2, PTL DEF PoolSpec

\* Also where a pool starts them and takes them in, Thread objects outlive their
\* pthreads, and the wrapper its reader.
THEOREM PoolOutlivesNothing == PoolSpec => []NothingOutlived
  <1>1. PoolInv => NothingOutlived
    BY InvImpliesAlive DEF PoolInv, IInv, NothingOutlived
  <1>. QED
    BY <1>1, PoolInvariance, PTL

\* The same for m_finished.
THEOREM PoolFinishedIsTrue == PoolSpec => []FinishedMeansOver
  BY PoolInvariance, PTL DEF PoolInv, IInv

\* Only PoolAdds() and PoolJoins() change the list.
LEMMA ListStays ==
  ASSUME PoolInv
  PROVE  /\ \A o \in Objects : Alone(ThreadSteps(o) \/ FunctionReturns(o)) => m_threads' = m_threads
         /\ \A c \in Clients \ Users : Alone(ClientNext(c, Clients \ Users, Objects \ Pooled)) => m_threads' = m_threads
         /\ \A c \in Users : Alone(RunReturns(c)) \/ PoolAcquires(c) => m_threads' = m_threads
         /\ \A c \in Users, o \in Pooled : PoolRuns(c, o) \/ PassesRunning(c, o) => m_threads' = m_threads
  <1>1. \A c \in Clients : c # Pool
    BY ThreadPoolAssumption DEF ThreadPoolAssumption
  <1>2. ASSUME NEW o \in Objects, Alone(ThreadSteps(o) \/ FunctionReturns(o)) PROVE m_threads' = m_threads
    BY <1>2 DEF m_threads, Alone, ThreadSteps, TakesReference, SetsStarted, SetsFinished, Exits, FunctionReturns
  <1>3. ASSUME NEW c \in Clients \ Users, Alone(ClientNext(c, Clients \ Users, Objects \ Pooled))
        PROVE  m_threads' = m_threads
    <2>1. ASSUME ClientSteps(c) \/ JoinTimesOut(c) PROVE m_threads' = m_threads
      BY <2>1 DEF m_threads, ClientSteps, RunReturns, JoinWaits, Cancels, Collects, JoinTimesOut
    <2>2. ASSUME NEW o \in Objects, Run(c, o) \/ Join(c, o) \/ Abort(c, o) \/ Drop(c, o)
          PROVE  m_threads' = m_threads
      <3>1. \E mine : owned' = [owned EXCEPT ![c] = mine] \/ owned' = owned
        BY <2>2 DEF Run, Join, Abort, Drop
      <3>. QED
        BY <1>1, <3>1, ThreadPoolAssumption DEF m_threads, PoolInv, IInv, TypeOK, ThreadPoolAssumption
    <2>3. ASSUME NEW o \in Objects, NEW d \in Clients \ Users, Share(c, d, o) PROVE m_threads' = m_threads
      BY <1>1, <2>3, ThreadPoolAssumption DEF m_threads, Share, PoolInv, IInv, TypeOK, ThreadPoolAssumption
    <2>. QED
      BY <1>3, <2>1, <2>2, <2>3 DEF Alone, ClientNext
  <1>4. ASSUME NEW c \in Users, Alone(RunReturns(c)) \/ PoolAcquires(c) PROVE m_threads' = m_threads
    BY <1>4 DEF m_threads, Alone, RunReturns, PoolAcquires, threadVars
  <1>5. ASSUME NEW c \in Users, NEW o \in Pooled, PoolRuns(c, o) \/ PassesRunning(c, o)
        PROVE  m_threads' = m_threads
    BY <1>1, <1>5, ThreadPoolAssumption
    DEF m_threads, PoolRuns, Run, PassesRunning, threadVars, PoolInv, IInv, TypeOK, ThreadPoolAssumption
  <1>. QED
    BY <1>2, <1>3, <1>4, <1>5

\* Taking in a new thread, the pool lets go of at most one, which has finished.
THEOREM PoolForgetsOnlyFinished == PoolSpec => RunForgetsOnlyFinished
  <1>. DEFINE Kept == m_threads' \ m_threads # {} => \A o, p \in m_threads \ m_threads' : o = p /\ finished[o]
  <1>1. ASSUME PoolInv, PoolNext PROVE Kept
    <2>1. ASSUME NEW c \in Users, NEW o \in Pooled, ReplacesFinished(c, o) PROVE Kept
      <3>1. m_threads' = (m_threads \ {o}) \cup owned[c]
        BY <1>1, <2>1, ThreadAssumption, ThreadPoolAssumption
        DEF ReplacesFinished, PoolAdds, m_threads, PoolInv, IInv, TypeOK, ThreadAssumption, ThreadPoolAssumption
      <3>. QED
        BY <2>1, <3>1 DEF ReplacesFinished
    <2>2. ASSUME NEW c \in Users, PushesBack(c) PROVE Kept
      <3>1. m_threads \subseteq m_threads'
        BY <1>1, <2>2, ThreadAssumption, ThreadPoolAssumption
        DEF PushesBack, PoolAdds, m_threads, PoolInv, IInv, TypeOK, ThreadAssumption, ThreadPoolAssumption
      <3>. QED
        BY <3>1
    <2>3. ASSUME m_threads' = m_threads PROVE Kept
      BY <2>3
    <2>4. ASSUME NEW c \in Users, NEW o \in Pooled, PoolJoins(c, o) PROVE Kept
      BY <1>1, <2>4, ThreadAssumption, ThreadPoolAssumption
      DEF PoolJoins, m_threads, PoolInv, IInv, TypeOK, ThreadAssumption, ThreadPoolAssumption
    <2>. HIDE DEF Kept
    <2>. QED
      BY <1>1, <2>1, <2>2, <2>3, <2>4, ListStays DEF PoolNext
  <1>2. UNCHANGED vars => Kept
    BY DEF vars, threadVars, m_threads
  <1>3. [PoolNext]_vars /\ PoolInv => [Kept]_vars
    BY <1>1, <1>2
  <1>. QED
    BY <1>3, PoolInvariance, PTL DEF PoolSpec, RunForgetsOnlyFinished
=============================================================================
