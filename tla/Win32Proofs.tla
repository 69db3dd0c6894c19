------------------------------ MODULE Win32Proofs ------------------------------
(***************************************************************************)
(* What holds of InitOnce, RWMutex and ConditionVariable for any threads.  *)
(* Each is proved of the component's own specification, as MCWin32 brings  *)
(* it in.                                                                  *)
(***************************************************************************)
EXTENDS MCWin32, Integers, FiniteSetTheorems, TLAPS

-----------------------------------------------------------------------------
(* InitOnce                                                                 *)

OnceTypes ==
  /\ check \in 0..3
  /\ mutex \in Threads \cup {Nobody}
  /\ handles \subseteq Threads
  /\ init \in {"never", "running", "done", "failed"}
  /\ first \in Threads \cup {Nobody}
  /\ runs \in Nat
  /\ nested \in BOOLEAN
  /\ pc \in [Threads -> {"idle", "opens", "waits", "closes"} \cup Inside]
  /\ bReturn \in [Threads -> {"none", "TRUE", "FALSE"}]

\* The mutex object lives while a thread is between its open and its close.
HandlesAreOpen ==
  \A t \in Threads : t \in handles <=> pc[t] \in {"waits", "closes"} \cup Inside

\* *check and InitFn: 0 and 1 until InitFn is called, 0 only before the first
\* call has begun; then 3, and 2 once a failure has been recorded.
CheckTells ==
  /\ check = 0 => \A t \in Threads : pc[t] = "idle"
  /\ check \in {0, 1} <=> init = "never"
  /\ init = "never" <=> runs = 0
  /\ init = "never" <=> first = Nobody
  /\ check = 2 => init = "failed"
  /\ init = "failed" /\ check = 3 => pc[first] = "fails"
  /\ init = "running" => pc[first] = "in_init"

\* Who is where InitFn is called, and what those behind it will return.
CallerIsFirst ==
  \A t \in Threads :
    /\ pc[t] = "assumes" => check = 1
    /\ pc[t] = "in_init" => first = t /\ init = "running"
    /\ pc[t] = "fails" => first = t /\ init = "failed" /\ check = 3
    /\ pc[t] \in {"assumes", "in_init", "fails"} => bReturn[t] = "TRUE"
    /\ pc[t] \in {"releases", "closes"} => init \in {"done", "failed"} /\ bReturn[t] # "none"

OnceInv ==
  /\ OnceTypes
  /\ HandlesAreOpen
  /\ CheckTells
  /\ CallerIsFirst
  /\ OnceAndForAll

\* Nothing of it depends on more than these definitions.
LEMMA OnceInvInit == Init => OnceInv
<1> SUFFICES ASSUME Init
             PROVE  OnceInv
  OBVIOUS
<1> USE InitOnceAssumption DEF Init, Inside
<1>1. OnceTypes
  <2>1. check \in 0..3 /\ runs \in Nat
    OBVIOUS
  <2>2. /\ pc \in [Threads -> {"idle", "opens", "waits", "closes"} \cup Inside]
        /\ bReturn \in [Threads -> {"none", "TRUE", "FALSE"}]
    OBVIOUS
  <2>3. QED
    BY <2>1, <2>2, Zenon DEF OnceTypes
<1>2. HandlesAreOpen /\ CallerIsFirst
  BY DEF HandlesAreOpen, CallerIsFirst
<1>3. CheckTells
  BY DEF CheckTells
<1>4. OnceAndForAll
  BY DEF OnceAndForAll, InitRunsOnce, MutexExcludes, WaitersSeeTheVerdict
<1>5. QED
  BY <1>1, <1>2, <1>3, <1>4 DEF OnceInv

\* Every step of InitOnceExecuteOnce keeps the invariant.
LEMMA OnceInvStep == OnceInv /\ [Next]_vars => OnceInv'
<1> SUFFICES ASSUME OnceInv, [Next]_vars
             PROVE  OnceInv'
  OBVIOUS
<1> USE InitOnceAssumption DEF OnceInv, OnceTypes, HandlesAreOpen, CheckTells, CallerIsFirst,
      OnceAndForAll, InitRunsOnce, MutexExcludes, WaitersSeeTheVerdict, Inside
<1>1. ASSUME NEW t \in Threads, Exchange(t)
      PROVE  OnceInv'
  BY <1>1 DEF Exchange, Goes, WillReturn
<1>2. ASSUME NEW t \in Threads, Open(t)
      PROVE  OnceInv'
  BY <1>2 DEF Open, Goes
<1>3. ASSUME NEW t \in Threads, Acquire(t)
      PROVE  OnceInv'
  BY <1>3 DEF Acquire, Goes
<1>4. ASSUME NEW t \in Threads, Tests(t)
      PROVE  OnceInv'
  BY <1>4 DEF Tests, Goes, WillReturn
<1>5. ASSUME NEW t \in Threads, AssumeSuccess(t)
      PROVE  OnceInv'
  BY <1>5 DEF AssumeSuccess, Goes
<1>6. ASSUME NEW t \in Threads, Recurse(t)
      PROVE  OnceInv'
  BY <1>6 DEF Recurse
<1>7. ASSUME NEW t \in Threads, Succeed(t)
      PROVE  OnceInv'
  <2> USE <1>7 DEF Succeed, Goes
  <2>1. OnceTypes' /\ HandlesAreOpen'
    OBVIOUS
  <2>2. CheckTells'
    OBVIOUS
  <2>3. CallerIsFirst'
    OBVIOUS
  <2>4. OnceAndForAll'
    OBVIOUS
  <2>5. QED
    BY <2>1, <2>2, <2>3, <2>4
<1>8. ASSUME NEW t \in Threads, Fail(t)
      PROVE  OnceInv'
  BY <1>8 DEF Fail, Goes
<1>9. ASSUME NEW t \in Threads, RecordFailure(t)
      PROVE  OnceInv'
  <2> USE <1>9 DEF RecordFailure, Goes
  <2>1. OnceTypes' /\ HandlesAreOpen'
    OBVIOUS
  <2>2. CheckTells'
    OBVIOUS
  <2>3. CallerIsFirst'
    OBVIOUS
  <2>4. OnceAndForAll'
    OBVIOUS
  <2>5. QED
    BY <2>1, <2>2, <2>3, <2>4
<1>10. ASSUME NEW t \in Threads, Release(t)
      PROVE  OnceInv'
  BY <1>10 DEF Release, Goes
<1>11. ASSUME NEW t \in Threads, Close(t)
      PROVE  OnceInv'
  BY <1>11 DEF Close, Goes
<1>12. CASE UNCHANGED vars
  BY <1>12 DEF vars
<1>13. QED
  BY <1>1, <1>2, <1>3, <1>4, <1>5, <1>6, <1>7, <1>8, <1>9, <1>10, <1>11, <1>12 DEF Next, Steps

\* Win32Thunk::impl_InitOnceExecuteOnce: whatever the number of threads, InitFn
\* is called once, under the mutex, and who waited returns its verdict.
THEOREM InitOnceIsCorrect == Spec => []OnceAndForAll
<1>1. OnceInv => OnceAndForAll
  BY DEF OnceInv
<1>2. QED
  BY <1>1, OnceInvInit, OnceInvStep, PTL DEF Spec

-----------------------------------------------------------------------------
(* Counting                                                                 *)

\* The components count with the same operator.
LEMMA SameCardinality ==
  ASSUME NEW S
  PROVE  R!Cardinality(S) = Cardinality(S) /\ C!Cardinality(S) = Cardinality(S)
BY DEF Cardinality, R!Cardinality, C!Cardinality

\* How many of the threads are at one of the steps.
HowMany(threads, at, steps) == Cardinality({u \in threads : at[u] \in steps})
OneIn(step, steps) == IF step \in steps THEN 1 ELSE 0

\* A thread that moves is counted where it comes to and no more where it was.
LEMMA MoveCounts ==
  ASSUME NEW threads, IsFiniteSet(threads), NEW steps, NEW at, NEW after,
         NEW t \in threads, \A u \in threads \ {t} : after[u] = at[u]
  PROVE  HowMany(threads, after, steps) =
           HowMany(threads, at, steps) + OneIn(after[t], steps) - OneIn(at[t], steps)
<1> DEFINE were == {u \in threads : at[u] \in steps}
           are == {u \in threads : after[u] \in steps}
<1>1. IsFiniteSet(were) /\ IsFiniteSet(are)
  BY FS_Subset
<1>2. Cardinality(were) \in Nat /\ Cardinality(are) \in Nat
  BY <1>1, FS_CardinalityType
<1>3. /\ HowMany(threads, at, steps) = Cardinality(were)
      /\ HowMany(threads, after, steps) = Cardinality(are)
  BY DEF HowMany
<1>4. CASE after[t] \in steps /\ at[t] \notin steps
  <2>1. are = were \cup {t} /\ t \notin were
    BY <1>4
  <2>2. Cardinality(are) = Cardinality(were) + 1
    BY <2>1, <1>1, FS_AddElement
  <2>3. QED
    BY <2>2, <1>2, <1>3, <1>4 DEF OneIn
<1>5. CASE after[t] \notin steps /\ at[t] \in steps
  <2>1. were = are \cup {t} /\ t \notin are
    BY <1>5
  <2>2. Cardinality(were) = Cardinality(are) + 1
    BY <2>1, <1>1, FS_AddElement
  <2>3. QED
    BY <2>2, <1>2, <1>3, <1>5 DEF OneIn
<1>6. CASE after[t] \in steps <=> at[t] \in steps
  <2>1. are = were
    BY <1>6
  <2>2. OneIn(after[t], steps) = OneIn(at[t], steps)
    BY <1>6 DEF OneIn
  <2>3. OneIn(at[t], steps) \in Nat
    BY DEF OneIn
  <2>4. QED
    BY <2>1, <2>2, <2>3, <1>2, <1>3
<1>7. QED
  BY <1>4, <1>5, <1>6

-----------------------------------------------------------------------------
(* RWMutex                                                                  *)

\* Any threads may read and any may write.
LockUsers ==
  /\ IsFiniteSet(Readers) /\ IsFiniteSet(Writers)
  /\ Nobody \notin Readers \cup Writers

\* With three readers one can slip in early, as the run rw_three shows.
TwoReaders == Cardinality(Readers) <= 2

Carrying == {"writing", "first_in", "last_sets"}

RWTypes ==
  /\ nReaders \in Int
  /\ readerEvent \in BOOLEAN
  /\ event \in BOOLEAN
  /\ early \in BOOLEAN
  /\ writerMutex \in Writers \cup {Nobody}
  /\ rwPc \in [R!Users -> {"idle"} \cup R!Counted \cup R!Leaving \cup R!Writing]

\* A thread reads or writes at its own kind of step, and the one that writes
\* has m_hWriterMutex.
KeepTheirKind ==
  \A t \in R!Users :
    /\ rwPc[t] \in R!Counted \cup R!Leaving => t \in Readers
    /\ rwPc[t] \in R!Writing => t \in Writers
    /\ rwPc[t] \in {"writing", "write_ends"} <=> writerMutex = t

\* m_nReaders counts, and the right to be inside is in one place.
RightIsSomewhere ==
  /\ nReaders = HowMany(R!Users, rwPc, R!Counted) - 1
  /\ (IF event THEN 1 ELSE 0) + (IF readerEvent THEN 1 ELSE 0)
       + HowMany(R!Users, rwPc, Carrying) = 1

\* m_hReaderEvent is set while somebody reads; a reader that has been counted
\* out as the last is alone: no other reads, and of two none waits to join.
LastIsAlone ==
  \A t \in R!Users :
    /\ rwPc[t] \in {"reading", "last_resets"} => readerEvent
    /\ rwPc[t] = "last_resets" =>
         \A u \in R!Users \ {t} :
           /\ rwPc[u] \notin {"reading", "last_resets"}
           /\ TwoReaders => rwPc[u] \notin {"later_waits", "later_tries"}

RWInv == RWTypes /\ KeepTheirKind /\ (~early => RightIsSomewhere /\ LastIsAlone)

\* Where the threads are counted, after one has moved.
LEMMA RWMoves ==
  ASSUME LockUsers, RWTypes, NEW t \in R!Users, NEW from, NEW to, R!Goes(t, from, to),
         NEW steps
  PROVE  /\ HowMany(R!Users, rwPc, steps) \in Nat
         /\ HowMany(R!Users, rwPc', steps) =
              HowMany(R!Users, rwPc, steps) + OneIn(to, steps)
                                            - OneIn(from, steps)
<1>1. IsFiniteSet(R!Users)
  BY FS_Union DEF LockUsers, R!Users
<1>2. rwPc' = [rwPc EXCEPT ![t] = to] /\ rwPc[t] = from
  BY DEF R!Goes
<1>3. HowMany(R!Users, rwPc, steps) \in Nat
  BY <1>1, FS_Subset, FS_CardinalityType DEF HowMany
<1>4. rwPc'[t] = to /\ \A u \in R!Users \ {t} : rwPc'[u] = rwPc[u]
  BY <1>2 DEF RWTypes
<1>5. HowMany(R!Users, rwPc', steps) =
        HowMany(R!Users, rwPc, steps) + OneIn(rwPc'[t], steps) - OneIn(rwPc[t], steps)
  BY <1>1, <1>4, MoveCounts
<1>6. QED
  BY <1>2, <1>3, <1>4, <1>5

\* A count is zero only if nobody is there.
LEMMA SomebodyCounts ==
  ASSUME LockUsers, NEW at, NEW steps
  PROVE  /\ HowMany(R!Users, at, steps) \in Nat
         /\ HowMany(R!Users, at, steps) = 0 <=> \A t \in R!Users : at[t] \notin steps
<1> DEFINE there == {u \in R!Users : at[u] \in steps}
<1>1. IsFiniteSet(there)
  BY FS_Union, FS_Subset DEF LockUsers, R!Users
<1>2. Cardinality(there) \in Nat /\ (Cardinality(there) = 0 <=> there = {})
  BY <1>1, FS_CardinalityType, FS_EmptySet
<1>3. QED
  BY <1>2 DEF HowMany

\* There are no three readers.
LEMMA OnlyTwo ==
  ASSUME LockUsers, TwoReaders, NEW t \in Readers, NEW u \in Readers, t # u
  PROVE  Readers = {t, u}
<1>1. IsFiniteSet({t, u}) /\ Cardinality({t, u}) = 2
  <2>1. IsFiniteSet({t}) /\ Cardinality({t}) = 1
    BY FS_Singleton
  <2>2. {t, u} = {t} \cup {u} /\ u \notin {t}
    OBVIOUS
  <2>3. QED
    BY <2>1, <2>2, FS_AddElement
<1>2. {t, u} \subseteq Readers
  OBVIOUS
<1>3. Cardinality(Readers) \in Nat
  BY FS_CardinalityType DEF LockUsers
<1>4. Cardinality({t, u}) = Cardinality(Readers)
  BY <1>1, <1>2, <1>3, FS_Subset DEF LockUsers, TwoReaders
<1>5. QED
  BY <1>1, <1>2, <1>4, FS_Subset DEF LockUsers

LEMMA RWInvInit == LockUsers /\ R!Init => RWInv
<1> SUFFICES ASSUME LockUsers, R!Init
             PROVE  RWInv
  OBVIOUS
<1>1. RWTypes
  <2>1. rwPc \in [R!Users -> {"idle"} \cup R!Counted \cup R!Leaving \cup R!Writing]
    BY DEF R!Init
  <2>2. nReaders \in Int
    BY DEF R!Init
  <2>3. QED
    BY <2>1, <2>2, Zenon DEF R!Init, RWTypes
<1>4. KeepTheirKind /\ LastIsAlone
  BY DEF R!Init, LockUsers, KeepTheirKind, LastIsAlone, R!Users, R!Counted, R!Leaving, R!Writing
<1>2. HowMany(R!Users, rwPc, R!Counted) = 0 /\ HowMany(R!Users, rwPc, Carrying) = 0
  BY SomebodyCounts DEF R!Init, R!Counted, Carrying
<1>3. RightIsSomewhere
  BY <1>2 DEF R!Init, RightIsSomewhere
<1>5. QED
  BY <1>1, <1>3, <1>4 DEF RWInv

\* Every step keeps the threads at steps of their kind.
LEMMA RWKindStep ==
  ASSUME LockUsers, RWTypes, KeepTheirKind, [R!Next]_(R!vars)
  PROVE  RWTypes' /\ KeepTheirKind'
<1>b. Readers \subseteq R!Users /\ Writers \subseteq R!Users
  BY DEF R!Users
<1>1. ASSUME NEW t \in Readers, R!FirstTakesEvent(t)
      PROVE  RWTypes' /\ KeepTheirKind'
  BY <1>1, <1>b DEF R!FirstTakesEvent, R!Goes, LockUsers, RWTypes, KeepTheirKind, R!Users, R!Counted, R!Leaving, R!Writing
<1>2. ASSUME NEW t \in Readers, R!FirstSetsReaderEvent(t)
      PROVE  RWTypes' /\ KeepTheirKind'
  BY <1>2, <1>b DEF R!FirstSetsReaderEvent, R!Goes, LockUsers, RWTypes, KeepTheirKind, R!Users, R!Counted, R!Leaving, R!Writing
<1>3. ASSUME NEW t \in Readers, R!LaterEnters(t)
      PROVE  RWTypes' /\ KeepTheirKind'
  BY <1>3, <1>b DEF R!LaterEnters, R!Goes, LockUsers, RWTypes, KeepTheirKind, R!Users, R!Counted, R!Leaving, R!Writing
<1>4. ASSUME NEW t \in Readers, R!TryFails(t)
      PROVE  RWTypes' /\ KeepTheirKind'
  BY <1>4, <1>b DEF R!TryFails, R!Goes, LockUsers, RWTypes, KeepTheirKind, R!Users, R!Counted, R!Leaving, R!Writing
<1>5. ASSUME NEW t \in Readers, R!GivesUp(t)
      PROVE  RWTypes' /\ KeepTheirKind'
  BY <1>5, <1>b DEF R!GivesUp, R!Goes, LockUsers, RWTypes, KeepTheirKind, R!Users, R!Counted, R!Leaving, R!Writing
<1>6. ASSUME NEW t \in Readers, R!LastResets(t)
      PROVE  RWTypes' /\ KeepTheirKind'
  BY <1>6, <1>b DEF R!LastResets, R!Goes, LockUsers, RWTypes, KeepTheirKind, R!Users, R!Counted, R!Leaving, R!Writing
<1>7. ASSUME NEW t \in Readers, R!LastSets(t)
      PROVE  RWTypes' /\ KeepTheirKind'
  BY <1>7, <1>b DEF R!LastSets, R!Goes, LockUsers, RWTypes, KeepTheirKind, R!Users, R!Counted, R!Leaving, R!Writing
<1>8. ASSUME NEW t \in Writers, R!Acquire(t)
      PROVE  RWTypes' /\ KeepTheirKind'
  BY <1>8, <1>b DEF R!Acquire, R!Goes, LockUsers, RWTypes, KeepTheirKind, R!Users, R!Counted, R!Leaving, R!Writing
<1>9. ASSUME NEW t \in Writers, R!ReleaseSets(t)
      PROVE  RWTypes' /\ KeepTheirKind'
  BY <1>9, <1>b DEF R!ReleaseSets, R!Goes, LockUsers, RWTypes, KeepTheirKind, R!Users, R!Counted, R!Leaving, R!Writing
<1>10. ASSUME NEW t \in Writers, R!ReleaseMutex(t)
      PROVE  RWTypes' /\ KeepTheirKind'
  BY <1>10, <1>b DEF R!ReleaseMutex, R!Goes, LockUsers, RWTypes, KeepTheirKind, R!Users, R!Counted, R!Leaving, R!Writing
<1>11. ASSUME NEW t \in Writers, NEW from \in {"idle", "write_waits"}, R!TakeBoth(t, from)
      PROVE  RWTypes' /\ KeepTheirKind'
  BY <1>11, <1>b DEF R!TakeBoth, R!Goes, LockUsers, RWTypes, KeepTheirKind, R!Users, R!Counted, R!Leaving, R!Writing
<1>12. ASSUME NEW t \in Readers, NEW asFirst \in {"first_waits", "first_tries"},
             NEW asLater \in {"later_waits", "later_tries"}, R!CountIn(t, asFirst, asLater)
      PROVE  RWTypes' /\ KeepTheirKind'
  <2>1. PICK to \in {"first_waits", "first_tries", "later_waits", "later_tries"} : R!Goes(t, "idle", to)
    BY <1>12 DEF R!CountIn
  <2>2. nReaders' = nReaders + 1 /\ UNCHANGED <<readerEvent, event, writerMutex, early>>
    BY <1>12 DEF R!CountIn
  <2>. QED
    BY <2>1, <2>2, <1>b DEF R!Goes, LockUsers, RWTypes, KeepTheirKind, R!Users, R!Counted, R!Leaving, R!Writing
<1>13. ASSUME NEW t \in Readers, R!ReleaseRead(t)
      PROVE  RWTypes' /\ KeepTheirKind'
  <2>1. PICK to \in {"last_resets", "idle"} : R!Goes(t, "reading", to)
    BY <1>13 DEF R!ReleaseRead
  <2>2. nReaders' = nReaders - 1 /\ UNCHANGED <<readerEvent, event, writerMutex, early>>
    BY <1>13 DEF R!ReleaseRead
  <2>. QED
    BY <2>1, <2>2, <1>b DEF R!Goes, LockUsers, RWTypes, KeepTheirKind, R!Users, R!Counted, R!Leaving, R!Writing
<1>14. CASE UNCHANGED R!vars
  BY <1>14 DEF R!vars, RWTypes, KeepTheirKind
<1>15. ASSUME NEW t \in Readers, R!AcquireRead(t) \/ R!TryAcquireRead(t)
      PROVE  RWTypes' /\ KeepTheirKind'
  BY <1>15, <1>12 DEF R!AcquireRead, R!TryAcquireRead
<1>16. ASSUME NEW t \in Writers, R!WriterEnters(t) \/ R!TryAcquire(t)
      PROVE  RWTypes' /\ KeepTheirKind'
  BY <1>16, <1>11 DEF R!WriterEnters, R!TryAcquire
<1>. QED
  BY <1>1, <1>2, <1>3, <1>4, <1>5, <1>6, <1>7, <1>8, <1>9, <1>10, <1>11, <1>12, <1>13, <1>14, <1>15, <1>16
     DEF R!Next, R!ReaderSteps, R!WriterSteps

\* Only a reader that joins others can have slipped in, and has for good.
LEMMA EarlyOnlyByJoining ==
  ASSUME [R!Next]_(R!vars)
  PROVE  early' = early \/ \E t \in Readers : R!LaterEnters(t)
BY DEF R!Next, R!ReaderSteps, R!WriterSteps, R!AcquireRead, R!TryAcquireRead, R!CountIn, R!FirstTakesEvent,
       R!FirstSetsReaderEvent, R!TryFails, R!GivesUp, R!ReleaseRead, R!LastResets, R!LastSets, R!Acquire,
       R!TryAcquire, R!WriterEnters, R!TakeBoth, R!ReleaseSets, R!ReleaseMutex, R!vars

LEMMA EarlyStays ==
  ASSUME [R!Next]_(R!vars), ~early'
  PROVE  ~early
BY EarlyOnlyByJoining DEF R!LaterEnters

\* Every step of rwmutex_t keeps the invariant.
LEMMA RWInvStep == LockUsers /\ RWInv /\ [R!Next]_(R!vars) => RWInv'
<1>k. ASSUME LockUsers, RWInv, [R!Next]_(R!vars)
      PROVE  RWTypes' /\ KeepTheirKind'
  BY <1>k, RWKindStep DEF RWInv
<1> SUFFICES ASSUME LockUsers, RWInv, [R!Next]_(R!vars), ~early'
             PROVE  RightIsSomewhere' /\ LastIsAlone'
  BY <1>k DEF RWInv
<1>a. RWTypes /\ KeepTheirKind /\ RightIsSomewhere /\ LastIsAlone
  BY EarlyStays DEF RWInv
<1>t. RWTypes' /\ KeepTheirKind'
  BY <1>k
<1>b. Readers \subseteq R!Users /\ Writers \subseteq R!Users
  BY DEF R!Users
<1> DEFINE counted == HowMany(R!Users, rwPc, R!Counted)
           carrying == HowMany(R!Users, rwPc, Carrying)
<1>c. counted \in Nat /\ carrying \in Nat
  BY SomebodyCounts
<1>1. ASSUME NEW t \in Readers, R!FirstTakesEvent(t)
      PROVE  RightIsSomewhere' /\ LastIsAlone'
  <2>2. /\ HowMany(R!Users, rwPc', R!Counted) = counted
        /\ HowMany(R!Users, rwPc', Carrying) = carrying + 1
    <3>1. R!Goes(t, "first_waits", "first_in") \/ R!Goes(t, "first_tries", "first_in")
      BY <1>1 DEF R!FirstTakesEvent
    <3>2. QED
      BY <1>a, <3>1, <1>b, <1>c, RWMoves DEF OneIn, R!Counted, Carrying
  <2>3. RightIsSomewhere'
    BY <1>a, <1>1, <1>t, <2>2, <1>c DEF R!FirstTakesEvent, RightIsSomewhere, RWTypes
  <2>5. LastIsAlone'
    BY <1>a, <1>1, <1>b DEF R!FirstTakesEvent, R!Goes, LastIsAlone, RWTypes
  <2>6. QED
    BY <2>3, <2>5
<1>2. ASSUME NEW t \in Readers, R!FirstSetsReaderEvent(t)
      PROVE  RightIsSomewhere' /\ LastIsAlone'
  <2>2. /\ HowMany(R!Users, rwPc', R!Counted) = counted
        /\ HowMany(R!Users, rwPc', Carrying) = carrying - 1
    <3>1. R!Goes(t, "first_in", "reading")
      BY <1>2 DEF R!FirstSetsReaderEvent
    <3>2. QED
      BY <1>a, <3>1, <1>b, <1>c, RWMoves DEF OneIn, R!Counted, Carrying
  <2>4. ~event /\ ~readerEvent /\ carrying = 1
    <3>1. carrying # 0
      BY <1>2, <1>b, SomebodyCounts DEF R!FirstSetsReaderEvent, R!Goes, Carrying
    <3>2. QED
      BY <1>a, <3>1, <1>c DEF RightIsSomewhere, RWTypes
  <2>3. RightIsSomewhere'
    BY <1>a, <1>2, <1>t, <2>2, <2>4, <1>c DEF R!FirstSetsReaderEvent, RightIsSomewhere, RWTypes
  <2>5. LastIsAlone'
    BY <1>a, <1>2, <1>b, <2>4 DEF R!FirstSetsReaderEvent, R!Goes, LastIsAlone, RWTypes
  <2>6. QED
    BY <2>3, <2>5
<1>3. ASSUME NEW t \in Readers, R!LaterEnters(t)
      PROVE  RightIsSomewhere' /\ LastIsAlone'
  <2>2. /\ HowMany(R!Users, rwPc', R!Counted) = counted
        /\ HowMany(R!Users, rwPc', Carrying) = carrying
    <3>1. R!Goes(t, "later_waits", "reading") \/ R!Goes(t, "later_tries", "reading")
      BY <1>3 DEF R!LaterEnters
    <3>2. QED
      BY <1>a, <3>1, <1>b, <1>c, RWMoves DEF OneIn, R!Counted, Carrying
  <2>3. RightIsSomewhere'
    BY <1>a, <1>3, <1>t, <2>2, <1>c DEF R!LaterEnters, RightIsSomewhere, RWTypes
  <2>5. LastIsAlone'
    <3>1. \A u \in R!Users : rwPc[u] # "last_resets"
      BY <1>3 DEF R!LaterEnters, R!In
    <3>2. QED
      BY <1>a, <1>3, <1>b, <3>1 DEF R!LaterEnters, R!Goes, LastIsAlone, RWTypes
  <2>6. QED
    BY <2>3, <2>5
<1>4. ASSUME NEW t \in Readers, R!TryFails(t)
      PROVE  RightIsSomewhere' /\ LastIsAlone'
  <2>2. /\ HowMany(R!Users, rwPc', R!Counted) = counted
        /\ HowMany(R!Users, rwPc', Carrying) = carrying
    <3>1. R!Goes(t, "first_tries", "gives_up") \/ R!Goes(t, "later_tries", "gives_up")
      BY <1>4 DEF R!TryFails
    <3>2. QED
      BY <1>a, <3>1, <1>b, <1>c, RWMoves DEF OneIn, R!Counted, Carrying
  <2>3. RightIsSomewhere'
    BY <1>a, <1>4, <1>t, <2>2, <1>c DEF R!TryFails, RightIsSomewhere, RWTypes
  <2>5. LastIsAlone'
    BY <1>a, <1>4, <1>b DEF R!TryFails, R!Goes, LastIsAlone, RWTypes
  <2>6. QED
    BY <2>3, <2>5
<1>5. ASSUME NEW t \in Readers, R!GivesUp(t)
      PROVE  RightIsSomewhere' /\ LastIsAlone'
  <2>2. /\ HowMany(R!Users, rwPc', R!Counted) = counted - 1
        /\ HowMany(R!Users, rwPc', Carrying) = carrying
    <3>1. R!Goes(t, "gives_up", "idle")
      BY <1>5 DEF R!GivesUp
    <3>2. QED
      BY <1>a, <3>1, <1>b, <1>c, RWMoves DEF OneIn, R!Counted, Carrying
  <2>3. RightIsSomewhere'
    BY <1>a, <1>5, <1>t, <2>2, <1>c DEF R!GivesUp, RightIsSomewhere, RWTypes
  <2>5. LastIsAlone'
    BY <1>a, <1>5, <1>b DEF R!GivesUp, R!Goes, LastIsAlone, RWTypes
  <2>6. QED
    BY <2>3, <2>5
<1>6. ASSUME NEW t \in Readers, R!LastResets(t)
      PROVE  RightIsSomewhere' /\ LastIsAlone'
  <2>2. /\ HowMany(R!Users, rwPc', R!Counted) = counted
        /\ HowMany(R!Users, rwPc', Carrying) = carrying + 1
    <3>1. R!Goes(t, "last_resets", "last_sets")
      BY <1>6 DEF R!LastResets
    <3>2. QED
      BY <1>a, <3>1, <1>b, <1>c, RWMoves DEF OneIn, R!Counted, Carrying
  <2>4. readerEvent /\ ~event /\ carrying = 0
    <3>1. readerEvent
      BY <1>a, <1>6, <1>b DEF R!LastResets, R!Goes, LastIsAlone
    <3>2. QED
      BY <1>a, <3>1, <1>c DEF RightIsSomewhere, RWTypes
  <2>3. RightIsSomewhere'
    BY <1>a, <1>6, <1>t, <2>2, <2>4, <1>c DEF R!LastResets, RightIsSomewhere, RWTypes
  <2>5. LastIsAlone'
    BY <1>a, <1>6, <1>b, <2>4 DEF R!LastResets, R!Goes, LastIsAlone, RWTypes
  <2>6. QED
    BY <2>3, <2>5
<1>7. ASSUME NEW t \in Readers, R!LastSets(t)
      PROVE  RightIsSomewhere' /\ LastIsAlone'
  <2>2. /\ HowMany(R!Users, rwPc', R!Counted) = counted
        /\ HowMany(R!Users, rwPc', Carrying) = carrying - 1
    <3>1. R!Goes(t, "last_sets", "idle")
      BY <1>7 DEF R!LastSets
    <3>2. QED
      BY <1>a, <3>1, <1>b, <1>c, RWMoves DEF OneIn, R!Counted, Carrying
  <2>4. ~event /\ ~readerEvent /\ carrying = 1
    <3>1. carrying # 0
      BY <1>7, <1>b, SomebodyCounts DEF R!LastSets, R!Goes, Carrying
    <3>2. QED
      BY <1>a, <3>1, <1>c DEF RightIsSomewhere, RWTypes
  <2>3. RightIsSomewhere'
    BY <1>a, <1>7, <1>t, <2>2, <2>4, <1>c DEF R!LastSets, RightIsSomewhere, RWTypes
  <2>5. LastIsAlone'
    BY <1>a, <1>7, <1>b, <2>4 DEF R!LastSets, R!Goes, LastIsAlone, RWTypes
  <2>6. QED
    BY <2>3, <2>5
<1>8. ASSUME NEW t \in Writers, R!Acquire(t)
      PROVE  RightIsSomewhere' /\ LastIsAlone'
  <2>2. /\ HowMany(R!Users, rwPc', R!Counted) = counted
        /\ HowMany(R!Users, rwPc', Carrying) = carrying
    <3>1. R!Goes(t, "idle", "write_waits")
      BY <1>8 DEF R!Acquire
    <3>2. QED
      BY <1>a, <3>1, <1>b, <1>c, RWMoves DEF OneIn, R!Counted, Carrying
  <2>3. RightIsSomewhere'
    BY <1>a, <1>8, <1>t, <2>2, <1>c DEF R!Acquire, RightIsSomewhere, RWTypes
  <2>5. LastIsAlone'
    BY <1>a, <1>8, <1>b DEF R!Acquire, R!Goes, LastIsAlone, RWTypes
  <2>6. QED
    BY <2>3, <2>5
<1>9. ASSUME NEW t \in Writers, R!ReleaseSets(t)
      PROVE  RightIsSomewhere' /\ LastIsAlone'
  <2>2. /\ HowMany(R!Users, rwPc', R!Counted) = counted
        /\ HowMany(R!Users, rwPc', Carrying) = carrying - 1
    <3>1. R!Goes(t, "writing", "write_ends")
      BY <1>9 DEF R!ReleaseSets
    <3>2. QED
      BY <1>a, <3>1, <1>b, <1>c, RWMoves DEF OneIn, R!Counted, Carrying
  <2>4. ~event /\ ~readerEvent /\ carrying = 1
    <3>1. carrying # 0
      BY <1>9, <1>b, SomebodyCounts DEF R!ReleaseSets, R!Goes, Carrying
    <3>2. QED
      BY <1>a, <3>1, <1>c DEF RightIsSomewhere, RWTypes
  <2>3. RightIsSomewhere'
    BY <1>a, <1>9, <1>t, <2>2, <2>4, <1>c DEF R!ReleaseSets, RightIsSomewhere, RWTypes
  <2>5. LastIsAlone'
    BY <1>a, <1>9, <1>b, <2>4 DEF R!ReleaseSets, R!Goes, LastIsAlone, RWTypes
  <2>6. QED
    BY <2>3, <2>5
<1>10. ASSUME NEW t \in Writers, R!ReleaseMutex(t)
      PROVE  RightIsSomewhere' /\ LastIsAlone'
  <2>2. /\ HowMany(R!Users, rwPc', R!Counted) = counted
        /\ HowMany(R!Users, rwPc', Carrying) = carrying
    <3>1. R!Goes(t, "write_ends", "idle")
      BY <1>10 DEF R!ReleaseMutex
    <3>2. QED
      BY <1>a, <3>1, <1>b, <1>c, RWMoves DEF OneIn, R!Counted, Carrying
  <2>3. RightIsSomewhere'
    BY <1>a, <1>10, <1>t, <2>2, <1>c DEF R!ReleaseMutex, RightIsSomewhere, RWTypes
  <2>5. LastIsAlone'
    BY <1>a, <1>10, <1>b DEF R!ReleaseMutex, R!Goes, LastIsAlone, RWTypes
  <2>6. QED
    BY <2>3, <2>5
<1>11. ASSUME NEW t \in Writers, NEW from \in {"idle", "write_waits"}, R!TakeBoth(t, from)
      PROVE  RightIsSomewhere' /\ LastIsAlone'
  <2>2. /\ HowMany(R!Users, rwPc', R!Counted) = counted
        /\ HowMany(R!Users, rwPc', Carrying) = carrying + 1
    <3>1. R!Goes(t, from, "writing")
      BY <1>11 DEF R!TakeBoth
    <3>2. QED
      BY <1>a, <3>1, <1>b, <1>c, RWMoves DEF OneIn, R!Counted, Carrying
  <2>3. RightIsSomewhere'
    BY <1>a, <1>11, <1>t, <2>2, <1>c DEF R!TakeBoth, RightIsSomewhere, RWTypes
  <2>5. LastIsAlone'
    BY <1>a, <1>11, <1>b DEF R!TakeBoth, R!Goes, LastIsAlone, RWTypes
  <2>6. QED
    BY <2>3, <2>5
<1>12. ASSUME NEW t \in Readers, NEW asFirst \in {"first_waits", "first_tries"},
             NEW asLater \in {"later_waits", "later_tries"}, R!CountIn(t, asFirst, asLater)
      PROVE  RightIsSomewhere' /\ LastIsAlone'
  <2> DEFINE to == IF nReaders' = 0 THEN asFirst ELSE asLater
  <2>1. /\ R!Goes(t, "idle", to)
        /\ nReaders' = nReaders + 1
        /\ UNCHANGED <<readerEvent, event, writerMutex>>
        /\ to \in {"first_waits", "first_tries", "later_waits", "later_tries"}
    BY <1>12 DEF R!CountIn
  <2>2. to \in {"later_waits", "later_tries"} => nReaders' # 0
    OBVIOUS
  <2> HIDE DEF to
  <2>4. /\ HowMany(R!Users, rwPc', R!Counted) = counted + 1
        /\ HowMany(R!Users, rwPc', Carrying) = carrying
    BY <1>a, <2>1, <1>b, <1>c, RWMoves DEF OneIn, R!Counted, Carrying
  <2>5. RightIsSomewhere'
    BY <1>a, <2>1, <1>t, <2>4, <1>c DEF RightIsSomewhere, RWTypes
  <2>6. ASSUME to \in {"later_waits", "later_tries"}, TwoReaders
        PROVE  \A v \in R!Users : rwPc[v] # "last_resets"
    <3>1. counted # 0
      BY <1>a, <2>1, <2>2, <2>6, <1>c DEF RightIsSomewhere
    <3>2. PICK u \in R!Users : rwPc[u] \in R!Counted
      BY <3>1, SomebodyCounts
    <3>3. u \in Readers /\ u # t
      BY <1>a, <2>1, <3>2 DEF R!Goes, R!Counted, KeepTheirKind
    <3>4. Readers = {t, u}
      BY <2>6, <3>3, OnlyTwo
    <3>5. QED
      BY <1>a, <2>1, <3>2, <3>4 DEF R!Goes, R!Counted, R!Leaving, KeepTheirKind
  <2>7. LastIsAlone'
    BY <1>a, <2>1, <2>6, <1>b DEF R!Goes, LastIsAlone, RWTypes
  <2>8. QED
    BY <2>5, <2>7
<1>13. ASSUME NEW t \in Readers, R!ReleaseRead(t)
      PROVE  RightIsSomewhere' /\ LastIsAlone'
  <2> DEFINE to == IF nReaders' < 0 THEN "last_resets" ELSE "idle"
  <2>1. /\ R!Goes(t, "reading", to)
        /\ nReaders' = nReaders - 1
        /\ UNCHANGED <<readerEvent, event, writerMutex>>
        /\ to \in {"last_resets", "idle"}
    BY <1>13 DEF R!ReleaseRead
  <2>2. to = "last_resets" => nReaders' < 0
    OBVIOUS
  <2> HIDE DEF to
  <2>4. /\ HowMany(R!Users, rwPc', R!Counted) = counted - 1
        /\ HowMany(R!Users, rwPc', Carrying) = carrying
    BY <1>a, <2>1, <1>b, <1>c, RWMoves DEF OneIn, R!Counted, Carrying
  <2>5. RightIsSomewhere'
    BY <1>a, <2>1, <1>t, <2>4, <1>c DEF RightIsSomewhere, RWTypes
  <2>6. ASSUME to = "last_resets"
        PROVE  \A u \in R!Users \ {t} : rwPc[u] \notin R!Counted \cup {"last_resets"}
    <3>1. counted = 1
      <4>1. counted # 0
        BY <2>1, <1>b, SomebodyCounts DEF R!Goes, R!Counted
      <4>2. QED
        BY <1>a, <4>1, <2>1, <2>2, <2>6, <1>c DEF RightIsSomewhere, RWTypes
    <3>2. HowMany(R!Users, rwPc', R!Counted) = 0
      BY <3>1, <2>4
    <3>3. \A u \in R!Users : rwPc'[u] \notin R!Counted
      BY <3>2, SomebodyCounts
    <3>4. \A u \in R!Users \ {t} : rwPc[u] # "last_resets"
      BY <1>a, <2>1, <1>b DEF R!Goes, LastIsAlone
    <3>5. QED
      BY <1>a, <3>3, <3>4, <2>1 DEF R!Goes, RWTypes
  <2>7. LastIsAlone'
    BY <1>a, <2>1, <2>6, <1>b DEF R!Goes, R!Counted, LastIsAlone, RWTypes
  <2>8. QED
    BY <2>5, <2>7
<1>14. CASE UNCHANGED R!vars
  BY <1>14, <1>a DEF R!vars, RWTypes, KeepTheirKind, RightIsSomewhere, LastIsAlone, HowMany
<1>15. ASSUME NEW t \in Readers, R!AcquireRead(t) \/ R!TryAcquireRead(t)
      PROVE  RightIsSomewhere' /\ LastIsAlone'
  BY <1>15, <1>12 DEF R!AcquireRead, R!TryAcquireRead
<1>16. ASSUME NEW t \in Writers, R!WriterEnters(t) \/ R!TryAcquire(t)
      PROVE  RightIsSomewhere' /\ LastIsAlone'
  BY <1>16, <1>11 DEF R!WriterEnters, R!TryAcquire
<1>17. QED
  BY <1>1, <1>2, <1>3, <1>4, <1>5, <1>6, <1>7, <1>8, <1>9, <1>10, <1>11, <1>12, <1>13, <1>14, <1>15, <1>16 DEF R!Next, R!ReaderSteps, R!WriterSteps

LEMMA RWInvExcludes == LockUsers /\ RWInv => LocksExclude
<1> SUFFICES ASSUME LockUsers, RWInv, ~early
             PROVE  R!WriterAlone /\ R!OneRightToBeInside
  BY DEF LocksExclude, R!LocksExclude
<1>1. R!In({"writing", "first_in", "last_sets"}) = {t \in R!Users : rwPc[t] \in Carrying}
  BY DEF R!In, Carrying
<1>2. R!OneRightToBeInside
  <2>1. /\ R!Places.event = IF event THEN 1 ELSE 0
        /\ R!Places.readerEvent = IF readerEvent THEN 1 ELSE 0
        /\ R!Places.carried = HowMany(R!Users, rwPc, Carrying)
    BY <1>1, SameCardinality DEF R!Places, HowMany
  <2>2. QED
    BY <2>1 DEF R!OneRightToBeInside, RWInv, RightIsSomewhere
<1>3. ASSUME NEW t \in R!Users, rwPc[t] = "writing"
      PROVE  Cardinality(R!In({"writing", "write_ends"})) = 1 /\ R!In({"reading"}) = {}
  <2>1. R!In({"writing", "write_ends"}) = {t}
    BY <1>3 DEF R!In, RWInv, KeepTheirKind
  <2>2. Cardinality({t}) = 1
    BY FS_Singleton
  <2>3. HowMany(R!Users, rwPc, Carrying) \in Nat \ {0}
    BY <1>3, SomebodyCounts DEF Carrying
  <2>4. ~readerEvent
    BY <2>3 DEF RWInv, RWTypes, RightIsSomewhere
  <2>5. R!In({"reading"}) = {}
    BY <2>4 DEF R!In, RWInv, LastIsAlone
  <2>6. QED
    BY <2>1, <2>2, <2>5
<1>4. R!WriterAlone
  <2>1. ASSUME R!In({"writing"}) # {}
        PROVE  \E t \in R!Users : rwPc[t] = "writing"
    BY <2>1 DEF R!In
  <2>2. QED
    BY <2>1, <1>3, SameCardinality DEF R!WriterAlone
<1>5. QED
  BY <1>2, <1>4

\* rwmutex_t: for any number of threads that read and write, and until a reader
\* passes m_hReaderEvent between the last reader's decrement and its ResetEvent, a
\* write lock excludes every other lock, and the right to be inside is never
\* doubled or lost, even if try_acquire_read() gives up at any time.
THEOREM RWMutexExcludes ==
  ASSUME LockUsers
  PROVE  R!Spec => []LocksExclude
<1>1. R!Init => RWInv
  BY LockUsers, RWInvInit
<1>2. RWInv /\ [R!Next]_(R!vars) => RWInv'
  BY LockUsers, RWInvStep
<1>3. RWInv => LocksExclude
  BY LockUsers, RWInvExcludes
<1>4. QED
  BY <1>1, <1>2, <1>3, PTL DEF R!Spec

\* With one or two threads that read none slips in: a third is needed.
THEOREM TwoReadersKeepOut ==
  ASSUME LockUsers, TwoReaders
  PROVE  R!Spec => [](~early /\ R!WriterAlone /\ R!OneRightToBeInside)
<1> DEFINE Inv == RWInv /\ ~early
<1>1. R!Init => Inv
  BY LockUsers, RWInvInit DEF R!Init
<1>2. Inv /\ [R!Next]_(R!vars) => Inv'
  <2> SUFFICES ASSUME RWInv, ~early, [R!Next]_(R!vars)
               PROVE  Inv'
    OBVIOUS
  <2>1. RWInv'
    BY LockUsers, RWInvStep
  <2>2. ASSUME NEW t \in Readers, R!LaterEnters(t)
        PROVE  ~early'
    <3>1. t \in R!Users /\ rwPc[t] \in {"later_waits", "later_tries"}
      BY <2>2 DEF R!LaterEnters, R!Goes, R!Users
    <3>2. \A u \in R!Users : rwPc[u] # "last_resets"
      BY <3>1, TwoReaders DEF RWInv, LastIsAlone
    <3>. QED
      BY <2>2, <3>2 DEF R!LaterEnters, R!In
  <2>. QED
    BY <2>1, <2>2, EarlyOnlyByJoining
<1>3. Inv => ~early /\ R!WriterAlone /\ R!OneRightToBeInside
  BY LockUsers, RWInvExcludes DEF LocksExclude, R!LocksExclude
<1>4. QED
  BY <1>1, <1>2, <1>3, PTL DEF R!Spec

-----------------------------------------------------------------------------
(* ConditionVariable                                                        *)

\* Where a thread has hMutex, with callers that hold it whenever they signal.
Holding == {"holds", "spins", "last_sets", "broadcasting", "clears"}

CVTypes ==
  /\ broadcasts \in BOOLEAN
  /\ cvPc \in [Threads -> Holding \cup {"out", "sleeps", "wakes", "last", "regains", "shouting", "hushes"}]

\* m_broadcast is on from a broadcast's start to its end, which leaves hMutex
\* to nobody: who spins would have it too.
BroadcastHoldsMutex ==
  withMutex =>
    /\ \A t \in Threads : cvPc[t] \in Holding => owner = t
    /\ \A t \in Threads : cvPc[t] \notin {"shouting", "hushes"}
    /\ broadcasts <=> \E t \in Threads : cvPc[t] \in {"broadcasting", "clears"}

CVInv == CVTypes /\ BroadcastHoldsMutex

LEMMA CVInvInit == C!Init => CVInv
<1> SUFFICES ASSUME C!Init
             PROVE  CVInv
  OBVIOUS
<1>1. cvPc \in [Threads -> Holding \cup {"out", "sleeps", "wakes", "last", "regains", "shouting", "hushes"}]
  BY DEF C!Init
<1>2. CVTypes
  BY <1>1, Zenon DEF C!Init, CVTypes
<1>3. BroadcastHoldsMutex
  BY DEF C!Init, BroadcastHoldsMutex, Holding
<1>4. QED
  BY <1>2, <1>3 DEF CVInv

\* Every step of condition_variable_t keeps the invariant.
LEMMA CVInvStep == CVInv /\ [C!Next]_(C!vars) => CVInv'
<1> SUFFICES ASSUME CVInv, [C!Next]_(C!vars)
             PROVE  CVInv'
  OBVIOUS
<1> USE InitOnceAssumption DEF CVInv, CVTypes, BroadcastHoldsMutex, Holding
<1>1. ASSUME NEW t \in Threads, C!Acquire(t)
      PROVE  CVInv'
  BY <1>1 DEF C!Acquire, C!Goes, C!TakesMutex
<1>2. ASSUME NEW t \in Threads, C!Wait(t)
      PROVE  CVInv'
  BY <1>2 DEF C!Wait, C!Sleep, C!SkipSleep, C!Goes, C!GivesMutex
<1>3. ASSUME NEW t \in Threads, C!TimesOut(t)
      PROVE  CVInv'
  BY <1>3 DEF C!TimesOut, C!Goes
<1>4. ASSUME NEW t \in Threads, C!Signal(t)
      PROVE  CVInv'
  BY <1>4 DEF C!Signal
<1>5. ASSUME NEW t \in Threads, C!Broadcast(t)
      PROVE  CVInv'
  BY <1>5 DEF C!Broadcast, C!CallsBroadcast, C!Goes
<1>6. ASSUME NEW t \in Threads, C!Spin(t)
      PROVE  CVInv'
  BY <1>6 DEF C!Spin, C!Sleep, C!SkipSleep, C!Goes, C!GivesMutex
<1>7. ASSUME NEW t \in Threads, C!Leaves(t)
      PROVE  CVInv'
  BY <1>7 DEF C!Leaves, C!Goes
<1>8. ASSUME NEW t \in Threads, C!LastSets(t)
      PROVE  CVInv'
  BY <1>8 DEF C!LastSets, C!Goes
<1>9. ASSUME NEW t \in Threads, C!WaitersDone(t)
      PROVE  CVInv'
  BY <1>9 DEF C!WaitersDone, C!Goes
<1>10. ASSUME NEW t \in Threads, C!Clears(t)
      PROVE  CVInv'
  <2>1. CVTypes'
    BY <1>10 DEF C!Clears, C!Goes
  <2>2. withMutex => \A u \in Threads \ {t} : cvPc[u] \notin {"broadcasting", "clears"}
    BY <1>10 DEF C!Clears, C!Goes
  <2>3. BroadcastHoldsMutex'
    BY <1>10, <2>2 DEF C!Clears, C!Goes
  <2>4. QED
    BY <2>1, <2>3
<1>11. ASSUME NEW t \in Threads, C!Release(t)
      PROVE  CVInv'
  BY <1>11 DEF C!Release, C!Goes, C!GivesMutex
<1>12. ASSUME NEW t \in Threads, C!Woken(t)
      PROVE  CVInv'
  BY <1>12 DEF C!Woken, C!Goes
<1>13. ASSUME NEW t \in Threads, C!Regains(t)
      PROVE  CVInv'
  BY <1>13 DEF C!Regains, C!Goes, C!TakesMutex
<1>14. CASE UNCHANGED C!vars
  BY <1>14 DEF C!vars
<1>15. QED
  BY <1>1, <1>2, <1>3, <1>4, <1>5, <1>6, <1>7, <1>8, <1>9, <1>10, <1>11, <1>12, <1>13, <1>14 DEF C!Next, C!Steps, C!Waits

LEMMA CVInvBroadcasts == CVInv => OneBroadcastAtATime
<1> SUFFICES ASSUME CVInv
             PROVE  C!OneBroadcastAtATime
  BY DEF OneBroadcastAtATime
<1> USE DEF CVInv, BroadcastHoldsMutex
<1>1. withMutex => (broadcasts <=> C!In(C!Broadcasting) # {})
  BY DEF C!In, C!Broadcasting
<1>2. withMutex => Cardinality(C!In(C!Broadcasting)) <= 1
  <2>1. withMutex => C!In(C!Broadcasting) \subseteq {owner}
    BY DEF C!In, C!Broadcasting, Holding
  <2>2. IsFiniteSet({owner}) /\ Cardinality({owner}) = 1
    BY FS_Singleton
  <2>3. withMutex => Cardinality(C!In(C!Broadcasting)) <= Cardinality({owner})
    BY <2>1, <2>2, FS_Subset
  <2>4. QED
    BY <2>2, <2>3
<1>3. withMutex /\ broadcasts => C!In({"spins"}) = {}
  BY DEF C!In, Holding
<1>4. QED
  BY <1>1, <1>2, <1>3, SameCardinality, Zenon DEF C!OneBroadcastAtATime

\* condition_variable_t: if callers hold hMutex, m_broadcast is on exactly while
\* one thread is inside broadcast(), and nobody spins behind it.
THEOREM ConditionBroadcasts == C!Spec => []OneBroadcastAtATime
BY CVInvInit, CVInvStep, CVInvBroadcasts, PTL DEF C!Spec
=============================================================================
