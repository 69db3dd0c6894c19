-------------------------------- MODULE MCWin32 --------------------------------
(***************************************************************************)
(* Small instances for TLC of what the library puts in the place of the    *)
(* Windows API before Vista: InitOnce, RWMutex and ConditionVariable.  The *)
(* threads use one of them, chosen at the start.                           *)
(***************************************************************************)
EXTENDS InitOnce

CONSTANTS
  Readers, TryReaders, Writers,    \* RWMutex
  MaxTokens, MaxDepth              \* ConditionVariable

VARIABLES
  used,          \* "once", "rwmutex" or "condition"
  nReaders, readerEvent, event, writerMutex, rwPc, early,
  owner, depth, waiters, broadcasts, sema, done, withMutex, cvPc

R == INSTANCE RWMutex WITH pc <- rwPc
C == INSTANCE ConditionVariable WITH pc <- cvPc

rwVars == <<nReaders, readerEvent, event, writerMutex, rwPc, early>>
cvVars == <<owner, depth, waiters, broadcasts, sema, done, withMutex, cvPc>>
allVars == <<used, vars, rwVars, cvVars>>

OnceOnly(A) == used = "once" /\ A /\ UNCHANGED <<used, rwVars, cvVars>>
RWMutexOnly(A) == used = "rwmutex" /\ A /\ UNCHANGED <<used, vars, cvVars>>
ConditionOnly(A) == used = "condition" /\ A /\ UNCHANGED <<used, vars, rwVars>>

MCInit ==
  /\ used \in {"once", "rwmutex", "condition"}
  /\ Init /\ R!Init
  /\ C!Init /\ (used # "condition" => withMutex)

MCNext == OnceOnly(Next) \/ RWMutexOnly(R!Next) \/ ConditionOnly(C!Next)

\* Each thread's fairness in the component that is used.  That never changes, so
\* that a behaviour has the fairness of its component.
MCFairness ==
  \A t \in Threads \cup R!Users :
    /\ WF_allVars(\/ OnceOnly(t \in Threads /\ Steps(t))
                  \/ RWMutexOnly(R!Steps(t))
                  \/ ConditionOnly(t \in Threads /\ C!Steps(t)))
    /\ SF_allVars(\/ OnceOnly(t \in Threads /\ Acquire(t))
                  \/ RWMutexOnly(R!Waits(t))
                  \/ ConditionOnly(t \in Threads /\ C!Waits(t)))

MCSpec == MCInit /\ [][MCNext]_allVars /\ MCFairness

\* InitOnceExecuteOnce: the function runs once, under the mutex, and those that
\* waited are told what it returned.
OnceAndForAll == InitRunsOnce /\ MutexExcludes /\ WaitersSeeTheVerdict

\* RWMutex: locks exclude each other, and the right to be inside is never
\* doubled or lost, unless a reader has passed m_hReaderEvent between the
\* decrement of the last reader and its ResetEvent (run rw_three).
LocksExclude == R!LocksExclude

\* RWMutex: unless a try_acquire_read() has failed, or a reader slipped in that
\* way, a reader that waits gets the lock, whatever writers do; and once no reader
\* comes any more every writer that waits gets in.
EverybodyGetsIn == R!ReaderGetsIn /\ R!WriterGetsInAfterReaders

\* Condition variable: with hMutex held, one broadcast at a time, and nobody
\* spins behind it.
OneBroadcastAtATime == C!OneBroadcastAtATime

\* Condition variable: a broadcast returns, and so does a wait that has ended.
ConditionCallsReturn == C!BroadcastReturns /\ C!WaitReturns
=============================================================================
