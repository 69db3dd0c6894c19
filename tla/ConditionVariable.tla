--------------------------- MODULE ConditionVariable ---------------------------
(***************************************************************************)
(* OOBase::Win32::condition_variable_t (src/Win32.cpp): the condition      *)
(* variable used on Windows before Vista, made of a semaphore (m_sema), an *)
(* auto-reset event (m_waiters_done), a count and a flag, with the         *)
(* caller's kernel mutex hMutex.                                           *)
(*                                                                         *)
(* m_waiters_lock is held over short blocks without waits: each block is   *)
(* one step.  Callers either hold hMutex whenever they call signal() and   *)
(* broadcast(), as the library itself does, or never do (withMutex).       *)
(***************************************************************************)
EXTENDS Integers, FiniteSets

CONSTANTS
  Threads,
  Nobody,            \* owner of the free mutex
  MaxTokens,         \* bound: signals stop at this semaphore count
  MaxDepth           \* bound: hMutex is not acquired more often than this

VARIABLES
  owner,       \* owner of hMutex
  depth,       \* how many releases hMutex needs: it is recursive
  waiters,     \* m_waiters
  broadcasts,  \* m_broadcast
  sema,        \* count of m_sema
  done,        \* m_waiters_done is signalled
  withMutex,   \* callers of signal() and broadcast() hold hMutex
  pc           \* next step of each thread

vars == <<owner, depth, waiters, broadcasts, sema, done, withMutex, pc>>

\* Between ++m_waiters and --m_waiters.
Waiting == {"sleeps", "wakes"}
\* Inside broadcast(), with hMutex held and without.
Broadcasting == {"broadcasting", "clears", "shouting", "hushes"}

In(states) == {t \in Threads : pc[t] \in states}

Init ==
  /\ owner = Nobody
  /\ depth = 0
  /\ waiters = 0
  /\ broadcasts = FALSE
  /\ sema = 0
  /\ done = FALSE
  /\ withMutex \in BOOLEAN
  /\ pc = [t \in Threads |-> "out"]

\* One thread moves on; its callers' habits stay the same.
Goes(t, from, to) ==
  /\ pc[t] = from
  /\ pc' = [pc EXCEPT ![t] = to]
  /\ UNCHANGED withMutex

\* WaitForSingleObject(hMutex, INFINITE) and ReleaseMutex(hMutex).
TakesMutex(t) ==
  /\ owner \in {Nobody, t}
  /\ owner' = t
  /\ depth' = depth + 1

GivesMutex(t) ==
  /\ depth' = depth - 1
  /\ owner' = IF depth' = 0 THEN Nobody ELSE owner

-----------------------------------------------------------------------------
(* The caller's own use of the mutex.                                       *)

Acquire(t) ==
  /\ Goes(t, "out", "holds")
  /\ TakesMutex(t)
  /\ UNCHANGED <<waiters, broadcasts, sema, done>>

Release(t) ==
  /\ Goes(t, "holds", "out")
  /\ GivesMutex(t)
  /\ UNCHANGED <<waiters, broadcasts, sema, done>>

-----------------------------------------------------------------------------
(* wait()                                                                   *)

\* The block up to LeaveCriticalSection and SignalObjectAndWait, with no
\* broadcast in progress.
Sleep(t, from) ==
  /\ Goes(t, from, "sleeps")
  /\ ~broadcasts
  /\ waiters' = waiters + 1
  /\ GivesMutex(t)
  /\ UNCHANGED <<broadcasts, sema, done>>

\* With an expired timeout the semaphore is not waited for, and hMutex is
\* not released, but waited for all the same.
SkipSleep(t, from) ==
  /\ ~broadcasts
  /\ depth < MaxDepth
  /\ Goes(t, from, "regains")
  /\ UNCHANGED <<owner, depth, waiters, broadcasts, sema, done>>

Wait(t) ==
  \/ Sleep(t, "holds") \/ SkipSleep(t, "holds")
  \/ /\ broadcasts
     /\ Goes(t, "holds", "spins")
     /\ UNCHANGED <<owner, depth, waiters, broadcasts, sema, done>>

\* Round the loop until the broadcast is over or the timeout has expired.
Spin(t) ==
  \/ Sleep(t, "spins") \/ SkipSleep(t, "spins")
  \/ /\ broadcasts
     /\ Goes(t, "spins", "holds")
     /\ UNCHANGED <<owner, depth, waiters, broadcasts, sema, done>>

Woken(t) ==
  /\ sema > 0
  /\ sema' = sema - 1
  /\ Goes(t, "sleeps", "wakes")
  /\ UNCHANGED <<owner, depth, waiters, broadcasts, done>>

\* WAIT_TIMEOUT: a token released for this thread stays in the semaphore.
TimesOut(t) ==
  /\ Goes(t, "sleeps", "wakes")
  /\ UNCHANGED <<owner, depth, waiters, broadcasts, sema, done>>

LeavesSilently(t) ==
  /\ waiters' = waiters - 1
  /\ Goes(t, "wakes", "regains")
  /\ UNCHANGED <<owner, depth, broadcasts, sema, done>>

\* --m_waiters; the last one of a broadcast signals m_waiters_done.
Leaves(t) ==
  /\ waiters' = waiters - 1
  /\ \/ ~(broadcasts /\ waiters' = 0) /\ Goes(t, "wakes", "regains") /\ UNCHANGED done
     \/ broadcasts /\ waiters' = 0 /\ Goes(t, "wakes", "last") /\ done' = TRUE
  /\ UNCHANGED <<owner, depth, broadcasts, sema>>

Regains(t) ==
  /\ \/ Goes(t, "regains", "holds")
     \/ Goes(t, "last", "last_sets")
  /\ TakesMutex(t)
  /\ UNCHANGED <<waiters, broadcasts, sema, done>>

\* The last waiter sets m_waiters_done a second time.
LastSets(t) ==
  /\ Goes(t, "last_sets", "holds")
  /\ done' = TRUE
  /\ UNCHANGED <<owner, depth, waiters, broadcasts, sema>>

-----------------------------------------------------------------------------
(* signal() and broadcast()                                                 *)

Signal(t) ==
  /\ pc[t] = IF withMutex THEN "holds" ELSE "out"
  /\ waiters > 0
  /\ sema < MaxTokens
  /\ sema' = sema + 1
  /\ UNCHANGED <<owner, depth, waiters, broadcasts, done, withMutex, pc>>

\* The caller of broadcast() enters it and leaves it.
CallsBroadcast(t) ==
  \/ withMutex /\ Goes(t, "holds", "broadcasting")
  \/ ~withMutex /\ Goes(t, "out", "shouting")

BroadcastsUnflagged(t) ==
  /\ waiters > 0
  /\ sema + waiters <= MaxTokens
  /\ sema' = sema + waiters
  /\ CallsBroadcast(t)
  /\ UNCHANGED <<owner, depth, waiters, broadcasts, done>>

\* With no waiter there is nothing to do.
Broadcast(t) ==
  /\ waiters > 0
  /\ sema + waiters <= MaxTokens
  /\ broadcasts' = TRUE
  /\ sema' = sema + waiters
  /\ CallsBroadcast(t)
  /\ UNCHANGED <<owner, depth, waiters, done>>

WaitersDone(t) ==
  /\ done
  /\ done' = FALSE
  /\ Goes(t, "broadcasting", "clears") \/ Goes(t, "shouting", "hushes")
  /\ UNCHANGED <<owner, depth, waiters, broadcasts, sema>>

\* m_broadcast = false, without m_waiters_lock.
Clears(t) ==
  /\ Goes(t, "clears", "holds") \/ Goes(t, "hushes", "out")
  /\ broadcasts' = FALSE
  /\ UNCHANGED <<owner, depth, waiters, sema, done>>

-----------------------------------------------------------------------------
\* What a running thread does next, and what it may have to wait for.
Steps(t) == Spin(t) \/ Leaves(t) \/ LastSets(t) \/ WaitersDone(t) \/ Clears(t)
Waits(t) == Release(t) \/ Woken(t) \/ Regains(t)

Next ==
  \E t \in Threads :
    \/ Acquire(t) \/ Wait(t) \/ TimesOut(t) \/ Signal(t) \/ Broadcast(t)
    \/ Steps(t) \/ Waits(t)

Spec == Init /\ [][Next]_vars

(***************************************************************************)
(* Fairness.  A running thread takes its next step, a caller releases the  *)
(* mutex in the end, and a thread waiting for a kernel object gets it if   *)
(* that keeps becoming available (its waiters are queued).  No timeout is  *)
(* obliged to expire.                                                      *)
(***************************************************************************)
Fairness == \A t \in Threads : WF_vars(Steps(t)) /\ SF_vars(Waits(t))

FairSpec == Spec /\ Fairness

-----------------------------------------------------------------------------
(* Properties                                                               *)

\* If callers hold hMutex, m_broadcast is set exactly while a thread is inside
\* broadcast(), and since it keeps hMutex until then, nobody waits in the spin
\* loop.
OneBroadcastAtATime ==
  withMutex =>
    /\ broadcasts <=> In(Broadcasting) # {}
    /\ Cardinality(In(Broadcasting)) <= 1
    /\ broadcasts => In({"spins"}) = {}

\* No thread has to release hMutex more than once: one whose timeout had
\* expired on entry has to, for it owns the mutex twice.
OwnedOnce == depth <= 1

\* A broadcast with hMutex held returns, unless somebody has failed to free
\* hMutex.
BroadcastReturns ==
  []OwnedOnce => \A t \in Threads : pc[t] = "broadcasting" ~> pc[t] = "holds"

\* A thread whose wait has ended gets the mutex back, with that proviso.
WaitReturns ==
  [](withMutex /\ OwnedOnce) => \A t \in Threads : pc[t] = "wakes" ~> pc[t] = "holds"
=============================================================================
