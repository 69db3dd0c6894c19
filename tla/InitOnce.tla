------------------------------- MODULE InitOnce -------------------------------
(***************************************************************************)
(* Win32Thunk::impl_InitOnceExecuteOnce (src/Win32.cpp): the library's     *)
(* InitOnceExecuteOnce for Windows before Vista, behind Once::Run and the  *)
(* thunk's own initialisation.  One interlocked word per key says how far  *)
(* the initialisation is; a mutex named after the key's address lets one   *)
(* thread at a time go on.  InitFn may use the same key again.             *)
(***************************************************************************)
EXTENDS Naturals, FiniteSets

CONSTANTS
  Threads,
  Nobody,     \* owner of the free mutex; before InitFn has a caller
  MayFail     \* InitFn may return FALSE

ASSUME InitOnceAssumption ==
  /\ IsFiniteSet(Threads)
  /\ Nobody \notin Threads
  /\ MayFail \in BOOLEAN

VARIABLES
  check,     \* *check: 0 start, 1 being called, 2 failed, 3 succeeded
  mutex,     \* owner of the named mutex
  handles,   \* threads with a handle to it; without one the object is gone
  init,      \* InitFn was "never" called, is "running", "done" or "failed"
  first,     \* the thread that called InitFn
  runs,      \* how often InitFn has been called
  nested,    \* InitFn has used the key itself
  pc,        \* next step of each thread's outermost call
  bReturn    \* what that call will return, or has returned

vars == <<check, mutex, handles, init, first, runs, nested, pc, bReturn>>

\* With the mutex held.
Inside == {"tests", "assumes", "in_init", "fails", "releases"}

Init ==
  /\ check = 0
  /\ mutex = Nobody
  /\ handles = {}
  /\ init = "never"
  /\ first = Nobody
  /\ runs = 0
  /\ nested = FALSE
  /\ pc = [t \in Threads |-> "idle"]
  /\ bReturn = [t \in Threads |-> "none"]

Goes(t, from, to) == pc[t] = from /\ pc' = [pc EXCEPT ![t] = to]
WillReturn(t, r) == bReturn' = [bReturn EXCEPT ![t] = r]

\* InterlockedCompareExchange(check, 1, 0) and the switch on its result.
Exchange(t) ==
  /\ check' = IF check = 0 THEN 1 ELSE check
  /\ \/ check \in {0, 1} /\ Goes(t, "idle", "opens") /\ WillReturn(t, "none")
     \/ check = 2 /\ Goes(t, "idle", "idle") /\ WillReturn(t, "FALSE")
     \/ check = 3 /\ Goes(t, "idle", "idle") /\ WillReturn(t, "TRUE")
  /\ UNCHANGED <<mutex, handles, init, first, runs, nested>>

\* get_mutex(): opens the object of that name, or makes a new one.
Open(t) ==
  /\ Goes(t, "opens", "waits")
  /\ handles' = handles \cup {t}
  /\ mutex' = IF handles = {} THEN Nobody ELSE mutex
  /\ UNCHANGED <<check, init, first, runs, nested, bReturn>>

Acquire(t) ==
  /\ mutex = Nobody
  /\ mutex' = t
  /\ Goes(t, "waits", "tests")
  /\ UNCHANGED <<check, handles, init, first, runs, nested, bReturn>>

TestsForSuccess(t) ==
  /\ \/ check = 1 /\ Goes(t, "tests", "assumes") /\ WillReturn(t, "TRUE")
     \/ check # 1 /\ Goes(t, "tests", "releases") /\ WillReturn(t, "TRUE")
  /\ UNCHANGED <<check, mutex, handles, init, first, runs, nested>>

\* if (*check == 1): the first thread in goes on to InitFn, the others take
\* the verdict from *check.
Tests(t) ==
  /\ \/ check = 1 /\ Goes(t, "tests", "assumes") /\ WillReturn(t, "TRUE")
     \/ check # 1 /\ Goes(t, "tests", "releases")
                  /\ WillReturn(t, IF check = 3 THEN "TRUE" ELSE "FALSE")
  /\ UNCHANGED <<check, mutex, handles, init, first, runs, nested>>

\* "Assume success (this avoids recursion)", and InitFn starts.
AssumeSuccess(t) ==
  /\ Goes(t, "assumes", "in_init")
  /\ check' = 3
  /\ init' = "running"
  /\ first' = t
  /\ runs' = runs + 1
  /\ UNCHANGED <<mutex, handles, nested, bReturn>>

\* InitFn calls the function with its own key.  The mutex would let the
\* thread in again, and 1 in *check would have it call InitFn once more.
Recurse(t) ==
  /\ pc[t] = "in_init"
  /\ ~nested
  /\ nested' = TRUE
  /\ runs' = IF check \in {0, 1} THEN runs + 1 ELSE runs
  /\ UNCHANGED <<check, mutex, handles, init, first, pc, bReturn>>

Succeed(t) ==
  /\ Goes(t, "in_init", "releases")
  /\ init' = "done"
  /\ UNCHANGED <<check, mutex, handles, first, runs, nested, bReturn>>

Fail(t) ==
  /\ MayFail
  /\ Goes(t, "in_init", "fails")
  /\ init' = "failed"
  /\ UNCHANGED <<check, mutex, handles, first, runs, nested, bReturn>>

\* InterlockedExchange(check, 2); bReturn stays TRUE.
RecordFailure(t) ==
  /\ Goes(t, "fails", "releases")
  /\ check' = 2
  /\ UNCHANGED <<mutex, handles, init, first, runs, nested, bReturn>>

ReleaseNothing(t) ==
  /\ Goes(t, "releases", "closes")
  /\ UNCHANGED <<check, mutex, handles, init, first, runs, nested, bReturn>>

Release(t) ==
  /\ mutex' = Nobody
  /\ Goes(t, "releases", "closes")
  /\ UNCHANGED <<check, handles, init, first, runs, nested, bReturn>>

\* The SmartHandle's destructor, and the return.
Close(t) ==
  /\ Goes(t, "closes", "idle")
  /\ handles' = handles \ {t}
  /\ UNCHANGED <<check, mutex, init, first, runs, nested, bReturn>>

-----------------------------------------------------------------------------
Steps(t) ==
  \/ Open(t) \/ Acquire(t) \/ Tests(t) \/ AssumeSuccess(t)
  \/ Succeed(t) \/ Fail(t) \/ RecordFailure(t) \/ Release(t) \/ Close(t)

Next == \E t \in Threads : Exchange(t) \/ Recurse(t) \/ Steps(t)

Spec == Init /\ [][Next]_vars

\* A thread in a call takes its next step, and InitFn returns.  The mutex is
\* given to one of its waiters at a time: in turn, for each calls once.
Fairness == \A t \in Threads : WF_vars(Steps(t)) /\ SF_vars(Acquire(t))

FairSpec == Spec /\ Fairness

-----------------------------------------------------------------------------
(* Properties                                                               *)

\* InitFn is called once, by whichever thread first has the mutex, even if
\* it uses the key itself.
InitRunsOnce == runs <= 1

\* Although the mutex is made anew whenever nobody has it open, one thread at
\* a time is between its wait and its release.
MutexExcludes ==
  \A t \in Threads : pc[t] \in Inside <=> mutex = t

\* A thread that has waited for the mutex returns what InitFn returned.
WaitersSeeTheVerdict ==
  \A t \in Threads \ {first} :
    pc[t] \in {"releases", "closes"} =>
      /\ bReturn[t] = "TRUE" <=> init = "done"
      /\ bReturn[t] = "FALSE" <=> init = "failed"

\* Whoever is told TRUE finds the initialisation done, except InitFn itself.
TrueMeansDone ==
  \A t \in Threads : pc[t] = "idle" /\ bReturn[t] = "TRUE" => init = "done"

\* Every call returns, if InitFn does.
EveryCallReturns == \A t \in Threads : pc[t] = "opens" ~> pc[t] = "idle"
=============================================================================
