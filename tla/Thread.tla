--------------------------------- MODULE Thread ---------------------------------
(***************************************************************************)
(* OOBase::Thread on POSIX (src/Thread.cpp): a reference-counted object    *)
(* for a pthread, with the manual-reset event m_finished.  The handshake   *)
(* of run() makes the new thread own a reference to its object before the  *)
(* caller goes on, and keeps the caller's stack frame until then.          *)
(*                                                                         *)
(* Event and SharedPtr are taken as what Event and SharedCount show them   *)
(* to be: operations on m_finished and on references are one step each.    *)
(*                                                                         *)
(* The second part is OOBase::ThreadPool (src/Thread.cpp): a list of       *)
(* SharedPtr<Thread> under a mutex.  Its run() starts a thread first and   *)
(* then, with m_lock held, puts it in the place of one that has finished,  *)
(* or at the end of the list.  The threads looked at may finish meanwhile. *)
(* The list is owned[Pool], without its order: the thread that pop_back()  *)
(* takes may be any.  The pool's users own no SharedPtr but the local of   *)
(* run(); other clients use threads of their own meanwhile.                *)
(***************************************************************************)
EXTENDS Naturals, FiniteSets

CONSTANTS
  Objects,     \* the Thread objects
  Clients,     \* the threads that call run(), join() and abort()
  Owners,      \* whatever keeps SharedPtr<Thread>s: Clients, and a pool
  NoObject,    \* a client outside any call
  Pool,
  Users,       \* the clients that use the pool
  Pooled,      \* the threads they run; the others are run by other clients
  Nobody       \* holder of the free m_lock

ASSUME ThreadAssumption ==
  /\ Clients \subseteq Owners
  /\ NoObject \notin Objects

ASSUME ThreadPoolAssumption ==
  /\ Pool \in Owners \ Clients
  /\ Users \subseteq Clients
  /\ Pooled \subseteq Objects
  /\ Nobody \notin Clients

VARIABLES
  finished,    \* m_finished is set
  pthread,     \* how far the pthread of each object is
  self,        \* oobase_thread_fn's ptrThis refers to the object
  cancelled,   \* pthread_cancel() has been called
  joins,       \* times pthread_join() has returned
  owned,       \* the SharedPtrs of each owner
  pc,          \* the next step of each client
  on,          \* the object its call is on
  lock,        \* the client that holds the pool's m_lock
  scanned      \* the threads its loop has passed

threadVars == <<finished, pthread, self, cancelled, joins, owned, pc, on>>
vars == <<threadVars, lock, scanned>>

\* The states of a pthread that is in oobase_thread_fn and may use its object.
InFunction == {"created", "referenced", "running", "ended"}

Held(o) == self[o] \/ \E w \in Owners : o \in owned[w]

Init ==
  /\ finished = [o \in Objects |-> TRUE]
  /\ pthread = [o \in Objects |-> "none"]
  /\ self = [o \in Objects |-> FALSE]
  /\ cancelled = [o \in Objects |-> FALSE]
  /\ joins = [o \in Objects |-> 0]
  /\ owned = [w \in Owners |-> {}]
  /\ pc = [c \in Clients |-> "idle"]
  /\ on = [c \in Clients |-> NoObject]

Begins(c, o, state) ==
  /\ pc[c] = "idle"
  /\ pc' = [pc EXCEPT ![c] = state]
  /\ on' = [on EXCEPT ![c] = o]

Steps(c, from, to) ==
  /\ pc[c] = from
  /\ pc' = [pc EXCEPT ![c] = to]
  /\ on' = [on EXCEPT ![c] = IF to = "idle" THEN NoObject ELSE @]

PthreadGoes(o, from, to) == pthread[o] = from /\ pthread' = [pthread EXCEPT ![o] = to]

-----------------------------------------------------------------------------
(* run()                                                                    *)

RunKeepsFinished(c, o) ==
  /\ PthreadGoes(o, "none", "created")
  /\ Begins(c, o, "starts")
  /\ owned' = [owned EXCEPT ![c] = @ \cup {o}]
  /\ UNCHANGED <<finished, self, cancelled, joins>>

\* A new object's m_finished is reset and its pthread created.  If either
\* fails, the object goes and nothing has happened.
Run(c, o) ==
  /\ PthreadGoes(o, "none", "created")
  /\ Begins(c, o, "starts")
  /\ finished' = [finished EXCEPT ![o] = FALSE]
  /\ owned' = [owned EXCEPT ![c] = @ \cup {o}]
  /\ UNCHANGED <<self, cancelled, joins>>

HasStarted(o) == pthread[o] \notin {"created", "referenced"}

RunReturnsAtOnce(c) ==
  /\ Steps(c, "starts", "idle")
  /\ UNCHANGED <<finished, pthread, self, cancelled, joins, owned>>

\* started.wait() returns.
RunReturns(c) ==
  /\ Steps(c, "starts", "idle")
  /\ HasStarted(on[c])
  /\ UNCHANGED <<finished, pthread, self, cancelled, joins, owned>>

-----------------------------------------------------------------------------
(* oobase_thread_fn()                                                       *)

TakesReference(o) ==
  /\ PthreadGoes(o, "created", "referenced")
  /\ self' = [self EXCEPT ![o] = TRUE]
  /\ UNCHANGED <<finished, cancelled, joins, owned, pc, on>>

\* wrap->m_started->set(); from here on wrap is not touched.
SetsStarted(o) ==
  /\ PthreadGoes(o, "referenced", "running")
  /\ UNCHANGED <<finished, self, cancelled, joins, owned, pc, on>>

FunctionReturns(o) ==
  /\ PthreadGoes(o, "running", "ended")
  /\ UNCHANGED <<finished, self, cancelled, joins, owned, pc, on>>

SetsNothing(o) ==
  /\ PthreadGoes(o, "ended", "signalled")
  /\ UNCHANGED <<finished, self, cancelled, joins, owned, pc, on>>

SetsFinished(o) ==
  /\ PthreadGoes(o, "ended", "signalled")
  /\ finished' = [finished EXCEPT ![o] = TRUE]
  /\ UNCHANGED <<self, cancelled, joins, owned, pc, on>>

\* ptrThis is destroyed: at the end of the function or, if the thread has been
\* cancelled, as the stack of the user's function is unwound.
Exits(o) ==
  /\ \/ PthreadGoes(o, "signalled", "exited")
     \/ cancelled[o] /\ PthreadGoes(o, "running", "exited")
  /\ self' = [self EXCEPT ![o] = FALSE]
  /\ UNCHANGED <<finished, cancelled, joins, owned, pc, on>>

-----------------------------------------------------------------------------
(* join(), abort() and the SharedPtrs of the clients                        *)

\* One client joins or aborts a thread, once: two would both call
\* pthread_join(), and so would one that does it again.
Unjoined(o) == joins[o] = 0 /\ \A d \in Clients : on[d] # o

Join(c, o) ==
  /\ o \in owned[c]
  /\ Unjoined(o)
  /\ Begins(c, o, "joins")
  /\ UNCHANGED <<finished, pthread, self, cancelled, joins, owned>>

JoinWaits(c) ==
  /\ Steps(c, "joins", "collects")
  /\ finished[on[c]]
  /\ UNCHANGED <<finished, pthread, self, cancelled, joins, owned>>

JoinTimesOut(c) ==
  /\ Steps(c, "joins", "idle")
  /\ UNCHANGED <<finished, pthread, self, cancelled, joins, owned>>

\* pthread_join().  A second one of the same pthread is undefined; it is
\* counted, and returns.
Collects(c) ==
  /\ Steps(c, "collects", "idle")
  /\ pthread[on[c]] = "exited"
  /\ joins' = [joins EXCEPT ![on[c]] = @ + 1]
  /\ UNCHANGED <<finished, pthread, self, cancelled, owned>>

\* abort() of a thread that has finished does nothing.
Abort(c, o) ==
  /\ o \in owned[c]
  /\ Unjoined(o)
  /\ ~finished[o]
  /\ Begins(c, o, "cancels")
  /\ UNCHANGED <<finished, pthread, self, cancelled, joins, owned>>

Cancels(c) ==
  /\ Steps(c, "cancels", "collects")
  /\ cancelled' = [cancelled EXCEPT ![on[c]] = TRUE]
  /\ UNCHANGED <<finished, pthread, self, joins, owned>>

\* An owner that is not using the object copies or drops its SharedPtr.
Share(c, d, o) ==
  /\ o \in owned[c] \ owned[d]
  /\ owned' = [owned EXCEPT ![d] = @ \cup {o}]
  /\ UNCHANGED <<finished, pthread, self, cancelled, joins, pc, on>>

\* The last reference ends in ~Thread(), which calls abort().
Drop(c, o) ==
  /\ o \in owned[c]
  /\ owned' = [owned EXCEPT ![c] = @ \ {o}]
  /\ IF finished[o] \/ self[o] \/ \E w \in Owners \ {c} : o \in owned[w]
       THEN pc[c] = "idle" /\ UNCHANGED <<pc, on>>
       ELSE Begins(c, o, "cancels")
  /\ UNCHANGED <<finished, pthread, self, cancelled, joins>>

-----------------------------------------------------------------------------
ThreadSteps(o) == TakesReference(o) \/ SetsStarted(o) \/ SetsFinished(o) \/ Exits(o)

ClientSteps(c) == RunReturns(c) \/ JoinWaits(c) \/ Cancels(c) \/ Collects(c)

\* What a client does with the given objects, sharing them with the others.
ClientNext(c, others, objects) ==
  \/ ClientSteps(c) \/ JoinTimesOut(c)
  \/ \E o \in objects :
       \/ Run(c, o) \/ Join(c, o) \/ Abort(c, o) \/ Drop(c, o)
       \/ \E d \in others : Share(c, d, o)

Next ==
  \/ \E o \in Objects : ThreadSteps(o) \/ FunctionReturns(o)
  \/ \E c \in Clients : ClientNext(c, Clients, Objects)

Spec == Init /\ [][Next]_threadVars

\* A thread takes its next step, but the user's function may run for ever.
Fairness ==
  /\ \A o \in Objects : WF_threadVars(ThreadSteps(o))
  /\ \A c \in Clients : WF_threadVars(ClientSteps(c))

FairSpec == Spec /\ Fairness

-----------------------------------------------------------------------------
(* ThreadPool                                                               *)

m_threads == owned[Pool]

PoolInit == Init /\ lock = Nobody /\ scanned = {}

\* Thread::run() inside ThreadPool::run(), once for each thread wanted.
PoolRuns(c, o) ==
  /\ owned[c] = {}
  /\ Run(c, o)
  /\ UNCHANGED <<lock, scanned>>

PoolAcquires(c) ==
  /\ lock = Nobody
  /\ owned[c] # {} /\ pc[c] = "idle"
  /\ lock' = c
  /\ UNCHANGED <<threadVars, scanned>>

\* The list becomes list', and the local SharedPtr and m_lock are given up.
PoolAdds(c, list) ==
  /\ owned' = [owned EXCEPT ![Pool] = list, ![c] = {}]
  /\ lock' = Nobody
  /\ scanned' = {}
  /\ UNCHANGED <<finished, pthread, self, cancelled, joins, pc, on>>

PassesRunning(c, j) ==
  /\ lock = c
  /\ j \in m_threads \ scanned
  /\ ~finished[j]
  /\ scanned' = scanned \cup {j}
  /\ UNCHANGED <<threadVars, lock>>

ReplacesAny(c, j) ==
  /\ lock = c
  /\ j \in m_threads \ scanned
  /\ PoolAdds(c, (m_threads \ {j}) \cup owned[c])

ReplacesFinished(c, j) ==
  /\ lock = c
  /\ j \in m_threads \ scanned
  /\ finished[j]
  /\ PoolAdds(c, (m_threads \ {j}) \cup owned[c])

\* push_back(), which may fail: then the new thread runs on unowned.
PushesBack(c) ==
  /\ lock = c
  /\ scanned = m_threads
  /\ \/ PoolAdds(c, m_threads \cup owned[c])
     \/ PoolAdds(c, m_threads)

\* join() and abort() of a list that is not empty: the condition of their loop
\* ends it as soon as pop_back() has taken a thread, whose SharedPtr is
\* dropped.  With an empty list they dereference a null SharedPtr; callers
\* have to avoid that, and it is not modelled.
PoolJoins(c, o) ==
  /\ lock = Nobody
  /\ owned[c] = {} /\ pc[c] = "idle"
  /\ o \in m_threads
  /\ owned' = [owned EXCEPT ![Pool] = @ \ {o}]
  /\ UNCHANGED <<finished, pthread, self, cancelled, joins, pc, on, lock, scanned>>

Alone(A) == A /\ UNCHANGED <<lock, scanned>>

PoolNext ==
  \/ \E o \in Objects : Alone(ThreadSteps(o) \/ FunctionReturns(o))
  \/ \E c \in Clients \ Users : Alone(ClientNext(c, Clients \ Users, Objects \ Pooled))
  \/ \E c \in Users :
       \/ Alone(RunReturns(c)) \/ PoolAcquires(c) \/ PushesBack(c)
       \/ \E o \in Pooled : \/ PoolRuns(c, o) \/ PoolJoins(c, o)
                            \/ PassesRunning(c, o) \/ ReplacesFinished(c, o)

\* As in Thread, for all clients.
PoolFairness ==
  /\ \A o \in Objects : WF_vars(Alone(ThreadSteps(o)))
  /\ \A c \in Clients : WF_vars(Alone(ClientSteps(c)))

PoolSpec == PoolInit /\ [][PoolNext]_vars /\ PoolFairness

-----------------------------------------------------------------------------
(* Properties                                                               *)

\* A pthread finds its Thread object alive until it has let go of it, though
\* every client may drop its SharedPtr as soon as run() returns.
ObjectOutlivesPthread == \A o \in Objects : pthread[o] \in InFunction => Held(o)

\* The wrapper on the stack of run() lives until the pthread has read it.
WrapperOutlivesStart ==
  \A o \in Objects :
    ~HasStarted(o) => \E c \in Clients : on[c] = o /\ pc[c] = "starts"

\* Neither a Thread object nor the stack of its creator is gone while the new
\* pthread may still use it, whoever drops which SharedPtr when.
NothingOutlived == ObjectOutlivesPthread /\ WrapperOutlivesStart

\* Unless a thread is cancelled, m_finished is reset from before its pthread
\* exists until after the user's function has returned.
FinishedMeansOver ==
  \A o \in Objects : ~cancelled[o] => (finished[o] <=> pthread[o] \notin InFunction)

\* run() returns, and join() does once the function has.
CallsReturn ==
  \A c \in Clients :
    (pc[c] = "starts" \/ (pc[c] = "joins" /\ pthread[on[c]] = "ended")) ~> (pc[c] = "idle")

\* Taking in a new thread, the pool lets go of no thread that still runs, and
\* of one thread at most.
RunForgetsOnlyFinished ==
  [][m_threads' \ m_threads # {} =>
       \A o, p \in m_threads \ m_threads' : o = p /\ finished[o]]_vars
=============================================================================
