--------------------------------- MODULE Guards ---------------------------------
(***************************************************************************)
(* Guard and ReadGuard (include/OOBase/Mutex.h) over the recursive Mutex   *)
(* and the RWMutex of POSIX (src/Mutex.cpp).  Guards are opened and closed *)
(* as scopes are, the innermost first.                                     *)
(***************************************************************************)
EXTENDS Naturals, Sequences, FiniteSets

CONSTANTS Threads, MaxScopes, NULL   \* bound on the guards, and locks, of a thread

VARIABLES
  rw,        \* the lock is an RWMutex
  writer,    \* the thread that has it, or NULL
  depth,     \* how often, of the recursive Mutex
  reads,     \* [Threads -> its read locks]
  guards,    \* [Threads -> its guards, the innermost first]
  twice      \* history: threads that acquired by a guard that had acquired

vars == <<rw, writer, depth, reads, guards, twice>>

Init ==
  /\ rw \in BOOLEAN /\ writer = NULL /\ depth = 0 /\ twice = {}
  /\ reads = [t \in Threads |-> 0] /\ guards = [t \in Threads |-> <<>>]

Readers == {t \in Threads : reads[t] > 0}
CanTake(t, read) ==
  IF ~rw THEN writer \in {NULL, t}
  ELSE writer = NULL /\ (read \/ Readers = {})

Take(t, read) ==
  IF read THEN reads' = [reads EXCEPT ![t] = @ + 1] /\ UNCHANGED <<writer, depth>>
  ELSE writer' = t /\ depth' = depth + 1 /\ UNCHANGED reads

Give(t, read) ==
  IF read THEN reads' = [reads EXCEPT ![t] = @ - 1] /\ UNCHANGED <<writer, depth>>
  ELSE depth' = depth - 1 /\ writer' = (IF depth = 1 THEN NULL ELSE writer) /\ UNCHANGED reads

Untouched == UNCHANGED <<writer, depth, reads>>
Inner(t) == Head(guards[t])
Open(t) == guards[t] # <<>>
Marks(t, acquired) == guards' = [guards EXCEPT ![t] = <<[Inner(t) EXCEPT !.acquired = acquired]>> \o Tail(@)]

\* The constructor, with and without acq.
Construct(t, read, acq) ==
  /\ Len(guards[t]) < MaxScopes /\ (read => rw)
  /\ guards' = [guards EXCEPT ![t] = <<[read |-> read, acquired |-> acq]>> \o @]
  /\ IF acq THEN CanTake(t, read) /\ Take(t, read) ELSE Untouched
  /\ UNCHANGED <<rw, twice>>

\* acquire() and try_acquire(), for which a guard should not have acquired.
Acquire(t) ==
  /\ Open(t) /\ CanTake(t, Inner(t).read) /\ depth + reads[t] < MaxScopes
  /\ Take(t, Inner(t).read) /\ Marks(t, TRUE)
  /\ twice' = IF Inner(t).acquired THEN twice \cup {t} ELSE twice
  /\ UNCHANGED rw

\* Mutant: the guard is marked whatever acquire(timeout) says.
TimesOutMarked(t) ==
  /\ Open(t) /\ ~rw /\ ~CanTake(t, FALSE)
  /\ Marks(t, TRUE) /\ Untouched /\ UNCHANGED <<rw, twice>>

\* acquire(timeout) of the Mutex, when the time is up.
TimesOut(t) ==
  /\ Open(t) /\ ~rw /\ ~CanTake(t, FALSE)
  /\ Marks(t, FALSE) /\ Untouched /\ UNCHANGED <<rw, twice>>

Release(t) ==
  /\ Open(t) /\ Inner(t).acquired
  /\ Give(t, Inner(t).read) /\ Marks(t, FALSE) /\ UNCHANGED <<rw, twice>>

Destruct(t) ==
  /\ Open(t)
  /\ IF Inner(t).acquired THEN Give(t, Inner(t).read) ELSE Untouched
  /\ guards' = [guards EXCEPT ![t] = Tail(@)]
  /\ UNCHANGED <<rw, twice>>

Next ==
  \E t \in Threads :
    \/ \E read, acq \in BOOLEAN : Construct(t, read, acq)
    \/ Acquire(t) \/ TimesOut(t) \/ Release(t) \/ Destruct(t)

-----------------------------------------------------------------------------
\* A thread has the lock as often as it has guards that have acquired, also
\* where they are nested, were released early or ran out of time; unless one
\* guard acquired twice.  While one thread writes, no other has the lock.
GuardsKeepTheLock ==
  LET Acquired(t, read) == Cardinality({i \in DOMAIN guards[t] : guards[t][i].acquired /\ guards[t][i].read = read})
  IN  \A t \in Threads :
        /\ twice = {} => /\ reads[t] = Acquired(t, TRUE)
                         /\ (IF writer = t THEN depth ELSE 0) = Acquired(t, FALSE)
        /\ rw /\ writer = t => Readers = {} /\ depth = 1
        /\ twice = {} /\ Acquired(t, FALSE) > 0 =>
             \A u \in Threads \ {t} : Acquired(u, FALSE) + Acquired(u, TRUE) = 0
=============================================================================
