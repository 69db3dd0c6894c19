-------------------------------- MODULE RWMutex --------------------------------
(***************************************************************************)
(* OOBase::Win32::rwmutex_t (src/Win32.cpp): the reader/writer lock behind *)
(* OOBase::RWMutex on Windows before Vista, made of a kernel mutex         *)
(* (m_hWriterMutex), an auto-reset event that is the right to be inside    *)
(* (m_hEvent), a manual-reset event that lets further readers in           *)
(* (m_hReaderEvent) and an interlocked count of readers, minus one.        *)
(*                                                                         *)
(* Nothing protects one member against the others: each kernel call and    *)
(* each interlocked instruction is a step of its own.  A failing kernel    *)
(* call ends the program (OOBase_CallCriticalFailure) and is not modelled. *)
(***************************************************************************)
EXTENDS Integers, FiniteSets

CONSTANTS
  Readers,      \* the threads that take read locks
  TryReaders,   \* those that also use try_acquire_read()
  Writers,      \* the threads that take write locks
  Nobody        \* owner of the free writer mutex

VARIABLES
  nReaders,      \* m_nReaders
  readerEvent,   \* m_hReaderEvent is signalled
  event,         \* m_hEvent is signalled
  writerMutex,   \* owner of m_hWriterMutex
  pc,            \* the next step of each thread
  early          \* history: a reader has passed m_hReaderEvent before the last
                 \* reader, counted out already, had reset it

vars == <<nReaders, readerEvent, event, writerMutex, pc, early>>

Users == Readers \cup Writers

\* Between a reader's increment of m_nReaders and the matching decrement.
Counted == {"first_waits", "first_tries", "first_in", "later_waits", "later_tries",
            "gives_up", "reading"}
\* After a reader's last decrement, and the states of a writer.
Leaving == {"last_resets", "last_sets"}
Writing == {"write_waits", "writing", "write_ends"}

In(states) == {t \in Users : pc[t] \in states}

Init ==
  /\ nReaders = -1
  /\ readerEvent = FALSE
  /\ event = TRUE
  /\ writerMutex = Nobody
  /\ pc = [t \in Users |-> "idle"]
  /\ early = FALSE

Goes(t, from, to) == pc[t] = from /\ pc' = [pc EXCEPT ![t] = to]

-----------------------------------------------------------------------------
(* acquire_read() and try_acquire_read()                                    *)

\* InterlockedIncrement: the first reader goes for m_hEvent, the others for
\* m_hReaderEvent; how is "waits" or "tries".
CountIn(t, first, later) ==
  /\ nReaders' = nReaders + 1
  /\ Goes(t, "idle", IF nReaders' = 0 THEN first ELSE later)
  /\ UNCHANGED <<readerEvent, event, writerMutex, early>>

AcquireRead(t) == CountIn(t, "first_waits", "later_waits")
TryAcquireRead(t) == t \in TryReaders /\ CountIn(t, "first_tries", "later_tries")

FirstTakesEvent(t) ==
  /\ event
  /\ event' = FALSE
  /\ \/ Goes(t, "first_waits", "first_in")
     \/ Goes(t, "first_tries", "first_in")
  /\ UNCHANGED <<nReaders, readerEvent, writerMutex, early>>

FirstSetsReaderEvent(t) ==
  /\ Goes(t, "first_in", "reading")
  /\ readerEvent' = TRUE
  /\ UNCHANGED <<nReaders, event, writerMutex, early>>

LaterEnters(t) ==
  /\ readerEvent
  /\ \/ Goes(t, "later_waits", "reading")
     \/ Goes(t, "later_tries", "reading")
  /\ early' = (early \/ In({"last_resets"}) # {})
  /\ UNCHANGED <<nReaders, readerEvent, event, writerMutex>>

\* WAIT_TIMEOUT; the reader is still counted.
TryFails(t) ==
  /\ \/ ~event /\ Goes(t, "first_tries", "gives_up")
     \/ ~readerEvent /\ Goes(t, "later_tries", "gives_up")
  /\ UNCHANGED <<nReaders, readerEvent, event, writerMutex, early>>

GivesUp(t) ==
  /\ Goes(t, "gives_up", "idle")
  /\ nReaders' = nReaders - 1
  /\ UNCHANGED <<readerEvent, event, writerMutex, early>>

-----------------------------------------------------------------------------
(* release_read()                                                           *)

AnyReaderIsLast(t) ==
  /\ nReaders' = nReaders - 1
  /\ Goes(t, "reading", "last_resets")
  /\ UNCHANGED <<readerEvent, event, writerMutex, early>>

ReleaseRead(t) ==
  /\ nReaders' = nReaders - 1
  /\ Goes(t, "reading", IF nReaders' < 0 THEN "last_resets" ELSE "idle")
  /\ UNCHANGED <<readerEvent, event, writerMutex, early>>

LastResets(t) ==
  /\ Goes(t, "last_resets", "last_sets")
  /\ readerEvent' = FALSE
  /\ UNCHANGED <<nReaders, event, writerMutex, early>>

LastKeepsEvent(t) ==
  /\ Goes(t, "last_sets", "idle")
  /\ UNCHANGED <<nReaders, readerEvent, event, writerMutex, early>>

LastSets(t) ==
  /\ Goes(t, "last_sets", "idle")
  /\ event' = TRUE
  /\ UNCHANGED <<nReaders, readerEvent, writerMutex, early>>

-----------------------------------------------------------------------------
(* acquire(), try_acquire() and release()                                   *)

Acquire(t) ==
  /\ Goes(t, "idle", "write_waits")
  /\ UNCHANGED <<nReaders, readerEvent, event, writerMutex, early>>

\* WaitForMultipleObjects with bWaitAll takes both objects at once or neither.
TakeBoth(t, from) ==
  /\ writerMutex = Nobody /\ event
  /\ writerMutex' = t
  /\ event' = FALSE
  /\ Goes(t, from, "writing")
  /\ UNCHANGED <<nReaders, readerEvent, early>>

\* A try_acquire() that fails changes nothing.
WriterEnters(t) == TakeBoth(t, "write_waits")
TryAcquire(t) == TakeBoth(t, "idle")

ReleaseSets(t) ==
  /\ Goes(t, "writing", "write_ends")
  /\ event' = TRUE
  /\ UNCHANGED <<nReaders, readerEvent, writerMutex, early>>

ReleaseMutex(t) ==
  /\ Goes(t, "write_ends", "idle")
  /\ writerMutex' = Nobody
  /\ UNCHANGED <<nReaders, readerEvent, event, early>>

-----------------------------------------------------------------------------
ReaderSteps(t) ==
  \/ FirstTakesEvent(t) \/ FirstSetsReaderEvent(t) \/ LaterEnters(t)
  \/ TryFails(t) \/ GivesUp(t)
  \/ ReleaseRead(t) \/ LastResets(t) \/ LastSets(t)

WriterSteps(t) == WriterEnters(t) \/ ReleaseSets(t) \/ ReleaseMutex(t)

\* What a running thread does next, and the waits for kernel objects.
Steps(t) == (t \in Readers /\ ReaderSteps(t)) \/ (t \in Writers /\ WriterSteps(t))
Waits(t) == (t \in Readers /\ (FirstTakesEvent(t) \/ LaterEnters(t))) \/ (t \in Writers /\ WriterEnters(t))

Next ==
  \/ \E t \in Readers : AcquireRead(t) \/ TryAcquireRead(t) \/ ReaderSteps(t)
  \/ \E t \in Writers : Acquire(t) \/ TryAcquire(t) \/ WriterSteps(t)

Spec == Init /\ [][Next]_vars

(***************************************************************************)
(* Fairness.  A running thread takes its next step, and locks are given    *)
(* back.  A thread waiting for a kernel object gets it if the object keeps *)
(* becoming signalled: Windows queues the waiters of an object, hence      *)
(* strong fairness of the three waits.  Nobody is obliged to take a lock.  *)
(***************************************************************************)
Fairness == \A t \in Users : WF_vars(Steps(t)) /\ SF_vars(Waits(t))

FairSpec == Spec /\ Fairness

-----------------------------------------------------------------------------
(* Properties                                                               *)

\* The right to be inside is in one place only: in m_hEvent, with a writer,
\* with the first reader on its way in, in m_hReaderEvent for any reader to
\* join, or with the last reader on its way out.
Places == [event |-> IF event THEN 1 ELSE 0,
           readerEvent |-> IF readerEvent THEN 1 ELSE 0,
           carried |-> Cardinality(In({"writing", "first_in", "last_sets"}))]
OneRightToBeInside == Places.event + Places.readerEvent + Places.carried = 1

\* A write lock is held with no other lock.
WriterAlone ==
  In({"writing"}) # {} => Cardinality(In({"writing", "write_ends"})) = 1 /\ In({"reading"}) = {}

\* Locks exclude each other, and the right to be inside is never doubled or
\* lost, unless a reader has slipped in through an event that was to be reset.
LocksExclude == ~early => WriterAlone /\ OneRightToBeInside

\* Unless a try_acquire_read() has failed, or a reader slipped in, a reader that
\* waits for the lock gets it, whatever writers do.
ReaderGetsIn ==
  [](In({"gives_up"}) = {} /\ ~early) =>
    \A t \in Readers : (pc[t] \in {"first_waits", "later_waits"}) ~> (pc[t] = "reading")

\* Readers that keep overlapping starve a writer for ever; once no reader
\* comes any more, every writer that waits gets in, with the same provisos: a
\* failed try_acquire_read() may have stranded the lock.
WriterGetsInAfterReaders ==
  [](In({"gives_up"}) = {} /\ ~early) /\ <>[](In(Counted) = {}) =>
    \A t \in Writers : (pc[t] = "write_waits") ~> (pc[t] = "writing")
=============================================================================
