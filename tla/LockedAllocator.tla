---------------------------- MODULE LockedAllocator ----------------------------
(***************************************************************************)
(* LockedAllocator (include/OOBase/Mutex.h): a ScratchAllocator in a       *)
(* buffer of the object, under a SpinLock, with another allocator behind   *)
(* it; and StackAllocator (include/OOBase/StackAllocator.h), the same for  *)
(* one thread, without the lock.                                           *)
(***************************************************************************)
EXTENDS Naturals, FiniteSets

CONSTANTS Threads, Blocks, BufferRoom, NULL   \* the buffer has room for BufferRoom blocks

VARIABLES
  locks,     \* a LockedAllocator; else a StackAllocator
  lock,      \* the thread that has m_lock, or NULL
  buffer,    \* blocks that are allocated in the buffer
  behind,    \* and in the allocator behind
  call,      \* [Threads -> the call it is in and its block]
  had        \* history: blocks that the program has been given and has not freed

vars == <<locks, lock, buffer, behind, call, had>>

Idle == [op |-> "none", at |-> "none", block |-> NULL]

Init ==
  /\ locks \in BOOLEAN
  /\ lock = NULL /\ buffer = {} /\ behind = {} /\ had = {}
  /\ call = [t \in Threads |-> Idle]

Goes(t, at) == call' = [call EXCEPT ![t].at = at]
At(t, op, at) == call[t].op = op /\ call[t].at = at

\* A StackAllocator is used by one thread at a time.
MayCall(t) == call[t] = Idle /\ (locks \/ \A u \in Threads : call[u] = Idle)

\* Bound on the blocks in use: each call under way may need one more.
Spare ==
  Cardinality(Blocks) > Cardinality(buffer \cup behind)
                          + Cardinality({t \in Threads : call[t].op \in {"allocate", "reallocate"}})

\* The program frees a block once, and reallocates those it has.
Starts(t, op, b) ==
  /\ MayCall(t) /\ (op # "free" => Spare)
  /\ call' = [call EXCEPT ![t] = [op |-> op, at |-> IF locks THEN "locks" ELSE "buffer", block |-> b]]
  /\ had' = had \ {b}
  /\ UNCHANGED <<locks, lock, buffer, behind>>

Locks(t) == call[t].at = "locks" /\ lock = NULL /\ lock' = t /\ Goes(t, "buffer") /\ UNCHANGED <<locks, buffer, behind, had>>

\* A call ends with the block b that the program has then; NULL is none.
Ends(t, b) == call' = [call EXCEPT ![t] = Idle] /\ had' = had \cup ({b} \ {NULL})
Unlocks(t) == lock' = IF lock = t THEN NULL ELSE lock

NewBlock == CHOOSE b \in Blocks : b \notin buffer \cup behind

\* In the buffer; where there is no room the guard is released and the allocator
\* behind is asked.
AllocateInBuffer(t) ==
  /\ At(t, "allocate", "buffer") /\ Cardinality(buffer) < BufferRoom
  /\ buffer' = buffer \cup {NewBlock} /\ Unlocks(t) /\ Ends(t, NewBlock)
  /\ UNCHANGED <<locks, behind>>

NoRoom(t) ==
  /\ At(t, "allocate", "buffer") /\ Cardinality(buffer) = BufferRoom
  /\ Unlocks(t) /\ Goes(t, "behind") /\ UNCHANGED <<locks, buffer, behind, had>>

AllocateBehind(t) ==
  /\ At(t, "allocate", "behind")
  /\ \/ behind' = behind \cup {NewBlock} /\ Ends(t, NewBlock)
     \/ Ends(t, NULL) /\ UNCHANGED behind
  /\ UNCHANGED <<locks, lock, buffer>>

\* free() and reallocate(): is_our_ptr() tells which of the two has the block.
\* A reallocation in the buffer that fails does not try behind.
NotOurs(t) ==
  /\ call[t].op \in {"free", "reallocate"} /\ call[t].at = "buffer" /\ call[t].block \notin buffer
  /\ Unlocks(t) /\ Goes(t, "behind") /\ UNCHANGED <<locks, buffer, behind, had>>

Has(t, at) == IF at = "buffer" THEN buffer ELSE behind
Sets(at, s) == IF at = "buffer" THEN buffer' = s /\ UNCHANGED behind ELSE behind' = s /\ UNCHANGED buffer
Reaches(t, op, at) == At(t, op, at) /\ (at = "buffer" => call[t].block \in buffer)

Free(t, at) == Reaches(t, "free", at) /\ Sets(at, Has(t, at) \ {call[t].block}) /\ Unlocks(t) /\ Ends(t, NULL) /\ UNCHANGED locks

Reallocate(t, at) ==
  /\ Reaches(t, "reallocate", at)
  /\ \/ Sets(at, (Has(t, at) \ {call[t].block}) \cup {NewBlock}) /\ Ends(t, NewBlock)
     \/ Ends(t, call[t].block) /\ UNCHANGED <<buffer, behind>>
  /\ Unlocks(t) /\ UNCHANGED locks

Next ==
  \E t \in Threads :
    \/ Starts(t, "allocate", NULL)
    \/ \E b \in had, op \in {"free", "reallocate"} : Starts(t, op, b)
    \/ Locks(t) \/ AllocateInBuffer(t) \/ NoRoom(t) \/ AllocateBehind(t) \/ NotOurs(t)
    \/ \E at \in {"buffer", "behind"} : Free(t, at) \/ Reallocate(t, at)

-----------------------------------------------------------------------------
\* One thread at a time is inside the buffer's allocator and none leaves with
\* the lock; every block is in one of the two allocators and belongs to the
\* program or to one call, so that it goes back to where it came from.
BlocksHaveOneHome ==
  LET calling == {t \in Threads : call[t].block # NULL}
  IN  /\ Cardinality({t \in Threads : call[t].at = "buffer"}) <= 1
      /\ lock # NULL => call[lock].at = "buffer"
      /\ buffer \cap behind = {} /\ Cardinality(buffer) <= BufferRoom
      /\ buffer \cup behind = had \cup {call[t].block : t \in calling}
      /\ Cardinality(buffer \cup behind) = Cardinality(had) + Cardinality(calling)
=============================================================================
