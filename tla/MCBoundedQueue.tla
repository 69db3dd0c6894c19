---------------------------- MODULE MCBoundedQueue ----------------------------
(***************************************************************************)
(* Small instances for TLC of BoundedQueue, and of what threads share      *)
(* beside it: Queue (the ring the BoundedQueue keeps its values in),       *)
(* Guards, LockedAllocator, Logger, Atomic and TLS.  The threads use one   *)
(* of them, chosen at the start.                                           *)
(***************************************************************************)
EXTENDS BoundedQueue, TLC

CONSTANTS
  Items, Raw, RingCapacity, MaxCapacity,         \* Queue
  Users, NULL,                                   \* threads of the others
  MaxScopes,                                     \* Guards
  Blocks, BufferRoom,                            \* LockedAllocator
  Outputs, MaxDepth,                             \* Logger
  Words,                                          \* Atomic
  Keys, Vals, MaxBlocks, Rounds                  \* TLS

ASSUME RingAssumption == RingCapacity \in Nat /\ RingCapacity >= 2 /\ Raw \notin Items
ASSUME UsersAssumption == NULL \notin Users
ASSUME AllocatorsAssumption == IsFiniteSet(Users) /\ IsFiniteSet(Blocks) /\ NULL \notin Blocks \cup Users /\ BufferRoom \in Nat

VARIABLES
  used,          \* "queue", "ring", "guards", "allocator", "logger", "atomic" or "tls"
  pod, ring, torn,
  rw, writer, depth, reads, guards, twice,
  locks, lock, buffer, behind, call, had,
  owner, logDepth, outputs, loop,
  build, cell, op, atomicPc, oldVal, newVal, ret, apart,
  global, slot, phase, dying, ended, owed, fault

Ring == INSTANCE Queue WITH Values <- Items, FirstCapacity <- RingCapacity
G == INSTANCE Guards WITH Threads <- Users
M == INSTANCE LockedAllocator WITH Threads <- Users
L == INSTANCE Logger WITH Threads <- Users, depth <- logDepth
A == INSTANCE Atomic WITH Threads <- Users, val <- cell, pc <- atomicPc
TL == INSTANCE TLS

\* A thread has a TLSGlobal or none, and its destructor is called at least once.
ASSUME TLSAssumption == Rounds \in Nat \ {0} /\ NULL \notin Nat \cup TL!TLSGlobal

ringVars == <<pod, ring, torn>>
guardVars == <<rw, writer, depth, reads, guards, twice>>
allocatorVars == <<locks, lock, buffer, behind, call, had>>
loggerVars == <<owner, logDepth, outputs, loop>>
atomicVars == <<build, cell, op, atomicPc, oldVal, newVal, ret, apart>>
tlsVars == <<global, slot, phase, dying, ended, owed, fault>>

Symmetric == Permutations(Threads) \cup Permutations(Values)

\* What is not used is in one of its initial states.
MCInit ==
  /\ used \in {"queue", "ring", "guards", "allocator", "logger", "atomic", "tls"}
  /\ Init /\ L!Init /\ TL!Init
  /\ Ring!Init /\ (used # "ring" => ~pod)
  /\ G!Init /\ (used # "guards" => ~rw)
  /\ M!Init /\ (used # "allocator" => ~locks)
  /\ A!Init /\ (used # "atomic" => build = "sync")

MCNext ==
  \/ /\ used = "queue" /\ Next
     /\ UNCHANGED <<used, ringVars, guardVars, allocatorVars, loggerVars, atomicVars, tlsVars>>
  \/ /\ used = "ring" /\ Ring!Next
     /\ UNCHANGED <<used, vars, guardVars, allocatorVars, loggerVars, atomicVars, tlsVars>>
  \/ /\ used = "guards" /\ G!Next
     /\ UNCHANGED <<used, vars, ringVars, allocatorVars, loggerVars, atomicVars, tlsVars>>
  \/ /\ used = "allocator" /\ M!Next
     /\ UNCHANGED <<used, vars, ringVars, guardVars, loggerVars, atomicVars, tlsVars>>
  \/ /\ used = "logger" /\ L!Next
     /\ UNCHANGED <<used, vars, ringVars, guardVars, allocatorVars, atomicVars, tlsVars>>
  \/ /\ used = "atomic" /\ A!Next
     /\ UNCHANGED <<used, vars, ringVars, guardVars, allocatorVars, loggerVars, tlsVars>>
  \/ /\ used = "tls" /\ TL!Next
     /\ UNCHANGED <<used, vars, ringVars, guardVars, allocatorVars, loggerVars, atomicVars>>

MCSpec ==
  /\ MCInit
  /\ [][MCNext]_<<used, vars, ringVars, guardVars, allocatorVars, loggerVars, atomicVars, tlsVars>>

\* Queue: however the ring wraps and grows, a step appends one value, takes
\* the first, or empties the queue.
RingActsAsFifo == Ring!ActsAsFifo

\* Guard, ReadGuard and LockedAllocator: a thread has a lock exactly as often
\* as its guards say, and every block goes back to the allocator it is from.
LocksAreKept ==
  /\ used = "guards" => G!GuardsKeepTheLock
  /\ used = "allocator" => M!BlocksHaveOneHome

\* Logger: a message reaches all outputs that are there throughout, once.
EveryOutputHears == used = "logger" => L!EveryOutputHears

\* Atomic: an operation acts at one instant, whatever the build offers, but for
\* the swap of an add() whose two reads of the word have found different values.
AtomicActsAtOneInstant == A!ActsAtOneInstant

\* TLS: every value's destructor is called once, and none too early.
EndsValuesOnce == used = "tls" => TL!EndsValuesOnce
=============================================================================
