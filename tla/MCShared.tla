-------------------------------- MODULE MCShared --------------------------------
(***************************************************************************)
(* Small instances for TLC of who owns memory: SharedCount, SmartPtrs,     *)
(* Allocating, Strings, Singleton, and Mspace, where the memory comes      *)
(* from.  The program uses one of them, chosen at the start.               *)
(***************************************************************************)
EXTENDS SharedCount, Sequences, TLC

CONSTANTS
  NULL, Objects,
  Shared, Weak, Unique,                           \* SmartPtrs
  Allocators, Static, Containers, Items, Blocks,  \* Allocating
  Strings, MaxText, Inside,                       \* Strings
  Threads, inner, outer,                          \* Singleton
  Requests, Alignments, MaxBlocks, MinLarge, StateSize, Granularity, MmapThreshold,
  TrimThreshold, ReleaseRate, RemapsAligned, Slots  \* Mspace

\* A pointer is the program's own or a member of an object, not both.
ASSUME PointersAssumption ==
  /\ IsFiniteSet(Objects) /\ IsFiniteSet(Shared) /\ IsFiniteSet(Weak)
  /\ Objects \cap (Shared \cup Weak \cup Unique) = {} /\ NULL \notin Objects \cup Unique

\* The states of Once are other than the thread that is in it.
ASSUME SingletonAssumption == NULL \notin {inner, outer} /\ Threads \cap {"new", "done"} = {}

\* There is a spare block while every owner holds one.
ASSUME AllocatingAssumption ==
  /\ IsFiniteSet(Containers \cup Items) /\ IsFiniteSet(Blocks) /\ Cardinality(Containers \cup Items) < Cardinality(Blocks)
  /\ NULL \notin Blocks \cup Allocators \cup {Static}

VARIABLES
  used,    \* "count", "shared", "unique", "allocating", "strings", "singleton" or "mspace"
  pointers,
  owns, loose, freed,
  allocator, holds, home, astray, mixed,
  node, ptr, expected,
  once, built, instance, stack, calls, exit,
  heap, blocks

\* Texts to assign and to append, and what the singletons' constructors ask for.
Given == {<<1>>, <<2, 1, 2>>}
Pieces == {<<2>>}
Uses == [s \in {inner, outer} |-> IF s = outer THEN inner ELSE NULL]

P == INSTANCE SmartPtrs WITH heap <- pointers
AL == INSTANCE Allocating WITH Objects <- Items
ST == INSTANCE Strings
SN == INSTANCE Singleton WITH Singletons <- {inner, outer}, object <- built
M == INSTANCE Mspace

\* A String has a node or none.
ASSUME StringsAssumption == IsFiniteSet(Strings) /\ Inside \in Nat /\ NULL \notin Nat \cup ST!ScopedStringImpl

uniqueVars == <<owns, loose, freed>>
allocatingVars == <<allocator, holds, home, astray, mixed>>
stringVars == <<node, ptr, expected>>
singletonVars == <<once, built, instance, stack, calls, exit>>
mspaceVars == <<heap, blocks>>

\* What is not used is in one of its initial states.
MCInit ==
  /\ used \in {"count", "shared", "unique", "allocating", "strings", "singleton", "mspace"}
  /\ Init /\ (used # "count" => promoteAlone)
  /\ P!SharedInit /\ P!UniqueInit /\ AL!Init /\ ST!Init /\ SN!Init
  /\ M!Init /\ (used # "mspace" => heap = M!Created(0))

MCNext ==
  \/ /\ used = "count" /\ Next
     /\ UNCHANGED <<used, pointers, uniqueVars, allocatingVars, stringVars, singletonVars, mspaceVars>>
  \/ /\ used = "shared" /\ P!SharedNext
     /\ UNCHANGED <<used, vars, uniqueVars, allocatingVars, stringVars, singletonVars, mspaceVars>>
  \/ /\ used = "unique" /\ P!UniqueNext
     /\ UNCHANGED <<used, vars, pointers, allocatingVars, stringVars, singletonVars, mspaceVars>>
  \/ /\ used = "allocating" /\ AL!Next
     /\ UNCHANGED <<used, vars, pointers, uniqueVars, stringVars, singletonVars, mspaceVars>>
  \/ /\ used = "strings" /\ ST!Next
     /\ UNCHANGED <<used, vars, pointers, uniqueVars, allocatingVars, singletonVars, mspaceVars>>
  \/ /\ used = "singleton" /\ SN!Next
     /\ UNCHANGED <<used, vars, pointers, uniqueVars, allocatingVars, stringVars, mspaceVars>>
  \/ /\ used = "mspace" /\ M!Next
     /\ UNCHANGED <<used, vars, pointers, uniqueVars, allocatingVars, stringVars, singletonVars>>

MCSpec ==
  /\ MCInit
  /\ [][MCNext]_<<used, vars, pointers, uniqueVars, allocatingVars, stringVars, singletonVars, mspaceVars>>
  /\ Fairness

\* SharedPtr, WeakPtr, UniquePtr and Allocating: what has an owner lives, what
\* has none is freed, once, and by the allocator that it came from.
OwnersHold ==
  /\ used = "shared" => P!PointersHold
  /\ used = "unique" => P!OwnedOnce
  /\ used = "allocating" => AL!BlocksGoHome

\* String: each has the text it was given, whatever happens to its copies.
TextsAsGiven == used = "strings" => ST!TextsAsGiven

\* Singleton: what instance_ptr() gives is constructed and not destroyed.
InstanceIsAlive == used = "singleton" => SN!InstanceIsAlive

\* ArenaAllocator: blocks do not overlap and are as large and aligned as asked,
\* free memory is in one bin, and none is lost.
HeapInOrder == used = "mspace" => M!HeapInOrder
=============================================================================
