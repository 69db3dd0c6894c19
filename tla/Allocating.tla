------------------------------ MODULE Allocating ------------------------------
(***************************************************************************)
(* AllocatorInstance and the classes that use one (include/OOBase/         *)
(* Memory.h): containers derived from Allocating<AllocatorInstance>, which *)
(* hold one block for their items, and objects that allocate_new() makes   *)
(* and delete_free() or delete_this() ends.  A static allocator, such as   *)
(* CrtAllocator, is the same for all that use it.                          *)
(***************************************************************************)
EXTENDS FiniteSets

CONSTANTS
  Allocators,
  Static,      \* CrtAllocator or another static one
  Containers,
  Objects,
  Blocks,      \* of memory, enough for all of them and a temporary
  NULL

VARIABLES
  allocator,   \* [container or object -> its m_allocator]; NULL where there is none
  holds,       \* [container or object -> its block, or NULL]
  home,        \* [block in use -> the allocator it came from]
  astray,      \* history: a block was given to an allocator it did not come from
  mixed        \* history: a container was assigned to or swapped with one of another allocator

vars == <<allocator, holds, home, astray, mixed>>

Owners == Containers \cup Objects

Init ==
  /\ allocator = [o \in Owners |-> NULL] /\ holds = [o \in Owners |-> NULL]
  /\ home = [b \in {} |-> NULL] /\ astray = FALSE /\ mixed = FALSE

Spare == CHOOSE b \in Blocks : b \notin DOMAIN home

\* allocate() of a, which may fail.
Allocates(h, a) ==
  {[home |-> h, block |-> NULL],
   [home |-> [b \in DOMAIN h \cup {Spare} |-> IF b = Spare THEN a ELSE h[b]], block |-> Spare]}

\* free() through a; NULL is nothing.
Frees(h, b, a) ==
  /\ home' = [c \in DOMAIN h \ {b} |-> h[c]]
  /\ astray' = (astray \/ (b # NULL /\ (b \notin DOMAIN h \/ h[b] # a)))

Construct(c, a) ==
  /\ allocator[c] = NULL
  /\ allocator' = [allocator EXCEPT ![c] = a]
  /\ UNCHANGED <<holds, home, astray, mixed>>

\* A container's first allocation, or a reallocation that leaves it its block.
Reserve(c) ==
  /\ allocator[c] # NULL /\ holds[c] = NULL
  /\ \E m \in Allocates(home, allocator[c]) : home' = m.home /\ holds' = [holds EXCEPT ![c] = m.block]
  /\ UNCHANGED <<allocator, astray, mixed>>

\* A copy has the allocator of the original and a block of its own.
Copies(d) == IF holds[d] = NULL THEN {[home |-> home, block |-> NULL]} ELSE Allocates(home, allocator[d])

\* Mutant: the copy holds the original's block.
ConstructCopyShared(c, d) ==
  /\ allocator[c] = NULL /\ allocator[d] # NULL
  /\ holds' = [holds EXCEPT ![c] = holds[d]]
  /\ allocator' = [allocator EXCEPT ![c] = allocator[d]]
  /\ UNCHANGED <<home, astray, mixed>>

ConstructCopy(c, d) ==
  /\ allocator[c] = NULL /\ allocator[d] # NULL
  /\ \E m \in Copies(d) : home' = m.home /\ holds' = [holds EXCEPT ![c] = m.block]
  /\ allocator' = [allocator EXCEPT ![c] = allocator[d]]
  /\ UNCHANGED <<astray, mixed>>

\* swap() exchanges the blocks.  m_allocator is a reference: what is assigned are
\* the AllocatorInstance parts of the two allocators, which are empty, and each
\* container still refers to its own.
Swap(c, d) ==
  /\ allocator[c] # NULL /\ allocator[d] # NULL
  /\ holds' = [holds EXCEPT ![c] = holds[d], ![d] = holds[c]]
  /\ mixed' = (mixed \/ allocator[c] # allocator[d])
  /\ UNCHANGED <<allocator, home, astray>>

\* operator = : a copy is swapped with this container and destroyed.
AssignCopy(c, d) ==
  /\ allocator[c] # NULL /\ allocator[d] # NULL
  /\ \E m \in Copies(d) : Frees(m.home, holds[c], allocator[d]) /\ holds' = [holds EXCEPT ![c] = m.block]
  /\ mixed' = (mixed \/ allocator[c] # allocator[d])
  /\ UNCHANGED allocator

Destroy(c) ==
  /\ allocator[c] # NULL
  /\ Frees(home, holds[c], allocator[c])
  /\ allocator' = [allocator EXCEPT ![c] = NULL] /\ holds' = [holds EXCEPT ![c] = NULL]
  /\ UNCHANGED mixed

\* allocate_new(): nothing is constructed where there is no memory.
AllocateNew(o, a) ==
  /\ holds[o] = NULL
  /\ \E m \in Allocates(home, a) :
       /\ home' = m.home /\ holds' = [holds EXCEPT ![o] = m.block]
       /\ allocator' = [allocator EXCEPT ![o] = IF m.block = NULL THEN NULL ELSE a]
  /\ UNCHANGED <<astray, mixed>>

AllocateNewStatic(o) == AllocateNew(o, Static)

\* delete_free(), and delete_this(), which takes the allocator from the object
\* before it destroys it.
DeleteThis(o) ==
  /\ holds[o] # NULL
  /\ Frees(home, holds[o], allocator[o])
  /\ allocator' = [allocator EXCEPT ![o] = NULL] /\ holds' = [holds EXCEPT ![o] = NULL]
  /\ UNCHANGED mixed

Next ==
  \/ \E c \in Containers :
       \/ \E a \in Allocators : Construct(c, a)
       \/ Reserve(c) \/ Destroy(c)
       \/ \E d \in Containers \ {c} : ConstructCopy(c, d) \/ Swap(c, d) \/ AssignCopy(c, d)
  \/ \E o \in Objects : (\E a \in Allocators : AllocateNew(o, a)) \/ AllocateNewStatic(o) \/ DeleteThis(o)

-----------------------------------------------------------------------------
\* Each block in use has one owner, and goes back to the allocator it came
\* from, as long as only containers of the same allocator are swapped or
\* assigned to one another.
BlocksGoHome ==
  /\ {holds[o] : o \in Owners} \ {NULL} = DOMAIN home
  /\ \A o, q \in Owners : o # q /\ holds[o] # NULL => holds[o] # holds[q]
  /\ ~mixed => ~astray /\ \A o \in Owners : holds[o] # NULL => home[holds[o]] = allocator[o]
=============================================================================
