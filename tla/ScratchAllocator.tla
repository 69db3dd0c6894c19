---------------------------- MODULE ScratchAllocator ----------------------------
(***************************************************************************)
(* OOBase::ScratchAllocator (src/ScratchAllocator.cpp): first fit in one   *)
(* buffer, with a tag before each block and a doubly linked list of the    *)
(* free blocks, highest address first, whose links are kept in them.       *)
(*                                                                         *)
(* Positions and sizes count units of sizeof(index_t) bytes.  A header     *)
(* exists where a block starts; what is inside a block is its owner's.     *)
(* The allocators over it fall back on another one when it fails.          *)
(***************************************************************************)
EXTENDS Naturals, FiniteSets, FiniteSetsExt, Functions

CONSTANTS
  Units,        \* the size of the buffer
  Skew,         \* the address of m_start, modulo the greatest alignment
  Requests,     \* the sizes asked for
  Alignments,   \* the alignments asked for
  Null

ASSUME ScratchAllocatorAssumption ==
  /\ Units \in Nat /\ Units >= 3
  /\ Skew \in Nat
  /\ Requests \subseteq Nat \ {0}
  /\ Alignments \subseteq Nat \ {0}
  /\ Null \notin 0 .. Units

VARIABLES
  block,    \* the headers, by position
  free,     \* m_free
  live      \* history: what was asked for in each block handed out

vars == <<block, free, live>>

\* The units of a tag, and of the header of a free block.
Tag == 1
Header == 3

FreeBlock(size, up, down) == [size |-> size, used |-> FALSE, prev |-> up, next |-> down]

\* The buffer is one free block.
Untouched == [p \in {0} |-> FreeBlock(Units, Null, Null)]

Init ==
  /\ block = Untouched
  /\ free = 0
  /\ live = <<>>

-----------------------------------------------------------------------------
(* Headers and links.  The operators below map a set of headers and the     *)
(* head of the list, [block, free], to another.                             *)

Memory == [block |-> block, free |-> free]

SetNext(b, p, q) == IF p = Null THEN b ELSE [b EXCEPT ![p].next = q]
SetPrev(b, p, q) == IF p = Null THEN b ELSE [b EXCEPT ![p].prev = q]

With(b, p, h) == [q \in DOMAIN b \cup {p} |-> IF q = p THEN h ELSE b[q]]
Without(b, p) == [q \in DOMAIN b \ {p} |-> b[q]]

AfterBlock(b, p) == p + b[p].size
IsFree(b, p) == p \in DOMAIN b /\ ~b[p].used

\* The i-th block of the free list.
FreeList(m) ==
  LET at[i \in 0 .. Units] ==
        IF i = 0 THEN m.free
        ELSE IF at[i - 1] = Null THEN Null ELSE m.block[at[i - 1]].next
  IN at

\* split_block(): the upper part is the first of the two in the list.
Split(m, p, at) ==
  LET old == m.block[p]
      upper == FreeBlock(old.size - (at - p), old.prev, p)
      lower == FreeBlock(at - p, at, old.next)
  IN [block |-> SetNext(With(With(m.block, p, lower), at, upper), old.prev, at),
      free |-> IF m.free = p THEN at ELSE m.free]

\* The links around p, and m_free, pass it by.
Unlink(m, p) ==
  LET b == m.block[p]
  IN [block |-> SetPrev(SetNext(m.block, b.prev, b.next), b.next, b.prev),
      free |-> IF m.free # p THEN m.free
               ELSE IF b.prev # Null THEN b.prev ELSE b.next]

\* alloc_tag(): the links are the owner's memory from now on.
AllocTag(m, p) ==
  LET u == Unlink(m, p)
  IN [block |-> [u.block EXCEPT ![p] = [@ EXCEPT !.used = TRUE, !.prev = Null, !.next = Null]],
      free |-> u.free]

\* Linked into the list, above the first block that lies below it.
Insert(m, p) ==
  LET list == FreeList(m)
      i == Min({j \in 0 .. Units : list[j] = Null \/ (list[j] < p)})
      up == IF i = 0 THEN Null ELSE list[i - 1]
      b == [m.block EXCEPT ![p] = FreeBlock(@.size, up, list[i])]
  IN [block |-> SetPrev(SetNext(b, up, p), list[i], p),
      free |-> IF up = Null THEN p ELSE m.free]

\* Merged with the free block after it, whose place in the list it takes.
MergeUp(m, p) ==
  LET a == AfterBlock(m.block, p)
      over == m.block[a]
      b == [Without(m.block, a) EXCEPT ![p] = FreeBlock(@.size + over.size, over.prev, over.next)]
  IN [block |-> SetPrev(SetNext(b, over.prev, p), over.next, p),
      free |-> IF m.free = a THEN p ELSE m.free]

\* Merged into the free block before it, if there is one.
MergeDown(m, p) ==
  LET b == m.block[p]
      n == b.next
  IN IF n = Null \/ AfterBlock(m.block, n) # p \/ m.block[n].prev # p THEN m
     ELSE [block |-> SetNext([Without(m.block, p) EXCEPT ![n].size = @ + b.size, ![n].prev = b.prev],
                             b.prev, n),
           free |-> IF m.free = p THEN n ELSE m.free]

FreeTagOneSided(m, p) ==
  IF IsFree(m.block, AfterBlock(m.block, p)) THEN MergeUp(m, p) ELSE Insert(m, p)

FreeTag(m, p) ==
  MergeDown(IF IsFree(m.block, AfterBlock(m.block, p)) THEN MergeUp(m, p) ELSE Insert(m, p), p)

-----------------------------------------------------------------------------
(* allocate()                                                               *)

AlignUp(p, align) == p + ((align - ((p + Skew) % align)) % align)

MinAlloc(n) == IF n + Tag < Header THEN Header ELSE n + Tag

\* Where an allocation in the free block at p starts: there, or far enough
\* behind it for a free block to stay.
AllocStart(p, align) ==
  LET s == AlignUp(p + Tag, align) - Tag
  IN IF s # p /\ s - p < Header THEN AlignUp(p + Header + Tag, align) - Tag ELSE s

AllocEnd(p, n, align) == AllocStart(p, align) + MinAlloc(n)

Fits(m, p, n, align) == AllocEnd(p, n, align) <= AfterBlock(m.block, p)

\* The first block of the list that is large enough, or Null.
FirstFit(m, n, align) ==
  LET list == FreeList(m)
  IN list[Min({i \in 0 .. Units : list[i] = Null \/ Fits(m, list[i], n, align)})]

\* Cuts the allocation out of the free block at p: what is left above it, and
\* then below it, stays free.
CutOut(m, p, n, align) ==
  LET s == AllocStart(p, align)
      e == AllocEnd(p, n, align)
      m1 == IF e + Header <= AfterBlock(m.block, p) THEN Split(m, p, e) ELSE m
      m2 == IF s # p THEN Split(m1, p, s) ELSE m1
  IN AllocTag(m2, s)

Become(m) == block' = m.block /\ free' = m.free

\* If nothing fits, nothing changes.
Allocate(n, align) ==
  LET p == FirstFit(Memory, n, align)
  IN /\ p # Null
     /\ Become(CutOut(Memory, p, n, align))
     /\ live' = With(live, AllocStart(p, align), n)

-----------------------------------------------------------------------------
(* free() and reallocate()                                                  *)

Free(p) ==
  /\ p \in DOMAIN live
  /\ Become(FreeTag(Memory, p))
  /\ live' = Without(live, p)

\* Blocks do not shrink.
KeepsBlock(p, n) == block[p].size >= n + Tag

\* Into the free block after p: at least a header's worth of it, and all of it
\* if less than a header would be left.
GrownEnd(p, n) ==
  LET a == AfterBlock(block, p)
      e == p + MinAlloc(n)
  IN IF e - a < Header THEN a + Header ELSE e

CanGrow(p, n) ==
  LET a == AfterBlock(block, p)
  IN IsFree(block, a) /\ GrownEnd(p, n) <= AfterBlock(block, a)

GrowInPlace(m, p, n) ==
  LET a == AfterBlock(m.block, p)
      e == GrownEnd(p, n)
      m1 == IF e + Header <= AfterBlock(m.block, a) THEN Split(m, a, e) ELSE m
      m2 == Unlink(m1, a)
  IN [block |-> [Without(m2.block, a) EXCEPT ![p].size = @ + m1.block[a].size],
      free |-> m2.free]

ReallocateKeeps(p, n) ==
  /\ p \in DOMAIN live
  /\ KeepsBlock(p, n)
  /\ live' = [live EXCEPT ![p] = n]
  /\ UNCHANGED <<block, free>>

ReallocateGrows(p, n) ==
  /\ p \in DOMAIN live
  /\ ~KeepsBlock(p, n) /\ CanGrow(p, n)
  /\ Become(GrowInPlace(Memory, p, n))
  /\ live' = [live EXCEPT ![p] = n]

\* The old block is freed after the new one has been cut out, if one fits.
ReallocateMoves(p, n, align) ==
  LET q == FirstFit(Memory, n, align)
  IN /\ p \in DOMAIN live
     /\ ~KeepsBlock(p, n) /\ ~CanGrow(p, n)
     /\ q # Null
     /\ Become(FreeTag(CutOut(Memory, q, n, align), p))
     /\ live' = With(Without(live, p), AllocStart(q, align), n)

-----------------------------------------------------------------------------
Next ==
  \/ \E n \in Requests, align \in Alignments :
       Allocate(n, align) \/ \E p \in DOMAIN live : ReallocateMoves(p, n, align)
  \/ \E p \in DOMAIN live :
       Free(p) \/ \E n \in Requests : ReallocateKeeps(p, n) \/ ReallocateGrows(p, n)

Spec == Init /\ [][Next]_vars

-----------------------------------------------------------------------------
(* Properties                                                               *)

Blocks == DOMAIN block
FreeBlocks == {p \in Blocks : ~block[p].used}

\* The blocks lie end to end from the start of the buffer to its end; those
\* in use are the ones handed out, and each has room for what was asked for.
BlocksTile ==
  /\ 0 \in Blocks
  /\ \A p \in Blocks :
       LET e == AfterBlock(block, p)
       IN /\ p + Header <= e
          /\ e \in Blocks \cup {Units}
          /\ \A q \in Blocks : ~(p < q /\ q < e)
  /\ DOMAIN live = Blocks \ FreeBlocks
  /\ \A p \in DOMAIN live : live[p] + Tag <= block[p].size

\* The list holds the free blocks, each linked to the nearest ones above and
\* below it, and no two free blocks touch: else memory could not be used in
\* one piece that is in one piece.
FreeListInOrder ==
  /\ free = IF FreeBlocks = {} THEN Null ELSE Max(FreeBlocks)
  /\ \A p \in FreeBlocks :
       LET above == {q \in FreeBlocks : q > p}
           below == {q \in FreeBlocks : q < p}
       IN /\ block[p].prev = IF above = {} THEN Null ELSE Min(above)
          /\ block[p].next = IF below = {} THEN Null ELSE Max(below)
          /\ AfterBlock(block, p) \notin FreeBlocks

\* What the destructor asserts: once everything has been given back, the
\* buffer is one free block again.
AllComesBack ==
  DOMAIN live = {} => free = 0 /\ block = Untouched
=============================================================================
