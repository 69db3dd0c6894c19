------------------------------ MODULE Mspace ------------------------------
(***************************************************************************)
(* ArenaAllocator (src/ArenaAllocator.cpp): one mspace of dl_malloc.c, as  *)
(* that file builds it, with FOOTERS and without USE_LOCKS, so that a      *)
(* space is used by one thread at a time.                                  *)
(*                                                                         *)
(* Addresses and sizes are in units of MALLOC_ALIGNMENT (16 bytes).  A     *)
(* fencepost and what follows it is one chunk in use; a treebin is the set *)
(* of its chunks; a page is as large as the granularity.                   *)
(***************************************************************************)
EXTENDS Integers, Sequences, FiniteSets, SequencesExt, TLC

CONSTANTS
  Requests,          \* chunk sizes asked for: what pad_request() makes of the bytes
  Alignments,        \* of the aligned requests, above MALLOC_ALIGNMENT
  MaxBlocks,         \* bound on the blocks in use
  MinLarge,          \* MIN_LARGE_SIZE: smaller chunks are kept in smallbins
  StateSize,         \* of malloc_state
  Granularity, MmapThreshold, TrimThreshold, ReleaseRate,
  RemapsAligned,     \* the program also grows blocks that were aligned in memory of their own
  Slots              \* bound: the address space has Slots * Granularity units

VARIABLES
  heap,     \* the malloc_state, the headers in its memory, the pages it has
  blocks    \* [chunk -> size asked for] of the blocks that the program has

vars == <<heap, blocks>>

MinChunk == 2
SegRecord == 3                    \* a chunk for a malloc_segment
TopFoot == SegRecord + MinChunk
FootPad == 2                      \* MMAP_FOOT_PAD
MapPad == 4                       \* SIX_SIZE_T_SIZES + CHUNK_ALIGN_MASK
Never == Slots * Granularity + 1  \* MAX_SIZE_T
Own == -1                         \* a footer that names this mspace
NoChunk == -1

Align(n) == ((n + Granularity - 1) \div Granularity) * Granularity
Pages(base, size) == (base \div Granularity)..((base + size) \div Granularity - 1)
IsSmall(s) == s < MinLarge

-----------------------------------------------------------------------------
(* The headers: prev_foot and head of a chunk.  Writing the header of a    *)
(* chunk makes data of the headers inside it.                              *)
Word(h, a) == IF a \in DOMAIN h.head THEN h.head[a] ELSE [size |-> 0, pin |-> FALSE, cin |-> FALSE, foot |-> 0]

Put(h, a, w) ==
  [h EXCEPT !.head = [b \in {x \in DOMAIN @ : x <= a \/ x >= a + w.size} \cup {a} |-> IF b = a THEN w ELSE @[b]]]

Foot(h, a, foot) == Put(h, a, [Word(h, a) EXCEPT !.foot = foot])
Size(h, p) == h.head[p].size
IsInuse(w) == w.cin \/ ~w.pin
IsMmapped(w) == ~w.cin /\ ~w.pin

\* set_size_and_pinuse_of_inuse_chunk()
SetInuseChunk(h, p, s) ==
  Foot(Put(h, p, [Word(h, p) EXCEPT !.size = s, !.pin = TRUE, !.cin = TRUE]), p + s, Own)

\* set_inuse(); set_inuse_and_pinuse() sets the pinuse bit of the chunk too.
SetInuse(h, p, s) ==
  LET g == Put(h, p, [Word(h, p) EXCEPT !.size = s, !.cin = TRUE])
  IN  Put(g, p + s, [Word(g, p + s) EXCEPT !.pin = TRUE, !.foot = Own])
SetInuseAndPinuse(h, p, s) == SetInuse(Put(h, p, [Word(h, p) EXCEPT !.pin = TRUE]), p, s)

\* set_size_and_pinuse_of_free_chunk() and set_free_with_pinuse()
SetFreeChunk(h, p, s) ==
  Foot(Put(h, p, [Word(h, p) EXCEPT !.size = s, !.pin = TRUE, !.cin = FALSE]), p + s, s)

\* Mutant: the next chunk is not told.
SetFreeUnseen(h, p, s, n) == SetFreeChunk(h, p, s)

SetFree(h, p, s, n) == SetFreeChunk(Put(h, n, [Word(h, n) EXCEPT !.pin = FALSE]), p, s)

-----------------------------------------------------------------------------
(* The bins.  A smallbin gives the chunk that it was given last.           *)
InsertChunk(h, p, s) ==
  IF IsSmall(s) THEN [h EXCEPT !.small[s] = <<p>> \o @] ELSE [h EXCEPT !.tree = @ \cup {p}]
UnlinkChunk(h, p, s) ==
  IF IsSmall(s) THEN [h EXCEPT !.small[s] = SelectSeq(@, LAMBDA q : q # p)] ELSE [h EXCEPT !.tree = @ \ {p}]

SetDv(h, p, s) == [h EXCEPT !.dv = p, !.dvsize = s]
NoDv(h) == SetDv(h, NoChunk, 0)
ReplaceDv(h, p, s) == SetDv(IF h.dvsize # 0 THEN InsertChunk(h, h.dv, h.dvsize) ELSE h, p, s)

InitTop(h, p, s) ==
  LET g == Put(h, p, [Word(h, p) EXCEPT !.size = s, !.pin = TRUE, !.cin = FALSE])
  IN  [Put(g, p + s, [Word(g, p + s) EXCEPT !.size = TopFoot, !.pin = FALSE, !.cin = FALSE])
        EXCEPT !.top = p, !.topsize = s, !.trim = TrimThreshold]

\* The top chunk moves to p, to have s units.
SetTop(h, p, s) == [Put(h, p, [Word(h, p) EXCEPT !.size = s, !.pin = TRUE, !.cin = FALSE]) EXCEPT !.top = p, !.topsize = s]

Got(h, p) == [heap |-> h, p |-> p]

-----------------------------------------------------------------------------
(* Memory from the system: mmap() gives any pages that are free, or fails. *)
Rooms(h, size) ==
  {k * Granularity : k \in {k \in 0..(Slots - size \div Granularity) : Pages(k * Granularity, size) \cap h.pages = {}}}

Maps(h, base, size) == [h EXCEPT !.pages = @ \cup Pages(base, size), !.footprint = @ + size]

Unmaps(h, base, size) ==
  [h EXCEPT !.pages = @ \ Pages(base, size), !.footprint = @ - size,
            !.head = [a \in {x \in DOMAIN @ : x < base \/ x >= base + size} |-> @[a]]]

\* A chunk mapped by itself at mm + offset: neither bit is set, prev_foot is
\* the offset, and a fencepost follows.
MapChunk(h, mm, offset, size) ==
  LET p == mm + offset
      s == size - offset - FootPad
      g == Put(h, p, [size |-> s, pin |-> FALSE, cin |-> FALSE, foot |-> offset])
  IN  Got(Put(g, p + s, [size |-> FootPad, pin |-> TRUE, cin |-> TRUE, foot |-> Own]), p)

MmapAlloc(h, nb) ==
  LET size == Align(nb + MapPad) IN {MapChunk(Maps(h, mm, size), mm, 0, size) : mm \in Rooms(h, size)}

FromTop(h, nb) == Got(SetInuseChunk(SetTop(h, h.top + nb, h.topsize - nb), h.top, nb), h.top)

\* The new memory ends where the segment of oldbase began.
PrependAlloc(h, newbase, oldbase, nb) ==
  LET q == newbase + nb
      size == oldbase - q
      g == SetInuseChunk(h, newbase, nb)
      first == Word(h, oldbase)
      free == ~IsInuse(first)
      rest == IF free THEN oldbase + first.size ELSE oldbase
      u == IF free THEN UnlinkChunk(g, oldbase, first.size) ELSE g
  IN  Got(IF oldbase = h.top THEN SetTop(g, q, h.topsize + size)
          ELSE IF oldbase = h.dv THEN SetDv(SetFreeChunk(g, q, h.dvsize + size), q, h.dvsize + size)
          ELSE InsertChunk(SetFree(u, q, rest - q, rest), q, rest - q), newbase)

\* A segment of its own: its record goes into m->seg, and the one that was
\* there to the end of the old top chunk, before the fenceposts.
AddSegment(h, base, size) ==
  LET end == h.segs[1].base + h.segs[1].size
      csp == IF end - TopFoot < h.top + MinChunk THEN h.top ELSE end - TopFoot
      fence == csp + SegRecord
      g == SetInuseChunk(InitTop(h, base, size - TopFoot), csp, SegRecord)
      f == Put(g, fence, [size |-> end - fence, pin |-> TRUE, cin |-> TRUE, foot |-> Own])
      s == [f EXCEPT !.segs = <<[base |-> base, size |-> size]>> \o @]
  IN  IF csp = h.top THEN s ELSE InsertChunk(SetFree(s, h.top, csp - h.top, csp), h.top, csp - h.top)

\* m->seg is the segment of the top chunk.
AddMemory(h, base, size, nb) ==
  LET g == Maps(h, base, size)
      after == {i \in DOMAIN h.segs : h.segs[i].base = base + size}
  IN  IF base = h.segs[1].base + h.segs[1].size
      THEN FromTop(InitTop([g EXCEPT !.segs[1].size = @ + size], h.top, h.topsize + size), nb)
      ELSE IF after # {}
      THEN LET i == CHOOSE j \in after : TRUE
           IN  PrependAlloc([g EXCEPT !.segs[i] = [base |-> base, size |-> @.size + size]], base, base + size, nb)
      ELSE FromTop(AddSegment(g, base, size), nb)

SysAlloc(h, nb) ==
  LET size == Align(nb + TopFoot + 1)
  IN  {Got(h, NoChunk)} \cup {AddMemory(h, base, size, nb) : base \in Rooms(h, size)}
        \cup (IF nb >= MmapThreshold THEN MmapAlloc(h, nb) ELSE {})

-----------------------------------------------------------------------------
(* mspace_malloc(): the states it may leave and the chunk it returns.      *)
SmallestOf(h, chunks) == CHOOSE p \in chunks : \A q \in chunks : Size(h, p) <= Size(h, q)

\* The chunk p of s units is given for a request of nb; what is left over goes
\* to Rest, unless it is too small to be a chunk.
Splits(h, p, s, nb, Rest(_, _, _)) ==
  Got(IF s - nb < MinChunk THEN SetInuseAndPinuse(h, p, s)
      ELSE Rest(SetFreeChunk(SetInuseChunk(h, p, nb), p + nb, s - nb), p + nb, s - nb), p)

FromBin(h, p, nb, Rest(_, _, _)) == Splits(UnlinkChunk(h, p, Size(h, p)), p, Size(h, p), nb, Rest)

FromDv(h, nb) == Splits(NoDv(h), h.dv, h.dvsize, nb, SetDv)

Malloc(h, nb) ==
  LET larger == {s \in (nb + 1)..(MinLarge - 1) : h.small[s] # <<>>}
      fitting == {p \in h.tree : Size(h, p) >= nb}
      best == SmallestOf(h, fitting)
  IN  CASE IsSmall(nb) /\ h.small[nb] # <<>> -> {FromBin(h, Head(h.small[nb]), nb, InsertChunk)}
        [] IsSmall(nb) /\ h.small[nb] = <<>> /\ nb > h.dvsize /\ larger # {} ->
             {FromBin(h, Head(h.small[CHOOSE s \in larger : \A r \in larger : s <= r]), nb, ReplaceDv)}
        [] IsSmall(nb) /\ h.small[nb] = <<>> /\ nb > h.dvsize /\ larger = {} /\ h.tree # {} ->
             {FromBin(h, best, nb, ReplaceDv)}
        [] ~IsSmall(nb) /\ fitting # {} /\ (nb > h.dvsize \/ Size(h, best) < h.dvsize) ->
             {FromBin(h, best, nb, InsertChunk)}
        [] OTHER -> IF nb <= h.dvsize THEN {FromDv(h, nb)}
                    ELSE IF nb < h.topsize THEN {FromTop(h, nb)} ELSE SysAlloc(h, nb)

-----------------------------------------------------------------------------
(* Giving memory back: dispose_chunk() and the common part of              *)
(* mspace_free(), for a chunk of this space in use.                        *)
Dispose(h, chunk) ==
  LET w == h.head[chunk]
      back == ~w.pin
      p == IF back THEN chunk - w.foot ELSE chunk
      next == chunk + w.size
      n == h.head[next]
      size == next - p
      merged == size + n.size
      g == IF back /\ p # h.dv THEN UnlinkChunk(h, p, w.foot) ELSE h
      u == UnlinkChunk(g, next, n.size)
  IN  CASE back /\ p = h.dv /\ n.pin /\ n.cin -> SetDv(SetFree(g, p, size, next), p, size)
        [] n.cin /\ ~(back /\ p = h.dv /\ n.pin) -> InsertChunk(SetFree(g, p, size, next), p, size)
        [] ~n.cin /\ next = h.top ->
             IF p = h.dv THEN NoDv(SetTop(g, p, h.topsize + size)) ELSE SetTop(g, p, h.topsize + size)
        [] ~n.cin /\ next = h.dv -> SetDv(SetFreeChunk(g, p, h.dvsize + size), p, h.dvsize + size)
        [] ~n.cin /\ next # h.top /\ next # h.dv ->
             IF p = h.dv THEN SetDv(SetFreeChunk(u, p, merged), p, merged)
             ELSE InsertChunk(SetFreeChunk(u, p, merged), p, merged)

\* release_unused_segments(): munmap() gives back those of the segments whose
\* first chunk is free and holds all of them; where it fails the chunk goes
\* into a treebin.
Unused(h, seg) ==
  LET w == h.head[seg.base] IN ~IsInuse(w) /\ w.size >= seg.size - TopFoot

ReleaseUnused(h) ==
  LET unused == {i \in DOMAIN h.segs : i > 1 /\ Unused(h, h.segs[i])}
      first == {h.segs[i].base : i \in unused}
      Gone(S) == {h.segs[i] : i \in S}
      Without(S) == FoldSet(LAMBDA seg, g : Unmaps(g, seg.base, seg.size), h, Gone(S))
  IN  {LET g == Without(S)
       IN  [(IF h.dv \in first THEN NoDv(g) ELSE g) EXCEPT
              !.segs = SelectSeq(@, LAMBDA seg : seg \notin Gone(S)),
              !.tree = (@ \cup first) \ {seg.base : seg \in Gone(S)},
              !.checks = ReleaseRate] : S \in SUBSET unused}

\* sys_trim(): whole pages at the end of the top chunk, unless its segment
\* holds the malloc_state; mremap() and munmap() may fail.
SysTrim(h) ==
  LET extra == ((h.topsize - TopFoot + Granularity - 1) \div Granularity - 1) * Granularity
      seg == h.segs[1]
      may == h.topsize > TopFoot /\ extra > 0 /\ seg.size >= extra /\ h.state # seg.base
      end == seg.base + seg.size
      less == InitTop([Unmaps(h, end - extra, extra) EXCEPT !.segs[1].size = @ - extra], h.top, h.topsize - extra)
      Tried(g) == {IF r.footprint = h.footprint /\ r.topsize > r.trim THEN [r EXCEPT !.trim = Never] ELSE r
                     : r \in ReleaseUnused(g)}
  IN  Tried(h) \cup (IF may THEN Tried(less) ELSE {})

\* mspace_free(), with the checks for memory that can go back to the system.
Free(h, p) ==
  LET w == h.head[p]
      size == w.foot + w.size + FootPad
      g == Dispose(h, p)
      binned == {q \in g.tree : q \notin h.tree \/ Size(g, q) # Size(h, q)}
      fewer == [g EXCEPT !.checks = @ - 1]
  IN  IF IsMmapped(w) THEN {Unmaps(h, p - w.foot, size), h}
      ELSE IF g.topsize > h.topsize THEN IF g.topsize > g.trim THEN SysTrim(g) ELSE {g}
      ELSE IF binned = {} THEN {g}
      ELSE IF fewer.checks = 0 THEN ReleaseUnused(fewer) ELSE {fewer}

-----------------------------------------------------------------------------
(* realloc and memalign.                                                   *)

\* mmap_resize(): mremap() grows a chunk that is mapped by itself, where it is
\* or, if it may, elsewhere.
MmapResize(h, p, nb, move) ==
  LET w == h.head[p]
      mm == p - w.foot
      old == w.size + w.foot + FootPad
      new == Align(nb + MapPad)
      g == Unmaps(h, mm, old)
      to == {b \in Rooms(g, new) : b = mm \/ move}
  IN  CASE IsSmall(nb) -> {Got(h, NoChunk)}
        [] ~IsSmall(nb) /\ w.size > nb /\ w.size - nb <= 2 * Granularity -> {Got(h, p)}
        [] OTHER -> {Got(h, NoChunk)} \cup {MapChunk(Maps(g, b, new), b, w.foot, new) : b \in to}

\* The end of a chunk in use that is too large is given back.
GiveTail(h, p, nb) ==
  LET size == Size(h, p) IN Dispose(SetInuse(SetInuse(h, p, nb), p + nb, size - nb), p + nb)

TryRealloc(h, p, nb, move) ==
  LET old == Size(h, p)
      next == p + old
      with == SetInuse(UnlinkChunk(h, next, Size(h, next)), p, old + Size(h, next))
      rest == old + h.dvsize - nb
  IN  CASE IsMmapped(h.head[p]) -> MmapResize(h, p, nb, move)
        [] ~IsMmapped(h.head[p]) /\ old >= nb -> {Got(IF old - nb >= MinChunk THEN GiveTail(h, p, nb) ELSE h, p)}
        [] ~IsMmapped(h.head[p]) /\ old < nb /\ next = h.top ->
             IF old + h.topsize > nb THEN {Got(SetTop(SetInuse(h, p, nb), p + nb, old + h.topsize - nb), p)}
             ELSE {Got(h, NoChunk)}
        [] ~IsMmapped(h.head[p]) /\ old < nb /\ next = h.dv ->
             IF rest < 0 THEN {Got(h, NoChunk)}
             ELSE IF rest < MinChunk THEN {Got(NoDv(SetInuse(h, p, old + h.dvsize)), p)}
             ELSE LET g == SetDv(SetFreeChunk(SetInuse(h, p, nb), p + nb, rest), p + nb, rest)
                  IN  {Got(Put(g, p + nb + rest, [g.head[p + nb + rest] EXCEPT !.pin = FALSE]), p)}
        [] OTHER -> IF h.head[next].cin \/ old + Size(h, next) < nb THEN {Got(h, NoChunk)}
                    ELSE IF old + Size(h, next) - nb < MinChunk THEN {Got(with, p)}
                    ELSE {Got(GiveTail(with, p, nb), p)}

\* internal_memalign(): in a chunk that is large enough for it, the program's
\* block is put where it is aligned and what is before and after it is freed.
AlignsIn(h, p, nb, al) ==
  LET mem == p + 1
      br == ((mem + al - 1) \div al) * al - 1
      new == IF mem % al = 0 THEN p ELSE IF br - p >= MinChunk THEN br ELSE br + al
      lead == new - p
      w == h.head[p]
      g == IF lead = 0 THEN h
           ELSE IF IsMmapped(w) THEN Put(h, new, [w EXCEPT !.foot = @ + lead, !.size = @ - lead])
           ELSE Dispose(SetInuse(SetInuse(h, new, w.size - lead), p, lead), p)
  IN  Got(IF ~IsMmapped(w) /\ w.size - lead > nb + MinChunk THEN GiveTail(g, new, nb) ELSE g, new)

Memalign(h, nb, al) ==
  {IF o.p = NoChunk THEN o ELSE AlignsIn(o.heap, o.p, nb, al) : o \in Malloc(h, nb + al + MinChunk)}

-----------------------------------------------------------------------------
(* The space and its blocks.                                               *)
Created(base) ==
  InitTop([head |-> (base :> [size |-> StateSize, pin |-> TRUE, cin |-> TRUE, foot |-> 0]),
           state |-> base, small |-> [s \in MinChunk..(MinLarge - 1) |-> <<>>], tree |-> {},
           dv |-> NoChunk, dvsize |-> 0, top |-> NoChunk, topsize |-> 0, trim |-> TrimThreshold,
           checks |-> ReleaseRate, segs |-> <<[base |-> base, size |-> Granularity]>>,
           footprint |-> Granularity, pages |-> Pages(base, Granularity)],
          base + StateSize, Granularity - StateSize - TopFoot)

Init ==
  /\ heap \in {Created(k * Granularity) : k \in 0..(Slots - 1)}
  /\ blocks = <<>>

Live == heap.segs # <<>>
More == Live /\ Cardinality(DOMAIN blocks) < MaxBlocks
Without(p) == [q \in DOMAIN blocks \ {p} |-> blocks[q]]
With(b, p, nb, al) == IF p = NoChunk THEN b ELSE (p :> [size |-> nb, align |-> al]) @@ b

Allocate(nb) ==
  /\ More
  /\ \E o \in Malloc(heap, nb) : heap' = o.heap /\ blocks' = With(blocks, o.p, nb, 1)

AllocateAligned(nb, al) ==
  /\ More
  /\ \E o \in Memalign(heap, nb, al) : heap' = o.heap /\ blocks' = With(blocks, o.p, nb, al)

FreeBlock(p) == Live /\ heap' \in Free(heap, p) /\ blocks' = Without(p)

\* reallocate(): where it cannot be done in place, a new block, a copy and free().
Moves(p, nb, al, o) ==
  IF o.p = NoChunk THEN heap' = o.heap /\ UNCHANGED blocks
  ELSE heap' \in Free(o.heap, p) /\ blocks' = With(Without(p), o.p, nb, al)

MayResize(p) == Live /\ (RemapsAligned \/ ~IsMmapped(heap.head[p]) \/ heap.head[p].foot = 0)

Reallocate(p, nb) ==
  /\ MayResize(p)
  /\ \E o \in TryRealloc(heap, p, nb, TRUE) :
       IF o.p # NoChunk THEN heap' = o.heap /\ blocks' = With(Without(p), o.p, nb, blocks[p].align)
       ELSE \E m \in Malloc(heap, nb) : Moves(p, nb, 1, m)

\* The copy is as large as the old block is, which must fit in the new one.
ReallocateAligned(p, nb, al) ==
  /\ MayResize(p) /\ blocks[p].align = al /\ ~(IsMmapped(heap.head[p]) /\ IsSmall(nb))
  /\ \E o \in TryRealloc(heap, p, nb, FALSE) :
       IF o.p # NoChunk THEN heap' = o.heap /\ blocks' = With(Without(p), o.p, nb, al)
       ELSE \E m \in Memalign(heap, nb, al) : Moves(p, nb, al, m)

\* destroy_mspace(): the segments go; what was mapped by itself stays.
Destroy ==
  /\ Live
  /\ heap' = [FoldSet(LAMBDA seg, g : Unmaps(g, seg.base, seg.size), heap, ToSet(heap.segs)) EXCEPT !.segs = <<>>]
  /\ blocks' = [p \in {q \in DOMAIN blocks : IsMmapped(heap.head[q])} |-> blocks[p]]

Next ==
  \/ \E nb \in Requests : Allocate(nb) \/ (\E al \in Alignments : AllocateAligned(nb, al))
  \/ \E p \in DOMAIN blocks : FreeBlock(p) \/ (\E nb \in Requests : Reallocate(p, nb) \/ (\E al \in Alignments : ReallocateAligned(p, nb, al)))
  \/ Destroy

-----------------------------------------------------------------------------
Chunks(seg) == {a \in DOMAIN heap.head : a >= seg.base /\ a < seg.base + seg.size}
Binned == heap.tree \cup UNION {ToSet(heap.small[s]) : s \in DOMAIN heap.small}

\* The chunks follow one another from the start to the end of each segment,
\* with the bits and footers that tell what is before and after them; no two
\* free ones are neighbours.
ChunksTile ==
  \A seg \in ToSet(heap.segs) :
    /\ seg.base \in Chunks(seg)
    /\ \A a \in Chunks(seg) :
         LET w == heap.head[a]
             n == a + w.size
         IN  /\ w.size > 0 /\ \A b \in Chunks(seg) : b > a => b >= n
             /\ n \in Chunks(seg) \/ n = seg.base + seg.size
             /\ n \in Chunks(seg) => heap.head[n].pin = IsInuse(w)
             /\ ~IsInuse(w) => w.pin /\ n \in Chunks(seg) /\ n # heap.top
             /\ ~IsInuse(w) /\ a # heap.top => heap.head[n].foot = w.size

\* Every free chunk is the top, the dv or in the bin of its size, and is there
\* once; every chunk in use is a block of the program or the space's own.
EveryChunkIsKept ==
  LET all == UNION {Chunks(seg) : seg \in ToSet(heap.segs)}
      free == {a \in all : ~IsInuse(heap.head[a])}
      used == {a \in all : heap.head[a].cin}
  IN  /\ free = Binned \cup (IF heap.dvsize = 0 THEN {} ELSE {heap.dv}) \cup {heap.top}
      /\ heap.dv \notin Binned /\ heap.top \notin Binned
      /\ heap.dvsize # 0 => heap.dvsize = Size(heap, heap.dv)
      /\ \A s \in DOMAIN heap.small : \A i \in DOMAIN heap.small[s] :
           Size(heap, heap.small[s][i]) = s /\ \A j \in 1..(i - 1) : heap.small[s][j] # heap.small[s][i]
      /\ \A p \in heap.tree : ~IsSmall(Size(heap, p))
      /\ Size(heap, heap.top) = heap.topsize
      /\ heap.top + heap.topsize + TopFoot = heap.segs[1].base + heap.segs[1].size
      /\ Cardinality(used \ DOMAIN blocks) = 2 * Len(heap.segs) - 1

\* The program's blocks are as large as was asked for.
BlocksAreLargeEnough == \A p \in DOMAIN blocks : Size(heap, p) >= blocks[p].size

\* They are in use, aligned and name the space; what the system has given is
\* what the space counts.
BlocksHold ==
  /\ \A p \in DOMAIN blocks :
       LET w == heap.head[p]
       IN  /\ IsInuse(w) /\ (p + 1) % blocks[p].align = 0
           /\ heap.head[p + w.size].foot = Own
           /\ IsMmapped(w) => \A seg \in ToSet(heap.segs) : p \notin seg.base..(seg.base + seg.size - 1)
  /\ heap.footprint = Granularity * Cardinality(heap.pages)
  /\ \A seg \in ToSet(heap.segs) : Pages(seg.base, seg.size) \subseteq heap.pages

HeapInOrder == BlocksAreLargeEnough /\ BlocksHold /\ (Live => ChunksTile /\ EveryChunkIsKept)
=============================================================================
