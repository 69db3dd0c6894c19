--------------------------------- MODULE BTree ---------------------------------
(***************************************************************************)
(* OOBase::BTree<K,V> (include/OOBase/BTree.h): a B+ tree.  The entries    *)
(* are in leaf pages, which are chained in order; internal pages hold keys *)
(* that separate their pages; every page knows its parent.                 *)
(*                                                                         *)
(* The arrays of a page are sequences.  Positions are those of the code,   *)
(* which start at 0.  The binary searches count the smaller keys, which is *)
(* what they do in ordered arrays (TreeInOrder).                           *)
(***************************************************************************)
EXTENDS Naturals, FiniteSets, Sequences, SequencesExt, TLC

CONSTANTS
  Keys,       \* numbers
  Values,
  Orders,     \* values of the template argument B
  MaxAllocs,  \* more pages than any insertion allocates
  Null

VARIABLES
  order,     \* B
  page,      \* the pages, by address
  root,      \* m_root_page
  head,      \* m_head and m_tail
  tail,
  astray     \* history: an array of a page has been used beyond its end

vars == <<order, page, root, head, tail, astray>>

Init ==
  /\ order \in Orders
  /\ page = <<>>
  /\ root = Null /\ head = Null /\ tail = Null
  /\ astray = FALSE

\* s_min of the leaf pages and of the internal pages.
LeafMin == (order + 1) \div 2
InternalMin == order \div 2

-----------------------------------------------------------------------------
(* The tree as the operators below pass it on: with the allocations that    *)
(* will still succeed and whether the operation has.                        *)

Tree(n) ==
  [page |-> page, root |-> root, head |-> head, tail |-> tail,
   left |-> n, ok |-> TRUE, astray |-> FALSE]

Fails(m) == [m EXCEPT !.ok = FALSE]
GoesAstray(m, wrong) == [m EXCEPT !.astray = @ \/ wrong]

IsLeaf(m, p) == "data" \in DOMAIN m.page[p]
Child(m, p, pos) == m.page[p].pages[pos + 1]

NewPage(m) == CHOOSE p \in 1 .. (Cardinality(DOMAIN m.page) + 1) : p \notin DOMAIN m.page

Allocate(m, content) ==
  IF m.left = 0 THEN Fails(m)
  ELSE [m EXCEPT !.page = (NewPage(m) :> content) @@ @, !.left = @ - 1]

\* With other arrays in the leaf p or in the internal page p.
SetData(m, p, data) == [m EXCEPT !.page[p].data = data]
SetKey(m, p, pos, key) == [m EXCEPT !.page[p].keys[pos] = key]
SetArrays(m, p, keys, pages) ==
  [m EXCEPT !.page = (p :> [@[p] EXCEPT !.keys = keys, !.pages = pages]) @@ @]

Destroy(m, p) == [m EXCEPT !.page = [q \in DOMAIN @ \ {p} |-> @[q]]]

\* m_parent of the pages in S becomes p.
Adopt(m, S, p) ==
  [m EXCEPT !.page = [q \in DOMAIN @ |-> IF q \in S THEN [@[q] EXCEPT !.parent = p] ELSE @[q]]]

\* The links of the chain on either side of p.
LinkNext(m, p, q) == IF p = Null THEN [m EXCEPT !.head = q] ELSE [m EXCEPT !.page[p].next = q]
LinkPrev(m, p, q) == IF p = Null THEN [m EXCEPT !.tail = q] ELSE [m EXCEPT !.page[p].prev = q]

DestroyLeaf(m, p) ==
  LET l == m.page[p]
  IN Destroy(LinkPrev(LinkNext(m, l.prev, l.next), l.next, l.prev), p)

-----------------------------------------------------------------------------
(* find()                                                                   *)

FindPageAtKey(m, p, k) ==
  Cardinality({i \in DOMAIN m.page[p].keys : m.page[p].keys[i] < k})

FindPage(m, p, k) ==
  Cardinality({i \in DOMAIN m.page[p].keys : m.page[p].keys[i] <= k})

LeafFor(m, p, k) ==
  LET leaf[q \in DOMAIN m.page] == IF IsLeaf(m, q) THEN q ELSE leaf[Child(m, q, FindPage(m, q, k))]
  IN  leaf[p]

Found(m, k) ==
  IF m.root = Null THEN {}
  ELSE {e \in ToSet(m.page[LeafFor(m, m.root, k)].data) : e.key = k}

-----------------------------------------------------------------------------
(* insert()                                                                 *)

\* "Make sure we have a parent"
WithParent(m, p) ==
  IF m.page[p].parent # Null THEN m
  ELSE LET a == Allocate(m, [parent |-> Null, keys |-> <<>>, pages |-> <<p>>])
       IN IF a.ok THEN [Adopt(a, {p}, NewPage(m)) EXCEPT !.root = NewPage(m)] ELSE a

\* The key of the page at pos becomes that of its first entry.
AdjustKey(m, p, pos) ==
  IF pos = 0 \/ m.page[p].keys = <<>> THEN m
  ELSE IF pos > Len(m.page[p].keys) THEN GoesAstray(m, TRUE)
  ELSE SetKey(m, p, pos, m.page[Child(m, p, pos)].data[1].key)

\* The page goes in behind the one at pos.  A full page keeps the first half
\* of its keys, a new sibling gets the last ones, and the parent the key
\* between: the parent first, which may have to be split itself.
InsertPage(m, p, child, key, pos) ==
  LET half == order \div 2
      WithKey(c) == InsertAt(c.m.page[c.p].keys, c.pos + 1, c.key)
      WithPage(c) == InsertAt(c.m.page[c.p].pages, c.pos + 2, c.child)
      \* The call for the parent of a full page, by which its sibling goes in.
      Above(c) ==
        LET m1 == WithParent(c.m, c.p)
            parent == m1.page[c.p].parent
            m2 == Allocate(m1, [parent |-> parent, keys |-> <<>>, pages |-> <<>>])
            up == WithKey(c)[half + 1]
        IN IF ~m1.ok THEN [m |-> m1] ELSE IF ~m2.ok THEN [m |-> m2]
           ELSE [m |-> m2, p |-> parent, child |-> NewPage(m1), key |-> up, pos |-> FindPage(m2, parent, up)]
      call[n \in Nat] == IF n = 0 THEN [m |-> m, p |-> p, child |-> child, key |-> key, pos |-> pos]
                         ELSE Above(call[n - 1])
      after[n \in Nat] ==
        LET c == call[n]
            sibling == call[n + 1].child
            keys == WithKey(c)
            pages == WithPage(c)
            moved == SubSeq(pages, half + 2, Len(pages))
        IN IF ~c.m.ok THEN c.m
           ELSE IF Len(c.m.page[c.p].keys) < order - 1
             THEN SetArrays(c.m, c.p, keys, pages)
           ELSE IF ~after[n + 1].ok THEN after[n + 1]
           ELSE Adopt(SetArrays(SetArrays(after[n + 1], c.p, SubSeq(keys, 1, half), SubSeq(pages, 1, half + 1)),
                                sibling, SubSeq(keys, half + 2, Len(keys)), moved),
                      ToSet(moved), sibling)
  IN after[0]

SecondHalfShort(data) == SubSeq(data, LeafMin + 2, Len(data))

SecondHalf(data) == SubSeq(data, LeafMin + 1, Len(data))

\* The first half of the entries stay; the sibling, chained in before it is
\* known whether the parent can take it, gets the others.
SplitLeaf(m, p, data, pos, parentPos) ==
  LET m1 == WithParent(m, p)
      parent == m1.page[p].parent
      sibling == NewPage(m1)
      next == m.page[p].next
      m2 == Allocate(m1, [parent |-> parent, prev |-> p, next |-> next, data |-> <<>>])
      m3 == LinkNext(LinkPrev(m2, next, sibling), p, sibling)
      m4 == InsertPage(m3, parent, sibling, data[LeafMin + 1].key, parentPos)
      m5 == SetData(SetData(m4, p, SubSeq(data, 1, LeafMin)), sibling, SecondHalf(data))
  IN IF ~m1.ok THEN m1 ELSE IF ~m2.ok THEN m2 ELSE IF ~m4.ok THEN m4
     ELSE IF pos = 0 THEN AdjustKey(m5, m5.page[p].parent, parentPos) ELSE m5

InsertInLeaf(m, p, e, parentPos) ==
  LET old == m.page[p].data
      pos == Cardinality({i \in DOMAIN old : old[i].key < e.key})
      data == InsertAt(old, pos + 1, e)
      m1 == SetData(m, p, data)
  IN IF \E i \in DOMAIN old : old[i].key = e.key
       THEN [m EXCEPT !.page[p].data[pos + 1] = e]
     ELSE IF Len(old) >= order THEN SplitLeaf(m, p, data, pos, parentPos)
     ELSE IF pos = 0 /\ m.page[p].parent # Null THEN AdjustKey(m1, m.page[p].parent, parentPos)
     ELSE m1

InsertEntry(m, e) ==
  LET p == LeafFor(m, m.root, e.key)
      parent == m.page[p].parent
  IN InsertInLeaf(m, p, e, IF parent = Null THEN 0 ELSE FindPage(m, parent, e.key))

\* An empty tree gets its first leaf.
WithRoot(m) ==
  LET a == Allocate(m, [parent |-> Null, prev |-> Null, next |-> Null, data |-> <<>>])
      p == NewPage(m)
  IN IF m.root # Null THEN m
     ELSE IF ~a.ok THEN a
     ELSE [a EXCEPT !.root = p, !.head = p, !.tail = p]

-----------------------------------------------------------------------------
(* remove()                                                                 *)

RemoveEntry(m, p, k, parentPos) ==
  LET data == SelectSeq(m.page[p].data, LAMBDA e : e.key # k)
      m1 == SetData(m, p, data)
  IN IF data = <<>> /\ m.page[p].parent = Null
       THEN DestroyLeaf([m1 EXCEPT !.root = Null], p)
     ELSE IF m.page[p].data[1].key = k THEN AdjustKey(m1, m.page[p].parent, parentPos)
     ELSE m1

\* The page at pos leaves p, with the key on its left or right.
TakeOut(m, p, keyPos, pos) ==
  [m EXCEPT !.page[p].keys = RemoveAt(@, keyPos + 1), !.page[p].pages = RemoveAt(@, pos + 1)]

\* A leaf left with too few entries takes some of the next leaf or of the
\* previous one, or is merged into one of them.
RefillLeaf(m, p, pos) ==
  LET here == Child(m, p, pos)
      next == Child(m, p, pos + 1)
      prev == Child(m, p, pos - 1)
      hasNext == pos < Len(m.page[p].keys)
      hasPrev == pos > 0
      d == m.page[here].data
      n == m.page[next].data
      v == m.page[prev].data
      ofNext == (Len(n) - LeafMin + 1) \div 2
      ofPrev == (Len(v) - LeafMin + 1) \div 2
  IN IF Len(d) >= LeafMin THEN m
     ELSE IF hasNext /\ Len(n) > LeafMin
       THEN SetKey(SetData(SetData(m, here, d \o SubSeq(n, 1, ofNext)), next, SubSeq(n, ofNext + 1, Len(n))),
                   p, pos + 1, n[ofNext + 1].key)
     ELSE IF hasPrev /\ Len(v) > LeafMin
       \* The loop that makes room starts at the size of the previous leaf.
       THEN LET kept == Len(v) - ofPrev
            IN GoesAstray(SetKey(SetData(SetData(m, here, SubSeq(v, kept + 1, Len(v)) \o d), prev, SubSeq(v, 1, kept)),
                                 p, pos, v[kept + 1].key),
                          Len(v) + ofPrev > order)
     ELSE IF hasNext
       THEN DestroyLeaf(TakeOut(SetData(m, next, d \o n), p, pos, pos), here)
     ELSE IF hasPrev
       THEN DestroyLeaf(TakeOut(SetData(m, prev, v \o d), p, pos - 1, pos), here)
     ELSE m

\* Internal pages likewise; the key between two pages takes part.
RefillInternal(m, p, pos) ==
  LET here == m.page[Child(m, p, pos)]
      nextAt == Child(m, p, pos + 1)
      prevAt == Child(m, p, pos - 1)
      next == m.page[nextAt]
      prev == m.page[prevAt]
      hereAt == Child(m, p, pos)
      hasNext == pos < Len(m.page[p].keys)
      hasPrev == pos > 0
      ofNext == (Len(next.keys) - InternalMin + 1) \div 2
      ofPrev == (Len(prev.keys) - InternalMin + 1) \div 2
      rightKey == m.page[p].keys[pos + 1]
      leftKey == m.page[p].keys[pos]
      kept == Len(prev.keys) - ofPrev
  IN IF Len(here.keys) >= InternalMin THEN m
     ELSE IF hasNext /\ Len(next.keys) > InternalMin
       \* The pages of the next one arrive in the reverse of their order.
       THEN LET m1 == SetArrays(m, hereAt, (here.keys \o <<rightKey>>) \o Reverse(SubSeq(next.keys, 2, ofNext)),
                                here.pages \o Reverse(SubSeq(next.pages, 1, ofNext)))
                m2 == SetArrays(m1, nextAt, SubSeq(next.keys, ofNext + 1, Len(next.keys)),
                                SubSeq(next.pages, ofNext + 1, Len(next.pages)))
            IN Adopt(SetKey(m2, p, pos + 1, next.keys[1]), ToSet(SubSeq(next.pages, 1, ofNext)), hereAt)
     ELSE IF hasPrev /\ Len(prev.keys) > InternalMin
       THEN LET moved == SubSeq(prev.pages, kept + 2, Len(prev.pages))
                m1 == SetArrays(m, hereAt, (SubSeq(prev.keys, kept + 2, Len(prev.keys)) \o <<leftKey>>) \o here.keys,
                                moved \o here.pages)
                m2 == SetArrays(m1, prevAt, SubSeq(prev.keys, 1, kept), SubSeq(prev.pages, 1, kept + 1))
            IN Adopt(SetKey(m2, p, pos, prev.keys[kept + 1]), ToSet(moved), hereAt)
     ELSE IF hasNext
       THEN GoesAstray(
              Destroy(TakeOut(Adopt(
                SetArrays(m, nextAt, (here.keys \o <<rightKey>>) \o next.keys, here.pages \o next.pages),
                ToSet(here.pages), nextAt), p, pos, pos), hereAt),
              Len(here.keys) + 1 + Len(next.keys) > order - 1)
     ELSE IF hasPrev
       \* m_pages[pos + 1] is set to NULL.
       THEN GoesAstray(
              Destroy(TakeOut(Adopt(
                SetArrays(m, prevAt, (prev.keys \o <<leftKey>>) \o here.keys, prev.pages \o here.pages),
                ToSet(here.pages), prevAt), p, pos - 1, pos), hereAt),
              Len(here.keys) + 1 + Len(prev.keys) > order - 1 \/ pos + 1 >= order)
     ELSE m

\* A root with one page only gives way to it.
Collapse(m, p) ==
  IF m.page[p].parent # Null \/ m.page[p].keys # <<>> THEN m
  ELSE Destroy(Adopt([m EXCEPT !.root = Child(m, p, 0)], {Child(m, p, 0)}, Null), p)

RemoveBelow(m, p, k) ==
  LET removed[q \in DOMAIN m.page] ==
        LET pos == FindPage(m, q, k)
            c == Child(m, q, pos)
        IN Collapse(IF IsLeaf(m, c) THEN RefillLeaf(RemoveEntry(m, c, k, pos), q, pos)
                    ELSE RefillInternal(removed[c], q, pos), q)
  IN removed[p]

-----------------------------------------------------------------------------
(* Steps.  Addresses mean nothing, so that after each the pages are         *)
(* numbered anew: those of the tree from the root down, then what is left   *)
(* in the chain.                                                            *)

Below(m, p) ==
  LET below[q \in DOMAIN m.page] ==
        <<q>> \o IF IsLeaf(m, q) THEN <<>>
                 ELSE FlattenSeq([i \in DOMAIN m.page[q].pages |-> below[m.page[q].pages[i]]])
  IN below[p]

ChainFrom(m, p) ==
  LET chain[q \in DOMAIN m.page \cup {Null}] == IF q = Null THEN <<>> ELSE <<q>> \o chain[m.page[q].next]
  IN chain[p]

Numbered(m) ==
  LET tree == IF m.root = Null THEN <<>> ELSE Below(m, m.root)
  IN tree \o SelectSeq(ChainFrom(m, m.head), LAMBDA p : p \notin ToSet(tree))

Renumbered(m) ==
  LET old == Numbered(m)
      New(p) == IF p \in ToSet(old) THEN CHOOSE i \in DOMAIN old : old[i] = p ELSE Null
      Renumber(r) ==
        IF "data" \in DOMAIN r
          THEN [r EXCEPT !.parent = New(@), !.prev = New(@), !.next = New(@)]
        ELSE [r EXCEPT !.parent = New(@), !.pages = [i \in DOMAIN @ |-> New(@[i])]]
  IN [m EXCEPT !.page = [i \in DOMAIN old |-> Renumber(m.page[old[i]])],
               !.root = New(@), !.head = New(@), !.tail = New(@)]

Become(m) ==
  /\ page' = m.page
  /\ root' = m.root
  /\ head' = m.head
  /\ tail' = m.tail
  /\ UNCHANGED <<order, astray>>

\* What a program does that has used an array beyond its end is not modelled.
Ends(m) ==
  IF m.astray THEN astray' = TRUE /\ UNCHANGED <<order, page, root, head, tail>>
  ELSE \E r \in {Renumbered(m)} : Become(r)

InsertWith(n, k, v) ==
  LET m == WithRoot(Tree(n))
  IN IF m.ok THEN InsertEntry(m, [key |-> k, value |-> v]) ELSE m

Stranded == {p \in DOMAIN page : IsLeaf(Tree(0), p) /\ page[p].data = <<>> /\ p # root}

\* With all the memory it asks for, or with less.  No insertion fails while
\* one that failed has left a leaf in the chain.
Insert(k, v) ==
  /\ ~astray
  /\ \E m \in {[InsertWith(n, k, v) EXCEPT !.left = 0] : n \in 0 .. MaxAllocs} :
       /\ m.ok \/ Stranded = {}
       /\ Ends(m)

Erase(k) ==
  /\ ~astray
  /\ Found(Tree(0), k) # {}
  /\ Ends(IF IsLeaf(Tree(0), root) THEN RemoveEntry(Tree(0), root, k, 0)
          ELSE RemoveBelow(Tree(0), root, k))

-----------------------------------------------------------------------------
Next ==
  \E k \in Keys : Erase(k) \/ \E v \in Values : Insert(k, v)

Spec == Init /\ [][Next]_vars

-----------------------------------------------------------------------------
(* Properties                                                               *)

InTree == IF root = Null THEN <<>> ELSE Below(Tree(0), root)
Leaves == SelectSeq(InTree, LAMBDA p : IsLeaf(Tree(0), p))

\* Those of the pages that are still allocated.
Entries == UNION {ToSet(page[p].data) : p \in {q \in DOMAIN page : "data" \in DOMAIN page[q]}}

\* Splits, steals and merges hide, lose and double no entry: every call puts,
\* replaces or removes that of one key, or nothing at all.
OneEntryAtATime ==
  [][\E old \in {Entries}, new \in {Entries'}, k \in Keys :
       LET others == {e \in old : e.key # k}
       IN new \in {old, others} \cup {others \cup {[key |-> k, value |-> v]} : v \in Values}]_vars

\* The keys of internal pages separate the entries below them, and a leaf that
\* has neighbours under its parent is at least half full.
TreeInOrder ==
  /\ \A k \in Keys : Found(Tree(0), k) = {e \in Entries : e.key = k}
  /\ LET entries == FlattenSeq([i \in DOMAIN Leaves |-> page[Leaves[i]].data])
     IN \A i \in 2 .. Len(entries) : entries[i - 1].key < entries[i].key
  /\ \A p \in ToSet(InTree) \ ToSet(Leaves) :
       /\ Len(page[p].pages) = Len(page[p].keys) + 1
       /\ Len(page[p].keys) < order
       /\ \A i \in DOMAIN page[p].keys :
            LET EntriesBelow(q) ==
                  UNION {ToSet(page[l].data) : l \in ToSet(Below(Tree(0), q)) \cap ToSet(Leaves)}
            IN /\ \A e \in EntriesBelow(page[p].pages[i]) : e.key < page[p].keys[i]
               /\ \A e \in EntriesBelow(page[p].pages[i + 1]) : page[p].keys[i] <= e.key
  /\ \A p \in ToSet(Leaves) : Len(page[p].data) <= order
  /\ \A p \in ToSet(Leaves) :
       page[p].parent # Null /\ page[page[p].parent].keys # <<>> => Len(page[p].data) >= LeafMin

\* What dump() asserts of m_parent; and the chain from m_head to m_tail visits
\* the leaves in order, whatever has been left in it by insertions that failed.
LinksFollowTree ==
  /\ root # Null => page[root].parent = Null
  /\ \A p \in ToSet(InTree) \ ToSet(Leaves) : \A c \in ToSet(page[p].pages) : page[c].parent = p
  /\ LET chain == ChainFrom(Tree(0), head)
     IN /\ SelectSeq(chain, LAMBDA p : page[p].data # <<>>) = Leaves
        /\ chain # <<>> => tail = Last(chain)
        /\ \A i \in DOMAIN chain : page[chain[i]].prev = IF i = 1 THEN Null ELSE chain[i - 1]

\* "BTree must be of order > 2": then its pages have room for what is put in
\* them.
StaysInside == ~astray
=============================================================================
