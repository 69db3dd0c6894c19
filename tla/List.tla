---------------------------------- MODULE List ----------------------------------
(***************************************************************************)
(* OOBase::List<T> (include/OOBase/List.h): a doubly linked list, its      *)
(* nodes, and a client's iterator (include/OOBase/Iterator.h).             *)
(***************************************************************************)
EXTENDS Integers, Sequences, SequencesExt, FiniteSets

CONSTANTS
  Nodes,      \* the memory for nodes; when all are in use an allocation fails
  Values,
  NULL        \* also the position of end()

VARIABLES
  node,       \* [allocated nodes -> [prev, next, val]]
  head, tail, size,
  iter,       \* m_pos of the client's iterator; its node may have been freed
  items       \* history: the values that the list should hold, in order

vars == <<node, head, tail, size, iter, items>>

Init == node = <<>> /\ head = NULL /\ tail = NULL /\ size = 0 /\ iter = NULL /\ items = <<>>

Live == DOMAIN node
InList(pos) == pos \in Live

\* Mutant: the node behind the new one keeps its prev link.
LinkedOneWay(n, prev, next, val) ==
  [m \in Live \cup {n} |->
     IF m = n THEN [prev |-> prev, next |-> next, val |-> val]
     ELSE [node[m] EXCEPT !.next = IF m = prev THEN n ELSE @]]

Linked(n, prev, next, val) ==
  [m \in Live \cup {n} |->
     IF m = n THEN [prev |-> prev, next |-> next, val |-> val]
     ELSE [node[m] EXCEPT !.next = IF m = prev THEN n ELSE @, !.prev = IF m = next THEN n ELSE @]]

\* insert_before(), insert_head() and insert_tail(): each returns the new node,
\* or NULL if there is no memory.
InsertBefore(n, next, val) ==
  /\ node' = Linked(n, node[next].prev, next, val)
  /\ head' = IF node[next].prev = NULL THEN n ELSE head
  /\ UNCHANGED tail

InsertAlone(n, val) == node' = Linked(n, NULL, NULL, val) /\ head' = n /\ tail' = n

InsertHead(n, val) == IF head # NULL THEN InsertBefore(n, head, val) ELSE InsertAlone(n, val)

InsertTail(n, val) ==
  IF tail = NULL THEN InsertHead(n, val)
  ELSE node' = Linked(n, tail, NULL, val) /\ tail' = n /\ UNCHANGED head

\* The position in the list of a node, for the history.
Rank(n) ==
  LET rank[k \in 0 .. size] == IF k = 0 THEN head ELSE IF rank[k - 1] = NULL THEN NULL ELSE node[rank[k - 1]].next
  IN  CHOOSE k \in 1 .. size : rank[k - 1] = n

PushBack(val) == \E n \in Nodes \ Live :
  InsertTail(n, val) /\ iter' = n /\ size' = size + 1 /\ items' = Append(items, val)

PushFront(val) == \E n \in Nodes \ Live :
  InsertHead(n, val) /\ iter' = n /\ size' = size + 1 /\ items' = <<val>> \o items

\* insert(value, before) dereferences before, which must not be end().
Insert(val) == \E n \in Nodes \ Live :
  /\ InList(iter)
  /\ InsertBefore(n, iter, val) /\ iter' = n /\ size' = size + 1
  /\ items' = InsertAt(items, Rank(iter), val)

InsertFails == Nodes = Live /\ iter' = NULL /\ UNCHANGED <<node, head, tail, size, items>>

\* remove(): takes out curr and leaves it at the next node.
Unlink(curr) ==
  LET prev == node[curr].prev
      next == node[curr].next
  IN  /\ node' = [m \in Live \ {curr} |->
                    [node[m] EXCEPT !.next = IF m = prev THEN next ELSE @, !.prev = IF m = next THEN prev ELSE @]]
      /\ head' = IF prev = NULL THEN next ELSE head
      /\ tail' = IF next = NULL THEN prev ELSE tail
      /\ size' = size - 1
      /\ items' = RemoveAt(items, Rank(curr))

\* clear(), which pops until nothing is left.
Clear == node' = <<>> /\ head' = NULL /\ tail' = NULL /\ size' = 0 /\ items' = <<>> /\ UNCHANGED iter

PopFront == head # NULL /\ Unlink(head) /\ UNCHANGED iter
PopBack == tail # NULL /\ Unlink(tail) /\ UNCHANGED iter
RemoveAtIter == InList(iter) /\ Unlink(iter) /\ iter' = node[iter].next

\* find(), which stops at the first equal value, and remove(value).
Found(val) ==
  LET found[k \in 0 .. size] ==
        IF k = 0 THEN head
        ELSE IF found[k - 1] = NULL \/ node[found[k - 1]].val = val THEN found[k - 1] ELSE node[found[k - 1]].next
  IN  found[size]

Find(val) == iter' = Found(val) /\ UNCHANGED <<node, head, tail, size, items>>
RemoveValue(val) == Found(val) # NULL /\ Unlink(Found(val)) /\ UNCHANGED iter

\* iterator_move() by one; back from end() is the last node.
Forward == InList(iter) /\ iter' = node[iter].next /\ UNCHANGED <<node, head, tail, size, items>>
Backward ==
  /\ iter \in Live \cup {NULL}
  /\ iter' = IF iter = NULL THEN tail ELSE node[iter].prev
  /\ UNCHANGED <<node, head, tail, size, items>>

Next ==
  \/ \E val \in Values : PushBack(val) \/ PushFront(val) \/ Insert(val) \/ Find(val) \/ RemoveValue(val)
  \/ InsertFails \/ Clear \/ PopFront \/ PopBack \/ RemoveAtIter \/ Forward \/ Backward

-----------------------------------------------------------------------------
\* From m_head the next links, and from m_tail the prev links, lead through all
\* the nodes, m_size of them, with the values in the order the calls gave them;
\* none is lost or reached when it is gone.
Walk(from, link) ==
  LET walk[k \in 0 .. Cardinality(Live) + 1] ==
        IF k = 0 THEN <<from>>
        ELSE IF Last(walk[k - 1]) \notin Live THEN walk[k - 1]
        ELSE Append(walk[k - 1], node[Last(walk[k - 1])][link])
  IN  walk[Cardinality(Live) + 1]

BothWaysInOrder ==
  \E there \in {Walk(head, "next")}, back \in {Walk(tail, "prev")} :
    /\ Last(there) = NULL /\ Last(back) = NULL
    /\ Reverse(Front(back)) = Front(there)
    /\ size = Cardinality(Live) /\ Len(there) = size + 1
    /\ items = [i \in 1 .. size |-> node[there[i]].val]
=============================================================================
