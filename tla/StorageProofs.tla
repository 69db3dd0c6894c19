----------------------------- MODULE StorageProofs -----------------------------
(***************************************************************************)
(* Proofs about ScratchAllocator, File and Timeouts as MCContainers uses   *)
(* them.                                                                   *)
(***************************************************************************)
EXTENDS MCContainers, FiniteSetTheorems, WellFoundedInduction, TLAPS
-----------------------------------------------------------------------------
(* What the proofs need of numbers and of functions that are defined by     *)
(* their value one step before.                                             *)

\* A set of naturals has a least member.
LEMMA LeastOf ==
  ASSUME NEW X, X \subseteq Nat, X # {}
  PROVE  \E m \in X : \A k \in X : m <= k
<1> DEFINE R == OpToRel(<, Nat)
<1>1. IsWellFoundedOn(R, Nat)
  BY NatLessThanWellFounded
<1>2. \A i, j \in Nat : i < j => <<i, j>> \in R
  BY DEF OpToRel
<1>. HIDE DEF R
<1>3. PICK m \in X : \A k \in X : ~ (<<k, m>> \in R)
  BY <1>1, WFMin
<1>4. ASSUME NEW k \in X
      PROVE  m <= k
  <2>1. ~ (k < m)
    BY <1>2, <1>3
  <2>. QED
    BY <2>1
<1>. QED
  BY <1>4

\* What holds of 0, and of i with i - 1, holds up to n.
LEMMA UpTo ==
  ASSUME NEW n \in Nat, NEW X, 0 \in X, \A i \in 1 .. n : i - 1 \in X => i \in X
  PROVE  \A i \in 0 .. n : i \in X
<1> DEFINE Bad == {i \in 0 .. n : i \notin X}
<1>1. ASSUME Bad # {}
      PROVE  FALSE
  <2>0. Bad \subseteq Nat
    OBVIOUS
  <2>1. PICK i \in Bad : \A k \in Bad : i <= k
    <3>. HIDE DEF Bad
    <3>. QED
      BY <1>1, <2>0, LeastOf
  <2>2. i \in 1 .. n /\ i - 1 \in 0 .. n
    BY <2>1
  <2>3. i - 1 \in X
    BY <2>1, <2>2
  <2>. QED
    BY <2>1, <2>2, <2>3
<1>. QED
  BY <1>1

Iterates(n, D, a, G) == \E f \in [0 .. n -> D] : f[0] = a /\ \A k \in 1 .. n : f[k] = G[f[k - 1]]

\* A function that gives each number G of what it gives the one before.
LEMMA IterationExists ==
  ASSUME NEW D, NEW a \in D, NEW G \in [D -> D], NEW n \in Nat
  PROVE  Iterates(n, D, a, G)
<1> DEFINE X == {m \in Nat : Iterates(m, D, a, G)}
<1>1. Iterates(0, D, a, G)
  <2> DEFINE g == [k \in 0 .. 0 |-> a]
  <2>1. g \in [0 .. 0 -> D] /\ g[0] = a /\ \A k \in 1 .. 0 : g[k] = G[g[k - 1]]
    OBVIOUS
  <2>. QED
    BY <2>1, Zenon DEF Iterates
<1>2. ASSUME NEW m \in 1 .. n, Iterates(m - 1, D, a, G)
      PROVE  Iterates(m, D, a, G)
  <2>1. PICK f \in [0 .. m - 1 -> D] : f[0] = a /\ \A k \in 1 .. m - 1 : f[k] = G[f[k - 1]]
    BY <1>2 DEF Iterates
  <2> DEFINE g == [k \in 0 .. m |-> IF k = m THEN G[f[m - 1]] ELSE f[k]]
  <2>2. m - 1 \in 0 .. m - 1 /\ \A k \in 0 .. m : k # m => k \in 0 .. m - 1
    OBVIOUS
  <2>3. g \in [0 .. m -> D]
    BY <2>2
  <2>4. g[0] = a
    BY <2>1
  <2>5. ASSUME NEW k \in 1 .. m
        PROVE  g[k] = G[g[k - 1]]
    <3>1. k - 1 \in 0 .. m /\ k - 1 # m
      OBVIOUS
    <3>2. g[k - 1] = f[k - 1]
      BY <3>1
    <3>3. CASE k = m
      BY <3>2, <3>3
    <3>4. CASE k # m
      <4>1. k \in 1 .. m - 1
        BY <3>4
      <4>. QED
        BY <2>1, <3>2, <4>1
    <3>. QED
      BY <3>3, <3>4
  <2>. HIDE DEF g
  <2>. QED
    BY <2>3, <2>4, <2>5 DEF Iterates
<1>3. 0 \in X /\ \A i \in 1 .. n : i - 1 \in X => i \in X
  BY <1>1, <1>2
<1>. HIDE DEF X
<1>4. n \in X
  BY <1>3, UpTo
<1>. QED
  BY <1>4 DEF X
-----------------------------------------------------------------------------
(* ScratchAllocator: lists in order of the positions in them.               *)

\* q is the highest of X below p, or the lowest above it, or Null if there is none.
NextIn(X, p, q) ==
  IF q = Null THEN \A r \in X : ~ (r < p) ELSE q \in X /\ q < p /\ \A r \in X : ~ (q < r /\ r < p)
PrevIn(X, p, q) ==
  IF q = Null THEN \A r \in X : ~ (p < r) ELSE q \in X /\ p < q /\ \A r \in X : ~ (p < r /\ r < q)
FirstIn(X, q) == IF q = Null THEN X = {} ELSE q \in X /\ \A r \in X : r <= q

Positions == 0 .. Units
Field == [size : Nat, used : BOOLEAN, prev : Positions \cup {Null}, next : Positions \cup {Null}]
Headers(b) == DOMAIN b \subseteq Positions /\ b \in [DOMAIN b -> Field]
Frees(b) == {p \in DOMAIN b : ~b[p].used}

\* The links of b among X, with the head f of the list.
LinkedAt(X, b, p) == NextIn(X, p, b[p].next) /\ PrevIn(X, p, b[p].prev)
Linked(X, b, f) == FirstIn(X, f) /\ \A p \in X : LinkedAt(X, b, p)

\* The blocks of b lie end to end.
TileAt(b, p) ==
  /\ p + 3 <= p + b[p].size
  /\ p + b[p].size \in DOMAIN b \cup {Units}
  /\ \A q \in DOMAIN b : ~ (p < q /\ q < p + b[p].size)
Tile(b) == 0 \in DOMAIN b /\ \A p \in DOMAIN b : TileAt(b, p)

\* No free block touches another.
Apart(b) == \A p \in Frees(b) : p + b[p].size \notin Frees(b)

InOrder(b, f) == Headers(b) /\ Tile(b) /\ f \in Positions \cup {Null} /\ Linked(Frees(b), b, f)

LEMMA NullNone ==
  ASSUME NEW X, X \subseteq Positions
  PROVE  Null \notin X /\ \A p \in X : p \in Nat /\ p \in Int
<1>1. ASSUME NEW p \in X
      PROVE  p \in 0 .. Units
  BY DEF Positions
<1>. QED
  BY <1>1, ScratchAllocatorAssumption

LEMMA NextUnique ==
  ASSUME NEW X, X \subseteq Positions, NEW p \in X, NEW q, NEW r, NextIn(X, p, q), NextIn(X, p, r)
  PROVE  q = r
BY NullNone DEF NextIn

LEMMA PrevUnique ==
  ASSUME NEW X, X \subseteq Positions, NEW p \in X, NEW q, NEW r, PrevIn(X, p, q), PrevIn(X, p, r)
  PROVE  q = r
BY NullNone DEF PrevIn

\* p is the next of r exactly if r is the one before p.
LEMMA TurnRound ==
  ASSUME NEW X, X \subseteq Positions, NEW b, NEW p \in X, NEW r \in X, LinkedAt(X, b, p), LinkedAt(X, b, r)
  PROVE  b[r].next = p <=> b[p].prev = r
<1>0. p # Null /\ r # Null
  BY NullNone
<1>1. NextIn(X, r, p) <=> PrevIn(X, p, r)
  BY <1>0 DEF NextIn, PrevIn
<1>2. ASSUME b[r].next = p
      PROVE  b[p].prev = r
  <2>1. PrevIn(X, p, r) /\ PrevIn(X, p, b[p].prev)
    BY <1>1, <1>2 DEF LinkedAt
  <2>. QED
    BY <2>1, PrevUnique
<1>3. ASSUME b[p].prev = r
      PROVE  b[r].next = p
  <2>1. NextIn(X, r, p) /\ NextIn(X, r, b[r].next)
    BY <1>1, <1>3 DEF LinkedAt
  <2>. QED
    BY <2>1, NextUnique
<1>. QED
  BY <1>2, <1>3

\* The first has none before it.
LEMMA FirstHasNoPrev ==
  ASSUME NEW X, X \subseteq Positions, NEW b, NEW f, Linked(X, b, f), NEW p \in X
  PROVE  f = p <=> b[p].prev = Null
<1>1. PrevIn(X, p, b[p].prev) /\ FirstIn(X, f)
  BY DEF Linked, LinkedAt
<1>. QED
  BY <1>1, NullNone DEF PrevIn, FirstIn
-----------------------------------------------------------------------------
(* One position leaves X, or comes to it.                                   *)

LEMMA NextRemoved ==
  ASSUME NEW X, X \subseteq Positions, NEW p \in X, NEW r \in X, r # p, NEW q, NextIn(X, r, q),
         NEW d, NextIn(X, p, d)
  PROVE  NextIn(X \ {p}, r, IF q = p THEN d ELSE q)
<1>0. p # Null
  BY NullNone
<1>1. CASE q = p
  BY <1>0, <1>1, NullNone DEF NextIn
<1>2. CASE q # p
  BY <1>0, <1>2, NullNone DEF NextIn
<1>. QED
  BY <1>1, <1>2

LEMMA PrevRemoved ==
  ASSUME NEW X, X \subseteq Positions, NEW p \in X, NEW r \in X, r # p, NEW q, PrevIn(X, r, q),
         NEW u, PrevIn(X, p, u)
  PROVE  PrevIn(X \ {p}, r, IF q = p THEN u ELSE q)
<1>0. p # Null
  BY NullNone
<1>1. CASE q = p
  BY <1>0, <1>1, NullNone DEF PrevIn
<1>2. CASE q # p
  BY <1>0, <1>2, NullNone DEF PrevIn
<1>. QED
  BY <1>1, <1>2

LEMMA FirstRemoved ==
  ASSUME NEW X, X \subseteq Positions, NEW p \in X, NEW f, FirstIn(X, f), NEW d, NextIn(X, p, d)
  PROVE  FirstIn(X \ {p}, IF f = p THEN d ELSE f)
<1>0. p # Null
  BY NullNone
<1>1. CASE f = p
  BY <1>0, <1>1, NullNone DEF NextIn, FirstIn
<1>2. CASE f # p
  BY <1>0, <1>2, NullNone DEF NextIn, FirstIn
<1>. QED
  BY <1>1, <1>2

LEMMA NextAdded ==
  ASSUME NEW X, X \subseteq Positions, NEW p \in Positions \ X, NEW u, NEW d, PrevIn(X, p, u), NextIn(X, p, d)
  PROVE  /\ NextIn(X \cup {p}, p, d)
         /\ \A r \in X : \A q : NextIn(X, r, q) => NextIn(X \cup {p}, r, IF r = u THEN p ELSE q)
<1>0. p # Null /\ p \in Nat
  BY NullNone DEF Positions
<1>1. NextIn(X \cup {p}, p, d)
  BY <1>0, NullNone DEF NextIn
<1>2. ASSUME NEW r \in X, NEW q, NextIn(X, r, q), r = u
      PROVE  NextIn(X \cup {p}, r, p)
  BY <1>0, <1>2, NullNone DEF NextIn, PrevIn
<1>3. ASSUME NEW r \in X, NEW q, NextIn(X, r, q), r # u
      PROVE  NextIn(X \cup {p}, r, q)
  <2>0. r \in Nat /\ (q # Null => q \in X /\ q \in Nat /\ q < r)
    BY <1>3, NullNone DEF NextIn
  <2>1. ~ (p < r /\ (q = Null \/ q < p))
    <3>1. SUFFICES ASSUME p < r, q = Null \/ q < p
                   PROVE  FALSE
      OBVIOUS
    <3>2. u # Null /\ u \in X /\ u \in Nat /\ p < u /\ u < r
      <4>1. u # Null
        BY <3>1 DEF PrevIn
      <4>2. u \in X /\ p < u /\ ~ (p < r /\ r < u)
        BY <4>1 DEF PrevIn
      <4>3. u \in Nat
        BY <4>2, NullNone
      <4>. QED
        BY <1>0, <1>3, <2>0, <3>1, <4>1, <4>2, <4>3
    <3>. QED
      BY <1>0, <1>3, <2>0, <3>1, <3>2 DEF NextIn
  <2>. QED
    BY <1>0, <1>3, <2>0, <2>1 DEF NextIn
<1>. QED
  BY <1>1, <1>2, <1>3

LEMMA PrevAdded ==
  ASSUME NEW X, X \subseteq Positions, NEW p \in Positions \ X, NEW u, NEW d, PrevIn(X, p, u), NextIn(X, p, d)
  PROVE  /\ PrevIn(X \cup {p}, p, u)
         /\ \A r \in X : \A q : PrevIn(X, r, q) => PrevIn(X \cup {p}, r, IF r = d THEN p ELSE q)
<1>0. p # Null /\ p \in Nat
  BY NullNone DEF Positions
<1>1. PrevIn(X \cup {p}, p, u)
  BY <1>0, NullNone DEF PrevIn
<1>2. ASSUME NEW r \in X, NEW q, PrevIn(X, r, q), r = d
      PROVE  PrevIn(X \cup {p}, r, p)
  BY <1>0, <1>2, NullNone DEF NextIn, PrevIn
<1>3. ASSUME NEW r \in X, NEW q, PrevIn(X, r, q), r # d
      PROVE  PrevIn(X \cup {p}, r, q)
  <2>0. r \in Nat /\ (q # Null => q \in X /\ q \in Nat /\ r < q)
    BY <1>3, NullNone DEF PrevIn
  <2>1. ~ (r < p /\ (q = Null \/ p < q))
    <3>1. SUFFICES ASSUME r < p, q = Null \/ p < q
                   PROVE  FALSE
      OBVIOUS
    <3>2. d # Null /\ d \in X /\ d \in Nat /\ d < p /\ r < d
      <4>1. d # Null
        BY <3>1 DEF NextIn
      <4>2. d \in X /\ d < p /\ ~ (r < p /\ d < r)
        BY <4>1 DEF NextIn
      <4>3. d \in Nat
        BY <4>2, NullNone
      <4>. QED
        BY <1>0, <1>3, <2>0, <3>1, <4>1, <4>2, <4>3
    <3>. QED
      BY <1>0, <1>3, <2>0, <3>1, <3>2 DEF PrevIn
  <2>. QED
    BY <1>0, <1>3, <2>0, <2>1 DEF PrevIn
<1>. QED
  BY <1>1, <1>2, <1>3

LEMMA FirstAdded ==
  ASSUME NEW X, X \subseteq Positions, NEW p \in Positions \ X, NEW f, FirstIn(X, f), NEW u, PrevIn(X, p, u)
  PROVE  FirstIn(X \cup {p}, IF u = Null THEN p ELSE f)
<1>0. p # Null /\ p \in Nat
  BY NullNone DEF Positions
<1>1. CASE u = Null
  <2>1. \A r \in X : r <= p
    BY <1>0, <1>1, NullNone DEF PrevIn
  <2>. QED
    BY <1>0, <1>1, <2>1 DEF FirstIn
<1>2. CASE u # Null
  <2>1. f # Null /\ f \in X /\ u \in X /\ p < u /\ u <= f
    BY <1>2, NullNone DEF FirstIn, PrevIn
  <2>. QED
    BY <1>0, <1>2, <2>1, NullNone DEF FirstIn
<1>. QED
  BY <1>1, <1>2
-----------------------------------------------------------------------------
(* The links when a block leaves the list, comes to it or takes the place   *)
(* of another.                                                              *)

\* The links c are the links b with p passed by; or with p between u and d.
PassBy(X, b, c, p) ==
  \A r \in X \ {p} : /\ c[r].next = IF b[r].next = p THEN b[p].next ELSE b[r].next
                     /\ c[r].prev = IF b[r].prev = p THEN b[p].prev ELSE b[r].prev
PutBetween(X, b, c, p, u, d) ==
  /\ c[p].prev = u /\ c[p].next = d
  /\ \A r \in X : /\ c[r].next = IF r = u THEN p ELSE b[r].next
                 /\ c[r].prev = IF r = d THEN p ELSE b[r].prev

LEMMA LinksRemoved ==
  ASSUME NEW X, X \subseteq Positions, NEW b, NEW f, Linked(X, b, f), NEW p \in X, NEW c, PassBy(X, b, c, p)
  PROVE  Linked(X \ {p}, c, IF f = p THEN b[p].next ELSE f)
<1>1. NextIn(X, p, b[p].next) /\ PrevIn(X, p, b[p].prev) /\ FirstIn(X, f)
  BY DEF Linked, LinkedAt
<1>2. ASSUME NEW r \in X \ {p}
      PROVE  LinkedAt(X \ {p}, c, r)
  <2>1. NextIn(X, r, b[r].next) /\ PrevIn(X, r, b[r].prev)
    BY DEF Linked, LinkedAt
  <2>2. NextIn(X \ {p}, r, IF b[r].next = p THEN b[p].next ELSE b[r].next)
    BY <1>1, <2>1, NextRemoved
  <2>3. PrevIn(X \ {p}, r, IF b[r].prev = p THEN b[p].prev ELSE b[r].prev)
    BY <1>1, <2>1, PrevRemoved
  <2>. QED
    BY <2>2, <2>3 DEF LinkedAt, PassBy
<1>3. FirstIn(X \ {p}, IF f = p THEN b[p].next ELSE f)
  BY <1>1, FirstRemoved
<1>. QED
  BY <1>2, <1>3 DEF Linked

LEMMA LinksAdded ==
  ASSUME NEW X, X \subseteq Positions, NEW b, NEW f, Linked(X, b, f), NEW p \in Positions \ X,
         NEW u, NEW d, PrevIn(X, p, u), NextIn(X, p, d), NEW c, PutBetween(X, b, c, p, u, d)
  PROVE  Linked(X \cup {p}, c, IF u = Null THEN p ELSE f)
<1>1. ASSUME NEW r \in X
      PROVE  LinkedAt(X \cup {p}, c, r)
  <2>1. NextIn(X, r, b[r].next) /\ PrevIn(X, r, b[r].prev)
    BY DEF Linked, LinkedAt
  <2>2. NextIn(X \cup {p}, r, IF r = u THEN p ELSE b[r].next)
    BY <2>1, NextAdded
  <2>3. PrevIn(X \cup {p}, r, IF r = d THEN p ELSE b[r].prev)
    BY <2>1, PrevAdded
  <2>. QED
    BY <2>2, <2>3 DEF LinkedAt, PutBetween
<1>2. LinkedAt(X \cup {p}, c, p)
  <2>1. NextIn(X \cup {p}, p, d) /\ PrevIn(X \cup {p}, p, u)
    BY NextAdded, PrevAdded
  <2>. QED
    BY <2>1 DEF LinkedAt, PutBetween
<1>3. FirstIn(X \cup {p}, IF u = Null THEN p ELSE f)
  <2>1. FirstIn(X, f)
    BY DEF Linked
  <2>. QED
    BY <2>1, FirstAdded
<1>. QED
  BY <1>1, <1>2, <1>3 DEF Linked

\* p takes the place of a, with none of X between them.
LEMMA LinksMoved ==
  ASSUME NEW X, X \subseteq Positions, NEW b, NEW f, Linked(X, b, f), NEW a \in X, NEW p \in Positions \ X,
         p < a, \A r \in X : ~ (p < r /\ r < a), NEW c, PutBetween(X \ {a}, b, c, p, b[a].prev, b[a].next)
  PROVE  Linked((X \ {a}) \cup {p}, c, IF f = a THEN p ELSE f)
<1> DEFINE o == [r \in X |-> [next |-> IF b[r].next = a THEN b[a].next ELSE b[r].next,
                              prev |-> IF b[r].prev = a THEN b[a].prev ELSE b[r].prev]]
           g == IF f = a THEN b[a].next ELSE f
<1>0. a # Null /\ p # Null /\ p \in Nat /\ a \in Nat /\ X \ {a} \subseteq Positions /\ p \in Positions \ (X \ {a})
  BY NullNone DEF Positions
<1>1. Linked(X \ {a}, o, g)
  <2>1. PassBy(X, b, o, a)
    BY DEF PassBy
  <2>2. Linked(X \ {a}, o, IF f = a THEN b[a].next ELSE f)
    <3>. HIDE DEF o
    <3>. QED
      BY <2>1, LinksRemoved
  <2>. QED
    BY <2>2
<1>2. NextIn(X, a, b[a].next) /\ PrevIn(X, a, b[a].prev) /\ FirstIn(X, f)
  BY DEF Linked, LinkedAt
<1>3. NextIn(X \ {a}, p, b[a].next)
  <2>1. CASE b[a].next = Null
    <3>1. \A r \in X : ~ (r < a)
      BY <1>2, <2>1 DEF NextIn
    <3>. QED
      BY <1>0, <2>1, <3>1, NullNone DEF NextIn
  <2>2. CASE b[a].next # Null
    <3> DEFINE d == b[a].next
    <3>1. d \in X /\ d < a /\ \A r \in X : ~ (d < r /\ r < a)
      BY <1>2, <2>2 DEF NextIn
    <3>2. d \in X \ {a} /\ d < p
      <4>1. d \in Nat /\ d # p
        BY <3>1, NullNone
      <4>2. ~ (p < d /\ d < a)
        BY <3>1
      <4>. QED
        BY <1>0, <3>1, <4>1, <4>2
    <3>3. ASSUME NEW r \in X, d < r, r < p
          PROVE  FALSE
      <4>1. r \in Nat /\ r < a
        BY <1>0, <3>3, NullNone
      <4>. QED
        BY <3>1, <3>3, <4>1
    <3>. QED
      BY <2>2, <3>2, <3>3 DEF NextIn
  <2>. QED
    BY <2>1, <2>2
<1>4. PrevIn(X \ {a}, p, b[a].prev)
  <2>1. CASE b[a].prev = Null
    <3>1. \A r \in X : ~ (a < r)
      BY <1>2, <2>1 DEF PrevIn
    <3>. QED
      BY <1>0, <2>1, <3>1, NullNone DEF PrevIn
  <2>2. CASE b[a].prev # Null
    <3> DEFINE u == b[a].prev
    <3>1. u \in X /\ a < u /\ \A r \in X : ~ (a < r /\ r < u)
      BY <1>2, <2>2 DEF PrevIn
    <3>2. u \in X \ {a} /\ u \in Nat /\ p < u
      <4>1. u \in X /\ u \in Nat
        BY <3>1, NullNone
      <4>2. a < u
        BY <3>1
      <4>. HIDE DEF u
      <4>. QED
        BY <1>0, <4>1, <4>2
    <3>3. ASSUME NEW r \in X \ {a}, p < r, r < u
          PROVE  FALSE
      <4>0. r \in Nat /\ r # a
        BY <3>3, NullNone
      <4>1. ~ (p < r /\ r < a)
        OBVIOUS
      <4>2. a < r
        BY <1>0, <3>3, <4>0, <4>1
      <4>. QED
        BY <3>1, <3>3, <4>2
    <3>. QED
      BY <2>2, <3>2, <3>3 DEF PrevIn
  <2>. QED
    BY <2>1, <2>2
<1>5. PutBetween(X \ {a}, o, c, p, b[a].prev, b[a].next)
  <2>. SUFFICES ASSUME NEW r \in X \ {a}
                PROVE  /\ c[r].next = IF r = b[a].prev THEN p ELSE o[r].next
                       /\ c[r].prev = IF r = b[a].next THEN p ELSE o[r].prev
    <3>. HIDE DEF o
    <3>. QED
      BY DEF PutBetween
  <2>1. LinkedAt(X, b, r) /\ LinkedAt(X, b, a)
    BY DEF Linked
  <2>2. (b[r].next = a <=> r = b[a].prev) /\ (b[r].prev = a <=> r = b[a].next)
    BY <2>1, TurnRound
  <2>. QED
    BY <2>2 DEF PutBetween
<1>6. (IF b[a].prev = Null THEN p ELSE g) = IF f = a THEN p ELSE f
  BY FirstHasNoPrev
<1>7. Linked((X \ {a}) \cup {p}, c, IF b[a].prev = Null THEN p ELSE g)
  <2>. HIDE DEF o, g
  <2>. QED
    BY <1>0, <1>1, <1>3, <1>4, <1>5, LinksAdded
<1>. QED
  BY <1>6, <1>7

\* The links depend on nothing else.
LEMMA LinksSame ==
  ASSUME NEW X, NEW b, NEW f, Linked(X, b, f), NEW c, \A r \in X : c[r].next = b[r].next /\ c[r].prev = b[r].prev
  PROVE  Linked(X, c, f)
BY DEF Linked, LinkedAt
-----------------------------------------------------------------------------
(* What the operations on headers do to their sizes: nothing, one block     *)
(* becomes two, or two become one.                                          *)

SameSizes(b, c) == DOMAIN c = DOMAIN b /\ \A r \in DOMAIN b : c[r].size = b[r].size
Splits(b, c, p, at) ==
  /\ DOMAIN c = DOMAIN b \cup {at} /\ c[p].size = at - p /\ c[at].size = b[p].size - (at - p)
  /\ \A r \in DOMAIN b \ {p} : c[r].size = b[r].size
Joins(b, c, p, a) ==
  /\ DOMAIN c = DOMAIN b \ {a} /\ c[p].size = b[p].size + b[a].size
  /\ \A r \in DOMAIN b \ {p, a} : c[r].size = b[r].size

LEMMA HeaderType ==
  ASSUME NEW b, Headers(b), NEW p \in DOMAIN b
  PROVE  /\ p \in Nat /\ p <= Units /\ p # Null /\ b[p] \in Field /\ b[p].size \in Nat /\ b[p].used \in BOOLEAN
         /\ b[p].prev \in Positions \cup {Null} /\ b[p].next \in Positions \cup {Null}
<1>1. p \in Positions /\ b[p] \in Field
  BY DEF Headers
<1>2. p \in Nat /\ p <= Units /\ p # Null
  BY <1>1, ScratchAllocatorAssumption DEF Positions
<1>. QED
  BY <1>1, <1>2 DEF Field

LEMMA TileSame ==
  ASSUME NEW b, NEW c, Tile(b), SameSizes(b, c)
  PROVE  Tile(c)
BY DEF Tile, TileAt, SameSizes

\* A block ends at another, or at the end of the buffer.
LEMMA TileEnds ==
  ASSUME NEW b, Headers(b), Tile(b), NEW p \in DOMAIN b
  PROVE  /\ p + b[p].size \in Nat /\ p + 3 <= p + b[p].size /\ p + b[p].size <= Units
         /\ \A q \in DOMAIN b : ~ (p < q /\ q < p + b[p].size)
         /\ p + b[p].size \in DOMAIN b \/ p + b[p].size = Units
<1>0. p \in Nat /\ b[p].size \in Nat
  BY HeaderType
<1>1. TileAt(b, p)
  BY DEF Tile
<1>2. p + b[p].size \in DOMAIN b \cup {Units}
  BY <1>1 DEF TileAt
<1>3. p + b[p].size <= Units
  <2>1. CASE p + b[p].size \in DOMAIN b
    BY <2>1, HeaderType
  <2>2. CASE p + b[p].size = Units
    BY <2>2, ScratchAllocatorAssumption
  <2>. QED
    BY <1>2, <2>1, <2>2
<1>. QED
  BY <1>0, <1>1, <1>3 DEF TileAt

LEMMA TileSplits ==
  ASSUME NEW b, Headers(b), Tile(b), NEW p \in DOMAIN b, NEW at \in Nat, p + 3 <= at, at + 3 <= p + b[p].size,
         NEW c, Splits(b, c, p, at)
  PROVE  Tile(c)
<1>0. p \in Nat /\ b[p].size \in Nat /\ p # at /\ at \notin DOMAIN b
  BY HeaderType, TileEnds
<1>1. p + c[p].size = at /\ at + c[at].size = p + b[p].size /\ DOMAIN c = DOMAIN b \cup {at}
  BY <1>0 DEF Splits
<1>2. TileAt(c, p)
  <2>1. \A q \in DOMAIN c : ~ (p < q /\ q < at)
    <3>1. ASSUME NEW q \in DOMAIN b, p < q, q < at
          PROVE  FALSE
      BY <1>0, <3>1, TileEnds, HeaderType
    <3>. QED
      BY <1>1, <3>1
  <2>. QED
    BY <1>0, <1>1, <2>1 DEF TileAt
<1>3. TileAt(c, at)
  <2>1. \A q \in DOMAIN c : ~ (at < q /\ q < p + b[p].size)
    <3>1. ASSUME NEW q \in DOMAIN b, at < q, q < p + b[p].size
          PROVE  FALSE
      BY <1>0, <3>1, TileEnds, HeaderType
    <3>. QED
      BY <1>0, <1>1, <3>1
  <2>2. p + b[p].size \in DOMAIN b \cup {Units}
    BY TileEnds
  <2>. QED
    BY <1>0, <1>1, <2>1, <2>2 DEF TileAt
<1>4. ASSUME NEW r \in DOMAIN b \ {p}
      PROVE  TileAt(c, r)
  <2>0. r \in Nat /\ b[r].size \in Nat /\ c[r].size = b[r].size
    BY HeaderType DEF Splits
  <2>1. ~ (r < at /\ at < r + b[r].size)
    <3>1. ~ (r < p /\ p < r + b[r].size) /\ ~ (p < r /\ r < p + b[p].size)
      BY TileEnds
    <3>. QED
      BY <1>0, <2>0, <3>1
  <2>2. r + 3 <= r + b[r].size /\ r + b[r].size \in DOMAIN b \cup {Units} /\ \A q \in DOMAIN b : ~ (r < q /\ q < r + b[r].size)
    BY TileEnds
  <2>. QED
    BY <1>1, <2>0, <2>1, <2>2 DEF TileAt
<1>. QED
  BY <1>1, <1>2, <1>3, <1>4 DEF Tile

LEMMA TileJoins ==
  ASSUME NEW b, Headers(b), Tile(b), NEW p \in DOMAIN b, NEW a \in DOMAIN b, a = p + b[p].size,
         NEW c, Joins(b, c, p, a)
  PROVE  Tile(c)
<1>0. p \in Nat /\ b[p].size \in Nat /\ a \in Nat /\ b[a].size \in Nat /\ p + 3 <= a /\ a + 3 <= a + b[a].size /\ p # a
  BY HeaderType, TileEnds
<1>1. p + c[p].size = a + b[a].size /\ DOMAIN c = DOMAIN b \ {a} /\ c[p].size \in Nat
  BY <1>0 DEF Joins
<1>2. a + b[a].size \in DOMAIN c \cup {Units}
  BY <1>0, <1>1, TileEnds
<1>3. TileAt(c, p)
  <2>1. ASSUME NEW q \in DOMAIN c, p < q, q < a + b[a].size
        PROVE  FALSE
    <3>1. q \in Nat /\ q # a /\ q \in DOMAIN b
      BY <1>1, HeaderType
    <3>2. ~ (p < q /\ q < a) /\ ~ (a < q /\ q < a + b[a].size)
      BY <3>1, TileEnds
    <3>. QED
      BY <1>0, <2>1, <3>1, <3>2
  <2>. QED
    BY <1>0, <1>1, <1>2, <2>1 DEF TileAt
<1>4. ASSUME NEW r \in DOMAIN b \ {p, a}
      PROVE  TileAt(c, r)
  <2>0. r \in Nat /\ b[r].size \in Nat /\ c[r].size = b[r].size
    BY HeaderType DEF Joins
  <2>1. r + b[r].size # a
    <3>1. ~ (p < r /\ r < a) /\ ~ (r < p /\ p < r + b[r].size) /\ r + 3 <= r + b[r].size
      BY TileEnds
    <3>. QED
      BY <1>0, <2>0, <3>1
  <2>2. r + 3 <= r + b[r].size /\ r + b[r].size \in DOMAIN b \cup {Units} /\ \A q \in DOMAIN b : ~ (r < q /\ q < r + b[r].size)
    BY TileEnds
  <2>. QED
    BY <1>1, <2>0, <2>1, <2>2 DEF TileAt
<1>5. 0 \in DOMAIN c
  BY <1>0, <1>1 DEF Tile
<1>. QED
  BY <1>1, <1>3, <1>4, <1>5 DEF Tile
-----------------------------------------------------------------------------
(* The operations, one by one.                                              *)

Links == Positions \cup {Null}

\* c has the headers b but for some links.
Alike(b, c) ==
  /\ Headers(c) /\ DOMAIN c = DOMAIN b
  /\ \A r \in DOMAIN b : c[r].size = b[r].size /\ c[r].used = b[r].used
NextSet(b, c, u, q) == \A r \in DOMAIN b : c[r].prev = b[r].prev /\ c[r].next = IF r = u THEN q ELSE b[r].next
PrevSet(b, c, u, q) == \A r \in DOMAIN b : c[r].next = b[r].next /\ c[r].prev = IF r = u THEN q ELSE b[r].prev

LEMMA SetNextDoes ==
  ASSUME NEW b, Headers(b), NEW u \in DOMAIN b \cup {Null}, NEW q \in Links
  PROVE  Alike(b, SetNext(b, u, q)) /\ NextSet(b, SetNext(b, u, q), u, q)
<1>1. CASE u = Null
  <2>1. \A r \in DOMAIN b : r # u
    BY <1>1, HeaderType
  <2>. QED
    BY <1>1, <2>1 DEF Alike, NextSet, SetNext
<1>2. CASE u # Null
  <2> DEFINE c == [b EXCEPT ![u].next = q]
  <2>1. SetNext(b, u, q) = c
    BY <1>2 DEF SetNext
  <2>2. u \in DOMAIN b /\ b \in [DOMAIN b -> Field] /\ DOMAIN b \subseteq Positions
    BY <1>2 DEF Headers
  <2>3. DOMAIN c = DOMAIN b /\ c \in [DOMAIN b -> Field]
    BY <2>2 DEF Field, Links
  <2>4. \A r \in DOMAIN b : /\ c[r].size = b[r].size /\ c[r].used = b[r].used /\ c[r].prev = b[r].prev
                            /\ c[r].next = IF r = u THEN q ELSE b[r].next
    BY <2>2 DEF Field
  <2>. HIDE DEF c
  <2>. QED
    BY <2>1, <2>2, <2>3, <2>4 DEF Alike, NextSet, Headers
<1>. QED
  BY <1>1, <1>2

LEMMA SetPrevDoes ==
  ASSUME NEW b, Headers(b), NEW u \in DOMAIN b \cup {Null}, NEW q \in Links
  PROVE  Alike(b, SetPrev(b, u, q)) /\ PrevSet(b, SetPrev(b, u, q), u, q)
<1>1. CASE u = Null
  <2>1. \A r \in DOMAIN b : r # u
    BY <1>1, HeaderType
  <2>. QED
    BY <1>1, <2>1 DEF Alike, PrevSet, SetPrev
<1>2. CASE u # Null
  <2> DEFINE c == [b EXCEPT ![u].prev = q]
  <2>1. SetPrev(b, u, q) = c
    BY <1>2 DEF SetPrev
  <2>2. u \in DOMAIN b /\ b \in [DOMAIN b -> Field] /\ DOMAIN b \subseteq Positions
    BY <1>2 DEF Headers
  <2>3. DOMAIN c = DOMAIN b /\ c \in [DOMAIN b -> Field]
    BY <2>2 DEF Field, Links
  <2>4. \A r \in DOMAIN b : /\ c[r].size = b[r].size /\ c[r].used = b[r].used /\ c[r].next = b[r].next
                            /\ c[r].prev = IF r = u THEN q ELSE b[r].prev
    BY <2>2 DEF Field
  <2>. HIDE DEF c
  <2>. QED
    BY <2>1, <2>2, <2>3, <2>4 DEF Alike, PrevSet, Headers
<1>. QED
  BY <1>1, <1>2

\* Both, in either order.
BothSet(b, c, u, v, d, w) ==
  \A r \in DOMAIN b : c[r].next = (IF r = u THEN v ELSE b[r].next) /\ c[r].prev = IF r = d THEN w ELSE b[r].prev

LEMMA BothSetDoes ==
  ASSUME NEW b, Headers(b), NEW u \in DOMAIN b \cup {Null}, NEW v \in Links,
         NEW d \in DOMAIN b \cup {Null}, NEW w \in Links
  PROVE  /\ Alike(b, SetPrev(SetNext(b, u, v), d, w))
         /\ BothSet(b, SetPrev(SetNext(b, u, v), d, w), u, v, d, w)
<1> DEFINE a == SetNext(b, u, v)
           c == SetPrev(a, d, w)
<1>1. Alike(b, a) /\ NextSet(b, a, u, v)
  BY SetNextDoes
<1>2. Alike(a, c) /\ PrevSet(a, c, d, w)
  <2>1. Headers(a) /\ DOMAIN a = DOMAIN b
    BY <1>1 DEF Alike
  <2>. HIDE DEF a
  <2>. QED
    BY <2>1, SetPrevDoes
<1>. HIDE DEF a, c
<1>3. Alike(b, c) /\ BothSet(b, c, u, v, d, w)
  BY <1>1, <1>2 DEF Alike, NextSet, PrevSet, BothSet
<1>. QED
  BY <1>3 DEF a, c

\* The links of a free block lead to free blocks.
LEMMA LinksInside ==
  ASSUME NEW X, NEW b, NEW f, Linked(X, b, f), NEW p \in X
  PROVE  b[p].next \in X \cup {Null} /\ b[p].prev \in X \cup {Null} /\ f \in X \cup {Null}
<1>1. NextIn(X, p, b[p].next) /\ PrevIn(X, p, b[p].prev) /\ FirstIn(X, f)
  BY DEF Linked, LinkedAt
<1>. QED
  BY <1>1 DEF NextIn, PrevIn, FirstIn

LEMMA FreesType ==
  ASSUME NEW b, Headers(b)
  PROVE  Frees(b) \subseteq Positions /\ Frees(b) \subseteq DOMAIN b
BY DEF Frees, Headers

\* A block leaves the list.
LEMMA UnlinkDoes ==
  ASSUME NEW m, Headers(m.block), Linked(Frees(m.block), m.block, m.free), NEW p \in Frees(m.block)
  PROVE  LET v == Unlink(m, p)
         IN  /\ Alike(m.block, v.block) /\ v.free \in Links
             /\ Linked(Frees(m.block) \ {p}, v.block, v.free)
<1> DEFINE b == m.block
           f == m.free
           X == Frees(b)
           c == SetPrev(SetNext(b, b[p].prev, b[p].next), b[p].next, b[p].prev)
           g == IF f # p THEN f ELSE IF b[p].prev # Null THEN b[p].prev ELSE b[p].next
<1>0. Headers(b) /\ Linked(X, b, f) /\ p \in X /\ X \subseteq Positions /\ X \subseteq DOMAIN b
  BY FreesType
<1>1. Unlink(m, p).block = c /\ Unlink(m, p).free = g
  BY DEF Unlink
<1>2. b[p].next \in X \cup {Null} /\ b[p].prev \in X \cup {Null} /\ f \in X \cup {Null}
  <2>. HIDE DEF b, f, X
  <2>. QED
    BY <1>0, LinksInside
<1>. HIDE DEF b, f, X
<1>3. Alike(b, c) /\ BothSet(b, c, b[p].prev, b[p].next, b[p].next, b[p].prev)
  <2>1. b[p].next \in DOMAIN b \cup {Null} /\ b[p].prev \in DOMAIN b \cup {Null} /\ b[p].next \in Links /\ b[p].prev \in Links
    BY <1>0, <1>2 DEF Links
  <2>. QED
    BY <1>0, <2>1, BothSetDoes
<1>. HIDE DEF c
<1>4. PassBy(X, b, c, p)
  <2>1. ASSUME NEW r \in X \ {p}
        PROVE  /\ c[r].next = IF b[r].next = p THEN b[p].next ELSE b[r].next
               /\ c[r].prev = IF b[r].prev = p THEN b[p].prev ELSE b[r].prev
    <3>1. LinkedAt(X, b, r) /\ LinkedAt(X, b, p)
      BY <1>0 DEF Linked
    <3>2. (b[r].next = p <=> b[p].prev = r) /\ (b[p].next = r <=> b[r].prev = p)
      BY <1>0, <3>1, TurnRound
    <3>3. c[r].next = (IF r = b[p].prev THEN b[p].next ELSE b[r].next) /\ c[r].prev = IF r = b[p].next THEN b[p].prev ELSE b[r].prev
      BY <1>0, <1>3 DEF BothSet
    <3>. QED
      BY <3>2, <3>3
  <2>. QED
    BY <2>1 DEF PassBy
<1>5. g = IF f = p THEN b[p].next ELSE f
  BY <1>0, FirstHasNoPrev
<1>6. Linked(X \ {p}, c, g)
  BY <1>0, <1>4, <1>5, LinksRemoved
<1>7. g \in Links
  BY <1>0, <1>2, <1>5 DEF Links
<1>. HIDE DEF g
<1>. QED
  BY <1>1, <1>3, <1>6, <1>7 DEF b, X
-----------------------------------------------------------------------------
\* alloc_tag() takes a block out of the list.
LEMMA AllocTagDoes ==
  ASSUME NEW m, InOrder(m.block, m.free), NEW p \in Frees(m.block)
  PROVE  LET v == AllocTag(m, p)
         IN  /\ InOrder(v.block, v.free) /\ SameSizes(m.block, v.block)
             /\ Frees(v.block) = Frees(m.block) \ {p}
<1> DEFINE b == m.block
           c == Unlink(m, p).block
           g == Unlink(m, p).free
           e == [c EXCEPT ![p] = [@ EXCEPT !.used = TRUE, !.prev = Null, !.next = Null]]
<1>1. AllocTag(m, p).block = e /\ AllocTag(m, p).free = g
  BY DEF AllocTag
<1>2. Headers(b) /\ Tile(b) /\ Linked(Frees(b), b, m.free)
  BY DEF InOrder
<1>3. Alike(b, c) /\ g \in Links /\ Linked(Frees(b) \ {p}, c, g)
  BY <1>2, UnlinkDoes
<1>. HIDE DEF c, g
<1>4. Headers(c) /\ DOMAIN c = DOMAIN b /\ p \in DOMAIN c /\ c \in [DOMAIN b -> Field]
  BY <1>3 DEF Alike, Frees, Headers
<1>5. /\ DOMAIN e = DOMAIN b
      /\ \A r \in DOMAIN b : /\ e[r].size = c[r].size
                             /\ r # p => e[r] = c[r]
                             /\ r = p => e[r].used
                             /\ e[r] \in Field
  BY <1>4 DEF Field
<1>6. e \in [DOMAIN b -> Field]
  BY <1>4, <1>5
<1>. HIDE DEF e
<1>7. Headers(e)
  BY <1>4, <1>5, <1>6 DEF Headers
<1>8. SameSizes(b, e)
  BY <1>3, <1>5 DEF SameSizes, Alike
<1>9. Frees(e) = Frees(b) \ {p}
  BY <1>3, <1>5 DEF Frees, Alike
<1>10. Linked(Frees(e), e, g)
  <2>1. \A r \in Frees(e) : e[r].next = c[r].next /\ e[r].prev = c[r].prev
    BY <1>5, <1>9 DEF Frees
  <2>. QED
    BY <1>3, <1>9, <2>1, LinksSame
<1>11. Tile(e)
  BY <1>2, <1>8, TileSame
<1>12. InOrder(e, g)
  BY <1>3, <1>7, <1>10, <1>11 DEF InOrder, Links
<1>. QED
  BY <1>1, <1>8, <1>9, <1>12

\* A block that was in use is put between the free ones around it.
LEMMA PlacedDoes ==
  ASSUME NEW b, NEW f, InOrder(b, f), NEW p \in DOMAIN b \ Frees(b), NEW u, NEW d,
         PrevIn(Frees(b), p, u), NextIn(Frees(b), p, d)
  PROVE  LET e == SetPrev(SetNext([b EXCEPT ![p] = FreeBlock(@.size, u, d)], u, p), d, p)
         IN  /\ InOrder(e, IF u = Null THEN p ELSE f) /\ SameSizes(b, e)
             /\ Frees(e) = Frees(b) \cup {p}
<1> DEFINE X == Frees(b)
           c == [b EXCEPT ![p] = FreeBlock(@.size, u, d)]
           e == SetPrev(SetNext(c, u, p), d, p)
           g == IF u = Null THEN p ELSE f
<1>1. Headers(b) /\ Tile(b) /\ f \in Links /\ Linked(X, b, f)
  BY DEF InOrder, Links
<1>2. u \in X \cup {Null} /\ d \in X \cup {Null} /\ u # p /\ d # p /\ p \in Links /\ p # Null
  <2>1. p # Null /\ p \in Positions /\ p \notin X
    BY <1>1, HeaderType DEF Headers
  <2>2. u \in X \cup {Null} /\ d \in X \cup {Null}
    BY DEF PrevIn, NextIn
  <2>. QED
    BY <2>1, <2>2 DEF Links
<1>2a. X \subseteq Positions /\ X \subseteq DOMAIN b
  BY <1>1, FreesType
<1>3. DOMAIN c = DOMAIN b /\ p \in DOMAIN c /\ c[p] = FreeBlock(b[p].size, u, d) /\ \A r \in DOMAIN b : r # p => c[r] = b[r]
  BY <1>1 DEF Headers
<1>4. Headers(c)
  <2>1. b[p].size \in Nat
    BY <1>1, HeaderType
  <2>2. u \in Links /\ d \in Links
    BY <1>2, <1>2a DEF Links
  <2>3. FreeBlock(b[p].size, u, d) \in Field
    BY <2>1, <2>2 DEF FreeBlock, Field, Links
  <2>4. c \in [DOMAIN b -> Field]
    BY <1>1, <2>3 DEF Headers
  <2>. HIDE DEF c
  <2>. QED
    BY <1>1, <1>3, <2>4 DEF Headers
<1>. HIDE DEF c, X
<1>5. Alike(c, e) /\ BothSet(c, e, u, p, d, p)
  <2>1. u \in DOMAIN c \cup {Null} /\ d \in DOMAIN c \cup {Null}
    BY <1>2, <1>2a, <1>3
  <2>. QED
    BY <1>2, <1>4, <2>1, BothSetDoes
<1>. HIDE DEF e
<1>6. DOMAIN e = DOMAIN b /\ Headers(e) /\ SameSizes(b, e)
  <2>1. c[p].size = b[p].size
    BY <1>3 DEF FreeBlock
  <2>. QED
    BY <1>3, <1>5, <2>1 DEF Alike, SameSizes
<1>7. Frees(e) = X \cup {p}
  <2>1. \A r \in DOMAIN b : e[r].used = c[r].used
    BY <1>3, <1>5 DEF Alike
  <2>2. ~ c[p].used
    BY <1>3 DEF FreeBlock
  <2>. QED
    BY <1>3, <1>6, <2>1, <2>2 DEF Frees, X
<1>8. PutBetween(X, b, e, p, u, d)
  <2>1. e[p].prev = u /\ e[p].next = d
    <3>1. c[p].prev = u /\ c[p].next = d
      BY <1>3 DEF FreeBlock
    <3>. QED
      BY <1>2, <1>3, <1>5, <3>1 DEF BothSet
  <2>2. ASSUME NEW r \in X
        PROVE  e[r].next = (IF r = u THEN p ELSE b[r].next) /\ e[r].prev = IF r = d THEN p ELSE b[r].prev
    <3>1. r \in DOMAIN c /\ c[r] = b[r]
      BY <1>2a, <1>3 DEF X
    <3>. QED
      BY <1>5, <3>1 DEF BothSet
  <2>. QED
    BY <2>1, <2>2 DEF PutBetween
<1>9. Linked(X \cup {p}, e, g)
  <2>1. p \in Positions \ X
    BY <1>2 DEF Links, X
  <2>. QED
    BY <1>1, <1>2a, <1>8, <2>1, LinksAdded DEF X
<1>10. InOrder(e, g)
  BY <1>1, <1>2, <1>6, <1>7, <1>9, TileSame DEF InOrder, Links
<1>. QED
  BY <1>6, <1>7, <1>10 DEF c, e, X

\* The block after p is free: p, which was in use, takes it in and takes its place.
LEMMA MergeUpDoes ==
  ASSUME NEW m, InOrder(m.block, m.free), NEW p \in DOMAIN m.block \ Frees(m.block), NEW a \in Frees(m.block),
         a = p + m.block[p].size
  PROVE  LET v == MergeUp(m, p)
         IN  /\ InOrder(v.block, v.free) /\ Joins(m.block, v.block, p, a)
             /\ Frees(v.block) = (Frees(m.block) \ {a}) \cup {p}
<1> DEFINE b == m.block
           f == m.free
           X == Frees(b)
           u == b[a].prev
           d == b[a].next
           w == Without(b, a)
           c == [w EXCEPT ![p] = FreeBlock(@.size + b[a].size, u, d)]
           e == SetPrev(SetNext(c, u, p), d, p)
           g == IF f = a THEN p ELSE f
<1>1. Headers(b) /\ Tile(b) /\ f \in Links /\ Linked(X, b, f) /\ X \subseteq Positions /\ X \subseteq DOMAIN b
  BY FreesType DEF InOrder, Links
<1>2. MergeUp(m, p).block = e /\ MergeUp(m, p).free = g
  BY DEF MergeUp, AfterBlock
<1>. HIDE DEF b, f
<1>3. p \in DOMAIN b /\ p \notin X /\ a \in X /\ a = p + b[p].size
  BY DEF b, X
<1>4. /\ p \in Nat /\ a \in Nat /\ p < a /\ p # a /\ p # Null /\ p \in Positions
      /\ b[p].size \in Nat /\ b[a].size \in Nat /\ b[a].size + b[p].size \in Nat
  <2>1. a \in DOMAIN b
    BY <1>1, <1>3
  <2>2. p + 3 <= p + b[p].size /\ p \in Nat /\ a \in Nat /\ b[p].size \in Nat /\ b[a].size \in Nat /\ p # Null
    BY <1>1, <1>3, <2>1, TileEnds, HeaderType
  <2>3. p \in Positions
    BY <1>1, <1>3 DEF Headers
  <2>. QED
    BY <1>3, <2>2, <2>3
<1>5. u \in (X \ {a}) \cup {Null} /\ d \in (X \ {a}) \cup {Null}
  <2>1. u \in X \cup {Null} /\ d \in X \cup {Null}
    <3>. HIDE DEF X
    <3>. QED
      BY <1>1, <1>3, LinksInside
  <2>2. NextIn(X, a, d) /\ PrevIn(X, a, u)
    BY <1>1, <1>3 DEF Linked, LinkedAt
  <2>3. a # Null
    BY <1>1, <1>3, NullNone
  <2>4. u # a /\ d # a
    BY <1>4, <2>2, <2>3 DEF NextIn, PrevIn
  <2>. QED
    BY <2>1, <2>4
<1>5a. u \in (DOMAIN b \ {a}) \cup {Null} /\ d \in (DOMAIN b \ {a}) \cup {Null} /\ u \in Links /\ d \in Links /\ u # p /\ d # p
  BY <1>1, <1>3, <1>4, <1>5 DEF Links
<1>. HIDE DEF X, u, d
<1>6. DOMAIN w = DOMAIN b \ {a} /\ \A r \in DOMAIN b \ {a} : w[r] = b[r]
  BY DEF Without
<1>7. w \in [DOMAIN b \ {a} -> Field]
  BY <1>1 DEF Without, Headers
<1>. HIDE DEF w
<1>8. /\ DOMAIN c = DOMAIN b \ {a} /\ p \in DOMAIN c /\ c[p] = FreeBlock(b[p].size + b[a].size, u, d)
      /\ \A r \in DOMAIN b \ {a} : r # p => c[r] = b[r]
  BY <1>3, <1>4, <1>6, <1>7
<1>9. Headers(c)
  <2>1. FreeBlock(b[p].size + b[a].size, u, d) \in Field
    BY <1>4, <1>5a DEF FreeBlock, Field, Links
  <2>2. c \in [DOMAIN b \ {a} -> Field]
    BY <1>3, <1>4, <1>6, <1>7, <2>1
  <2>. HIDE DEF c
  <2>. QED
    BY <1>1, <1>8, <2>2 DEF Headers
<1>. HIDE DEF c
<1>10. Alike(c, e) /\ BothSet(c, e, u, p, d, p)
  <2>1. u \in DOMAIN c \cup {Null} /\ d \in DOMAIN c \cup {Null} /\ p \in Links
    BY <1>4, <1>5a, <1>8 DEF Links
  <2>. QED
    BY <1>9, <2>1, BothSetDoes
<1>. HIDE DEF e
<1>11. Headers(e) /\ DOMAIN e = DOMAIN b \ {a} /\ Joins(b, e, p, a)
  <2>1. c[p].size = b[p].size + b[a].size
    BY <1>8 DEF FreeBlock
  <2>2. \A r \in DOMAIN b \ {a} : e[r].size = c[r].size
    BY <1>8, <1>10 DEF Alike
  <2>. QED
    BY <1>8, <1>10, <2>1, <2>2 DEF Alike, Joins
<1>12. Frees(e) = (X \ {a}) \cup {p}
  <2>1. \A r \in DOMAIN b \ {a} : e[r].used = c[r].used
    BY <1>8, <1>10 DEF Alike
  <2>2. ~ c[p].used
    BY <1>8 DEF FreeBlock
  <2>. QED
    BY <1>8, <1>11, <2>1, <2>2 DEF Frees, X
<1>13. PutBetween(X \ {a}, b, e, p, u, d)
  <2>1. e[p].prev = u /\ e[p].next = d
    <3>1. c[p].prev = u /\ c[p].next = d
      BY <1>8 DEF FreeBlock
    <3>. QED
      BY <1>5a, <1>8, <1>10, <3>1 DEF BothSet
  <2>2. ASSUME NEW r \in X \ {a}
        PROVE  e[r].next = (IF r = u THEN p ELSE b[r].next) /\ e[r].prev = IF r = d THEN p ELSE b[r].prev
    <3>1. r \in DOMAIN c /\ c[r] = b[r]
      BY <1>1, <1>3, <1>8
    <3>. QED
      BY <1>10, <3>1 DEF BothSet
  <2>. QED
    BY <2>1, <2>2 DEF PutBetween
<1>14. Linked((X \ {a}) \cup {p}, e, g)
  <2>1. p \in Positions \ X
    BY <1>3, <1>4
  <2>2. \A r \in X : ~ (p < r /\ r < a)
    BY <1>1, <1>3, TileEnds
  <2>. QED
    BY <1>1, <1>3, <1>4, <1>13, <2>1, <2>2, LinksMoved DEF u, d
<1>15. Tile(e)
  BY <1>1, <1>3, <1>11, TileJoins
<1>16. InOrder(e, g)
  <2>1. g \in Links
    BY <1>1, <1>4 DEF Links
  <2>. QED
    BY <1>11, <1>12, <1>14, <1>15, <2>1 DEF InOrder, Links
<1>. QED
  BY <1>2, <1>11, <1>12, <1>16 DEF b, X
-----------------------------------------------------------------------------
\* A free block right below a free one is the next in the list.
LEMMA TouchingIsNext ==
  ASSUME NEW b, NEW f, InOrder(b, f), NEW p \in Frees(b), NEW r \in Frees(b), r + b[r].size = p
  PROVE  b[p].next = r /\ b[r].prev = p
<1>1. Headers(b) /\ Tile(b) /\ Linked(Frees(b), b, f) /\ Frees(b) \subseteq Positions /\ Frees(b) \subseteq DOMAIN b
  BY FreesType DEF InOrder
<1>2. r \in DOMAIN b /\ r # Null /\ r < p /\ p # Null
  BY <1>1, TileEnds, HeaderType
<1>3. \A q \in Frees(b) : ~ (r < q /\ q < p)
  BY <1>1, TileEnds
<1>4. NextIn(Frees(b), p, r) /\ PrevIn(Frees(b), r, p)
  BY <1>2, <1>3 DEF NextIn, PrevIn
<1>5. NextIn(Frees(b), p, b[p].next) /\ PrevIn(Frees(b), r, b[r].prev)
  BY <1>1 DEF Linked, LinkedAt
<1>. QED
  BY <1>1, <1>4, <1>5, NextUnique, PrevUnique

\* The free block p goes into the free one right below it, if there is one.
LEMMA MergeDownDoes ==
  ASSUME NEW m, InOrder(m.block, m.free), NEW p \in Frees(m.block)
  PROVE  LET v == MergeDown(m, p)
             n == m.block[p].next
         IN  IF n \in Frees(m.block) /\ n + m.block[n].size = p
             THEN /\ InOrder(v.block, v.free) /\ Joins(m.block, v.block, n, p)
                  /\ Frees(v.block) = Frees(m.block) \ {p}
             ELSE v = m
<1> DEFINE b == m.block
           f == m.free
           X == Frees(b)
           n == b[p].next
           u == b[p].prev
           w == Without(b, p)
           c == [w EXCEPT ![n].size = @ + b[p].size, ![n].prev = u]
           e == SetNext(c, u, n)
           g == IF f = p THEN n ELSE f
<1>1. Headers(b) /\ Tile(b) /\ f \in Links /\ Linked(X, b, f) /\ X \subseteq Positions /\ X \subseteq DOMAIN b /\ p \in X
  BY FreesType DEF InOrder, Links
<1>2. n \in X \cup {Null} /\ u \in X \cup {Null} /\ Null \notin X
  <2>. HIDE DEF b, f, X
  <2>. QED
    BY <1>1, LinksInside, NullNone
<1>3. CASE ~ (n \in X /\ n + b[n].size = p)
  <2>1. n = Null \/ n + b[n].size # p
    BY <1>2, <1>3
  <2>2. MergeDown(m, p) = m
    BY <2>1 DEF MergeDown, AfterBlock
  <2>. QED
    BY <1>3, <2>2
<1>4. CASE n \in X /\ n + b[n].size = p
  <2>1. b[n].prev = p
    <3>. HIDE DEF b, f, X, n
    <3>1. InOrder(b, f)
      BY DEF b, f
    <3>. QED
      BY <1>1, <1>4, <3>1, TouchingIsNext DEF X
  <2>2. MergeDown(m, p).block = e /\ MergeDown(m, p).free = g
    BY <1>2, <1>4, <2>1 DEF MergeDown, AfterBlock
  <2>. HIDE DEF b, f
  <2>3. /\ n \in DOMAIN b \ {p} /\ n \in Nat /\ b[p].size \in Nat /\ b[n].size \in Nat /\ b[n].size + b[p].size \in Nat
        /\ n # Null /\ n \in Links /\ u \in Links
    <3>1. n \in DOMAIN b /\ p \in DOMAIN b
      BY <1>1, <1>4
    <3>2. n + 3 <= n + b[n].size /\ n \in Nat /\ b[p].size \in Nat /\ b[n].size \in Nat /\ n # Null
      BY <1>1, <3>1, TileEnds, HeaderType
    <3>3. n # p
      BY <1>4, <3>2
    <3>4. n \in Links /\ u \in Links
      BY <1>1, <1>2 DEF Links
    <3>. QED
      BY <3>1, <3>2, <3>3, <3>4
  <2>4. u \in (X \ {p}) \cup {Null} /\ u # n
    <3>1. PrevIn(X, p, u) /\ NextIn(X, p, n)
      BY <1>1 DEF Linked, LinkedAt
    <3>2. p \in Nat
      BY <1>1, NullNone
    <3>. QED
      BY <1>2, <2>3, <3>1, <3>2 DEF PrevIn, NextIn
  <2>. HIDE DEF X, u, n
  <2>5. DOMAIN w = DOMAIN b \ {p} /\ \A r \in DOMAIN b \ {p} : w[r] = b[r]
    BY DEF Without
  <2>6. w \in [DOMAIN b \ {p} -> Field]
    BY <1>1 DEF Without, Headers
  <2>. HIDE DEF w
  <2>7. /\ DOMAIN c = DOMAIN b \ {p}
        /\ \A r \in DOMAIN b \ {p} : r # n => c[r] = b[r]
        /\ c[n].size = b[n].size + b[p].size /\ c[n].prev = u /\ c[n].next = b[n].next /\ c[n].used = b[n].used
    BY <2>3, <2>5, <2>6 DEF Field
  <2>8. Headers(c)
    <3>1. c \in [DOMAIN b \ {p} -> Field]
      BY <2>3, <2>5, <2>6 DEF Field, Links
    <3>. HIDE DEF c
    <3>. QED
      BY <1>1, <2>7, <3>1 DEF Headers
  <2>. HIDE DEF c
  <2>9. Alike(c, e) /\ NextSet(c, e, u, n)
    <3>1. u \in DOMAIN c \cup {Null}
      BY <1>1, <2>4, <2>7
    <3>. QED
      BY <2>3, <2>8, <3>1, SetNextDoes
  <2>. HIDE DEF e
  <2>10. Headers(e) /\ DOMAIN e = DOMAIN b \ {p} /\ Joins(b, e, n, p)
    BY <2>3, <2>7, <2>9 DEF Alike, Joins
  <2>11. Frees(e) = X \ {p}
    <3>1. ASSUME NEW r \in DOMAIN b \ {p}
          PROVE  e[r].used = b[r].used
      BY <2>7, <2>9 DEF Alike
    <3>. QED
      BY <2>10, <3>1 DEF Frees, X
  <2>12. PassBy(X, b, e, p)
    <3>1. ASSUME NEW r \in X \ {p}
          PROVE  /\ e[r].next = IF b[r].next = p THEN b[p].next ELSE b[r].next
                 /\ e[r].prev = IF b[r].prev = p THEN b[p].prev ELSE b[r].prev
      <4>1. LinkedAt(X, b, r) /\ LinkedAt(X, b, p)
        BY <1>1 DEF Linked
      <4>2. (b[r].next = p <=> u = r) /\ (n = r <=> b[r].prev = p)
        BY <1>1, <4>1, TurnRound DEF u, n
      <4>3. e[r].prev = c[r].prev /\ e[r].next = IF r = u THEN n ELSE c[r].next
        BY <1>1, <2>7, <2>9 DEF NextSet
      <4>4. c[r].next = b[r].next /\ c[r].prev = IF r = n THEN u ELSE b[r].prev
        BY <1>1, <2>7
      <4>. QED
        BY <4>2, <4>3, <4>4 DEF u, n
    <3>. QED
      BY <3>1 DEF PassBy
  <2>13. Linked(X \ {p}, e, g)
    BY <1>1, <2>12, LinksRemoved DEF n
  <2>14. Tile(e)
    BY <1>1, <1>4, <2>3, <2>10, TileJoins
  <2>15. InOrder(e, g)
    <3>1. g \in Links
      BY <1>1, <2>3
    <3>. QED
      BY <2>10, <2>11, <2>13, <2>14, <3>1 DEF InOrder, Links
  <2>. HIDE DEF g
  <2>. QED
    BY <1>4, <2>2, <2>10, <2>11, <2>15 DEF b, X, n
<1>. QED
  BY <1>3, <1>4

\* split_block(): the free block p becomes two.
LEMMA SplitDoes ==
  ASSUME NEW m, InOrder(m.block, m.free), NEW p \in Frees(m.block), NEW at \in Nat, p + 3 <= at,
         at + 3 <= p + m.block[p].size
  PROVE  LET v == Split(m, p, at)
         IN  /\ InOrder(v.block, v.free) /\ Splits(m.block, v.block, p, at)
             /\ Frees(v.block) = Frees(m.block) \cup {at}
<1> DEFINE b == m.block
           f == m.free
           X == Frees(b)
           n == b[p].next
           u == b[p].prev
           upper == FreeBlock(b[p].size - (at - p), u, p)
           lower == FreeBlock(at - p, at, n)
           c == With(With(b, p, lower), at, upper)
           e == SetNext(c, u, at)
           g == IF f = p THEN at ELSE f
<1>1. Headers(b) /\ Tile(b) /\ f \in Links /\ Linked(X, b, f) /\ X \subseteq Positions /\ X \subseteq DOMAIN b /\ p \in X
  BY FreesType DEF InOrder, Links
<1>2. Split(m, p, at).block = e /\ Split(m, p, at).free = g
  BY DEF Split
<1>2a. at + 3 <= p + b[p].size
  OBVIOUS
<1>. HIDE DEF b, f
<1>3. /\ p \in DOMAIN b /\ p \in Nat /\ b[p].size \in Nat /\ p + b[p].size <= Units
      /\ p # Null /\ p \in Links /\ n \in Links /\ u \in Links
      /\ \A q \in DOMAIN b : ~ (p < q /\ q < p + b[p].size)
  BY <1>1, TileEnds, HeaderType DEF Links
<1>4. at \in Positions /\ at # Null /\ at \in Links /\ at \notin DOMAIN b /\ at # p
  <2>1. at \in Positions
    BY <1>2a, <1>3, ScratchAllocatorAssumption DEF Positions
  <2>2. at # p /\ p < at /\ at < p + b[p].size
    BY <1>2a, <1>3
  <2>. QED
    BY <1>3, <2>1, <2>2, ScratchAllocatorAssumption DEF Positions, Links
<1>5. u \in (X \ {p}) \cup {Null} /\ PrevIn(X, p, u) /\ NextIn(X, p, n)
  <2>1. PrevIn(X, p, u) /\ NextIn(X, p, n)
    BY <1>1 DEF Linked, LinkedAt
  <2>. QED
    BY <1>3, <2>1 DEF PrevIn
<1>6. upper \in Field /\ lower \in Field
  <2>1. b[p].size - (at - p) \in Nat /\ at - p \in Nat
    BY <1>2a, <1>3
  <2>. QED
    BY <1>3, <1>4, <2>1 DEF FreeBlock, Field, Links
<1>6a. /\ upper.size = b[p].size - (at - p) /\ ~ upper.used /\ upper.prev = u /\ upper.next = p
       /\ lower.size = at - p /\ ~ lower.used /\ lower.prev = at /\ lower.next = n
  BY DEF FreeBlock
<1>. HIDE DEF upper, lower
<1>7. /\ DOMAIN c = DOMAIN b \cup {at} /\ c[at] = upper /\ c[p] = lower
      /\ \A r \in DOMAIN b : r # p => c[r] = b[r]
  BY <1>3, <1>4 DEF With
<1>8. Headers(c)
  <2>1. \A r \in DOMAIN b \cup {at} : c[r] \in Field
    BY <1>1, <1>6, <1>7 DEF Headers
  <2>2. c = [r \in DOMAIN b \cup {at} |-> c[r]]
    BY <1>3 DEF With
  <2>. HIDE DEF c
  <2>3. c \in [DOMAIN b \cup {at} -> Field]
    BY <2>1, <2>2
  <2>. QED
    BY <1>1, <1>4, <1>7, <2>3 DEF Headers
<1>. HIDE DEF c, X, u, n
<1>9. Alike(c, e) /\ NextSet(c, e, u, at)
  <2>1. u \in DOMAIN c \cup {Null}
    BY <1>1, <1>5, <1>7
  <2>. QED
    BY <1>4, <1>8, <2>1, SetNextDoes
<1>. HIDE DEF e
<1>10. Headers(e) /\ DOMAIN e = DOMAIN b \cup {at} /\ Splits(b, e, p, at)
  <2>1. \A r \in DOMAIN c : e[r].size = c[r].size
    BY <1>9 DEF Alike
  <2>. QED
    BY <1>3, <1>4, <1>6a, <1>7, <1>9, <2>1 DEF Alike, Splits
<1>11. Frees(e) = X \cup {at}
  <2>1. \A r \in DOMAIN c : e[r].used = c[r].used
    BY <1>9 DEF Alike
  <2>2. ~ b[p].used
    BY <1>1 DEF X, Frees
  <2>. QED
    BY <1>3, <1>4, <1>6a, <1>7, <1>10, <2>1, <2>2 DEF Frees, X
<1>12. PutBetween(X, b, e, at, u, p)
  <2>1. e[at].prev = u /\ e[at].next = p
    <3>1. at # u
      BY <1>1, <1>4, <1>5
    <3>. QED
      BY <1>6a, <1>7, <1>9, <3>1 DEF NextSet
  <2>2. ASSUME NEW r \in X
        PROVE  e[r].next = (IF r = u THEN at ELSE b[r].next) /\ e[r].prev = IF r = p THEN at ELSE b[r].prev
    <3>1. r \in DOMAIN c /\ r \in DOMAIN b
      BY <1>1, <1>7
    <3>2. c[r].next = b[r].next /\ c[r].prev = IF r = p THEN at ELSE b[r].prev
      BY <1>6a, <1>7, <3>1 DEF n
    <3>. QED
      BY <1>9, <3>1, <3>2 DEF NextSet
  <2>. QED
    BY <2>1, <2>2 DEF PutBetween
<1>13. PrevIn(X, at, u) /\ NextIn(X, at, p)
  <2>1. \A q \in X : q \in Nat /\ ~ (p < q /\ q < p + b[p].size)
    BY <1>1, <1>3, NullNone
  <2>2. at < p + b[p].size /\ p < at /\ at \in Nat
    BY <1>2a, <1>3
  <2>3. NextIn(X, at, p)
    BY <1>1, <1>3, <2>1, <2>2 DEF NextIn
  <2>4. PrevIn(X, at, u)
    <3>1. CASE u = Null
      <4>1. \A r \in X : ~ (p < r)
        BY <1>5, <3>1 DEF PrevIn
      <4>. QED
        BY <1>3, <2>1, <2>2, <3>1, <4>1 DEF PrevIn
    <3>2. CASE u # Null
      <4>1. u \in X /\ p < u /\ \A r \in X : ~ (p < r /\ r < u)
        BY <1>5, <3>2 DEF PrevIn
      <4>2. at < u
        BY <1>3, <1>4, <2>1, <2>2, <4>1
      <4>3. \A r \in X : ~ (at < r /\ r < u)
        BY <1>3, <2>1, <2>2, <4>1
      <4>. QED
        BY <3>2, <4>1, <4>2, <4>3 DEF PrevIn
    <3>. QED
      BY <3>1, <3>2
  <2>. QED
    BY <2>3, <2>4
<1>14. Linked(X \cup {at}, e, g)
  <2>1. Linked(X \cup {at}, e, IF u = Null THEN at ELSE f)
    <3>1. at \in Positions \ X
      BY <1>1, <1>4
    <3>. QED
      BY <1>1, <1>12, <1>13, <3>1, LinksAdded
  <2>2. u = Null <=> f = p
    BY <1>1, FirstHasNoPrev DEF u
  <2>. QED
    BY <2>1, <2>2
<1>15. Tile(e)
  BY <1>1, <1>2a, <1>3, <1>10, TileSplits
<1>16. InOrder(e, g)
  <2>1. g \in Links
    BY <1>1, <1>4
  <2>. QED
    BY <1>10, <1>11, <1>14, <1>15, <2>1 DEF InOrder, Links
<1>. QED
  BY <1>2, <1>10, <1>11, <1>16 DEF b, X
-----------------------------------------------------------------------------
(* ScratchAllocator: the walk along the free list.                          *)

\* The list goes down from the head; what comes after the end is the end.
IsList(m, s) ==
  /\ s[0] = m.free
  /\ \A i \in 1 .. Units : s[i] = IF s[i - 1] = Null THEN Null ELSE m.block[s[i - 1]].next
  /\ \A i \in 0 .. Units : s[i] \in Frees(m.block) \cup {Null}
  /\ s[Units] = Null

LEMMA FreeListIs ==
  ASSUME NEW m, InOrder(m.block, m.free)
  PROVE  IsList(m, FreeList(m))
<1> DEFINE b == m.block
           h == m.free
           X == Frees(b)
           D == X \cup {Null}
           G == [q \in D |-> IF q = Null THEN Null ELSE b[q].next]
           Then(r) == [i \in 0 .. Units |-> IF i = 0 THEN m.free ELSE IF r[i - 1] = Null THEN Null ELSE m.block[r[i - 1]].next]
           s == CHOOSE r : r = Then(r)
<1>0. Units \in Nat /\ Headers(b) /\ Tile(b) /\ Linked(X, b, h) /\ X \subseteq Positions /\ X \subseteq DOMAIN b
  BY ScratchAllocatorAssumption, FreesType DEF InOrder
<1>1. h \in D /\ \A q \in X : b[q].next \in D
  <2>. HIDE DEF b, h, X
  <2>. QED
    BY <1>0, LinksInside, FreesType DEF Linked, FirstIn
<1>2. G \in [D -> D]
  BY <1>1
<1>3. PICK g \in [0 .. Units -> D] : g[0] = h /\ \A k \in 1 .. Units : g[k] = G[g[k - 1]]
  <2>. HIDE DEF b, h, X, D, G
  <2>1. Iterates(Units, D, h, G)
    BY <1>0, <1>1, <1>2, IterationExists, Zenon
  <2>. QED
    BY <2>1 DEF Iterates
<1>4. g = Then(g)
  <2>1. ASSUME NEW k \in 0 .. Units
        PROVE  g[k] = IF k = 0 THEN m.free ELSE IF g[k - 1] = Null THEN Null ELSE m.block[g[k - 1]].next
    <3>1. CASE k = 0
      BY <1>3, <3>1
    <3>2. CASE k # 0
      <4>1. k \in 1 .. Units /\ k - 1 \in 0 .. Units
        BY <1>0, <3>2
      <4>2. g[k] = G[g[k - 1]] /\ g[k - 1] \in D
        BY <1>3, <4>1
      <4>. QED
        BY <3>2, <4>2
    <3>. QED
      BY <3>1, <3>2
  <2>. HIDE DEF G, D
  <2>. QED
    BY <1>3, <2>1
<1>5. s = Then(s)
  <2>. HIDE DEF Then
  <2>. QED
    BY <1>4
<1>6. FreeList(m) = s
  BY DEF FreeList
<1>. HIDE DEF s, D, G, X
<1>7. s[0] = h /\ \A i \in 1 .. Units : s[i] = IF s[i - 1] = Null THEN Null ELSE b[s[i - 1]].next
  <2>1. s[0] = h
    BY <1>0, <1>5
  <2>2. ASSUME NEW i \in 1 .. Units
        PROVE  s[i] = IF s[i - 1] = Null THEN Null ELSE b[s[i - 1]].next
    <3>1. i \in 0 .. Units /\ i # 0
      BY <1>0
    <3>. QED
      BY <1>5, <3>1
  <2>. QED
    BY <2>1, <2>2
<1>. HIDE DEF b, h
<1> DEFINE Y == {i \in 0 .. Units : s[i] \in X \cup {Null} /\ (s[i] # Null => s[i] + i + 3 <= Units)}
<1>8. \A q \in X : q \in Nat /\ q + 3 <= Units
  <2>1. ASSUME NEW q \in X
        PROVE  q \in Nat /\ q + 3 <= Units
    <3>1. q \in DOMAIN b
      BY <1>0
    <3>2. q \in Nat /\ b[q].size \in Nat /\ q + 3 <= q + b[q].size /\ q + b[q].size <= Units
      BY <1>0, <3>1, TileEnds, HeaderType
    <3>. QED
      BY <1>0, <3>2
  <2>. QED
    BY <2>1
<1>9. 0 \in Y
  <2>1. h \in X \cup {Null}
    BY <1>1 DEF D
  <2>. QED
    BY <1>0, <1>7, <1>8, <2>1
<1>10. ASSUME NEW i \in 1 .. Units, i - 1 \in Y
       PROVE  i \in Y
  <2>1. s[i - 1] \in X \cup {Null} /\ (s[i - 1] # Null => s[i - 1] + (i - 1) + 3 <= Units) /\ i \in 0 .. Units
    BY <1>0, <1>10
  <2>2. CASE s[i - 1] = Null
    BY <1>7, <2>1, <2>2
  <2>3. CASE s[i - 1] # Null
    <3> DEFINE q == s[i - 1]
    <3>1. q \in X /\ s[i] = b[q].next /\ q + (i - 1) + 3 <= Units /\ q \in Nat
      BY <1>7, <1>8, <2>1, <2>3
    <3>2. NextIn(X, q, b[q].next)
      BY <1>0, <3>1 DEF Linked, LinkedAt
    <3>3. s[i] = Null \/ (s[i] \in X /\ s[i] < q /\ s[i] \in Nat)
      BY <1>8, <3>1, <3>2 DEF NextIn
    <3>. QED
      BY <1>0, <2>1, <3>1, <3>3
  <2>. QED
    BY <2>2, <2>3
<1>. HIDE DEF Y
<1>11. \A i \in 0 .. Units : i \in Y
  BY <1>0, <1>9, <1>10, UpTo
<1>12. \A i \in 0 .. Units : s[i] \in X \cup {Null}
  BY <1>11 DEF Y
<1>13. s[Units] = Null
  <2>1. Units \in Y
    BY <1>0, <1>11
  <2>2. s[Units] \in X \cup {Null} /\ (s[Units] # Null => s[Units] + Units + 3 <= Units)
    BY <2>1 DEF Y
  <2>. QED
    BY <1>0, <1>8, <2>2
<1>. QED
  BY <1>6, <1>7, <1>12, <1>13 DEF IsList, b, h, X

LEMMA MinIs ==
  ASSUME NEW X, X \subseteq Nat, X # {}
  PROVE  Min(X) \in X /\ \A k \in X : Min(X) <= k
<1>1. \E i \in X : \A k \in X : i <= k
  BY LeastOf
<1>. QED
  BY <1>1 DEF Min

\* First fit: a free block that is large enough, or none.
LEMMA FirstFitFits ==
  ASSUME NEW m, InOrder(m.block, m.free), NEW n, NEW align, FirstFit(m, n, align) # Null
  PROVE  FirstFit(m, n, align) \in Frees(m.block) /\ Fits(m, FirstFit(m, n, align), n, align)
<1> DEFINE s == FreeList(m)
           Ends == {i \in 0 .. Units : s[i] = Null \/ Fits(m, s[i], n, align)}
<1>1. IsList(m, s)
  BY FreeListIs
<1>. HIDE DEF s
<1>2. Units \in 0 .. Units /\ s[Units] = Null
  BY <1>1, ScratchAllocatorAssumption DEF IsList
<1>3. Ends \subseteq Nat /\ Ends # {}
  BY <1>2
<1>4. Min(Ends) \in Ends
  <2>. HIDE DEF Ends
  <2>. QED
    BY <1>3, MinIs
<1>5. FirstFit(m, n, align) = s[Min(Ends)]
  BY DEF FirstFit, s
<1>6. Min(Ends) \in 0 .. Units /\ (s[Min(Ends)] = Null \/ Fits(m, s[Min(Ends)], n, align))
  BY <1>4
<1>. QED
  BY <1>1, <1>5, <1>6 DEF IsList

\* The place of a block in the list.
LEMMA InsertDoes ==
  ASSUME NEW m, InOrder(m.block, m.free), NEW p \in DOMAIN m.block \ Frees(m.block)
  PROVE  LET v == Insert(m, p)
         IN  /\ InOrder(v.block, v.free) /\ SameSizes(m.block, v.block)
             /\ Frees(v.block) = Frees(m.block) \cup {p}
<1> DEFINE b == m.block
           X == Frees(b)
           s == FreeList(m)
           Ends == {j \in 0 .. Units : s[j] = Null \/ s[j] < p}
           i == Min(Ends)
           u == IF i = 0 THEN Null ELSE s[i - 1]
           d == s[i]
           e == SetPrev(SetNext([b EXCEPT ![p] = FreeBlock(@.size, u, d)], u, p), d, p)
<1>0. Headers(b) /\ Linked(X, b, m.free) /\ X \subseteq Positions /\ X \subseteq DOMAIN b /\ p \in DOMAIN b /\ p \notin X
  BY FreesType DEF InOrder
<1>1. IsList(m, s)
  BY FreeListIs
<1>2. Insert(m, p).block = e /\ Insert(m, p).free = IF u = Null THEN p ELSE m.free
  BY DEF Insert
<1>. HIDE DEF s
<1>3. Units \in Nat /\ s[Units] = Null /\ p \in Nat /\ p # Null
  BY <1>0, <1>1, ScratchAllocatorAssumption, HeaderType DEF IsList
<1>4. i \in Ends /\ \A k \in Ends : i <= k
  <2>1. Ends \subseteq Nat /\ Ends # {}
    BY <1>3
  <2>. HIDE DEF Ends
  <2>. QED
    BY <2>1, MinIs
<1>5. i \in 0 .. Units /\ (d = Null \/ d < p) /\ d \in X \cup {Null}
  BY <1>1, <1>4 DEF IsList
<1>6. \A j \in 0 .. Units : j < i => ~ (j \in Ends)
  <2>. HIDE DEF Ends
  <2>. QED
    BY <1>3, <1>4, <1>5
<1>. HIDE DEF i, d
<1>7. CASE i = 0
  <2>1. u = Null /\ d = m.free
    BY <1>1, <1>7 DEF IsList, d
  <2>2. FirstIn(X, d)
    BY <1>0, <2>1 DEF Linked
  <2>3. PrevIn(X, p, u) /\ NextIn(X, p, d)
    <3>1. \A r \in X : r \in Nat /\ ~ (p < r) /\ r # p
      BY <1>0, <1>3, <1>5, <2>2, NullNone DEF FirstIn
    <3>2. NextIn(X, p, d)
      <4>1. CASE d = Null
        BY <2>2, <4>1 DEF FirstIn, NextIn
      <4>2. CASE d # Null
        BY <1>3, <1>5, <2>2, <3>1, <4>2 DEF FirstIn, NextIn
      <4>. QED
        BY <4>1, <4>2
    <3>. QED
      BY <2>1, <3>1, <3>2 DEF PrevIn
  <2>. QED
    BY <1>0, <1>2, <2>3, PlacedDoes
<1>8. CASE i # 0
  <2>0. i - 1 \in 0 .. Units /\ i \in 1 .. Units /\ i - 1 < i
    BY <1>3, <1>5, <1>8
  <2>1. u = s[i - 1] /\ ~ (s[i - 1] = Null \/ s[i - 1] < p) /\ s[i - 1] \in X \cup {Null}
    <3>1. i - 1 \notin Ends
      BY <1>6, <2>0
    <3>. QED
      BY <1>1, <1>8, <2>0, <3>1 DEF IsList
  <2>. HIDE DEF u
  <2>2. u \in X /\ u # Null /\ p < u /\ d = b[u].next
    <3>1. u \in X /\ u # Null /\ u \in Nat /\ ~ (u < p) /\ u # p
      BY <1>0, <2>1, NullNone
    <3>2. s[i] = b[u].next
      BY <1>1, <2>0, <2>1 DEF IsList
    <3>. QED
      BY <1>3, <3>1, <3>2 DEF d
  <2>3. NextIn(X, u, d)
    BY <1>0, <2>2 DEF Linked, LinkedAt
  <2>4. PrevIn(X, p, u) /\ NextIn(X, p, d)
    <3>1. CASE d = Null
      <4>1. \A r \in X : ~ (r < u) /\ r \in Nat
        BY <1>0, <2>3, <3>1, NullNone DEF NextIn
      <4>2. \A r \in X : ~ (r < p) /\ ~ (p < r /\ r < u)
        BY <1>3, <2>2, <4>1
      <4>. QED
        BY <2>2, <3>1, <4>2 DEF PrevIn, NextIn
    <3>2. CASE d # Null
      <4>1. d \in X /\ d < u /\ \A r \in X : ~ (d < r /\ r < u) /\ r \in Nat
        BY <1>0, <2>3, <3>2, NullNone DEF NextIn
      <4>2. d < p
        BY <1>5, <3>2
      <4>3. \A r \in X : ~ (d < r /\ r < p) /\ ~ (p < r /\ r < u)
        BY <1>3, <2>2, <4>1, <4>2
      <4>. QED
        BY <2>2, <3>2, <4>1, <4>2, <4>3 DEF PrevIn, NextIn
    <3>. QED
      BY <3>1, <3>2
  <2>. QED
    BY <1>0, <1>2, <2>4, PlacedDoes
<1>. QED
  BY <1>7, <1>8
-----------------------------------------------------------------------------
(* Blocks that touch, and the operations made of several.                   *)

Touches(b, r) == r \in Frees(b) /\ r + b[r].size \in Frees(b)
Busy(b) == DOMAIN b \ Frees(b)

LEMMA ApartIs ==
  ASSUME NEW b
  PROVE  Apart(b) <=> \A r : ~ Touches(b, r)
BY DEF Apart, Touches

\* After a split at most the two parts touch, and the block that p touched.
LEMMA SplitTouches ==
  ASSUME NEW b, NEW c, Headers(b), Tile(b), NEW p \in Frees(b), NEW at \in Nat, p + 3 <= at, at + 3 <= p + b[p].size,
         Splits(b, c, p, at), Frees(c) = Frees(b) \cup {at}, NEW r, Touches(c, r)
  PROVE  r = p \/ (r = at /\ Touches(b, p)) \/ (r # p /\ Touches(b, r))
<1>0. p \in DOMAIN b /\ Frees(b) \subseteq DOMAIN b
  BY FreesType
<1>1. p \in Nat /\ b[p].size \in Nat /\ p + b[p].size <= Units /\ \A q \in DOMAIN b : ~ (p < q /\ q < p + b[p].size)
  BY <1>0, TileEnds, HeaderType
<1>2. at \notin DOMAIN b /\ at # Units /\ at + c[at].size = p + b[p].size /\ p + b[p].size # at
  BY <1>0, <1>1, ScratchAllocatorAssumption DEF Splits
<1>3. CASE r = at
  BY <1>2, <1>3 DEF Touches
<1>4. CASE r # at /\ r # p
  <2>1. r \in Frees(b) /\ c[r].size = b[r].size
    BY <1>0, <1>4 DEF Touches, Splits
  <2>2. r + b[r].size # at
    BY <1>0, <1>2, <2>1, TileEnds
  <2>. QED
    BY <1>4, <2>1, <2>2 DEF Touches
<1>. QED
  BY <1>3, <1>4

\* free_tag()
FreesBlock(b, c, p) ==
  /\ Apart(c) /\ Busy(c) = Busy(b) \ {p}
  /\ \A r \in Busy(b) \ {p} : c[r].size = b[r].size

\* The first half: the block is free, and touches at most the one below it.
LEMMA FreedDoes ==
  ASSUME NEW m, InOrder(m.block, m.free), Apart(m.block), NEW p \in Busy(m.block)
  PROVE  LET v == IF IsFree(m.block, AfterBlock(m.block, p)) THEN MergeUp(m, p) ELSE Insert(m, p)
         IN  /\ InOrder(v.block, v.free) /\ p \in Frees(v.block) /\ Busy(v.block) = Busy(m.block) \ {p}
             /\ \A r \in Busy(m.block) \ {p} : v.block[r].size = m.block[r].size
             /\ \A r : Touches(v.block, r) => r + v.block[r].size = p
             /\ p + v.block[p].size \notin Frees(v.block)
<1> DEFINE b == m.block
           v == IF IsFree(b, AfterBlock(b, p)) THEN MergeUp(m, p) ELSE Insert(m, p)
           a == p + b[p].size
<1>0. Headers(b) /\ Tile(b) /\ p \in DOMAIN b /\ p \notin Frees(b) /\ Frees(b) \subseteq DOMAIN b
  BY FreesType DEF InOrder, Busy
<1>0a. p \in Nat /\ b[p].size \in Nat /\ p + 3 <= a
  BY <1>0, TileEnds, HeaderType
<1>1. IsFree(b, AfterBlock(b, p)) <=> a \in Frees(b)
  BY DEF IsFree, AfterBlock, Frees
<1>2. CASE a \in Frees(b)
  <2> DEFINE c == MergeUp(m, p).block
  <2>1. v = MergeUp(m, p)
    BY <1>1, <1>2
  <2>2. InOrder(c, v.free) /\ Joins(b, c, p, a) /\ Frees(c) = (Frees(b) \ {a}) \cup {p}
    BY <1>0, <1>2, <2>1, MergeUpDoes
  <2>3. a + b[a].size \notin Frees(b) /\ a \in Nat /\ b[a].size \in Nat /\ a + 3 <= a + b[a].size
    BY <1>0, <1>2, TileEnds, HeaderType DEF Apart
  <2>. HIDE DEF c
  <2>4. p + c[p].size = a + b[a].size
    BY <1>0a, <2>2, <2>3 DEF Joins
  <2>5. p + c[p].size \notin Frees(c)
    BY <1>0a, <2>2, <2>3, <2>4
  <2>6. ASSUME NEW r, Touches(c, r)
        PROVE  r + c[r].size = p
    <3>1. r # p /\ r \in Frees(b) /\ r # a
      BY <2>2, <2>5, <2>6 DEF Touches
    <3>2. c[r].size = b[r].size /\ r + b[r].size \notin Frees(b)
      BY <1>0, <2>2, <3>1 DEF Joins, Apart
    <3>. QED
      BY <2>2, <2>6, <3>2 DEF Touches
  <2>7. Busy(c) = Busy(b) \ {p}
    BY <1>0, <1>2, <2>2 DEF Busy, Joins
  <2>8. \A r \in Busy(b) \ {p} : c[r].size = b[r].size
    BY <1>2, <2>2 DEF Busy, Joins
  <2>9. v.block = c
    BY <2>1 DEF c
  <2>. HIDE DEF v
  <2>10. v.block = c => InOrder(v.block, v.free) /\ p \in Frees(v.block)
    BY <2>2
  <2>. QED
    BY <2>5, <2>6, <2>7, <2>8, <2>9, <2>10 DEF v
<1>3. CASE a \notin Frees(b)
  <2> DEFINE c == Insert(m, p).block
  <2>1. v = Insert(m, p)
    BY <1>1, <1>3
  <2>2. InOrder(c, v.free) /\ SameSizes(b, c) /\ Frees(c) = Frees(b) \cup {p}
    BY <1>0, <2>1, InsertDoes
  <2>. HIDE DEF c
  <2>3. p + c[p].size = a
    BY <1>0, <2>2 DEF SameSizes
  <2>4. p + c[p].size \notin Frees(c)
    BY <1>0a, <1>3, <2>2, <2>3
  <2>5. ASSUME NEW r, Touches(c, r)
        PROVE  r + c[r].size = p
    <3>1. r # p /\ r \in Frees(b)
      BY <2>2, <2>4, <2>5 DEF Touches
    <3>2. c[r].size = b[r].size /\ r + b[r].size \notin Frees(b)
      BY <1>0, <2>2, <3>1 DEF SameSizes, Apart
    <3>. QED
      BY <2>2, <2>5, <3>2 DEF Touches
  <2>6. Busy(c) = Busy(b) \ {p}
    BY <1>0, <2>2 DEF Busy, SameSizes
  <2>7. \A r \in Busy(b) \ {p} : c[r].size = b[r].size
    BY <2>2 DEF Busy, SameSizes
  <2>8. v.block = c
    BY <2>1 DEF c
  <2>. HIDE DEF v
  <2>9. v.block = c => InOrder(v.block, v.free) /\ p \in Frees(v.block)
    BY <2>2
  <2>. QED
    BY <2>4, <2>5, <2>6, <2>7, <2>8, <2>9 DEF v
<1>. QED
  BY <1>2, <1>3

LEMMA FreeTagDoes ==
  ASSUME NEW m, InOrder(m.block, m.free), Apart(m.block), NEW p \in Busy(m.block)
  PROVE  LET v == FreeTag(m, p) IN InOrder(v.block, v.free) /\ FreesBlock(m.block, v.block, p)
<1> DEFINE b == m.block
           w == IF IsFree(b, AfterBlock(b, p)) THEN MergeUp(m, p) ELSE Insert(m, p)
           c == w.block
           n == c[p].next
           v == MergeDown(w, p)
           e == v.block
<1>1. FreeTag(m, p) = v
  BY DEF FreeTag
<1>2. /\ InOrder(c, w.free) /\ p \in Frees(c) /\ Busy(c) = Busy(b) \ {p}
      /\ \A r \in Busy(b) \ {p} : c[r].size = b[r].size
      /\ \A r : Touches(c, r) => r + c[r].size = p
      /\ p + c[p].size \notin Frees(c)
  BY FreedDoes
<1>. HIDE DEF w
<1>3. IF n \in Frees(c) /\ n + c[n].size = p
      THEN InOrder(e, v.free) /\ Joins(c, e, n, p) /\ Frees(e) = Frees(c) \ {p}
      ELSE v = w
  BY <1>2, MergeDownDoes
<1>4. CASE n \in Frees(c) /\ n + c[n].size = p
  <2>0. Headers(c) /\ Tile(c) /\ n \in DOMAIN c /\ p \in DOMAIN c /\ Frees(c) \subseteq DOMAIN c
    BY <1>2, <1>4, FreesType DEF InOrder
  <2>1. n \in Nat /\ c[n].size \in Nat /\ p \in Nat /\ c[p].size \in Nat /\ n # p
    <3>1. n + 3 <= n + c[n].size /\ n \in Nat /\ p \in Nat /\ c[n].size \in Nat /\ c[p].size \in Nat
      BY <2>0, TileEnds, HeaderType
    <3>. QED
      BY <1>4, <3>1
  <2>2. InOrder(e, v.free) /\ Joins(c, e, n, p) /\ Frees(e) = Frees(c) \ {p}
    BY <1>3, <1>4
  <2>. HIDE DEF c, e, n, v
  <2>3. n + e[n].size = p + c[p].size
    BY <1>4, <2>1, <2>2 DEF Joins
  <2>4. ASSUME NEW r \in Frees(e)
        PROVE  r + e[r].size \notin Frees(e)
    <3>1. CASE r = n
      BY <1>2, <2>2, <2>3, <3>1
    <3>2. CASE r # n
      <4>1. r \in Frees(c) /\ r # p /\ e[r].size = c[r].size
        BY <2>0, <2>2, <3>2 DEF Joins
      <4>. QED
        BY <1>2, <2>2, <4>1 DEF Touches
    <3>. QED
      BY <3>1, <3>2
  <2>5. Busy(e) = Busy(b) \ {p}
    BY <1>2, <2>0, <2>2 DEF Busy, Joins
  <2>6. \A r \in Busy(b) \ {p} : e[r].size = b[r].size
    <3>1. \A r \in Busy(c) : r # n /\ r # p /\ r \in DOMAIN c
      BY <1>2, <1>4 DEF Busy
    <3>. QED
      BY <1>2, <2>2, <3>1 DEF Joins
  <2>7. FreesBlock(b, e, p)
    BY <2>4, <2>5, <2>6 DEF FreesBlock, Apart
  <2>. QED
    BY <1>1, <2>2, <2>7 DEF e
<1>5. CASE ~ (n \in Frees(c) /\ n + c[n].size = p)
  <2>1. v = w
    BY <1>3, <1>5
  <2>2. \A r : ~ Touches(c, r)
    <3>1. ASSUME NEW r, Touches(c, r)
          PROVE  FALSE
      <4>1. r \in Frees(c) /\ r + c[r].size = p
        BY <1>2, <3>1 DEF Touches
      <4>2. c[p].next = r
        <5>. HIDE DEF c
        <5>. QED
          BY <1>2, <4>1, TouchingIsNext
      <4>. QED
        BY <1>5, <4>1, <4>2
    <3>. QED
      BY <3>1
  <2>3. Apart(c)
    <3>. HIDE DEF c
    <3>. QED
      BY <2>2, ApartIs
  <2>4. FreesBlock(b, c, p)
    <3>. HIDE DEF c
    <3>. QED
      BY <1>2, <2>3 DEF FreesBlock
  <2>. QED
    BY <1>1, <1>2, <2>1, <2>4
<1>. QED
  BY <1>4, <1>5
-----------------------------------------------------------------------------
\* An allocation starts where the block does, or leaves room for a header.
LEMMA AllocStartIs ==
  ASSUME NEW p \in Nat, NEW align \in Nat \ {0}
  PROVE  AllocStart(p, align) \in Nat /\ (AllocStart(p, align) = p \/ p + 3 <= AllocStart(p, align))
<1>1. ASSUME NEW q \in Nat
      PROVE  AlignUp(q, align) \in Nat /\ AlignUp(q, align) >= q
  <2>1. (q + Skew) % align \in 0 .. align - 1
    BY ScratchAllocatorAssumption
  <2>2. align - ((q + Skew) % align) \in Nat
    BY <2>1
  <2>3. (align - ((q + Skew) % align)) % align \in 0 .. align - 1
    BY <2>2
  <2>. QED
    BY <2>3 DEF AlignUp
<1>2. AlignUp(p + 1, align) \in Nat /\ AlignUp(p + 1, align) >= p + 1
  BY <1>1
<1>3. AlignUp(p + 3 + 1, align) \in Nat /\ AlignUp(p + 3 + 1, align) >= p + 3 + 1
  <2>1. p + 3 + 1 \in Nat
    OBVIOUS
  <2>. QED
    BY <1>1, <2>1
<1>. QED
  BY <1>2, <1>3 DEF AllocStart, Tag, Header

LEMMA MinAllocIs ==
  ASSUME NEW n \in Nat
  PROVE  MinAlloc(n) \in Nat /\ MinAlloc(n) >= 3 /\ MinAlloc(n) >= n + 1
BY DEF MinAlloc, Tag, Header

TakesBlock(b, c, s, n) ==
  /\ Apart(c) /\ s \notin Busy(b) /\ Busy(c) = Busy(b) \cup {s}
  /\ \A r \in Busy(b) : c[r].size = b[r].size
  /\ c[s].size >= n + 1

\* A split leaves the blocks in use as they are.
LEMMA SplitBusy ==
  ASSUME NEW b, NEW c, NEW p \in Frees(b), NEW at, at \notin DOMAIN b, Splits(b, c, p, at),
         Frees(c) = Frees(b) \cup {at}
  PROVE  Busy(c) = Busy(b) /\ \A r \in Busy(b) : c[r].size = b[r].size
BY DEF Busy, Splits, Frees

\* The part of allocate() that cuts out the block.
LEMMA CutOutDoes ==
  ASSUME NEW m, InOrder(m.block, m.free), Apart(m.block), NEW p \in Frees(m.block), NEW n \in Nat,
         NEW align \in Nat \ {0}, Fits(m, p, n, align)
  PROVE  LET v == CutOut(m, p, n, align)
         IN  InOrder(v.block, v.free) /\ TakesBlock(m.block, v.block, AllocStart(p, align), n)
<1> DEFINE b == m.block
           s == AllocStart(p, align)
           e == AllocEnd(p, n, align)
           m1 == IF e + Header <= AfterBlock(b, p) THEN Split(m, p, e) ELSE m
           m2 == IF s # p THEN Split(m1, p, s) ELSE m1
           v == AllocTag(m2, s)
           c == m1.block
           d == m2.block
           w == v.block
           end1 == p + b[p].size
<1>0. Headers(b) /\ Tile(b) /\ p \in DOMAIN b /\ Frees(b) \subseteq DOMAIN b
  BY FreesType DEF InOrder
<1>1. p \in Nat /\ b[p].size \in Nat /\ p + 3 <= end1 /\ end1 <= Units /\ \A q \in DOMAIN b : ~ (p < q /\ q < end1)
  BY <1>0, TileEnds, HeaderType
<1>2. s \in Nat /\ (s = p \/ p + 3 <= s)
  BY <1>1, AllocStartIs
<1>3. e \in Nat /\ e >= s + 3 /\ e >= s + n + 1 /\ e <= end1
  <2>1. e = s + MinAlloc(n)
    BY DEF AllocEnd
  <2>2. e <= end1
    BY DEF Fits, AfterBlock
  <2>. QED
    BY <1>2, <2>1, <2>2, MinAllocIs
<1>4. CutOut(m, p, n, align) = v
  BY DEF CutOut
<1>. HIDE DEF s, e
<1>5. /\ InOrder(c, m1.free) /\ p \in Frees(c) /\ Busy(c) = Busy(b) /\ (\A r \in Busy(b) : c[r].size = b[r].size)
      /\ c[p].size \in Nat /\ p + c[p].size >= e /\ (\A r : Touches(c, r) => r = p)
      /\ s \notin DOMAIN c \ {p}
  <2>1. CASE ~ (e + Header <= AfterBlock(b, p))
    <3>1. m1 = m
      BY <2>1
    <3>2. \A r : ~ Touches(b, r)
      <4>. HIDE DEF b
      <4>. QED
        BY ApartIs DEF b
    <3>3. s \notin DOMAIN b \ {p}
      BY <1>0, <1>1, <1>2, <1>3
    <3>. QED
      BY <1>1, <1>3, <3>1, <3>2, <3>3
  <2>2. CASE e + Header <= AfterBlock(b, p)
    <3>1. m1 = Split(m, p, e)
      BY <2>2
    <3>2. e + 3 <= end1 /\ p + 3 <= e
      BY <1>1, <1>2, <1>3, <2>2 DEF Header, AfterBlock
    <3>3. InOrder(c, m1.free) /\ Splits(b, c, p, e) /\ Frees(c) = Frees(b) \cup {e}
      BY <1>3, <3>1, <3>2, SplitDoes
    <3>. HIDE DEF m1, c
    <3>4. e \notin DOMAIN b
      BY <1>1, <1>3, <3>2
    <3>5. Busy(c) = Busy(b) /\ \A r \in Busy(b) : c[r].size = b[r].size
      <4>. HIDE DEF b
      <4>. QED
        BY <3>3, <3>4, SplitBusy DEF b
    <3>6. c[p].size = e - p /\ p + c[p].size = e /\ c[p].size \in Nat
      BY <1>1, <1>3, <3>2, <3>3 DEF Splits
    <3>7. ASSUME NEW r, Touches(c, r)
          PROVE  r = p
      <4>1. \A q : ~ Touches(b, q)
        <5>. HIDE DEF b
        <5>. QED
          BY ApartIs DEF b
      <4>2. r = p \/ (r = e /\ Touches(b, p)) \/ (r # p /\ Touches(b, r))
        <5>1. p \in Frees(b) /\ e + 3 <= p + b[p].size
          BY <3>2
        <5>. HIDE DEF b
        <5>. QED
          BY <1>0, <1>3, <3>2, <3>3, <3>7, <5>1, SplitTouches
      <4>. QED
        BY <4>1, <4>2
    <3>8. s \notin DOMAIN c \ {p}
      <4>1. DOMAIN c = DOMAIN b \cup {e}
        BY <3>3 DEF Splits
      <4>2. s # e /\ s \notin DOMAIN b \ {p}
        BY <1>0, <1>1, <1>2, <1>3
      <4>. QED
        BY <4>1, <4>2
    <3>9. p \in Frees(c) /\ p + c[p].size >= e
      BY <1>3, <3>3, <3>6
    <3>. QED
      BY <3>3, <3>5, <3>6, <3>7, <3>8, <3>9
  <2>. QED
    BY <2>1, <2>2
<1>. HIDE DEF m1, c, b
<1>6. /\ InOrder(d, m2.free) /\ s \in Frees(d) /\ Busy(d) = Busy(b) /\ (\A r \in Busy(b) : d[r].size = b[r].size)
      /\ s + d[s].size >= e /\ d[s].size \in Nat /\ (\A r : Touches(d, r) => r = s \/ r + d[r].size = s)
  <2>1. CASE s = p
    <3>1. m2 = m1
      BY <2>1
    <3>. QED
      BY <1>5, <2>1, <3>1 DEF c
  <2>2. CASE s # p
    <3>0. Headers(c) /\ Tile(c)
      BY <1>5 DEF InOrder
    <3>1. m2 = Split(m1, p, s)
      BY <2>2
    <3>2. p + 3 <= s /\ s + 3 <= p + c[p].size
      BY <1>1, <1>2, <1>3, <1>5, <2>2
    <3>3. InOrder(d, m2.free) /\ Splits(c, d, p, s) /\ Frees(d) = Frees(c) \cup {s}
      BY <1>2, <1>5, <3>1, <3>2, SplitDoes DEF c
    <3>. HIDE DEF m2, d
    <3>4. s \notin DOMAIN c
      BY <1>5, <2>2
    <3>5. Busy(d) = Busy(c) /\ \A r \in Busy(c) : d[r].size = c[r].size
      BY <1>5, <3>3, <3>4, SplitBusy
    <3>6. d[s].size = c[p].size - (s - p) /\ d[p].size = s - p /\ d[s].size \in Nat /\ s + d[s].size = p + c[p].size /\ p + d[p].size = s
      BY <1>1, <1>2, <1>5, <3>2, <3>3 DEF Splits
    <3>7. ASSUME NEW r, Touches(d, r)
          PROVE  r = s \/ r + d[r].size = s
      <4>1. r = p \/ r = s \/ (r # p /\ Touches(c, r))
        BY <1>2, <1>5, <3>0, <3>2, <3>3, <3>7, SplitTouches
      <4>. QED
        BY <1>5, <3>6, <4>1
    <3>. QED
      BY <1>5, <3>3, <3>5, <3>6, <3>7
  <2>. QED
    BY <2>1, <2>2
<1>. HIDE DEF m2
<1>7. InOrder(w, v.free) /\ SameSizes(d, w) /\ Frees(w) = Frees(d) \ {s}
  BY <1>6, AllocTagDoes
<1>. HIDE DEF d, w, v
<1>8. Headers(d) /\ Frees(d) \subseteq DOMAIN d
  BY <1>6, FreesType DEF InOrder
<1>9. Apart(w)
  <2>1. ASSUME NEW r \in Frees(w), r + w[r].size \in Frees(w)
        PROVE  FALSE
    <3>1. r \in Frees(d) /\ r # s /\ w[r].size = d[r].size /\ r + d[r].size \in Frees(d) /\ r + d[r].size # s
      BY <1>7, <1>8, <2>1 DEF SameSizes
    <3>. QED
      BY <1>6, <3>1 DEF Touches
  <2>. QED
    BY <2>1 DEF Apart
<1>10. s \notin Busy(b) /\ Busy(w) = Busy(b) \cup {s}
  BY <1>6, <1>7, <1>8 DEF Busy, SameSizes
<1>11. w[s].size >= n + 1 /\ \A r \in Busy(b) : w[r].size = b[r].size
  <2>1. w[s].size = d[s].size /\ \A r \in Busy(d) : w[r].size = d[r].size
    BY <1>6, <1>7, <1>8 DEF SameSizes, Busy
  <2>. QED
    BY <1>2, <1>3, <1>6, <2>1
<1>12. TakesBlock(b, w, s, n)
  BY <1>9, <1>10, <1>11 DEF TakesBlock
<1>. QED
  BY <1>4, <1>7, <1>12 DEF b, w, s
-----------------------------------------------------------------------------
\* A block in use takes in the free block after it.
LEMMA AbsorbDoes ==
  ASSUME NEW m, InOrder(m.block, m.free), NEW p \in Busy(m.block), NEW a \in Frees(m.block), a = p + m.block[p].size
  PROVE  LET u == Unlink(m, a)
             e == [Without(u.block, a) EXCEPT ![p].size = @ + m.block[a].size]
         IN  InOrder(e, u.free) /\ Joins(m.block, e, p, a) /\ Frees(e) = Frees(m.block) \ {a}
<1> DEFINE b == m.block
           X == Frees(b)
           c == Unlink(m, a).block
           g == Unlink(m, a).free
           w == Without(c, a)
           e == [w EXCEPT ![p].size = @ + b[a].size]
<1>1. Headers(b) /\ Tile(b) /\ X \subseteq DOMAIN b /\ p \in DOMAIN b /\ p \notin X /\ a \in X /\ a \in DOMAIN b /\ p # a
  BY FreesType DEF InOrder, Busy
<1>2. b[p].size \in Nat /\ b[a].size \in Nat /\ b[p].size + b[a].size \in Nat
  BY <1>1, HeaderType
<1>3. Alike(b, c) /\ g \in Links /\ Linked(X \ {a}, c, g)
  BY <1>1, UnlinkDoes DEF InOrder
<1>. HIDE DEF c, g
<1>4. DOMAIN w = DOMAIN b \ {a} /\ w \in [DOMAIN b \ {a} -> Field] /\ \A r \in DOMAIN b \ {a} : w[r] = c[r]
  BY <1>3 DEF Without, Alike, Headers
<1>. HIDE DEF w
<1>5. c[p].size = b[p].size /\ \A r \in DOMAIN b : c[r].used = b[r].used /\ c[r].size = b[r].size
  BY <1>1, <1>3 DEF Alike
<1>6. /\ DOMAIN e = DOMAIN b \ {a}
      /\ \A r \in DOMAIN b \ {a} : r # p => e[r] = c[r]
      /\ e[p].size = b[p].size + b[a].size /\ e[p].used = c[p].used
  BY <1>1, <1>4, <1>5 DEF Field
<1>7. Headers(e)
  <2>1. e \in [DOMAIN b \ {a} -> Field]
    BY <1>1, <1>2, <1>4, <1>5 DEF Field
  <2>. HIDE DEF e
  <2>. QED
    BY <1>1, <1>6, <2>1 DEF Headers
<1>. HIDE DEF e
<1>8. Joins(b, e, p, a)
  BY <1>1, <1>5, <1>6 DEF Joins
<1>9. Frees(e) = X \ {a}
  <2>1. \A r \in DOMAIN b \ {a} : e[r].used = b[r].used
    BY <1>5, <1>6
  <2>. QED
    BY <1>6, <2>1 DEF Frees
<1>10. Linked(X \ {a}, e, g)
  <2>1. \A r \in X \ {a} : e[r].next = c[r].next /\ e[r].prev = c[r].prev
    BY <1>1, <1>6
  <2>. QED
    BY <1>3, <2>1, LinksSame
<1>11. Tile(e)
  BY <1>1, <1>8, TileJoins
<1>12. InOrder(e, g)
  BY <1>3, <1>7, <1>9, <1>10, <1>11 DEF InOrder, Links
<1>. QED
  BY <1>8, <1>9, <1>12 DEF e, g, w, c, b

GrowsBlock(b, c, p, n) ==
  /\ Apart(c) /\ Busy(c) = Busy(b) /\ c[p].size >= n + 1
  /\ \A r \in Busy(b) \ {p} : c[r].size = b[r].size

\* reallocate() in place.
LEMMA GrowDoes ==
  ASSUME InOrder(block, free), Apart(block), NEW p \in Busy(block), NEW n \in Nat, CanGrow(p, n)
  PROVE  LET v == GrowInPlace(Memory, p, n) IN InOrder(v.block, v.free) /\ GrowsBlock(block, v.block, p, n)
<1> DEFINE m == Memory
           b == m.block
           a == p + b[p].size
           e == GrownEnd(p, n)
           end1 == a + b[a].size
           m1 == IF e + Header <= AfterBlock(b, a) THEN Split(m, a, e) ELSE m
           c == m1.block
           u == Unlink(m1, a)
           w == [Without(u.block, a) EXCEPT ![p].size = @ + c[a].size]
<1>0. b = block /\ m.free = free
  BY DEF Memory
<1>. HIDE DEF m
<1>1. /\ Headers(b) /\ Tile(b) /\ p \in DOMAIN b /\ p \notin Frees(b) /\ Frees(b) \subseteq DOMAIN b
      /\ InOrder(b, m.free) /\ Apart(b) /\ p \in Busy(b)
  BY <1>0, FreesType DEF InOrder, Busy
<1>2. a \in Frees(b) /\ e <= end1
  BY <1>0 DEF CanGrow, IsFree, AfterBlock, Frees
<1>3. GrowInPlace(m, p, n).block = w /\ GrowInPlace(m, p, n).free = u.free
  BY DEF GrowInPlace, AfterBlock
<1>4. /\ p \in Nat /\ b[p].size \in Nat /\ p + 3 <= a /\ a \in Nat /\ b[a].size \in Nat /\ a + 3 <= end1
      /\ end1 <= Units /\ \A q \in DOMAIN b : ~ (a < q /\ q < end1)
  BY <1>1, <1>2, TileEnds, HeaderType
<1>5. e \in Nat /\ a + 3 <= e /\ p + n + 1 <= e
  <2>1. e = IF (p + MinAlloc(n)) - a < 3 THEN a + 3 ELSE p + MinAlloc(n)
    BY <1>0 DEF GrownEnd, AfterBlock, Header
  <2>. HIDE DEF e
  <2>. QED
    BY <1>4, <2>1, MinAllocIs
<1>. HIDE DEF b, e
<1>6. /\ InOrder(c, m1.free) /\ a \in Frees(c) /\ Busy(c) = Busy(b) /\ (\A r \in Busy(b) : c[r].size = b[r].size)
      /\ c[a].size \in Nat /\ a + c[a].size >= e /\ (\A r : Touches(c, r) => r = a)
  <2>0. \A r : ~ Touches(b, r)
    BY <1>1, ApartIs
  <2>1. CASE ~ (e + Header <= AfterBlock(b, a))
    <3>1. m1 = m
      BY <2>1
    <3>. QED
      BY <1>1, <1>2, <1>4, <1>5, <2>0, <3>1 DEF b
  <2>2. CASE e + Header <= AfterBlock(b, a)
    <3>1. m1 = Split(m, a, e)
      BY <2>2
    <3>2. e + 3 <= end1
      BY <2>2 DEF Header, AfterBlock
    <3>3. InOrder(c, m1.free) /\ Splits(b, c, a, e) /\ Frees(c) = Frees(b) \cup {e}
      <4>1. InOrder(m.block, m.free) /\ a \in Frees(m.block) /\ e + 3 <= a + m.block[a].size /\ a + 3 <= e /\ e \in Nat
        BY <1>1, <1>2, <1>5, <3>2 DEF b
      <4>2. LET v == Split(m, a, e)
            IN  /\ InOrder(v.block, v.free) /\ Splits(m.block, v.block, a, e)
                /\ Frees(v.block) = Frees(m.block) \cup {e}
        <5>. HIDE DEF a
        <5>. QED
          BY <4>1, SplitDoes
      <4>. QED
        BY <3>1, <4>2 DEF b
    <3>. HIDE DEF m1, c
    <3>4. e \notin DOMAIN b
      BY <1>4, <1>5, <3>2
    <3>5. Busy(c) = Busy(b) /\ \A r \in Busy(b) : c[r].size = b[r].size
      BY <1>2, <3>3, <3>4, SplitBusy
    <3>6. c[a].size = e - a /\ a + c[a].size = e /\ c[a].size \in Nat
      BY <1>4, <1>5, <3>3 DEF Splits
    <3>7. ASSUME NEW r, Touches(c, r)
          PROVE  r = a
      <4>1. r = a \/ (r = e /\ Touches(b, a)) \/ (r # a /\ Touches(b, r))
        BY <1>1, <1>2, <1>5, <3>2, <3>3, <3>7, SplitTouches
      <4>. QED
        BY <2>0, <4>1
    <3>8. a + c[a].size >= e
      BY <1>5, <3>6
    <3>. QED
      BY <1>2, <3>3, <3>5, <3>6, <3>7, <3>8
  <2>. QED
    BY <2>1, <2>2
<1>7. p \in Busy(c) /\ a = p + c[p].size /\ p # a
  BY <1>1, <1>4, <1>6
<1>8. InOrder(w, u.free) /\ Joins(c, w, p, a) /\ Frees(w) = Frees(c) \ {a}
  <2>. HIDE DEF m1
  <2>. QED
    BY <1>6, <1>7, AbsorbDoes
<1>. HIDE DEF c, w, u, m1
<1>9. Headers(c) /\ Frees(c) \subseteq DOMAIN c
  BY <1>6, FreesType DEF InOrder
<1>10. Apart(w)
  <2>1. ASSUME NEW r \in Frees(w), r + w[r].size \in Frees(w)
        PROVE  FALSE
    <3>1. r \in Frees(c) /\ r # a /\ r # p /\ r \in DOMAIN c
      BY <1>7, <1>8, <1>9 DEF Busy
    <3>2. w[r].size = c[r].size
      BY <1>8, <3>1 DEF Joins
    <3>. QED
      BY <1>6, <1>8, <2>1, <3>1, <3>2 DEF Touches
  <2>. QED
    BY <2>1 DEF Apart
<1>11. Busy(w) = Busy(b)
  BY <1>6, <1>8 DEF Busy, Joins
<1>12. w[p].size >= n + 1
  <2>1. w[p].size = c[p].size + c[a].size /\ c[p].size = b[p].size
    BY <1>1, <1>6, <1>8 DEF Joins
  <2>. QED
    BY <1>4, <1>5, <1>6, <2>1
<1>13. \A r \in Busy(b) \ {p} : w[r].size = b[r].size
  BY <1>6, <1>8 DEF Busy, Joins
<1>14. GrowsBlock(b, w, p, n)
  BY <1>10, <1>11, <1>12, <1>13 DEF GrowsBlock
<1>. QED
  BY <1>0, <1>3, <1>8, <1>14 DEF m
-----------------------------------------------------------------------------
(* The inductive invariant: the blocks tile the buffer, the list holds the  *)
(* free ones in order, no two of which touch, and the blocks in use are     *)
(* those handed out.                                                        *)

LiveOK(b, given) ==
  /\ DOMAIN given = Busy(b) /\ given \in [Busy(b) -> Nat]
  /\ \A p \in Busy(b) : given[p] + 1 <= b[p].size
ScratchOK == InOrder(block, free) /\ Apart(block) /\ LiveOK(block, live)

LEMMA ScratchInit == Init => ScratchOK
<1>. SUFFICES ASSUME Init
              PROVE  ScratchOK
  OBVIOUS
<1>0. Units \in Nat /\ Units >= 3 /\ Null \notin 0 .. Units /\ 0 # Null
  BY ScratchAllocatorAssumption
<1>1. DOMAIN block = {0} /\ block[0] = FreeBlock(Units, Null, Null) /\ free = 0 /\ live = <<>> /\ block = [p \in {0} |-> block[p]]
  BY DEF Init, Untouched
<1>2. block[0].size = Units /\ ~ block[0].used /\ block[0].prev = Null /\ block[0].next = Null /\ block[0] \in Field
  BY <1>0, <1>1 DEF FreeBlock, Field
<1>3. Headers(block)
  BY <1>0, <1>1, <1>2 DEF Headers, Positions
<1>4. Frees(block) = {0} /\ Busy(block) = {}
  BY <1>1, <1>2 DEF Frees, Busy
<1>5. Tile(block)
  BY <1>0, <1>1, <1>2 DEF Tile, TileAt
<1>6. Linked(Frees(block), block, free)
  <2>1. FirstIn({0}, 0) /\ NextIn({0}, 0, Null) /\ PrevIn({0}, 0, Null)
    BY <1>0 DEF FirstIn, NextIn, PrevIn
  <2>. QED
    BY <1>1, <1>2, <1>4, <2>1 DEF Linked, LinkedAt
<1>7. Apart(block)
  BY <1>0, <1>2, <1>4 DEF Apart
<1>8. LiveOK(block, live)
  BY <1>1, <1>4 DEF LiveOK
<1>. QED
  BY <1>0, <1>1, <1>3, <1>5, <1>6, <1>7, <1>8 DEF InOrder, ScratchOK, Positions

\* What has been handed out, after a block has been cut out, and freed.
LEMMA LiveTakes ==
  ASSUME NEW b, NEW given, LiveOK(b, given), NEW c, NEW s, NEW n \in Nat, TakesBlock(b, c, s, n)
  PROVE  LiveOK(c, With(given, s, n))
<1> DEFINE g == With(given, s, n)
<1>1. DOMAIN g = Busy(c) /\ g[s] = n /\ \A r \in Busy(b) : g[r] = given[r]
  BY DEF With, LiveOK, TakesBlock
<1>2. g \in [Busy(c) -> Nat]
  BY DEF With, LiveOK, TakesBlock
<1>. HIDE DEF g
<1>3. \A p \in Busy(c) : g[p] + 1 <= c[p].size
  BY <1>1 DEF LiveOK, TakesBlock
<1>. QED
  BY <1>1, <1>2, <1>3 DEF LiveOK, g

LEMMA LiveFrees ==
  ASSUME NEW b, NEW given, LiveOK(b, given), NEW c, NEW p, FreesBlock(b, c, p)
  PROVE  LiveOK(c, Without(given, p))
<1> DEFINE g == Without(given, p)
<1>1. DOMAIN g = Busy(c) /\ \A r \in Busy(c) : g[r] = given[r]
  BY DEF Without, LiveOK, FreesBlock
<1>2. g \in [Busy(c) -> Nat]
  BY DEF Without, LiveOK, FreesBlock
<1>. HIDE DEF g
<1>3. \A r \in Busy(c) : g[r] + 1 <= c[r].size
  BY <1>1 DEF LiveOK, FreesBlock
<1>. QED
  BY <1>1, <1>2, <1>3 DEF LiveOK, g

LEMMA ScratchStep ==
  ASSUME ScratchOK, Next
  PROVE  ScratchOK'
<1>0. /\ InOrder(block, free) /\ Apart(block) /\ LiveOK(block, live) /\ DOMAIN live = Busy(block)
      /\ Memory.block = block /\ Memory.free = free
  BY DEF ScratchOK, LiveOK, Memory
<1>0a. Requests \subseteq Nat /\ Alignments \subseteq Nat \ {0}
  BY ScratchAllocatorAssumption
<1>0b. InOrder(Memory.block, Memory.free) /\ Apart(Memory.block)
  BY <1>0
<1>. HIDE DEF Memory
<1>1. ASSUME NEW n \in Requests, NEW align \in Alignments, Allocate(n, align)
      PROVE  ScratchOK'
  <2> DEFINE p == FirstFit(Memory, n, align)
             s == AllocStart(p, align)
             v == CutOut(Memory, p, n, align)
  <2>1. p # Null /\ block' = v.block /\ free' = v.free /\ live' = With(live, s, n)
    BY <1>1 DEF Allocate, Become
  <2>2. p \in Frees(Memory.block) /\ Fits(Memory, p, n, align)
    BY <1>0b, <2>1, FirstFitFits
  <2>. HIDE DEF p
  <2>3. InOrder(v.block, v.free) /\ TakesBlock(Memory.block, v.block, s, n)
    BY <1>0a, <1>0b, <2>2, CutOutDoes
  <2>. HIDE DEF s, v
  <2>4. LiveOK(v.block, With(live, s, n)) /\ Apart(v.block)
    BY <1>0, <1>0a, <2>3, LiveTakes DEF TakesBlock
  <2>. QED
    BY <2>1, <2>3, <2>4 DEF ScratchOK
<1>2. ASSUME NEW n \in Requests, NEW align \in Alignments, NEW p \in DOMAIN live, ReallocateMoves(p, n, align)
      PROVE  ScratchOK'
  <2> DEFINE q == FirstFit(Memory, n, align)
             s == AllocStart(q, align)
             v == CutOut(Memory, q, n, align)
             w == FreeTag(v, p)
  <2>1. q # Null /\ block' = w.block /\ free' = w.free /\ live' = With(Without(live, p), s, n)
    BY <1>2 DEF ReallocateMoves, Become
  <2>2. q \in Frees(Memory.block) /\ Fits(Memory, q, n, align)
    BY <1>0b, <2>1, FirstFitFits
  <2>. HIDE DEF q
  <2>3. InOrder(v.block, v.free) /\ TakesBlock(Memory.block, v.block, s, n)
    BY <1>0a, <1>0b, <2>2, CutOutDoes
  <2>. HIDE DEF s, v
  <2>4. LiveOK(v.block, With(live, s, n)) /\ Apart(v.block) /\ p \in Busy(v.block) /\ p # s
    BY <1>0, <1>0a, <2>3, LiveTakes DEF TakesBlock
  <2>5. InOrder(w.block, w.free) /\ FreesBlock(v.block, w.block, p)
    BY <2>3, <2>4, FreeTagDoes
  <2>. HIDE DEF w
  <2>6. LiveOK(w.block, Without(With(live, s, n), p)) /\ Apart(w.block)
    BY <2>4, <2>5, LiveFrees DEF FreesBlock
  <2>7. Without(With(live, s, n), p) = With(Without(live, p), s, n)
    BY <2>4 DEF With, Without
  <2>. QED
    BY <2>1, <2>5, <2>6, <2>7 DEF ScratchOK
<1>3. ASSUME NEW p \in DOMAIN live, Free(p)
      PROVE  ScratchOK'
  <2> DEFINE w == FreeTag(Memory, p)
  <2>1. block' = w.block /\ free' = w.free /\ live' = Without(live, p)
    BY <1>3 DEF Free, Become
  <2>2. p \in Busy(Memory.block)
    BY <1>0
  <2>3. InOrder(w.block, w.free) /\ FreesBlock(Memory.block, w.block, p)
    BY <1>0b, <2>2, FreeTagDoes
  <2>. HIDE DEF w
  <2>4. LiveOK(w.block, Without(live, p)) /\ Apart(w.block)
    BY <1>0, <2>3, LiveFrees DEF FreesBlock
  <2>. QED
    BY <2>1, <2>3, <2>4 DEF ScratchOK
<1>4. ASSUME NEW p \in DOMAIN live, NEW n \in Requests, ReallocateKeeps(p, n)
      PROVE  ScratchOK'
  <2>1. UNCHANGED <<block, free>> /\ live' = [live EXCEPT ![p] = n] /\ block[p].size >= n + 1 /\ n \in Nat
    BY <1>0a, <1>4 DEF ReallocateKeeps, KeepsBlock, Tag
  <2>1a. block[p].size \in Nat
    BY <1>0, HeaderType DEF InOrder, Busy
  <2>2. LiveOK(block, [live EXCEPT ![p] = n])
    BY <1>0, <2>1, <2>1a DEF LiveOK
  <2>. QED
    BY <1>0, <2>1, <2>2 DEF ScratchOK
<1>5. ASSUME NEW p \in DOMAIN live, NEW n \in Requests, ReallocateGrows(p, n)
      PROVE  ScratchOK'
  <2> DEFINE w == GrowInPlace(Memory, p, n)
  <2>1. block' = w.block /\ free' = w.free /\ live' = [live EXCEPT ![p] = n] /\ CanGrow(p, n) /\ n \in Nat
    BY <1>0a, <1>5 DEF ReallocateGrows, Become
  <2>2. p \in Busy(block)
    BY <1>0
  <2>3. InOrder(w.block, w.free) /\ GrowsBlock(block, w.block, p, n)
    BY <1>0, <2>1, <2>2, GrowDoes
  <2>. HIDE DEF w
  <2>3a. w.block[p].size \in Nat
    BY <2>2, <2>3, HeaderType DEF InOrder, Busy, GrowsBlock
  <2>4. LiveOK(w.block, [live EXCEPT ![p] = n]) /\ Apart(w.block)
    BY <1>0, <2>1, <2>2, <2>3, <2>3a DEF LiveOK, GrowsBlock
  <2>. QED
    BY <2>1, <2>3, <2>4 DEF ScratchOK
<1>. QED
  BY <1>1, <1>2, <1>3, <1>4, <1>5 DEF Next
-----------------------------------------------------------------------------
(* What the invariant says in the words of the specification.               *)

LEMMA MaxIs ==
  ASSUME NEW X, NEW m \in X, X \subseteq Nat, \A r \in X : r <= m
  PROVE  Max(X) = m
<1>1. \A r \in X : m >= r
  OBVIOUS
<1>2. Max(X) \in X /\ \A r \in X : Max(X) >= r
  BY <1>1 DEF Max
<1>3. Max(X) >= m /\ m >= Max(X) /\ Max(X) \in Nat /\ m \in Nat
  BY <1>2
<1>. QED
  BY <1>3

LEMMA LeastIs ==
  ASSUME NEW X, NEW m \in X, X \subseteq Nat, \A r \in X : m <= r
  PROVE  Min(X) = m
<1>1. Min(X) \in X /\ \A r \in X : Min(X) <= r
  BY DEF Min
<1>2. Min(X) <= m /\ m <= Min(X) /\ Min(X) \in Nat /\ m \in Nat
  BY <1>1
<1>. QED
  BY <1>2

LEMMA ScratchTiles == ScratchOK => BlocksTile
<1>. SUFFICES ASSUME ScratchOK
              PROVE  BlocksTile
  OBVIOUS
<1>1. Headers(block) /\ Tile(block) /\ LiveOK(block, live) /\ FreeBlocks = Frees(block)
  BY DEF ScratchOK, InOrder, FreeBlocks, Frees, Blocks
<1>2. ASSUME NEW p \in Blocks
      PROVE  LET e == AfterBlock(block, p)
             IN /\ p + Header <= e
                /\ e \in Blocks \cup {Units}
                /\ \A q \in Blocks : ~(p < q /\ q < e)
  BY <1>1, TileEnds DEF Blocks, AfterBlock, Header
<1>3. DOMAIN live = Blocks \ FreeBlocks /\ \A p \in DOMAIN live : live[p] + Tag <= block[p].size
  BY <1>1 DEF LiveOK, Busy, Blocks, Tag
<1>4. 0 \in Blocks
  BY <1>1 DEF Tile, Blocks
<1>. QED
  BY <1>2, <1>3, <1>4 DEF BlocksTile

LEMMA ScratchInOrder == ScratchOK => FreeListInOrder
<1>. SUFFICES ASSUME ScratchOK
              PROVE  FreeListInOrder
  OBVIOUS
<1> DEFINE X == Frees(block)
<1>1. Headers(block) /\ Linked(X, block, free) /\ Apart(block) /\ FreeBlocks = X /\ X \subseteq Positions
  BY FreesType DEF ScratchOK, InOrder, FreeBlocks, Frees, Blocks
<1>. HIDE DEF X
<1>2. Null \notin X /\ X \subseteq Nat
  BY <1>1, NullNone
<1>3. free = IF X = {} THEN Null ELSE Max(X)
  <2>1. FirstIn(X, free)
    BY <1>1 DEF Linked
  <2>2. CASE free = Null
    BY <2>1, <2>2 DEF FirstIn
  <2>3. CASE free # Null
    <3>1. free \in X /\ \A r \in X : r <= free
      BY <2>1, <2>3 DEF FirstIn
    <3>. QED
      BY <1>2, <3>1, MaxIs
  <2>. QED
    BY <2>2, <2>3
<1>4. ASSUME NEW p \in X
      PROVE  LET above == {q \in X : q > p}
                 below == {q \in X : q < p}
             IN /\ block[p].prev = IF above = {} THEN Null ELSE Min(above)
                /\ block[p].next = IF below = {} THEN Null ELSE Max(below)
                /\ AfterBlock(block, p) \notin X
  <2> DEFINE above == {q \in X : q > p}
             below == {q \in X : q < p}
             u == block[p].prev
             d == block[p].next
  <2>1. NextIn(X, p, d) /\ PrevIn(X, p, u)
    BY <1>1 DEF Linked, LinkedAt
  <2>. HIDE DEF u, d
  <2>2. u = IF above = {} THEN Null ELSE Min(above)
    <3>1. CASE u = Null
      <4>1. above = {}
        BY <1>2, <2>1, <3>1 DEF PrevIn
      <4>. QED
        BY <3>1, <4>1
    <3>2. CASE u # Null
      <4>1. u \in above /\ above \subseteq Nat
        BY <1>2, <2>1, <3>2 DEF PrevIn
      <4>2. ASSUME NEW r \in above
            PROVE  u <= r
        <5>1. r \in X /\ r \in Nat /\ u \in Nat /\ p \in Nat
          BY <1>2, <4>1
        <5>2. ~ (p < r /\ r < u)
          BY <2>1, <3>2, <5>1 DEF PrevIn
        <5>. QED
          BY <4>2, <5>1, <5>2
      <4>. HIDE DEF above
      <4>. QED
        BY <4>1, <4>2, LeastIs
    <3>. QED
      BY <3>1, <3>2
  <2>3. d = IF below = {} THEN Null ELSE Max(below)
    <3>1. CASE d = Null
      <4>1. below = {}
        BY <1>2, <2>1, <3>1 DEF NextIn
      <4>. QED
        BY <3>1, <4>1
    <3>2. CASE d # Null
      <4>1. d \in below /\ below \subseteq Nat
        BY <1>2, <2>1, <3>2 DEF NextIn
      <4>2. ASSUME NEW r \in below
            PROVE  r <= d
        <5>1. r \in X /\ r \in Nat /\ d \in Nat /\ p \in Nat
          BY <1>2, <4>1
        <5>2. ~ (d < r /\ r < p)
          BY <2>1, <3>2, <5>1 DEF NextIn
        <5>. QED
          BY <4>2, <5>1, <5>2
      <4>. HIDE DEF below
      <4>. QED
        BY <4>1, <4>2, MaxIs
    <3>. QED
      BY <3>1, <3>2
  <2>4. AfterBlock(block, p) \notin X
    BY <1>1 DEF Apart, AfterBlock, X
  <2>. QED
    BY <2>2, <2>3, <2>4 DEF u, d
<1>. QED
  BY <1>1, <1>3, <1>4, Zenon DEF FreeListInOrder

LEMMA ScratchComesBack == ScratchOK => AllComesBack
<1>. SUFFICES ASSUME ScratchOK, DOMAIN live = {}
              PROVE  free = 0 /\ block = Untouched
  BY DEF AllComesBack
<1> DEFINE X == Frees(block)
<1>1. /\ Headers(block) /\ Tile(block) /\ Linked(X, block, free) /\ Apart(block) /\ X \subseteq Positions /\ X = DOMAIN block
  BY FreesType DEF ScratchOK, InOrder, LiveOK, Busy
<1>2. 0 \in DOMAIN block /\ Units \in Nat /\ 0 # Null
  BY <1>1, ScratchAllocatorAssumption DEF Tile
<1>3. block[0].size = Units
  <2>1. 0 + block[0].size \in DOMAIN block \/ 0 + block[0].size = Units
    BY <1>1, <1>2, TileEnds
  <2>2. 0 + block[0].size \notin DOMAIN block
    BY <1>1, <1>2 DEF Apart
  <2>. QED
    BY <1>1, <1>2, <2>1, <2>2, HeaderType
<1>4. DOMAIN block = {0}
  <2>1. ASSUME NEW q \in DOMAIN block, q # 0
        PROVE  FALSE
    <3>1. q \in Nat /\ q + 3 <= q + block[q].size /\ q + block[q].size <= Units /\ block[q].size \in Nat
      BY <1>1, TileEnds, HeaderType
    <3>2. ~ (0 < q /\ q < 0 + block[0].size)
      BY <1>1, <1>2, TileEnds
    <3>. QED
      BY <1>2, <1>3, <2>1, <3>1, <3>2
  <2>. QED
    BY <1>2, <2>1
<1>5. free = 0 /\ block[0].next = Null /\ block[0].prev = Null /\ ~ block[0].used
  <2>0. ~ block[0].used
    BY <1>1, <1>2 DEF Frees
  <2>. HIDE DEF X
  <2>1. X = {0} /\ FirstIn(X, free) /\ NextIn(X, 0, block[0].next) /\ PrevIn(X, 0, block[0].prev)
    BY <1>1, <1>4 DEF Linked, LinkedAt
  <2>. QED
    BY <2>0, <2>1 DEF FirstIn, NextIn, PrevIn
<1>6. block[0] = FreeBlock(Units, Null, Null)
  <2>1. block[0] \in Field
    BY <1>1, <1>2 DEF Headers
  <2>. QED
    BY <1>3, <1>5, <2>1 DEF Field, FreeBlock
<1>7. block = Untouched
  <2>1. block \in [{0} -> Field]
    BY <1>1, <1>4 DEF Headers
  <2>. QED
    BY <1>6, <2>1 DEF Untouched
<1>. QED
  BY <1>5, <1>7

LEMMA ScratchStays ==
  ASSUME ScratchOK, UNCHANGED vars
  PROVE  ScratchOK'
<1>1. UNCHANGED <<block, free, live>>
  BY DEF vars
<1>. QED
  BY <1>1, Zenon DEF ScratchOK, InOrder, Headers, Field, Positions, Tile, TileAt, Frees, Linked, LinkedAt, FirstIn,
       NextIn, PrevIn, Apart, LiveOK

\* Through every call the blocks of a ScratchAllocator tile its buffer, the free
\* ones are listed in order and touch no other, and when none is in use the buffer
\* is one free block again.
THEOREM BufferStaysInOrder ==
  MCSpec => []BufferInOrder
<1> DEFINE Inv == used = "scratch" => ScratchOK
<1>1. MCInit => Inv
  BY ScratchInit DEF MCInit
<1>2. Inv /\ [MCNext]_<<used, bigVars, dataVars, otherVars>> => Inv'
  <2>. SUFFICES ASSUME Inv, [MCNext]_<<used, bigVars, dataVars, otherVars>>, used' = "scratch"
                PROVE  ScratchOK'
    OBVIOUS
  <2>1. used' = used
    BY DEF MCNext
  <2>2. ScratchOK
    BY <2>1
  <2>3. Next \/ UNCHANGED vars
    BY <2>1 DEF MCNext, BigNext, bigVars
  <2>. QED
    BY <2>2, <2>3, ScratchStep, ScratchStays
<1>3. Inv => BufferInOrder
  BY ScratchTiles, ScratchInOrder, ScratchComesBack DEF BufferInOrder
<1>. QED
  BY <1>1, <1>2, <1>3, PTL DEF MCSpec
-----------------------------------------------------------------------------
(* Division by what is not known.                                           *)

LEMMA Division ==
  ASSUME NEW a \in Nat, NEW n \in Nat \ {0}
  PROVE  a \div n \in Nat /\ a % n \in Nat /\ a % n < n /\ a = n * (a \div n) + (a % n)
OBVIOUS

LEMMA DivisionUnique ==
  ASSUME NEW k \in Nat, NEW r \in Nat, NEW n \in Nat \ {0}, r < n, NEW a \in Nat, a = n * k + r
  PROVE  a \div n = k /\ a % n = r
<1> DEFINE q == a \div n
           t == a % n
<1>1. q \in Nat /\ t \in Nat /\ t < n /\ a = n * q + t
  BY Division
<1>. HIDE DEF q, t
<1>2. q = k
  <2>1. CASE q > k
    <3>1. PICK c \in Nat : q = k + 1 + c
      <4>1. q - k - 1 \in Nat /\ q = k + 1 + (q - k - 1)
        BY <1>1, <2>1
      <4>. QED
        BY <4>1
    <3>2. n * q = n * k + n + n * c /\ n * c \in Nat /\ n * k \in Nat
      BY <3>1
    <3>. QED
      BY <1>1, <3>2
  <2>2. CASE q < k
    <3>1. PICK c \in Nat : k = q + 1 + c
      <4>1. k - q - 1 \in Nat /\ k = q + 1 + (k - q - 1)
        BY <1>1, <2>2
      <4>. QED
        BY <4>1
    <3>2. n * k = n * q + n + n * c /\ n * c \in Nat /\ n * q \in Nat
      BY <1>1, <3>1
    <3>. QED
      BY <1>1, <3>2
  <2>. QED
    BY <1>1, <2>1, <2>2
<1>3. t = r
  <2>1. n * q = n * k /\ n * k \in Nat
    BY <1>2
  <2>. QED
    BY <1>1, <2>1
<1>. QED
  BY <1>2, <1>3 DEF q, t

LEMMA DivisionGrows ==
  ASSUME NEW a \in Nat, NEW b \in Nat, NEW n \in Nat \ {0}, a <= b
  PROVE  a \div n <= b \div n
<1> DEFINE q == a \div n
           t == b \div n
<1>1. /\ q \in Nat /\ a % n \in Nat /\ a % n < n /\ a = n * q + (a % n)
      /\ t \in Nat /\ b % n \in Nat /\ b % n < n /\ b = n * t + (b % n)
  BY Division
<1>. HIDE DEF q, t
<1>2. ASSUME q > t
      PROVE  FALSE
  <2>1. PICK c \in Nat : q = t + 1 + c
    <3>1. q - t - 1 \in Nat /\ q = t + 1 + (q - t - 1)
      BY <1>1, <1>2
    <3>. QED
      BY <3>1
  <2>2. n * q = n * t + n + n * c /\ n * c \in Nat /\ n * t \in Nat
    BY <1>1, <2>1
  <2>. QED
    BY <1>1, <2>2
<1>3. q <= t
  BY <1>1, <1>2
<1>. QED
  BY <1>3 DEF q, t
-----------------------------------------------------------------------------
(* File: the pages of a mapping.                                            *)

LEMMA FileFacts ==
  /\ Descriptors \subseteq Nat /\ PageSize \in Nat \ {0} /\ Pages \in Nat /\ MaxFile \in Nat
  /\ \A f \in Files : f # F!Nobody /\ f # F!Client
  /\ F!None \notin Descriptors /\ F!None = -1
BY FileAssumption DEF F!None

\* A mapping that begins in page first, at the place in it that the offset has.
LEMMA MappingBegins ==
  ASSUME NEW first \in Nat, NEW offset \in Nat, NEW at, at = first * PageSize + F!Lead(offset)
  PROVE  /\ at \in Nat /\ F!Lead(at) = F!Lead(offset) /\ (at - F!Lead(at)) \div PageSize = first
         /\ F!Lead(offset) \in Nat /\ offset = PageSize * (offset \div PageSize) + F!Lead(offset)
         /\ offset \div PageSize \in Nat
<1> DEFINE P == PageSize
           r == offset % P
           k == offset \div P
<1>1. P \in Nat \ {0}
  BY FileFacts
<1>2. r \in Nat /\ r < P /\ k \in Nat /\ offset = P * k + r
  BY <1>1, Division
<1>3. F!Lead(offset) = r /\ F!Lead(at) = at % P /\ at = P * first + r
  BY <1>1, <1>2 DEF F!Lead
<1>. HIDE DEF P, r, k
<1>4. P * first \in Nat /\ at \in Nat
  BY <1>1, <1>2, <1>3
<1>5. at % P = r
  BY <1>1, <1>2, <1>3, <1>4, DivisionUnique
<1>6. (at - r) \div P = first
  <2>1. at - r = P * first + 0 /\ at - r \in Nat
    BY <1>1, <1>2, <1>3, <1>4
  <2>. QED
    BY <1>1, <2>1, DivisionUnique
<1>. QED
  BY <1>2, <1>3, <1>4, <1>5, <1>6 DEF P, k

\* The byte a places from a mapping's beginning lies in one of its pages.
LEMMA BytesLieInPages ==
  ASSUME NEW at \in Nat, NEW length \in Nat, at + length <= Pages * PageSize, NEW i \in 0 .. length - 1
  PROVE  (at + i) \div PageSize \in F!PagesOf(at, length)
<1> DEFINE P == PageSize
           a == at + i
           q == a \div P
<1>1. P \in Nat \ {0} /\ Pages \in Nat
  BY FileFacts
<1>2. a \in Nat /\ a < at + length
  OBVIOUS
<1>3. q \in Nat /\ a % P \in Nat /\ a = P * q + (a % P)
  BY <1>1, <1>2, Division
<1>4. q * P <= a
  <2>. HIDE DEF a, q, P
  <2>1. q * P = P * q /\ P * q \in Nat
    BY <1>1, <1>3
  <2>. QED
    BY <1>3, <2>1
<1>5. q >= (at - F!Lead(at)) \div P
  <2>1. at % P \in Nat /\ at = P * (at \div P) + (at % P) /\ at \div P \in Nat
    BY <1>1, Division
  <2>2. at - (at % P) \in Nat /\ at - (at % P) <= a
    <3>1. P * (at \div P) \in Nat
      BY <1>1, <2>1
    <3>. QED
      BY <2>1, <3>1
  <2>3. (at - (at % P)) \div P <= a \div P
    <3>. HIDE DEF a, P
    <3>. QED
      BY <1>1, <1>2, <2>2, DivisionGrows
  <2>4. (at - (at % P)) \div P \in Nat
    BY <1>1, <2>2, Division
  <2>. QED
    BY <1>3, <2>3, <2>4 DEF F!Lead
<1>6. q < Pages
  <2>1. ASSUME q >= Pages
        PROVE  FALSE
    <3>1. PICK c \in Nat : q = Pages + c
      <4>. HIDE DEF q
      <4>1. q - Pages \in Nat /\ q = Pages + (q - Pages)
        BY <1>1, <1>3, <2>1
      <4>. QED
        BY <4>1
    <3>2. q * P = Pages * P + c * P /\ c * P \in Nat /\ Pages * P \in Nat
      BY <1>1, <3>1
    <3>3. q * P < Pages * P
      <4>1. q * P <= a /\ a < at + length /\ at + length <= Pages * P
        BY <1>2, <1>4
      <4>2. q * P \in Nat
        BY <1>1, <1>3
      <4>. HIDE DEF q, a, P
      <4>. QED
        BY <1>2, <3>2, <4>1, <4>2
    <3>. QED
      BY <1>3, <3>2, <3>3
  <2>. QED
    BY <1>1, <1>3, <2>1
<1>7. q \in 0 .. Pages - 1 /\ q * P < at + length
  <2>1. q * P \in Nat
    BY <1>1, <1>3
  <2>. HIDE DEF q, a, P
  <2>. QED
    BY <1>1, <1>2, <1>3, <1>4, <1>6, <2>1
<1>. QED
  BY <1>5, <1>7 DEF F!PagesOf

\* And it is the byte of the file asked for.
LEMMA BytesAsAsked ==
  ASSUME NEW first \in Nat, NEW offset \in Nat, NEW at, at = first * PageSize + F!Lead(offset), NEW i \in Nat
  PROVE  ((offset \div PageSize) + ((at + i) \div PageSize) - first) * PageSize + ((at + i) % PageSize) = offset + i
<1> DEFINE P == PageSize
           k == offset \div P
           r == F!Lead(offset)
           a == at + i
           q == a \div P
           t == a % P
<1>1. P \in Nat \ {0}
  BY FileFacts
<1>2. at \in Nat /\ r \in Nat /\ k \in Nat /\ offset = P * k + r /\ at = first * P + r
  BY MappingBegins
<1>3. a \in Nat
  BY <1>2
<1>4. q \in Nat /\ t \in Nat /\ a = P * q + t
  BY <1>1, <1>3, Division
<1>5. a = at + i
  OBVIOUS
<1>. HIDE DEF q, t, k, r, a, P
<1>6. (k + q - first) * P = k * P + q * P - first * P
  BY <1>1, <1>2, <1>4
<1>7. k * P = P * k /\ q * P = P * q /\ P * k \in Nat /\ P * q \in Nat /\ first * P \in Nat
  BY <1>1, <1>2, <1>4
<1>8. (k + q - first) * P + t = offset + i
  <2>1. k * P + q * P - first * P + t = offset + i
    BY <1>2, <1>4, <1>5, <1>7
  <2>. QED
    BY <1>6, <2>1
<1>. QED
  BY <1>8 DEF q, t, k, a, P
-----------------------------------------------------------------------------
(* File: the descriptors.                                                   *)

FileEntry == [pos : Int, writeable : BOOLEAN, owner : Files \cup {F!Nobody, F!Client}]
FileType ==
  /\ fileSize \in Int /\ failed \in BOOLEAN
  /\ table \in [Descriptors -> FileEntry]
  /\ fd \in [Files -> Descriptors \cup {F!None}]
Owned == ~ failed => \A f \in Files : fd[f] # F!None => table[fd[f]].owner = f

LEMMA OwnedMeans ==
  ASSUME FileType, Owned
  PROVE  F!DescriptorsHold
<1>. SUFFICES ASSUME ~ failed, NEW f \in Files, fd[f] # F!None
              PROVE  F!IsOpen(fd[f]) /\ table[fd[f]].owner = f
  BY DEF F!DescriptorsHold
<1>1. fd[f] \in Descriptors /\ table[fd[f]].owner = f
  BY DEF FileType, Owned
<1>2. table[fd[f]] # F!Closed
  BY <1>1, FileFacts DEF F!Closed
<1>. QED
  BY <1>1, <1>2 DEF F!IsOpen

LEMMA OpenedEntry ==
  ASSUME NEW b \in BOOLEAN, NEW o \in Files \cup {F!Nobody, F!Client}
  PROVE  /\ F!Opened(b, o) \in FileEntry /\ F!Opened(b, o).owner = o
         /\ F!Closed \in FileEntry
BY DEF F!Opened, F!Closed, F!None, FileEntry

\* The lowest number that is not in use.
LEMMA LowestIsFree ==
  ASSUME NEW d \in Descriptors, ~ F!IsOpen(d)
  PROVE  F!Lowest \in Descriptors /\ ~ F!IsOpen(F!Lowest)
<1> DEFINE X == {c \in Descriptors : ~ F!IsOpen(c)}
<1>1. X \subseteq Nat /\ X # {}
  BY FileFacts
<1>2. PICK m \in X : \A k \in X : m <= k
  <2>. HIDE DEF X
  <2>. QED
    BY <1>1, LeastOf
<1>3. \A e \in Descriptors : e < m => F!IsOpen(e)
  <2>1. ASSUME NEW e \in Descriptors, e < m, ~ F!IsOpen(e)
        PROVE  FALSE
    <3>1. e \in X /\ e \in Nat /\ m \in Nat
      BY <1>1, <2>1
    <3>. QED
      BY <1>2, <2>1, <3>1
  <2>. QED
    BY <2>1
<1>4. m \in Descriptors /\ ~ F!IsOpen(m) /\ \A e \in Descriptors : e < m => F!IsOpen(e)
  BY <1>3
<1>5. F!Lowest = CHOOSE c \in Descriptors : ~ F!IsOpen(c) /\ \A e \in Descriptors : e < c => F!IsOpen(e)
  BY DEF F!Lowest
<1>. QED
  BY <1>4, <1>5, Zenon

\* While no close() has failed two files have no descriptor in common.
LEMMA OwnersDiffer ==
  ASSUME FileType, Owned, ~ failed, NEW f \in Files, NEW g \in Files, f # g, fd[g] # F!None
  PROVE  fd[g] \in Descriptors /\ table[fd[g]].owner = g /\ fd[g] # fd[f] /\ F!IsOpen(fd[g])
<1>1. fd[g] \in Descriptors /\ table[fd[g]].owner = g
  BY DEF FileType, Owned
<1>2. fd[g] # fd[f]
  <2>1. ASSUME fd[g] = fd[f]
        PROVE  FALSE
    <3>1. table[fd[f]].owner = f
      BY <2>1 DEF Owned
    <3>. QED
      BY <1>1, <2>1, <3>1
  <2>. QED
    BY <2>1
<1>3. table[fd[g]] # F!Closed
  BY <1>1, FileFacts DEF F!Closed
<1>. QED
  BY <1>1, <1>2, <1>3 DEF F!IsOpen

LEMMA OpenKeeps ==
  ASSUME FileType, Owned, NEW f \in Files, NEW b \in BOOLEAN, F!Open(f, b)
  PROVE  FileType' /\ Owned' /\ UNCHANGED <<pageOf, maps>> /\ fileSize' >= fileSize
<1>1. UNCHANGED <<pageOf, maps, failed>> /\ fileSize \in Int
  BY DEF F!Open, FileType
<1>2. CASE F!CanOpen(b)
  <2> DEFINE low == F!Lowest
  <2>1. low \in Descriptors /\ ~ F!IsOpen(low)
    <3>1. PICK d \in Descriptors : ~ F!IsOpen(d)
      BY <1>2 DEF F!CanOpen
    <3>. QED
      BY <3>1, LowestIsFree
  <2>2. /\ table' = [d \in Descriptors |-> IF d = low THEN F!Opened(b, f) ELSE IF d = fd[f] THEN F!Lost(d) ELSE table[d]]
        /\ fd' = [fd EXCEPT ![f] = low]
        /\ fileSize' = IF fileSize = F!None THEN 0 ELSE fileSize
    BY <1>2 DEF F!Open
  <2>. HIDE DEF low
  <2>3. \A d \in Descriptors : F!Lost(d) \in FileEntry
    BY OpenedEntry DEF F!Lost
  <2>4. FileType'
    <3>1. table' \in [Descriptors -> FileEntry]
      BY <2>2, <2>3, OpenedEntry DEF FileType
    <3>2. fd' \in [Files -> Descriptors \cup {F!None}]
      BY <2>1, <2>2 DEF FileType
    <3>3. fileSize' \in Int
      BY <1>1, <2>2
    <3>. QED
      BY <1>1, <3>1, <3>2, <3>3 DEF FileType
  <2>5. Owned'
    <3>1. ASSUME ~ failed, NEW g \in Files, fd'[g] # F!None
          PROVE  table'[fd'[g]].owner = g
      <4>1. CASE g = f
        <5>1. fd'[g] = low /\ table'[low] = F!Opened(b, f)
          BY <2>1, <2>2, <4>1 DEF FileType
        <5>. QED
          BY <4>1, <5>1, OpenedEntry
      <4>2. CASE g # f
        <5>1. fd'[g] = fd[g]
          BY <2>2, <4>2 DEF FileType
        <5>2. fd[g] \in Descriptors /\ table[fd[g]].owner = g /\ fd[g] # fd[f] /\ F!IsOpen(fd[g])
          BY <3>1, <4>2, <5>1, OwnersDiffer
        <5>3. table'[fd[g]] = table[fd[g]]
          BY <2>1, <2>2, <5>2
        <5>. QED
          BY <5>1, <5>2, <5>3
      <4>. QED
        BY <4>1, <4>2
    <3>. QED
      BY <1>1, <3>1 DEF Owned
  <2>6. fileSize' >= fileSize
    BY <1>1, <2>2 DEF F!None
  <2>. QED
    BY <1>1, <2>4, <2>5, <2>6
<1>3. CASE ~ F!CanOpen(b)
  <2>1. /\ table' = [d \in Descriptors |-> IF d = fd[f] THEN F!Lost(d) ELSE table[d]]
        /\ fd' = [fd EXCEPT ![f] = F!None] /\ fileSize' = fileSize
    BY <1>3 DEF F!Open
  <2>2. \A d \in Descriptors : F!Lost(d) \in FileEntry
    BY OpenedEntry DEF F!Lost
  <2>3. FileType'
    BY <1>1, <2>1, <2>2 DEF FileType
  <2>4. Owned'
    <3>1. ASSUME ~ failed, NEW g \in Files, fd'[g] # F!None
          PROVE  table'[fd'[g]].owner = g
      <4>1. g # f /\ fd'[g] = fd[g]
        BY <2>1, <3>1 DEF FileType
      <4>2. fd[g] \in Descriptors /\ table[fd[g]].owner = g /\ fd[g] # fd[f]
        BY <3>1, <4>1, OwnersDiffer
      <4>. QED
        BY <2>1, <4>1, <4>2
    <3>. QED
      BY <1>1, <3>1 DEF Owned
  <2>. QED
    BY <1>1, <2>1, <2>3, <2>4
<1>. QED
  BY <1>2, <1>3

LEMMA ClientKeeps ==
  ASSUME FileType, Owned, F!ClientOpens \/ \E d \in Descriptors : F!ClientCloses(d)
  PROVE  FileType' /\ Owned' /\ UNCHANGED <<pageOf, maps, fileSize>>
<1>1. PICK d \in Descriptors, e \in FileEntry :
        table' = [table EXCEPT ![d] = e] /\ (table[d].owner = F!Client \/ ~ F!IsOpen(d))
  <2>1. CASE F!ClientOpens
    <3>1. F!Lowest \in Descriptors /\ ~ F!IsOpen(F!Lowest)
      <4>1. PICK d \in Descriptors : ~ F!IsOpen(d)
        BY <2>1 DEF F!ClientOpens, F!CanOpen
      <4>. QED
        BY <4>1, LowestIsFree
    <3>. QED
      BY <2>1, <3>1, OpenedEntry DEF F!ClientOpens
  <2>2. CASE \E d \in Descriptors : F!ClientCloses(d)
    BY <2>2, OpenedEntry DEF F!ClientCloses
  <2>. QED
    BY <2>1, <2>2
<1>2. UNCHANGED <<fileSize, fd, pageOf, maps, failed>>
  BY DEF F!ClientOpens, F!ClientCloses
<1>3. FileType'
  BY <1>1, <1>2 DEF FileType
<1>4. Owned'
  <2>1. ASSUME ~ failed, NEW g \in Files, fd[g] # F!None
        PROVE  table'[fd[g]].owner = g
    <3>1. fd[g] \in Descriptors /\ table[fd[g]].owner = g /\ g # F!Client /\ g # F!Nobody
      BY <2>1, FileFacts DEF FileType, Owned
    <3>2. fd[g] # d
      <4>1. ASSUME fd[g] = d
            PROVE  F!IsOpen(d)
        BY <3>1, <4>1 DEF F!IsOpen, F!Closed
      <4>. QED
        BY <1>1, <3>1, <4>1
    <3>. QED
      BY <1>1, <3>1, <3>2 DEF FileType
  <2>. QED
    BY <1>2, <2>1 DEF Owned
<1>. QED
  BY <1>2, <1>3, <1>4

\* close(), the destructor and detach() let go of the descriptor.
LEMMA LetGoKeeps ==
  ASSUME FileType, Owned, NEW f \in Files, F!Detach(f) \/ F!Destroy(f) \/ \E b \in BOOLEAN : F!Close(f, b)
  PROVE  FileType' /\ Owned' /\ UNCHANGED <<pageOf, maps, fileSize>>
<1>1. UNCHANGED <<pageOf, maps, fileSize>>
  BY DEF F!Detach, F!Destroy, F!Close
<1>2. /\ failed' \in BOOLEAN /\ (failed => failed')
      /\ \A d \in Descriptors : table'[d] \in FileEntry /\ (d # fd[f] => table'[d] = table[d])
      /\ table' = [d \in Descriptors |-> table'[d]]
      /\ fd' \in [Files -> Descriptors \cup {F!None}]
      /\ \A g \in Files : g # f => fd'[g] = fd[g]
      /\ ~ failed' => fd'[f] = F!None
  <2>1. CASE F!Detach(f)
    <3>1. table' = [table EXCEPT ![fd[f]] = F!Opened(FALSE, F!Client)] /\ fd' = [fd EXCEPT ![f] = F!None] /\ failed' = failed
      BY <2>1 DEF F!Detach
    <3>2. F!Opened(FALSE, F!Client) \in FileEntry
      BY OpenedEntry
    <3>. QED
      BY <3>1, <3>2 DEF FileType
  <2>2. CASE F!Destroy(f)
    <3>1. /\ table' = [d \in Descriptors |-> IF d = fd[f] THEN F!Closed ELSE table[d]]
          /\ fd' = [fd EXCEPT ![f] = F!None] /\ failed' = failed
      BY <2>2 DEF F!Destroy
    <3>2. F!Closed \in FileEntry
      BY OpenedEntry
    <3>. QED
      BY <3>1, <3>2 DEF FileType
  <2>3. ASSUME NEW b \in BOOLEAN, F!Close(f, b)
        PROVE  /\ failed' \in BOOLEAN /\ (failed => failed')
               /\ \A d \in Descriptors : table'[d] \in FileEntry /\ (d # fd[f] => table'[d] = table[d])
               /\ table' = [d \in Descriptors |-> table'[d]]
               /\ fd' \in [Files -> Descriptors \cup {F!None}]
               /\ \A g \in Files : g # f => fd'[g] = fd[g]
               /\ ~ failed' => fd'[f] = F!None
    <3>1. /\ table' = [d \in Descriptors |-> IF d = fd[f] THEN F!Closed ELSE table[d]]
          /\ fd' = [fd EXCEPT ![f] = IF b /\ F!IsOpen(fd[f]) THEN F!None ELSE fd[f]] /\ failed' = (failed \/ ~ b)
          /\ fd[f] # F!None
      BY <2>3 DEF F!Close
    <3>2. F!Closed \in FileEntry
      BY OpenedEntry
    <3>3. failed' \in BOOLEAN /\ (failed => failed') /\ (~ failed' => b /\ ~ failed)
      BY <3>1, Zenon
    <3>4. ~ failed' => F!IsOpen(fd[f])
      <4>1. ASSUME ~ failed
            PROVE  F!IsOpen(fd[f])
        <5>1. fd[f] \in Descriptors /\ table[fd[f]].owner = f
          BY <3>1, <4>1 DEF Owned, FileType
        <5>. QED
          BY <5>1, FileFacts DEF F!IsOpen, F!Closed
      <4>. QED
        BY <3>3, <4>1
    <3>5. /\ \A d \in Descriptors : table'[d] \in FileEntry /\ (d # fd[f] => table'[d] = table[d])
          /\ table' = [d \in Descriptors |-> table'[d]]
      BY <3>1, <3>2 DEF FileType
    <3>6. fd' \in [Files -> Descriptors \cup {F!None}] /\ \A g \in Files : g # f => fd'[g] = fd[g]
      BY <3>1 DEF FileType
    <3>7. ~ failed' => fd'[f] = F!None
      BY <3>1, <3>3, <3>4 DEF FileType
    <3>. QED
      BY <3>3, <3>5, <3>6, <3>7
  <2>. QED
    BY <2>1, <2>2, <2>3
<1>3. FileType'
  <2>1. table' \in [Descriptors -> FileEntry]
    BY <1>2
  <2>. QED
    BY <1>1, <1>2, <2>1 DEF FileType
<1>4. Owned'
  <2>1. ASSUME ~ failed', NEW g \in Files, fd'[g] # F!None
        PROVE  table'[fd'[g]].owner = g
    <3>1. g # f /\ fd'[g] = fd[g] /\ ~ failed
      BY <1>2, <2>1
    <3>2. fd[g] \in Descriptors /\ table[fd[g]].owner = g /\ fd[g] # fd[f]
      BY <2>1, <3>1, OwnersDiffer
    <3>. QED
      BY <1>2, <3>1, <3>2
  <2>. QED
    BY <2>1 DEF Owned
<1>. QED
  BY <1>1, <1>3, <1>4

\* Reading, writing and seeking move the position.
LEMMA MovesKeep ==
  ASSUME FileType, Owned, NEW f \in Files, F!IsOpen(fd[f]), NEW pos1 \in Int, F!MoveTo(f, pos1), UNCHANGED <<fd, failed>>
  PROVE  table' \in [Descriptors -> FileEntry] /\ Owned'
<1> DEFINE d == fd[f]
<1>1. d \in Descriptors /\ table \in [Descriptors -> FileEntry] /\ table' = [table EXCEPT ![d].pos = pos1]
  BY DEF F!IsOpen, F!MoveTo, FileType
<1>. HIDE DEF d
<1>2. \A e \in Descriptors : /\ table'[e] \in FileEntry /\ table'[e].owner = table[e].owner
  BY <1>1 DEF FileEntry
<1>3. table' \in [Descriptors -> FileEntry]
  BY <1>1 DEF FileEntry
<1>4. Owned'
  BY <1>2 DEF Owned, FileType
<1>. QED
  BY <1>3, <1>4

LEMMA PositionsKeep ==
  ASSUME FileType, Owned, NEW f \in Files,
         \/ \E n \in 0 .. MaxFile : F!Read(f, n) \/ F!Write(f, n)
         \/ \E way \in {"begin", "current", "end"}, n \in -MaxFile .. MaxFile : F!Seek(f, way, n)
  PROVE  FileType' /\ Owned' /\ UNCHANGED <<pageOf, maps>> /\ fileSize' >= fileSize
<1>0. MaxFile \in Nat /\ fileSize \in Int
  BY FileFacts DEF FileType
<1>1. PICK pos1 \in Int : /\ F!IsOpen(fd[f]) /\ F!MoveTo(f, pos1) /\ UNCHANGED <<fd, failed, pageOf, maps>>
                          /\ fileSize' \in Int /\ fileSize' >= fileSize
  <2>0. ASSUME F!IsOpen(fd[f])
        PROVE  F!Pos(f) \in Int
    BY <2>0 DEF F!IsOpen, F!Pos, FileType, FileEntry
  <2>1. ASSUME NEW n \in 0 .. MaxFile, F!Read(f, n)
        PROVE  \E pos1 \in Int : /\ F!IsOpen(fd[f]) /\ F!MoveTo(f, pos1) /\ UNCHANGED <<fd, failed, pageOf, maps>>
                                 /\ fileSize' \in Int /\ fileSize' >= fileSize
    <3> DEFINE to == IF F!Pos(f) >= fileSize THEN F!Pos(f) ELSE F!Least(F!Pos(f) + n, fileSize)
    <3>1. F!IsOpen(fd[f]) /\ F!MoveTo(f, to) /\ UNCHANGED <<fileSize, fd, failed, pageOf, maps>>
      BY <2>1 DEF F!Read
    <3>2. to \in Int
      BY <1>0, <2>0, <3>1 DEF F!Least
    <3>. HIDE DEF to
    <3>. QED
      BY <1>0, <3>1, <3>2
  <2>2. ASSUME NEW n \in 0 .. MaxFile, F!Write(f, n)
        PROVE  \E pos1 \in Int : /\ F!IsOpen(fd[f]) /\ F!MoveTo(f, pos1) /\ UNCHANGED <<fd, failed, pageOf, maps>>
                                 /\ fileSize' \in Int /\ fileSize' >= fileSize
    <3> DEFINE to == F!Pos(f) + n
    <3>1. /\ F!IsOpen(fd[f]) /\ F!MoveTo(f, to) /\ UNCHANGED <<fd, failed, pageOf, maps>>
          /\ fileSize' = IF to > fileSize THEN to ELSE fileSize
      BY <2>2 DEF F!Write
    <3>2. to \in Int
      BY <1>0, <2>0, <3>1
    <3>. HIDE DEF to
    <3>. QED
      BY <1>0, <3>1, <3>2
  <2>3. ASSUME NEW way \in {"begin", "current", "end"}, NEW n \in -MaxFile .. MaxFile, F!Seek(f, way, n)
        PROVE  \E pos1 \in Int : /\ F!IsOpen(fd[f]) /\ F!MoveTo(f, pos1) /\ UNCHANGED <<fd, failed, pageOf, maps>>
                                 /\ fileSize' \in Int /\ fileSize' >= fileSize
    <3>1. PICK to \in 0 .. MaxFile : F!MoveTo(f, to)
      BY <2>3 DEF F!Seek
    <3>2. F!IsOpen(fd[f]) /\ UNCHANGED <<fileSize, fd, failed, pageOf, maps>>
      BY <2>3 DEF F!Seek
    <3>. QED
      BY <1>0, <3>1, <3>2
  <2>. QED
    BY <2>1, <2>2, <2>3
<1>2. table' \in [Descriptors -> FileEntry] /\ Owned'
  BY <1>1, MovesKeep
<1>. QED
  BY <1>1, <1>2 DEF FileType
-----------------------------------------------------------------------------
(* File: the mappings.                                                      *)

InFile(m) ==
  /\ m.at \in Nat /\ m.offset \in Nat /\ m.length \in Nat
  /\ m.at + m.length <= Pages * PageSize /\ m.offset + m.length <= fileSize
Shows(m) ==
  \A i \in 0 .. m.length - 1 :
    pageOf[(m.at + i) \div PageSize] * PageSize + ((m.at + i) % PageSize) = m.offset + i
Covers(m, p) == p \in F!PagesOf(m.at, m.length)
OneOf(p) ==
  IF pageOf[p] = F!None THEN \A m \in maps : ~ Covers(m, p)
  ELSE \E m \in maps : \A n \in maps : Covers(n, p) <=> n = m
MapsOK ==
  /\ pageOf \in [0 .. Pages - 1 -> Int]
  /\ \A m \in maps : InFile(m) /\ Shows(m)
  /\ \A p \in 0 .. Pages - 1 : OneOf(p)

LEMMA MapsKept ==
  ASSUME MapsOK, UNCHANGED <<pageOf, maps>>, fileSize \in Int, fileSize' \in Int, fileSize' >= fileSize
  PROVE  MapsOK'
<1>1. pageOf' = pageOf /\ maps' = maps
  OBVIOUS
<1>2. ASSUME NEW m \in maps
      PROVE  InFile(m)' /\ Shows(m)'
  <2>1. InFile(m) /\ Shows(m)
    BY <1>2 DEF MapsOK
  <2>2. Shows(m)'
    BY <1>1, <2>1, Zenon DEF Shows
  <2>3. InFile(m)'
    <3>1. m.offset + m.length <= fileSize /\ m.offset + m.length \in Int
      BY <2>1 DEF InFile
    <3>2. m.offset + m.length <= fileSize'
      BY <3>1
    <3>. QED
      BY <2>1, <3>2 DEF InFile
  <2>. QED
    BY <2>2, <2>3
<1>3. ASSUME NEW p \in 0 .. Pages - 1
      PROVE  OneOf(p)'
  <2>1. OneOf(p)
    BY DEF MapsOK
  <2>. QED
    BY <1>1, <2>1, Zenon DEF OneOf, Covers, F!PagesOf, F!Lead
<1>. QED
  BY <1>1, <1>2, <1>3 DEF MapsOK

\* What any page shows of a mapping is one of its own pages.
LEMMA ShowsStay ==
  ASSUME NEW m, InFile(m), Shows(m), pageOf \in [0 .. Pages - 1 -> Int],
         \A p \in 0 .. Pages - 1 : Covers(m, p) => pageOf'[p] = pageOf[p]
  PROVE  Shows(m)'
<1>1. ASSUME NEW i \in 0 .. m.length - 1
      PROVE  pageOf'[(m.at + i) \div PageSize] = pageOf[(m.at + i) \div PageSize]
  <2>1. (m.at + i) \div PageSize \in F!PagesOf(m.at, m.length)
    BY BytesLieInPages DEF InFile
  <2>2. (m.at + i) \div PageSize \in 0 .. Pages - 1
    BY <2>1 DEF F!PagesOf
  <2>. QED
    BY <2>1, <2>2 DEF Covers
<1>. QED
  BY <1>1 DEF Shows

LEMMA UnmapKeeps ==
  ASSUME MapsOK, FileType, NEW u \in maps, F!Unmap(u)
  PROVE  MapsOK'
<1>1. /\ maps' = maps \ {u} /\ fileSize' = fileSize
      /\ pageOf' = [p \in DOMAIN pageOf |-> IF p \in F!Released(u) THEN F!None ELSE pageOf[p]]
  BY DEF F!Unmap
<1>2. pageOf \in [0 .. Pages - 1 -> Int] /\ \A p \in 0 .. Pages - 1 : OneOf(p)
  BY DEF MapsOK
<1>3. /\ pageOf' \in [0 .. Pages - 1 -> Int]
      /\ \A p \in 0 .. Pages - 1 : pageOf'[p] = IF Covers(u, p) THEN F!None ELSE pageOf[p]
  BY <1>1, <1>2, FileFacts DEF Covers, F!Released
<1>4. ASSUME NEW m \in maps, m # u, NEW p \in 0 .. Pages - 1, Covers(m, p)
      PROVE  ~ Covers(u, p)
  <2>1. OneOf(p)
    BY <1>2
  <2>. QED
    BY <1>4, <2>1, Zenon DEF OneOf
<1>5. ASSUME NEW m \in maps'
      PROVE  InFile(m)' /\ Shows(m)'
  <2>1. m \in maps /\ m # u /\ InFile(m) /\ Shows(m)
    BY <1>1 DEF MapsOK
  <2>2. \A p \in 0 .. Pages - 1 : Covers(m, p) => pageOf'[p] = pageOf[p]
    BY <1>3, <1>4, <2>1
  <2>3. Shows(m)'
    BY <1>2, <2>1, <2>2, ShowsStay
  <2>4. InFile(m)'
    BY <1>1, <2>1, Zenon DEF InFile
  <2>. QED
    BY <2>3, <2>4
<1>6. ASSUME NEW p \in 0 .. Pages - 1
      PROVE  OneOf(p)'
  <2>1. OneOf(p)
    BY <1>2
  <2>2. \A m : Covers(m, p)' <=> Covers(m, p)
    BY Zenon DEF Covers, F!PagesOf, F!Lead
  <2>3. CASE Covers(u, p)
    <3>1. pageOf'[p] = F!None
      BY <1>3, <2>3
    <3>2. \A m \in maps' : ~ Covers(m, p)
      BY <1>1, <1>4, <2>3
    <3>. QED
      BY <2>2, <3>1, <3>2, Zenon DEF OneOf
  <2>4. CASE ~ Covers(u, p)
    <3>1. pageOf'[p] = pageOf[p]
      BY <1>3, <2>4
    <3>2. CASE pageOf[p] = F!None
      <4>1. \A m \in maps' : ~ Covers(m, p)
        BY <1>1, <2>1, <3>2 DEF OneOf
      <4>. QED
        BY <2>2, <3>1, <3>2, <4>1, Zenon DEF OneOf
    <3>3. CASE pageOf[p] # F!None
      <4>1. PICK m \in maps : \A n \in maps : Covers(n, p) <=> n = m
        BY <2>1, <3>3, Zenon DEF OneOf
      <4>2. m # u
        BY <2>4, <4>1
      <4>3. m \in maps' /\ \A n \in maps' : Covers(n, p) <=> n = m
        BY <1>1, <4>1, <4>2
      <4>4. \E v \in maps' : \A n \in maps' : Covers(n, p)' <=> n = v
        BY <2>2, <4>3, Zenon
      <4>. QED
        BY <3>1, <3>3, <4>4, Zenon DEF OneOf
    <3>. QED
      BY <3>2, <3>3
  <2>. QED
    BY <2>3, <2>4
<1>. QED
  BY <1>3, <1>5, <1>6 DEF MapsOK

\* The bytes that are mapped lie in the file, and there is one at least or part
\* of a page.
LEMMA LengthFits ==
  ASSUME fileSize \in Int, NEW offset \in Nat, offset < fileSize, NEW length \in Nat
  PROVE  F!Length(offset, length) \in Nat /\ offset + F!Length(offset, length) <= fileSize
BY DEF F!Length, F!Least

LEMMA MapKeeps ==
  ASSUME MapsOK, FileType, NEW f \in Files, NEW offset \in Nat, NEW length \in Int,
         fileSize > offset => length \in Nat, F!Map(f, offset, length)
  PROVE  MapsOK'
<1>1. offset < fileSize /\ fileSize' = fileSize /\ fileSize \in Int
  BY DEF F!Map, FileType
<1>0. PICK first \in 0 .. Pages - 1 : \E w \in {F!Mapped(first, offset, length)} :
        /\ w.at + w.length <= Pages * PageSize
        /\ \A p \in F!PagesOf(w.at, w.length) : pageOf[p] = F!None
        /\ w \notin maps /\ maps' = maps \cup {w}
        /\ pageOf' = [p \in DOMAIN pageOf |->
                        IF p \in F!PagesOf(w.at, w.length) THEN (offset \div PageSize) + p - first ELSE pageOf[p]]
  BY DEF F!Map
<1>2. PICK w \in {F!Mapped(first, offset, length)} :
        /\ w.at + w.length <= Pages * PageSize
        /\ \A p \in F!PagesOf(w.at, w.length) : pageOf[p] = F!None
        /\ w \notin maps /\ maps' = maps \cup {w}
        /\ pageOf' = [p \in DOMAIN pageOf |->
                        IF p \in F!PagesOf(w.at, w.length) THEN (offset \div PageSize) + p - first ELSE pageOf[p]]
  BY <1>0
<1>3. w.at = first * PageSize + F!Lead(offset) /\ w.offset = offset /\ w.length = F!Length(offset, length)
  BY <1>2 DEF F!Mapped
<1>4. length \in Nat /\ w.length \in Nat /\ offset + w.length <= fileSize
  <2>1. length \in Nat
    BY <1>1
  <2>. QED
    BY <1>1, <1>3, <2>1, LengthFits
<1>5. first \in Nat
  BY <1>2
<1>6. /\ w.at \in Nat /\ (w.at - F!Lead(w.at)) \div PageSize = first /\ offset \div PageSize \in Nat
  BY <1>3, <1>5, MappingBegins
<1>7. InFile(w)'
  BY <1>1, <1>2, <1>3, <1>4, <1>6, Zenon DEF InFile
<1>8. pageOf \in [0 .. Pages - 1 -> Int] /\ \A p \in 0 .. Pages - 1 : OneOf(p)
  BY DEF MapsOK
<1>9. \A p \in 0 .. Pages - 1 : Covers(w, p) => p >= first
  BY <1>6 DEF Covers, F!PagesOf
<1>10. \A p \in 0 .. Pages - 1 :
         /\ Covers(w, p) => pageOf[p] = F!None /\ pageOf'[p] = (offset \div PageSize) + p - first
         /\ ~ Covers(w, p) => pageOf'[p] = pageOf[p]
  BY <1>2, <1>8 DEF Covers
<1>11. \A p \in 0 .. Pages - 1 : Covers(w, p) => pageOf'[p] \in Nat /\ pageOf'[p] # F!None
  <2>1. ASSUME NEW p \in 0 .. Pages - 1, Covers(w, p)
        PROVE  pageOf'[p] \in Nat /\ pageOf'[p] # F!None
    <3>1. p >= first /\ pageOf'[p] = (offset \div PageSize) + p - first /\ p \in Nat
      BY <1>9, <1>10, <2>1
    <3>2. (offset \div PageSize) + p - first \in Nat
      BY <1>5, <1>6, <3>1
    <3>. QED
      BY <3>1, <3>2, FileFacts
  <2>. QED
    BY <2>1
<1>12. pageOf' \in [0 .. Pages - 1 -> Int]
  <2>1. DOMAIN pageOf = 0 .. Pages - 1
    BY <1>8
  <2>2. pageOf' = [p \in 0 .. Pages - 1 |-> IF p \in F!PagesOf(w.at, w.length) THEN (offset \div PageSize) + p - first ELSE pageOf[p]]
    BY <1>2, <2>1
  <2>3. \A p \in 0 .. Pages - 1 : (offset \div PageSize) + p - first \in Int /\ pageOf[p] \in Int
    BY <1>5, <1>6, <1>8
  <2>. QED
    BY <2>2, <2>3
<1>13. ASSUME NEW m \in maps, NEW p \in 0 .. Pages - 1, Covers(m, p)
       PROVE  ~ Covers(w, p) /\ pageOf'[p] = pageOf[p]
  <2>1. OneOf(p)
    BY <1>8
  <2>2. pageOf[p] # F!None
    BY <1>13, <2>1, Zenon DEF OneOf
  <2>. QED
    BY <1>10, <2>2
<1>14. Shows(w)'
  <2>1. ASSUME NEW i \in 0 .. w.length - 1
        PROVE  pageOf'[(w.at + i) \div PageSize] * PageSize + ((w.at + i) % PageSize) = w.offset + i
    <3>1. (w.at + i) \div PageSize \in F!PagesOf(w.at, w.length)
      BY <1>2, <1>4, <1>6, BytesLieInPages
    <3>2. (w.at + i) \div PageSize \in 0 .. Pages - 1
      BY <3>1 DEF F!PagesOf
    <3>3. pageOf'[(w.at + i) \div PageSize] = (offset \div PageSize) + ((w.at + i) \div PageSize) - first
      BY <1>10, <3>1, <3>2 DEF Covers
    <3>4. i \in Nat
      BY <1>4
    <3>5. ((offset \div PageSize) + ((w.at + i) \div PageSize) - first) * PageSize + ((w.at + i) % PageSize) = offset + i
      BY <1>3, <1>5, <3>4, BytesAsAsked
    <3>. QED
      BY <1>3, <3>3, <3>5
  <2>. QED
    BY <2>1 DEF Shows
<1>15. ASSUME NEW m \in maps
       PROVE  InFile(m)' /\ Shows(m)'
  <2>1. InFile(m) /\ Shows(m)
    BY DEF MapsOK
  <2>2. \A p \in 0 .. Pages - 1 : Covers(m, p) => pageOf'[p] = pageOf[p]
    BY <1>13
  <2>3. Shows(m)'
    BY <1>8, <2>1, <2>2, ShowsStay
  <2>4. InFile(m)'
    BY <1>1, <2>1, Zenon DEF InFile
  <2>. QED
    BY <2>3, <2>4
<1>16. \A m \in maps' : InFile(m)' /\ Shows(m)'
  <2>1. ASSUME NEW m \in maps'
        PROVE  InFile(m)' /\ Shows(m)'
    <3>1. m \in maps \/ m = w
      BY <1>2
    <3>2. CASE m = w
      BY <1>7, <1>14, <3>2, Zenon
    <3>. QED
      BY <1>15, <3>1, <3>2
  <2>. QED
    BY <2>1
<1>17. ASSUME NEW p \in 0 .. Pages - 1
       PROVE  OneOf(p)'
  <2>1. OneOf(p)
    BY <1>8
  <2>2. \A m : Covers(m, p)' <=> Covers(m, p)
    BY Zenon DEF Covers, F!PagesOf, F!Lead
  <2>3. CASE Covers(w, p)
    <3>1. pageOf'[p] # F!None
      BY <1>11, <2>3
    <3>2. \A n \in maps : ~ Covers(n, p)
      BY <1>13, <2>3
    <3>3. w \in maps' /\ \A n \in maps' : Covers(n, p) <=> n = w
      BY <1>2, <2>3, <3>2
    <3>4. \E v \in maps' : \A n \in maps' : Covers(n, p)' <=> n = v
      BY <2>2, <3>3, Zenon
    <3>. QED
      BY <3>1, <3>4, Zenon DEF OneOf
  <2>4. CASE ~ Covers(w, p)
    <3>1. pageOf'[p] = pageOf[p]
      BY <1>10, <2>4
    <3>2. CASE pageOf[p] = F!None
      <4>1. \A m \in maps' : ~ Covers(m, p)
        BY <1>2, <2>1, <2>4, <3>2 DEF OneOf
      <4>. QED
        BY <2>2, <3>1, <3>2, <4>1, Zenon DEF OneOf
    <3>3. CASE pageOf[p] # F!None
      <4>1. PICK m \in maps : \A n \in maps : Covers(n, p) <=> n = m
        BY <2>1, <3>3, Zenon DEF OneOf
      <4>2. m # w
        BY <1>2, <4>1
      <4>3. m \in maps' /\ \A n \in maps' : Covers(n, p) <=> n = m
        BY <1>2, <2>4, <4>1, <4>2
      <4>4. \E v \in maps' : \A n \in maps' : Covers(n, p)' <=> n = v
        BY <2>2, <4>3, Zenon
      <4>. QED
        BY <3>1, <3>3, <4>4, Zenon DEF OneOf
    <3>. QED
      BY <3>2, <3>3
  <2>. QED
    BY <2>3, <2>4
<1>. QED
  BY <1>12, <1>16, <1>17 DEF MapsOK
-----------------------------------------------------------------------------
FileOK == FileType /\ Owned /\ MapsOK

LEMMA FileInit ==
  F!Init => FileOK
<1>. SUFFICES ASSUME F!Init
              PROVE  FileOK
  OBVIOUS
<1>1. FileType
  <2>1. F!Closed \in FileEntry
    BY DEF FileEntry, F!Closed, F!None
  <2>2. fileSize \in Int
    BY FileFacts DEF F!Init, F!None
  <2>3. table \in [Descriptors -> FileEntry] /\ fd \in [Files -> Descriptors \cup {F!None}] /\ failed \in BOOLEAN
    BY <2>1 DEF F!Init
  <2>. QED
    BY <2>2, <2>3 DEF FileType
<1>2. Owned
  BY DEF F!Init, Owned
<1>3. MapsOK
  <2>1. pageOf = [p \in 0 .. Pages - 1 |-> F!None] /\ maps = {}
    BY DEF F!Init
  <2>2. \A p \in 0 .. Pages - 1 : OneOf(p)
    BY <2>1 DEF OneOf
  <2>. QED
    BY <2>1, <2>2, FileFacts DEF MapsOK
<1>. QED
  BY <1>1, <1>2, <1>3 DEF FileOK

LEMMA FileStep ==
  ASSUME FileOK, F!Next
  PROVE  FileOK'
<1>1. FileType /\ Owned /\ MapsOK /\ fileSize \in Int
  BY DEF FileOK, FileType
<1>2. ASSUME FileType', Owned', UNCHANGED <<pageOf, maps>>, fileSize' >= fileSize
      PROVE  FileOK'
  <2>1. fileSize' \in Int
    BY <1>2 DEF FileType
  <2>2. MapsOK'
    BY <1>1, <1>2, <2>1, MapsKept
  <2>. QED
    BY <1>2, <2>2 DEF FileOK
<1>3. ASSUME UNCHANGED <<fileSize, table, fd, failed>>, MapsOK'
      PROVE  FileOK'
  <2>1. FileType' /\ Owned'
    BY <1>1, <1>3, Zenon DEF FileType, Owned
  <2>. QED
    BY <1>3, <2>1 DEF FileOK
<1>4. ASSUME NEW f \in Files, NEW b \in BOOLEAN, F!Open(f, b)
      PROVE  FileOK'
  <2>1. FileType' /\ Owned' /\ UNCHANGED <<pageOf, maps>> /\ fileSize' >= fileSize
    BY <1>1, <1>4, OpenKeeps
  <2>. QED
    BY <1>2, <2>1
<1>5. ASSUME NEW f \in Files, F!Detach(f) \/ F!Destroy(f) \/ \E b \in BOOLEAN : F!Close(f, b)
      PROVE  FileOK'
  <2>1. FileType' /\ Owned' /\ UNCHANGED <<pageOf, maps, fileSize>>
    BY <1>1, <1>5, LetGoKeeps
  <2>2. fileSize' >= fileSize
    BY <1>1, <2>1
  <2>. QED
    BY <1>2, <2>1, <2>2
<1>6. ASSUME F!ClientOpens \/ \E d \in Descriptors : F!ClientCloses(d)
      PROVE  FileOK'
  <2>1. FileType' /\ Owned' /\ UNCHANGED <<pageOf, maps, fileSize>>
    BY <1>1, <1>6, ClientKeeps
  <2>2. fileSize' >= fileSize
    BY <1>1, <2>1
  <2>. QED
    BY <1>2, <2>1, <2>2
<1>7. ASSUME NEW f \in Files,
             \/ \E n \in 0 .. MaxFile : F!Read(f, n) \/ F!Write(f, n)
             \/ \E way \in {"begin", "current", "end"}, n \in -MaxFile .. MaxFile : F!Seek(f, way, n)
      PROVE  FileOK'
  <2>1. FileType' /\ Owned' /\ UNCHANGED <<pageOf, maps>> /\ fileSize' >= fileSize
    BY <1>1, <1>7, PositionsKeep
  <2>. QED
    BY <1>2, <2>1
<1>8. ASSUME NEW f \in Files, NEW offset \in Nat, NEW length \in Int, fileSize > offset => length \in Nat,
             F!Map(f, offset, length)
      PROVE  FileOK'
  <2>1. MapsOK'
    BY <1>1, <1>8, MapKeeps
  <2>2. UNCHANGED <<fileSize, table, fd, failed>>
    BY <1>8 DEF F!Map
  <2>. QED
    BY <1>3, <2>1, <2>2
<1>9. ASSUME NEW u \in maps, F!Unmap(u)
      PROVE  FileOK'
  <2>1. MapsOK'
    BY <1>1, <1>9, UnmapKeeps
  <2>2. UNCHANGED <<fileSize, table, fd, failed>>
    BY <1>9 DEF F!Unmap
  <2>. QED
    BY <1>3, <2>1, <2>2
<1>10. ASSUME NEW f \in Files, NEW n \in 0 .. MaxFile, F!AutoMap(f, n)
       PROVE  FileOK'
  <2>1. n \in Nat /\ (fileSize > n => fileSize \in Nat)
    BY <1>1, FileFacts
  <2>2. F!Map(f, n, fileSize)
    BY <1>10 DEF F!AutoMap
  <2>. QED
    BY <1>1, <1>8, <2>1, <2>2
<1>11. ASSUME NEW f \in Files, NEW offset \in 0 .. MaxFile, NEW length \in 0 .. MaxFile, F!Map(f, offset, length)
       PROVE  FileOK'
  <2>1. offset \in Nat /\ length \in Nat /\ length \in Int
    BY FileFacts
  <2>. QED
    BY <1>8, <1>11, <2>1
<1>. QED
  BY <1>4, <1>5, <1>6, <1>7, <1>9, <1>10, <1>11 DEF F!Next

LEMMA FileStays ==
  ASSUME FileOK, UNCHANGED fileVars
  PROVE  FileOK'
<1>1. UNCHANGED <<fileSize, table, fd, pageOf, maps, failed>>
  BY DEF fileVars
<1>2. FileType' /\ Owned'
  BY <1>1, Zenon DEF FileOK, FileType, Owned
<1>3. MapsOK'
  <2>1. MapsOK /\ fileSize \in Int
    BY DEF FileOK, FileType
  <2>2. fileSize' \in Int /\ fileSize' >= fileSize
    BY <1>1, <2>1
  <2>. QED
    BY <1>1, <2>1, <2>2, MapsKept
<1>. QED
  BY <1>2, <1>3 DEF FileOK

LEMMA FileHolds ==
  ASSUME FileOK
  PROVE  F!MappingsHold /\ F!DescriptorsHold
<1>1. FileType /\ Owned /\ MapsOK
  BY DEF FileOK
<1>2. F!DescriptorsHold
  BY <1>1, OwnedMeans
<1>3. ASSUME NEW p \in DOMAIN pageOf
      PROVE  Cardinality({m \in maps : p \in F!PagesOf(m.at, m.length)}) = IF pageOf[p] = F!None THEN 0 ELSE 1
  <2>1. OneOf(p)
    BY <1>1, <1>3 DEF MapsOK
  <2>2. CASE pageOf[p] = F!None
    <3>1. {m \in maps : p \in F!PagesOf(m.at, m.length)} = {}
      BY <2>1, <2>2 DEF OneOf, Covers
    <3>. QED
      BY <2>2, <3>1, FS_EmptySet
  <2>3. CASE pageOf[p] # F!None
    <3>1. PICK w \in maps : \A n \in maps : Covers(n, p) <=> n = w
      BY <2>1, <2>3, Zenon DEF OneOf
    <3>2. {m \in maps : p \in F!PagesOf(m.at, m.length)} = {w}
      BY <3>1 DEF Covers
    <3>. QED
      BY <2>3, <3>2, FS_Singleton
  <2>. QED
    BY <2>2, <2>3
<1>4. \A m \in maps :
        /\ m.offset + m.length <= fileSize
        /\ \A i \in 0 .. m.length - 1 :
             pageOf[(m.at + i) \div PageSize] * PageSize + ((m.at + i) % PageSize) = m.offset + i
  BY <1>1 DEF MapsOK, InFile, Shows
<1>5. F!MappingsHold
  <2>1. \A p \in DOMAIN pageOf :
          Cardinality({m \in maps : p \in F!PagesOf(m.at, m.length)}) = IF pageOf[p] = F!None THEN 0 ELSE 1
    BY <1>3, Zenon
  <2>2. \A X : F!Cardinality(X) = Cardinality(X)
    BY DEF F!Cardinality, Cardinality
  <2>3. \A p \in DOMAIN pageOf :
          F!Cardinality({m \in maps : p \in F!PagesOf(m.at, m.length)}) = IF pageOf[p] = F!None THEN 0 ELSE 1
    BY <2>1, <2>2, Zenon
  <2>. QED
    BY <1>4, <2>3, Zenon DEF F!MappingsHold
<1>. QED
  BY <1>2, <1>5

\* Whatever is opened, closed, written and mapped in whatever order, mappings
\* show the bytes that were asked for, every page is of one of them, and as long
\* as no close() fails every descriptor is of one File.
THEOREM FilesStay ==
  MCSpec => []FilesHold
<1> DEFINE Inv == used = "file" => FileOK
<1>1. MCInit => Inv
  BY FileInit DEF MCInit
<1>2. Inv /\ [MCNext]_<<used, bigVars, dataVars, otherVars>> => Inv'
  <2>. SUFFICES ASSUME Inv, [MCNext]_<<used, bigVars, dataVars, otherVars>>, used' = "file"
                PROVE  FileOK'
    OBVIOUS
  <2>1. used' = used
    BY DEF MCNext
  <2>2. FileOK
    BY <2>1
  <2>3. F!Next \/ UNCHANGED fileVars
    BY <2>1 DEF MCNext, BigNext, DataNext, OtherNext, otherVars
  <2>. QED
    BY <2>2, <2>3, FileStep, FileStays
<1>3. Inv => FilesHold
  BY FileHolds DEF FilesHold
<1>. QED
  BY <1>1, <1>2, <1>3, PTL DEF MCSpec
-----------------------------------------------------------------------------
(* Timeout: times and their differences.                                    *)

IsTime(t) == t.sec \in Int /\ t.nsec \in 0 .. Second - 1

LEMMA TimeFacts ==
  /\ Second \in Nat \ {0} /\ Milli \in Nat \ {0} /\ Micro \in Nat \ {0}
  /\ Second \div Milli \in Nat /\ Second = Milli * (Second \div Milli)
  /\ Second \div Micro \in Nat /\ Second = Micro * (Second \div Micro)
<1>1. /\ Second \in Nat \ {0} /\ Milli \in Nat \ {0} /\ Micro \in Nat \ {0}
      /\ Second % Milli = 0 /\ Second % Micro = 0
  BY TimeAssumption
<1>2. Second \div Milli \in Nat /\ Second = Milli * (Second \div Milli) + (Second % Milli)
  BY <1>1, Division
<1>3. Second \div Micro \in Nat /\ Second = Micro * (Second \div Micro) + (Second % Micro)
  BY <1>1, Division
<1>4. Milli * (Second \div Milli) \in Nat /\ Micro * (Second \div Micro) \in Nat
  BY <1>1, <1>2, <1>3
<1>. QED
  BY <1>1, <1>2, <1>3, <1>4

LEMMA TotalIs ==
  ASSUME NEW t, IsTime(t)
  PROVE  /\ TO!Total(t) \in Int /\ t.sec * Second \in Int /\ TO!Total(t) = t.sec * Second + t.nsec
         /\ t.nsec \in Int /\ 0 <= t.nsec /\ t.nsec < Second
BY TimeFacts DEF IsTime, TO!Total

\* What is carried is at most one second, into the subtrahend.
LEMMA CarriedIs ==
  ASSUME NEW a, NEW b, IsTime(a), IsTime(b)
  PROVE  TO!Carried(a, b) = IF a.nsec < b.nsec THEN [sec |-> b.sec + 1, nsec |-> b.nsec - Second] ELSE b
<1>1. Second \in Nat \ {0} /\ a.nsec \in 0 .. Second - 1 /\ b.nsec \in 0 .. Second - 1 /\ b.sec \in Int
  BY TimeFacts DEF IsTime
<1>2. CASE a.nsec < b.nsec
  <2>1. (b.nsec - a.nsec) \div Second = 0
    <3>1. b.nsec - a.nsec \in Nat /\ b.nsec - a.nsec < Second /\ b.nsec - a.nsec = Second * 0 + (b.nsec - a.nsec)
      BY <1>1, <1>2
    <3>. QED
      BY <1>1, <3>1, DivisionUnique
  <2> DEFINE w == [sec |-> b.sec + 1, nsec |-> b.nsec - Second]
  <2>2. [sec |-> b.sec + (((b.nsec - a.nsec) \div Second) + 1),
         nsec |-> b.nsec - Second * (((b.nsec - a.nsec) \div Second) + 1)] = w
    BY <1>1, <2>1
  <2>3. ~ (a.nsec - w.nsec > Second)
    BY <1>1, <1>2
  <2>. HIDE DEF w
  <2>4. TO!Carried(a, b) = w
    BY <1>2, <2>2, <2>3, Zenon DEF TO!Carried
  <2>. QED
    BY <1>2, <2>4 DEF w
<1>3. CASE ~ (a.nsec < b.nsec)
  <2>1. ~ (a.nsec - b.nsec > Second)
    BY <1>1
  <2>. QED
    BY <1>3, <2>1, Zenon DEF TO!Carried
<1>. QED
  BY <1>2, <1>3

\* Subtracting times subtracts the nanoseconds they stand for, and leaves less
\* than a second of them.
LEMMA SubtractIs ==
  ASSUME NEW a, NEW b, IsTime(a), IsTime(b)
  PROVE  IsTime(TO!Subtract(a, b)) /\ TO!Total(TO!Subtract(a, b)) = TO!Total(a) - TO!Total(b)
<1>1. /\ Second \in Nat \ {0} /\ a.nsec \in 0 .. Second - 1 /\ b.nsec \in 0 .. Second - 1
      /\ a.sec \in Int /\ b.sec \in Int
  BY TimeFacts DEF IsTime
<1>2. CASE a.nsec < b.nsec
  <2>1. TO!Subtract(a, b) = [sec |-> a.sec - (b.sec + 1), nsec |-> a.nsec - (b.nsec - Second)]
    BY <1>2, CarriedIs DEF TO!Subtract
  <2>2. (a.sec - (b.sec + 1)) * Second = a.sec * Second - b.sec * Second - Second
    BY <1>1
  <2>3. a.sec * Second \in Int /\ b.sec * Second \in Int
    BY <1>1
  <2>4. (a.sec - (b.sec + 1)) * Second + (a.nsec - (b.nsec - Second)) = (a.sec * Second + a.nsec) - (b.sec * Second + b.nsec)
    BY <1>1, <2>2, <2>3
  <2>5. a.nsec - (b.nsec - Second) \in 0 .. Second - 1 /\ a.sec - (b.sec + 1) \in Int
    BY <1>1, <1>2
  <2>. QED
    BY <2>1, <2>4, <2>5 DEF IsTime, TO!Total
<1>3. CASE ~ (a.nsec < b.nsec)
  <2>1. TO!Subtract(a, b) = [sec |-> a.sec - b.sec, nsec |-> a.nsec - b.nsec]
    BY <1>3, CarriedIs DEF TO!Subtract
  <2>2. (a.sec - b.sec) * Second = a.sec * Second - b.sec * Second
    BY <1>1
  <2>3. a.sec * Second \in Int /\ b.sec * Second \in Int
    BY <1>1
  <2>4. (a.sec - b.sec) * Second + (a.nsec - b.nsec) = (a.sec * Second + a.nsec) - (b.sec * Second + b.nsec)
    BY <1>1, <2>2, <2>3
  <2>5. a.nsec - b.nsec \in 0 .. Second - 1 /\ a.sec - b.sec \in Int
    BY <1>1, <1>3
  <2>. QED
    BY <2>1, <2>4, <2>5 DEF IsTime, TO!Total
<1>. QED
  BY <1>2, <1>3

LEMMA MoreSeconds ==
  ASSUME NEW i \in Int, NEW j \in Int, i < j
  PROVE  i * Second + Second <= j * Second
<1>1. PICK c \in Nat : j = i + 1 + c
  <2>1. j - i - 1 \in Nat /\ j = i + 1 + (j - i - 1)
    OBVIOUS
  <2>. QED
    BY <2>1
<1>2. Second \in Nat
  BY TimeFacts
<1>3. j * Second = i * Second + Second + c * Second /\ c * Second \in Nat /\ i * Second \in Int
  BY <1>1, <1>2
<1>. QED
  BY <1>2, <1>3

LEMMA BelowZero ==
  ASSUME NEW t, IsTime(t)
  PROVE  t.sec < 0 <=> TO!Total(t) < 0
<1>1. t.sec \in Int /\ Second \in Nat \ {0}
  BY TimeFacts DEF IsTime
<1>2. /\ TO!Total(t) \in Int /\ t.sec * Second \in Int /\ TO!Total(t) = t.sec * Second + t.nsec
      /\ t.nsec \in Int /\ 0 <= t.nsec /\ t.nsec < Second
  BY TotalIs
<1>3. CASE t.sec < 0
  <2>1. t.sec * Second + Second <= 0 * Second
    BY <1>1, <1>3, MoreSeconds
  <2>2. 0 * Second = 0
    BY <1>1
  <2>. QED
    BY <1>1, <1>2, <1>3, <2>1, <2>2
<1>4. CASE t.sec \in Nat
  <2>1. t.sec * Second \in Nat
    BY <1>1, <1>4
  <2>. QED
    BY <1>1, <1>2, <1>4, <2>1
<1>. QED
  BY <1>1, <1>3, <1>4

\* operator < compares them.
LEMMA LessIs ==
  ASSUME NEW a, NEW b, IsTime(a), IsTime(b)
  PROVE  TO!Less(a, b) <=> TO!Total(a) < TO!Total(b)
<1>1. Second \in Nat \ {0} /\ a.sec \in Int /\ b.sec \in Int
  BY TimeFacts DEF IsTime
<1>2. /\ TO!Total(a) \in Int /\ a.sec * Second \in Int /\ TO!Total(a) = a.sec * Second + a.nsec
      /\ a.nsec \in Int /\ 0 <= a.nsec /\ a.nsec < Second
  BY TotalIs
<1>3. /\ TO!Total(b) \in Int /\ b.sec * Second \in Int /\ TO!Total(b) = b.sec * Second + b.nsec
      /\ b.nsec \in Int /\ 0 <= b.nsec /\ b.nsec < Second
  BY TotalIs
<1>4. CASE a.sec < b.sec
  <2>1. a.sec * Second + Second <= b.sec * Second
    BY <1>1, <1>4, MoreSeconds
  <2>. QED
    BY <1>1, <1>2, <1>3, <1>4, <2>1 DEF TO!Less
<1>5. CASE b.sec < a.sec
  <2>1. b.sec * Second + Second <= a.sec * Second
    BY <1>1, <1>5, MoreSeconds
  <2>. QED
    BY <1>1, <1>2, <1>3, <1>5, <2>1 DEF TO!Less
<1>6. CASE a.sec = b.sec
  BY <1>1, <1>2, <1>3, <1>6 DEF TO!Less
<1>. QED
  BY <1>1, <1>4, <1>5, <1>6

\* Units of which a second has a whole number: those in the nanoseconds, and the
\* rest that is cut off.
LEMMA Rounded ==
  ASSUME NEW t, IsTime(t), NEW unit \in Nat \ {0}, NEW each \in Nat, Second = unit * each
  PROVE  \E rest \in 0 .. unit - 1 :
           /\ TO!Total(t) = (t.sec * each + (t.nsec \div unit)) * unit + rest
           /\ t.nsec \div unit \in Nat
           /\ TO!Total(t) = t.sec * Second + (t.nsec \div unit) * unit + rest
<1> DEFINE q == t.nsec \div unit
           r == t.nsec % unit
<1>1. t.nsec \in Nat /\ t.sec \in Int /\ Second \in Nat
  BY TimeFacts DEF IsTime
<1>2. q \in Nat /\ r \in Nat /\ r < unit /\ t.nsec = unit * q + r
  BY <1>1, Division
<1>3. TO!Total(t) = t.sec * Second + t.nsec
  BY TotalIs
<1>. HIDE DEF q, r
<1>4. t.sec * (unit * each) = (t.sec * each) * unit
  BY <1>1
<1>5. t.sec * each \in Int /\ unit * q = q * unit /\ q * unit \in Int /\ (t.sec * each) * unit \in Int
  BY <1>1, <1>2
<1>6. (t.sec * each + q) * unit = (t.sec * each) * unit + q * unit
  BY <1>2, <1>5
<1>7. TO!Total(t) = (t.sec * each + q) * unit + r
  BY <1>2, <1>3, <1>4, <1>5, <1>6
<1>8. TO!Total(t) = t.sec * Second + q * unit + r
  <2>1. t.sec * Second \in Int
    BY <1>1
  <2>. QED
    BY <1>2, <1>3, <1>5, <2>1
<1>9. r \in 0 .. unit - 1
  BY <1>2
<1>. QED
  BY <1>2, <1>7, <1>8, <1>9 DEF q
-----------------------------------------------------------------------------
TimeOK ==
  /\ now \in [sec : Int, nsec : 0 .. Second - 1]
  /\ IsTime(end) /\ IsTime(start)
  /\ TO!Total(start) <= TO!Total(now)

LEMMA NowIsTime ==
  ASSUME TimeOK
  PROVE  IsTime(now) /\ IsTime(end) /\ IsTime(start) /\ TO!Total(start) <= TO!Total(now)
BY DEF TimeOK, IsTime

LEMMA TimeInit ==
  TO!Init => TimeOK
<1>. SUFFICES ASSUME TO!Init
              PROVE  TimeOK
  OBVIOUS
<1>1. now = [sec |-> 0, nsec |-> 0] /\ end = now /\ start = now
  BY DEF TO!Init
<1>2. IsTime(now) /\ now \in [sec : Int, nsec : 0 .. Second - 1]
  BY <1>1, TimeFacts DEF IsTime
<1>3. TO!Total(now) \in Int
  BY <1>2, TotalIs
<1>. QED
  BY <1>1, <1>2, <1>3 DEF TimeOK

LEMMA AddedIs ==
  ASSUME NEW t, IsTime(t), NEW seconds \in Nat, NEW micros \in Nat
  PROVE  IsTime(TO!Added(t, seconds, micros))
<1> DEFINE w == t.nsec + micros * Micro
<1>1. w \in Nat /\ Second \in Nat \ {0} /\ t.sec \in Int
  BY TimeFacts DEF IsTime
<1>2. w \div Second \in Nat /\ w % Second \in 0 .. Second - 1
  <2>. HIDE DEF w
  <2>1. w \div Second \in Nat /\ w % Second \in Nat /\ w % Second < Second
    BY <1>1, Division
  <2>. QED
    BY <1>1, <2>1
<1>3. TO!Added(t, seconds, micros) =
        IF w >= Second THEN [sec |-> t.sec + seconds + w \div Second, nsec |-> w % Second]
        ELSE [sec |-> t.sec + seconds, nsec |-> w]
  BY Zenon DEF TO!Added
<1>. HIDE DEF w
<1>4. CASE w >= Second
  BY <1>1, <1>2, <1>3, <1>4 DEF IsTime
<1>5. CASE ~ (w >= Second)
  BY <1>1, <1>3, <1>5 DEF IsTime
<1>. QED
  BY <1>4, <1>5

LEMMA TimeStep ==
  ASSUME TimeOK, TO!Next \/ UNCHANGED timeVars
  PROVE  TimeOK'
<1>1. IsTime(now) /\ IsTime(end) /\ IsTime(start) /\ TO!Total(start) <= TO!Total(now) /\ Second \in Nat \ {0}
  BY NowIsTime, TimeFacts
<1>2. TO!Total(now) \in Int /\ TO!Total(start) \in Int
  BY <1>1, TotalIs
<1>3. CASE TO!Ticks
  <2>1. now' = IF now.nsec + 1 < Second THEN [now EXCEPT !.nsec = @ + 1] ELSE [sec |-> now.sec + 1, nsec |-> 0]
    BY <1>3 DEF TO!Ticks
  <2>2. end' = end /\ start' = start
    BY <1>3 DEF TO!Ticks
  <2>3. /\ now \in [sec : Int, nsec : 0 .. Second - 1]
        /\ now.sec \in Int /\ now.nsec \in 0 .. Second - 1 /\ now.sec * Second \in Int
    BY <1>1 DEF IsTime, TimeOK
  <2>4. now' = IF now.nsec + 1 < Second THEN [sec |-> now.sec, nsec |-> now.nsec + 1] ELSE [sec |-> now.sec + 1, nsec |-> 0]
    BY <2>1, <2>3
  <2>5. now' \in [sec : Int, nsec : 0 .. Second - 1]
    BY <1>1, <2>3, <2>4
  <2>6. now'.sec * Second + now'.nsec = now.sec * Second + now.nsec + 1
    <3>1. CASE now.nsec + 1 < Second
      BY <2>3, <2>4, <3>1
    <3>2. CASE ~ (now.nsec + 1 < Second)
      <4>1. (now.sec + 1) * Second = now.sec * Second + Second /\ now.nsec = Second - 1
        BY <1>1, <2>3, <3>2
      <4>2. now'.sec = now.sec + 1 /\ now'.nsec = 0
        BY <2>4, <3>2
      <4>. QED
        BY <1>1, <2>3, <4>1, <4>2
    <3>. QED
      BY <3>1, <3>2
  <2>7. TO!Total(now') = TO!Total(now) + 1 /\ TO!Total(start') = TO!Total(start)
    BY <2>2, <2>6 DEF TO!Total
  <2>8. IsTime(end') /\ IsTime(start') /\ TO!Total(start') <= TO!Total(now')
    BY <1>1, <1>2, <2>2, <2>7
  <2>. QED
    BY <2>5, <2>8 DEF TimeOK, IsTime, TO!Total
<1>4. CASE TO!ClockReset
  <2>1. now' = now /\ end' = end /\ start' = now
    BY <1>4 DEF TO!ClockReset
  <2>. QED
    BY <1>1, <1>2, <2>1 DEF TimeOK
<1>5. CASE \E seconds \in 0 .. 1, micros \in 0 .. 2 * (Second \div Micro) : TO!Reset(seconds, micros)
  <2>1. PICK seconds \in 0 .. 1, micros \in 0 .. 2 * (Second \div Micro) : TO!Reset(seconds, micros)
    BY <1>5
  <2>2. now' = now /\ start' = start /\ end' = TO!Added(now, seconds, micros)
    BY <2>1 DEF TO!Reset
  <2>3. seconds \in Nat /\ micros \in Nat
    BY TimeFacts
  <2>4. IsTime(end')
    BY <1>1, <2>2, <2>3, AddedIs
  <2>. QED
    BY <1>1, <2>2, <2>4 DEF TimeOK, IsTime, TO!Total
<1>6. CASE TO!ResetToInfinite \/ TO!GivesUp \/ UNCHANGED timeVars
  <2>1. now' = now /\ end' = end /\ start' = start
    BY <1>6 DEF TO!ResetToInfinite, TO!GivesUp, timeVars
  <2>. QED
    BY <2>1, Zenon DEF TimeOK, IsTime, TO!Total
<1>. QED
  BY <1>3, <1>4, <1>5, <1>6 DEF TO!Next

\* All forms of the time left, from the one difference they are made of.
LEMMA LeftAgrees ==
  ASSUME TimeOK
  PROVE  TO!TimeLeftAgrees
<1> DEFINE left == TO!Total(end) - TO!Total(now)
           gone == TO!Total(now) - TO!Total(start)
           d == TO!Subtract(end, now)
           c == TO!Subtract(now, start)
           EachMilli == Second \div Milli
           EachMicro == Second \div Micro
<1>1. IsTime(now) /\ IsTime(end) /\ IsTime(start) /\ TO!Total(start) <= TO!Total(now)
  BY NowIsTime
<1>2. /\ Milli \in Nat \ {0} /\ EachMilli \in Nat /\ Second = Milli * EachMilli
      /\ Micro \in Nat \ {0} /\ EachMicro \in Nat /\ Second = Micro * EachMicro
  BY TimeFacts
<1>3. TO!Total(now) \in Int /\ TO!Total(end) \in Int /\ TO!Total(start) \in Int
  BY <1>1, TotalIs
<1>4. IsTime(d) /\ TO!Total(d) = left /\ IsTime(c) /\ TO!Total(c) = gone /\ left \in Int /\ gone \in Nat
  BY <1>1, <1>3, SubtractIs
<1>5. (d.sec < 0 <=> left < 0) /\ ~ (c.sec < 0)
  <2>1. (d.sec < 0 <=> TO!Total(d) < 0) /\ (c.sec < 0 <=> TO!Total(c) < 0)
    BY <1>4, BelowZero
  <2>. QED
    BY <1>4, <2>1
<1>6. /\ TO!TimespecLeft = d
      /\ TO!MillisLeft = IF d.sec < 0 THEN 0 ELSE d.sec * EachMilli + d.nsec \div Milli
      /\ TO!TimevalLeft = IF d.sec < 0 THEN [sec |-> 0, usec |-> 0] ELSE [sec |-> d.sec, usec |-> d.nsec \div Micro]
      /\ TO!Measured = [sec |-> c.sec, usec |-> c.nsec \div Micro]
  BY <1>5 DEF TO!TimespecLeft, TO!MillisLeft, TO!TimevalLeft, TO!Measured, TO!AtLeast0
<1>7. TO!Less(now, end) <=> left > 0
  BY <1>1, <1>3, LessIs
<1>8. TO!HasExpired <=> ~ null /\ left <= 0
  <2>1. TO!HasExpired <=> ~ null /\ ~ TO!Less(now, end)
    BY Zenon DEF TO!HasExpired, TO!Less
  <2>2. ~ TO!Less(now, end) <=> left <= 0
    BY <1>4, <1>7
  <2>. QED
    BY <2>1, <2>2, Zenon
<1>9. end.nsec \in 0 .. Second - 1 /\ d.nsec \in 0 .. Second - 1
  BY <1>1, <1>4 DEF IsTime
<1>. HIDE DEF left, gone, d, c, EachMilli, EachMicro
<1>10. ASSUME left >= 0
       PROVE  /\ TO!MillisLeft * Milli <= left /\ left < (TO!MillisLeft + 1) * Milli
              /\ (TO!TimevalLeft.sec * EachMicro + TO!TimevalLeft.usec) * Micro <= left
              /\ left < (TO!TimevalLeft.sec * EachMicro + TO!TimevalLeft.usec + 1) * Micro
  <2>1. ~ (d.sec < 0)
    BY <1>4, <1>5, <1>10
  <2>2. PICK rest \in 0 .. Milli - 1 :
          left = (d.sec * EachMilli + (d.nsec \div Milli)) * Milli + rest /\ d.nsec \div Milli \in Nat
    BY <1>2, <1>4, Rounded
  <2>3. PICK rest2 \in 0 .. Micro - 1 :
          left = (d.sec * EachMicro + (d.nsec \div Micro)) * Micro + rest2 /\ d.nsec \div Micro \in Nat
    BY <1>2, <1>4, Rounded
  <2>4. d.sec \in Int
    BY <1>4 DEF IsTime
  <2>5. ASSUME NEW v \in Int, NEW unit \in Nat \ {0}, NEW r \in 0 .. unit - 1, left = v * unit + r
        PROVE  v * unit <= left /\ left < (v + 1) * unit
    <3>1. (v + 1) * unit = v * unit + unit /\ v * unit \in Int
      BY <2>5
    <3>. QED
      BY <2>5, <3>1
  <2>6. TO!MillisLeft \in Int /\ left = TO!MillisLeft * Milli + rest
    BY <1>2, <1>6, <2>1, <2>2, <2>4
  <2>7. /\ TO!TimevalLeft.sec * EachMicro + TO!TimevalLeft.usec \in Int
        /\ left = (TO!TimevalLeft.sec * EachMicro + TO!TimevalLeft.usec) * Micro + rest2
    BY <1>2, <1>6, <2>1, <2>3, <2>4
  <2>8. TO!MillisLeft * Milli <= left /\ left < (TO!MillisLeft + 1) * Milli
    BY <1>2, <2>5, <2>6
  <2>9. /\ (TO!TimevalLeft.sec * EachMicro + TO!TimevalLeft.usec) * Micro <= left
        /\ left < (TO!TimevalLeft.sec * EachMicro + TO!TimevalLeft.usec + 1) * Micro
    <3> DEFINE v == TO!TimevalLeft.sec * EachMicro + TO!TimevalLeft.usec
    <3>1. v \in Int /\ left = v * Micro + rest2
      BY <2>7
    <3>. HIDE DEF v
    <3>2. v * Micro <= left /\ left < (v + 1) * Micro
      BY <1>2, <2>5, <3>1
    <3>. QED
      BY <3>2 DEF v
  <2>. QED
    BY <2>8, <2>9
<1>11. ASSUME ~ (left >= 0)
       PROVE  TO!MillisLeft = 0 /\ TO!TimevalLeft = [sec |-> 0, usec |-> 0]
  <2>1. d.sec < 0
    BY <1>4, <1>5, <1>11
  <2>. QED
    BY <1>6, <2>1
<1>12. TO!Measured.sec * Second + TO!Measured.usec * Micro = gone - (gone % Micro)
  <2>1. PICK rest \in 0 .. Micro - 1 :
          /\ gone = (c.sec * EachMicro + (c.nsec \div Micro)) * Micro + rest
          /\ c.nsec \div Micro \in Nat
          /\ gone = c.sec * Second + (c.nsec \div Micro) * Micro + rest
    BY <1>2, <1>4, Rounded
  <2> DEFINE q == c.nsec \div Micro
             k == c.sec * EachMicro + q
  <2>2. c.sec \in Nat
    BY <1>4, <1>5 DEF IsTime
  <2>3. q \in Nat /\ k \in Nat /\ rest \in Nat /\ rest < Micro
    BY <1>2, <2>1, <2>2
  <2>4. gone = k * Micro + rest /\ gone = c.sec * Second + q * Micro + rest
    BY <2>1
  <2>5. TO!Measured.sec * Second + TO!Measured.usec * Micro = c.sec * Second + q * Micro
    BY <1>6
  <2>. HIDE DEF q, k
  <2>6. gone = Micro * k + rest
    BY <1>2, <2>3, <2>4
  <2>7. gone % Micro = rest
    BY <1>2, <1>4, <2>3, <2>6, DivisionUnique
  <2>8. c.sec * Second \in Int /\ q * Micro \in Int
    BY <1>2, <2>2, <2>3
  <2>. QED
    BY <2>3, <2>4, <2>5, <2>7, <2>8
<1>. QED
  BY <1>4, <1>6, <1>7, <1>8, <1>9, <1>10, <1>11, <1>12 DEF TO!TimeLeftAgrees, left, gone, EachMicro

\* At every moment the forms in which the time left of a Timeout is given, and
\* what a Clock has measured, are that time rounded down, for every length of a
\* second in whole milli- and microseconds.
THEOREM TimeLeftStays ==
  MCSpec => []TimeLeftAgrees
<1> DEFINE Inv == used = "time" => TimeOK
<1>1. MCInit => Inv
  BY TimeInit DEF MCInit
<1>2. Inv /\ [MCNext]_<<used, bigVars, dataVars, otherVars>> => Inv'
  <2>. SUFFICES ASSUME Inv, [MCNext]_<<used, bigVars, dataVars, otherVars>>, used' = "time"
                PROVE  TimeOK'
    OBVIOUS
  <2>1. used' = used
    BY DEF MCNext
  <2>2. TimeOK
    BY <2>1
  <2>3. TO!Next \/ UNCHANGED timeVars
    BY <2>1 DEF MCNext, BigNext, DataNext, OtherNext, otherVars
  <2>. QED
    BY <2>2, <2>3, TimeStep
<1>3. Inv => TimeLeftAgrees
  BY LeftAgrees DEF TimeLeftAgrees
<1>. QED
  BY <1>1, <1>2, <1>3, PTL DEF MCSpec
================================================================================
