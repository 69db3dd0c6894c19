---------------------------- MODULE ContainersProofs ----------------------------
(***************************************************************************)
(* Proofs about the containers.  List: the chain that its links make.      *)
(* HashTable: the slots on the way to each item, and from them that a key  *)
(* is found, that iterators meet each item and that it acts as a map.      *)
(***************************************************************************)
EXTENDS MCContainers, FiniteSetTheorems, WellFoundedInduction, TLAPS
-----------------------------------------------------------------------------
(* What the proofs need of numbers and of functions that are defined by     *)
(* their value one step before.                                             *)

\* A set of naturals has a least member.
LEMMA LeastOf ==
  ASSUME NEW X, X \subseteq Nat, X # {}
  PROVE  \E m \in X : \A k \in X : m <= k
<1> DEFINE R == OpToRel(<, Nat)
<1>1. IsWellFoundedOn(R, Nat)
  BY NatLessThanWellFounded
<1>2. \A i, j \in Nat : i < j => <<i, j>> \in R
  BY DEF OpToRel
<1>. HIDE DEF R
<1>3. PICK m \in X : \A k \in X : ~ (<<k, m>> \in R)
  BY <1>1, WFMin
<1>4. ASSUME NEW k \in X
      PROVE  m <= k
  <2>1. ~ (k < m)
    BY <1>2, <1>3
  <2>. QED
    BY <2>1
<1>. QED
  BY <1>4

\* What holds of 0, and of i with i - 1, holds up to n.
LEMMA UpTo ==
  ASSUME NEW n \in Nat, NEW X, 0 \in X, \A i \in 1 .. n : i - 1 \in X => i \in X
  PROVE  \A i \in 0 .. n : i \in X
<1> DEFINE Bad == {i \in 0 .. n : i \notin X}
<1>1. ASSUME Bad # {}
      PROVE  FALSE
  <2>0. Bad \subseteq Nat
    OBVIOUS
  <2>1. PICK i \in Bad : \A k \in Bad : i <= k
    <3>. HIDE DEF Bad
    <3>. QED
      BY <1>1, <2>0, LeastOf
  <2>2. i \in 1 .. n /\ i - 1 \in 0 .. n
    BY <2>1
  <2>3. i - 1 \in X
    BY <2>1, <2>2
  <2>. QED
    BY <2>1, <2>2, <2>3
<1>. QED
  BY <1>1

Iterates(n, D, a, G) == \E f \in [0 .. n -> D] : f[0] = a /\ \A k \in 1 .. n : f[k] = G[f[k - 1]]

\* A function that gives each number G of what it gives the one before.
LEMMA IterationExists ==
  ASSUME NEW D, NEW a \in D, NEW G \in [D -> D], NEW n \in Nat
  PROVE  Iterates(n, D, a, G)
<1> DEFINE X == {m \in Nat : Iterates(m, D, a, G)}
<1>1. Iterates(0, D, a, G)
  <2> DEFINE g == [k \in 0 .. 0 |-> a]
  <2>1. g \in [0 .. 0 -> D] /\ g[0] = a /\ \A k \in 1 .. 0 : g[k] = G[g[k - 1]]
    OBVIOUS
  <2>. QED
    BY <2>1, Zenon DEF Iterates
<1>2. ASSUME NEW m \in 1 .. n, Iterates(m - 1, D, a, G)
      PROVE  Iterates(m, D, a, G)
  <2>1. PICK f \in [0 .. m - 1 -> D] : f[0] = a /\ \A k \in 1 .. m - 1 : f[k] = G[f[k - 1]]
    BY <1>2 DEF Iterates
  <2> DEFINE g == [k \in 0 .. m |-> IF k = m THEN G[f[m - 1]] ELSE f[k]]
  <2>2. m - 1 \in 0 .. m - 1 /\ \A k \in 0 .. m : k # m => k \in 0 .. m - 1
    OBVIOUS
  <2>3. g \in [0 .. m -> D]
    BY <2>2
  <2>4. g[0] = a
    BY <2>1
  <2>5. ASSUME NEW k \in 1 .. m
        PROVE  g[k] = G[g[k - 1]]
    <3>1. k - 1 \in 0 .. m /\ k - 1 # m
      OBVIOUS
    <3>2. g[k - 1] = f[k - 1]
      BY <3>1
    <3>3. CASE k = m
      BY <3>2, <3>3
    <3>4. CASE k # m
      <4>1. k \in 1 .. m - 1
        BY <3>4
      <4>. QED
        BY <2>1, <3>2, <4>1
    <3>. QED
      BY <3>3, <3>4
  <2>. HIDE DEF g
  <2>. QED
    BY <2>3, <2>4, <2>5 DEF Iterates
<1>3. 0 \in X /\ \A i \in 1 .. n : i - 1 \in X => i \in X
  BY <1>1, <1>2
<1>. HIDE DEF X
<1>4. n \in X
  BY <1>3, UpTo
<1>. QED
  BY <1>4 DEF X
-----------------------------------------------------------------------------
(* List: the nodes in use, in the order in which they are met, forwards and *)
(* backwards, have the values in the order of the history.                  *)

\* The nodes s, linked to each other in both directions.
Chained(s, n) ==
  \A i \in 1 .. n :
    node[s[i]] = [prev |-> IF i = 1 THEN Null ELSE s[i - 1], next |-> IF i = n THEN Null ELSE s[i + 1], val |-> listItems[i]]

IsChain(s, n) ==
  /\ n = listSize
  /\ DOMAIN node = {s[i] : i \in 1 .. n}
  /\ \A i, j \in 1 .. n : s[i] = s[j] => i = j
  /\ Chained(s, n)
  /\ listHead = IF n = 0 THEN Null ELSE s[1]
  /\ listTail = IF n = 0 THEN Null ELSE s[n]

ListOK ==
  /\ listSize \in Nat
  /\ listItems \in Seq(Values) /\ Len(listItems) = listSize
  /\ DOMAIN node \subseteq Nodes
  /\ node = [m \in DOMAIN node |-> node[m]]
  /\ \E s \in [1 .. listSize -> DOMAIN node] : IsChain(s, listSize)

LEMMA ListStarts == L!Init => ListOK
<1> SUFFICES ASSUME L!Init PROVE ListOK
  OBVIOUS
<1>1. node = <<>> /\ listHead = Null /\ listTail = Null /\ listSize = 0 /\ listItems = <<>>
  BY DEF L!Init
<1>2. DOMAIN node = {} /\ 1 .. 0 = {} /\ Len(listItems) = 0 /\ listItems \in Seq(Values)
  BY <1>1
<1> DEFINE s == [i \in 1 .. 0 |-> Null]
<1>3. s \in [1 .. listSize -> DOMAIN node]
  BY <1>1, <1>2
<1>4. IsChain(s, 0)
  BY <1>1, <1>2 DEF IsChain, Chained
<1>5. node = [m \in DOMAIN node |-> node[m]]
  BY <1>1
<1>. QED
  BY <1>1, <1>2, <1>3, <1>4, <1>5 DEF ListOK

\* A node that is put in between two neighbours, or before or behind them all.
LEMMA ListGrows ==
  ASSUME ListOK, Null \notin Nodes,
         NEW s \in [1 .. listSize -> DOMAIN node], IsChain(s, listSize),
         NEW k \in 0 .. listSize, NEW n \in Nodes \ DOMAIN node, NEW val \in Values,
         NEW prev, prev = IF k = 0 THEN Null ELSE s[k],
         NEW next, next = IF k = listSize THEN Null ELSE s[k + 1],
         node' = L!Linked(n, prev, next, val),
         listHead' = IF k = 0 THEN n ELSE listHead,
         listTail' = IF k = listSize THEN n ELSE listTail,
         listSize' = listSize + 1,
         listItems' \in Seq(Values), Len(listItems') = listSize + 1,
         \A i \in 1 .. listSize + 1 :
            listItems'[i] = IF i <= k THEN listItems[i] ELSE IF i = k + 1 THEN val ELSE listItems[i - 1]
  PROVE  ListOK'
<1> DEFINE d == DOMAIN node
           e == d \cup {n}
<1>0. PICK c : c = listSize
  OBVIOUS
<1>1. c \in Nat /\ d \subseteq Nodes /\ k \in 0 .. c /\ n \notin d /\ Null \notin d /\ n # Null /\ \A i \in 1 .. c : s[i] \in d
  BY <1>0 DEF ListOK
<1>2. node' = [m \in e |->
                 IF m = n THEN [prev |-> prev, next |-> next, val |-> val]
                 ELSE [node[m] EXCEPT !.next = IF m = prev THEN n ELSE @, !.prev = IF m = next THEN n ELSE @]]
  BY DEF L!Linked, L!Live
<1>3. DOMAIN node' = e /\ node' = [m \in DOMAIN node' |-> node'[m]]
  BY <1>2
<1>4. PICK t \in [1 .. c + 1 -> e] : \A i \in 1 .. c + 1 :
         /\ i <= k => i \in 1 .. c /\ t[i] = s[i]
         /\ i = k + 1 => t[i] = n
         /\ i > k + 1 => i - 1 \in 1 .. c /\ t[i] = s[i - 1]
  <2> DEFINE t == [i \in 1 .. c + 1 |-> IF i <= k THEN s[i] ELSE IF i = k + 1 THEN n ELSE s[i - 1]]
  <2>1. ASSUME NEW i \in 1 .. c + 1
        PROVE  /\ t[i] \in e
               /\ i <= k => i \in 1 .. c /\ t[i] = s[i]
               /\ i = k + 1 => t[i] = n
               /\ i > k + 1 => i - 1 \in 1 .. c /\ t[i] = s[i - 1]
    BY <1>1
  <2>2. t \in [1 .. c + 1 -> e]
    BY <2>1
  <2>. HIDE DEF t
  <2>. QED
    BY <2>1, <2>2
<1>6. e = {t[i] : i \in 1 .. c + 1}
  <2>1. ASSUME NEW m \in e
        PROVE  \E i \in 1 .. c + 1 : t[i] = m
    <3>1. CASE m = n
      <4>1. k + 1 \in 1 .. c + 1
        BY <1>1
      <4>2. t[k + 1] = n
        BY <1>4, <4>1
      <4>. QED
        BY <3>1, <4>1, <4>2
    <3>2. CASE m # n
      <4>1. PICK i \in 1 .. c : s[i] = m
        BY <1>0, <3>2 DEF IsChain
      <4>2. i \in 1 .. c + 1 /\ i + 1 \in 1 .. c + 1 /\ (i <= k \/ i + 1 > k + 1) /\ (i + 1) - 1 = i
        BY <1>1
      <4>. QED
        BY <1>4, <4>1, <4>2
    <3>. QED
      BY <3>1, <3>2
  <2>. QED
    BY <1>4, <2>1
<1>7. \A i, j \in 1 .. c : s[i] = s[j] => i = j
  BY <1>0 DEF IsChain
<1>8. ASSUME NEW i \in 1 .. c + 1, NEW j \in 1 .. c + 1, t[i] = t[j]
      PROVE  i = j
  <2>1. i <= k \/ i = k + 1 \/ i > k + 1
    BY <1>1
  <2>2. j <= k \/ j = k + 1 \/ j > k + 1
    BY <1>1
  <2>. QED
    BY <1>1, <1>4, <1>7, <1>8, <2>1, <2>2
<1>9. ASSUME NEW i \in 1 .. c
      PROVE  node[s[i]] = [prev |-> IF i = 1 THEN Null ELSE s[i - 1], next |-> IF i = c THEN Null ELSE s[i + 1], val |-> listItems[i]]
  BY <1>0 DEF IsChain, Chained
<1>10. ASSUME NEW i \in 1 .. c + 1
       PROVE  node'[t[i]] = [prev |-> IF i = 1 THEN Null ELSE t[i - 1],
                             next |-> IF i = c + 1 THEN Null ELSE t[i + 1], val |-> listItems'[i]]
  <2>1. CASE i = k + 1
    <3>0. t[i] = n
      BY <1>4, <2>1
    <3>1. node'[n] = [prev |-> prev, next |-> next, val |-> val] /\ listItems'[i] = val
      <4>1. node'[n] = [prev |-> prev, next |-> next, val |-> val]
        BY <1>2
      <4>2. listItems'[i] = val
        BY <1>0, <1>1, <2>1
      <4>. QED
        BY <4>1, <4>2
    <3>2. prev = IF i = 1 THEN Null ELSE t[i - 1]
      BY <1>0, <1>1, <1>4, <2>1
    <3>3. next = IF i = c + 1 THEN Null ELSE t[i + 1]
      BY <1>0, <1>1, <1>4, <2>1
    <3>. QED
      BY <3>0, <3>1, <3>2, <3>3
  <2>2. ASSUME NEW j \in 1 .. c, t[i] = s[j], (i <= k /\ j = i) \/ (i > k + 1 /\ j = i - 1)
        PROVE  node'[t[i]] = [prev |-> IF i = 1 THEN Null ELSE t[i - 1],
                              next |-> IF i = c + 1 THEN Null ELSE t[i + 1], val |-> listItems'[i]]
    <3>1. node'[s[j]] = [node[s[j]] EXCEPT !.next = IF s[j] = prev THEN n ELSE @, !.prev = IF s[j] = next THEN n ELSE @]
      BY <1>1, <1>2
    <3> DEFINE p == IF j = 1 THEN Null ELSE s[j - 1]
               q == IF j = c THEN Null ELSE s[j + 1]
               v == listItems[j]
    <3>2. node[s[j]] = [prev |-> p, next |-> q, val |-> v]
      BY <1>9
    <3>3. (s[j] = prev <=> k # 0 /\ j = k) /\ (s[j] = next <=> k # c /\ j = k + 1)
      BY <1>0, <1>1, <1>7
    <3>4. listItems'[i] = v
      BY <1>0, <1>1, <2>2
    <3>5. (IF s[j] = next THEN n ELSE p) = IF i = 1 THEN Null ELSE t[i - 1]
      BY <1>1, <1>4, <2>2, <3>3
    <3>6. (IF s[j] = prev THEN n ELSE q) = IF i = c + 1 THEN Null ELSE t[i + 1]
      BY <1>1, <1>4, <2>2, <3>3
    <3>. HIDE DEF p, q, v
    <3>7. node'[s[j]] = [prev |-> IF s[j] = next THEN n ELSE p, next |-> IF s[j] = prev THEN n ELSE q, val |-> v]
      <4>1. node'[s[j]] = [[prev |-> p, next |-> q, val |-> v] EXCEPT !.next = IF s[j] = prev THEN n ELSE @, !.prev = IF s[j] = next THEN n ELSE @]
        BY <3>1, <3>2, Zenon
      <4>. HIDE <3>1, <3>2
      <4>. QED
        BY <4>1
    <3>. QED
      BY <2>2, <3>4, <3>5, <3>6, <3>7
  <2>. QED
    BY <1>1, <1>4, <2>1, <2>2
<1>11. listHead' = t[1] /\ listTail' = t[c + 1] /\ c + 1 # 0
  <2>1. listHead = (IF c = 0 THEN Null ELSE s[1]) /\ listTail = (IF c = 0 THEN Null ELSE s[c])
    BY <1>0 DEF IsChain
  <2>2. 1 \in 1 .. c + 1 /\ c + 1 \in 1 .. c + 1 /\ c + 1 # 0
    BY <1>1
  <2>3. listHead' = t[1]
    BY <1>1, <1>4, <2>1, <2>2
  <2>4. listTail' = t[c + 1]
    BY <1>0, <1>1, <1>4, <2>1, <2>2
  <2>. QED
    BY <2>2, <2>3, <2>4
<1>12. c + 1 \in Nat /\ listSize' = c + 1
  BY <1>0, <1>1
<1>13. Chained(t, c + 1)'
  BY <1>10 DEF Chained
<1>14. IsChain(t, c + 1)'
  BY <1>3, <1>6, <1>8, <1>11, <1>12, <1>13 DEF IsChain
<1>15. t \in [1 .. listSize' -> DOMAIN node'] /\ e \subseteq Nodes
  BY <1>1, <1>3, <1>4, <1>12
<1>. QED
  BY <1>0, <1>3, <1>12, <1>14, <1>15 DEF ListOK

Unlinked(n, prev, next) ==
  [m \in DOMAIN node \ {n} |->
     [node[m] EXCEPT !.next = IF m = prev THEN next ELSE @, !.prev = IF m = next THEN prev ELSE @]]

ShrinksAt(s, k, prev, next) ==
  /\ prev = IF k = 1 THEN Null ELSE s[k - 1]
  /\ next = IF k = listSize THEN Null ELSE s[k + 1]
  /\ node' = Unlinked(s[k], prev, next)
  /\ listHead' = IF prev = Null THEN next ELSE listHead
  /\ listTail' = IF next = Null THEN prev ELSE listTail
  /\ listSize' = listSize - 1
  /\ listItems' \in Seq(Values) /\ Len(listItems') = listSize - 1
  /\ \A i \in 1 .. listSize - 1 : listItems'[i] = IF i < k THEN listItems[i] ELSE listItems[i + 1]

\* A node that is taken out from between two neighbours, or from before or
\* behind them all.
LEMMA ListShrinks ==
  ASSUME ListOK, Null \notin Nodes,
         NEW s \in [1 .. listSize -> DOMAIN node], IsChain(s, listSize),
         NEW k \in 1 .. listSize,
         NEW prev, NEW next, ShrinksAt(s, k, prev, next)
  PROVE  ListOK'
<1> DEFINE d == DOMAIN node
           e == d \ {s[k]}
<1>a. /\ prev = IF k = 1 THEN Null ELSE s[k - 1]
      /\ next = IF k = listSize THEN Null ELSE s[k + 1]
  BY DEF ShrinksAt
<1>b. /\ listHead' = IF prev = Null THEN next ELSE listHead
      /\ listTail' = IF next = Null THEN prev ELSE listTail
      /\ listSize' = listSize - 1
      /\ listItems' \in Seq(Values) /\ Len(listItems') = listSize - 1
      /\ \A i \in 1 .. listSize - 1 : listItems'[i] = IF i < k THEN listItems[i] ELSE listItems[i + 1]
  BY DEF ShrinksAt
<1>c. node' = Unlinked(s[k], prev, next)
  BY DEF ShrinksAt
<1>0. PICK c : c = listSize
  OBVIOUS
<1>1. c \in Nat /\ d \subseteq Nodes /\ k \in 1 .. c /\ Null \notin d /\ \A i \in 1 .. c : s[i] \in d
  BY <1>0 DEF ListOK
<1>2. node' = [m \in e |->
                 [node[m] EXCEPT !.next = IF m = prev THEN next ELSE @, !.prev = IF m = next THEN prev ELSE @]]
  BY <1>c DEF Unlinked
<1>3. DOMAIN node' = e /\ node' = [m \in DOMAIN node' |-> node'[m]]
  BY <1>2
<1>7. \A i, j \in 1 .. c : s[i] = s[j] => i = j
  BY <1>0 DEF IsChain
<1>4. PICK t \in [1 .. c - 1 -> e] : \A i \in 1 .. c - 1 :
         /\ i < k => i \in 1 .. c /\ t[i] = s[i]
         /\ i >= k => i + 1 \in 1 .. c /\ t[i] = s[i + 1]
  <2> DEFINE t == [i \in 1 .. c - 1 |-> IF i < k THEN s[i] ELSE s[i + 1]]
  <2>1. ASSUME NEW i \in 1 .. c - 1
        PROVE  /\ t[i] \in e
               /\ i < k => i \in 1 .. c /\ t[i] = s[i]
               /\ i >= k => i + 1 \in 1 .. c /\ t[i] = s[i + 1]
    <3>1. i \in 1 .. c /\ i + 1 \in 1 .. c
      BY <1>1
    <3>2. CASE i < k
      <4>1. s[i] # s[k]
        BY <1>1, <1>7, <3>1, <3>2
      <4>. QED
        BY <1>1, <3>1, <3>2, <4>1
    <3>3. CASE ~ (i < k)
      <4>1. s[i + 1] # s[k]
        BY <1>1, <1>7, <3>1, <3>3
      <4>. QED
        BY <1>1, <3>1, <3>3, <4>1
    <3>. QED
      BY <3>2, <3>3
  <2>2. t \in [1 .. c - 1 -> e]
    BY <2>1
  <2>. HIDE DEF t
  <2>. QED
    BY <2>1, <2>2
<1>6. e = {t[i] : i \in 1 .. c - 1}
  <2>1. ASSUME NEW m \in e
        PROVE  \E i \in 1 .. c - 1 : t[i] = m
    <3>1. PICK i \in 1 .. c : s[i] = m
      BY <1>0 DEF IsChain
    <3>2. i # k
      BY <3>1
    <3>3. CASE i < k
      <4>1. i \in 1 .. c - 1
        BY <1>1, <3>3
      <4>. QED
        BY <1>4, <3>1, <3>3, <4>1
    <3>4. CASE i > k
      <4>1. i - 1 \in 1 .. c - 1 /\ i - 1 >= k /\ (i - 1) + 1 = i
        BY <1>1, <3>4
      <4>2. t[i - 1] = s[i]
        BY <1>4, <4>1
      <4>. QED
        BY <3>1, <4>1, <4>2
    <3>. QED
      BY <1>1, <3>2, <3>3, <3>4
  <2>. QED
    BY <1>4, <2>1
<1>8. ASSUME NEW i \in 1 .. c - 1, NEW j \in 1 .. c - 1, t[i] = t[j]
      PROVE  i = j
  <2>1. i < k \/ i >= k
    BY <1>1
  <2>2. j < k \/ j >= k
    BY <1>1
  <2>. QED
    BY <1>1, <1>4, <1>7, <1>8, <2>1, <2>2
<1>9. ASSUME NEW i \in 1 .. c
      PROVE  node[s[i]] = [prev |-> IF i = 1 THEN Null ELSE s[i - 1], next |-> IF i = c THEN Null ELSE s[i + 1], val |-> listItems[i]]
  BY <1>0 DEF IsChain, Chained
<1>10. ASSUME NEW i \in 1 .. c - 1
       PROVE  node'[t[i]] = [prev |-> IF i = 1 THEN Null ELSE t[i - 1],
                             next |-> IF i = c - 1 THEN Null ELSE t[i + 1], val |-> listItems'[i]]
  <2>2. ASSUME NEW j \in 1 .. c, t[i] = s[j], (i < k /\ j = i) \/ (i >= k /\ j = i + 1)
        PROVE  node'[t[i]] = [prev |-> IF i = 1 THEN Null ELSE t[i - 1],
                              next |-> IF i = c - 1 THEN Null ELSE t[i + 1], val |-> listItems'[i]]
    <3>0. t[i] \in e
      BY <1>4
    <3>1. node'[s[j]] = [node[s[j]] EXCEPT !.next = IF s[j] = prev THEN next ELSE @, !.prev = IF s[j] = next THEN prev ELSE @]
      BY <1>2, <2>2, <3>0
    <3> DEFINE p == IF j = 1 THEN Null ELSE s[j - 1]
               q == IF j = c THEN Null ELSE s[j + 1]
               v == listItems[j]
    <3>2. node[s[j]] = [prev |-> p, next |-> q, val |-> v]
      BY <1>9
    <3>3. (s[j] = prev <=> k # 1 /\ j = k - 1) /\ (s[j] = next <=> k # c /\ j = k + 1)
      <4>1. k # 1 => k - 1 \in 1 .. c
        BY <1>1
      <4>2. k # c => k + 1 \in 1 .. c
        BY <1>1
      <4>. QED
        BY <1>a, <1>0, <1>1, <1>7, <4>1, <4>2
    <3>4. listItems'[i] = v
      <4>1. listItems'[i] = IF i < k THEN listItems[i] ELSE listItems[i + 1]
        BY <1>b, <1>0
      <4>2. i < k <=> j = i
        BY <1>1, <2>2
      <4>. QED
        BY <2>2, <4>1, <4>2
    <3>5. (IF s[j] = next THEN prev ELSE p) = IF i = 1 THEN Null ELSE t[i - 1]
      <4>1. i # 1 => i - 1 \in 1 .. c - 1
        BY <1>1
      <4>. QED
        BY <1>a, <1>0, <1>1, <1>4, <2>2, <3>3, <4>1
    <3>6. (IF s[j] = prev THEN next ELSE q) = IF i = c - 1 THEN Null ELSE t[i + 1]
      <4>1. i # c - 1 => i + 1 \in 1 .. c - 1
        BY <1>1
      <4>2. (i = c - 1 /\ j = c) \/ (i = c - 1 /\ j = c - 1 /\ k = c) \/ (i # c - 1 /\ j # c)
        BY <1>1, <2>2
      <4>3. CASE s[j] = prev
        BY <1>a, <1>0, <1>1, <1>4, <2>2, <3>3, <4>1, <4>2, <4>3
      <4>4. CASE s[j] # prev
        BY <1>a, <1>0, <1>1, <1>4, <2>2, <3>3, <4>1, <4>2, <4>4
      <4>. QED
        BY <4>3, <4>4
    <3>. HIDE DEF p, q, v
    <3>7. node'[s[j]] = [prev |-> IF s[j] = next THEN prev ELSE p, next |-> IF s[j] = prev THEN next ELSE q, val |-> v]
      <4>1. node'[s[j]] = [[prev |-> p, next |-> q, val |-> v] EXCEPT !.next = IF s[j] = prev THEN next ELSE @, !.prev = IF s[j] = next THEN prev ELSE @]
        BY <3>1, <3>2, Zenon
      <4>. HIDE <3>1, <3>2
      <4>. QED
        BY <4>1
    <3>. QED
      BY <2>2, <3>4, <3>5, <3>6, <3>7
  <2>3. i \in 1 .. c /\ i + 1 \in 1 .. c /\ (i < k \/ i >= k)
    BY <1>1
  <2>. QED
    BY <1>4, <2>2, <2>3
<1>11. listHead' = (IF c - 1 = 0 THEN Null ELSE t[1]) /\ listTail' = IF c - 1 = 0 THEN Null ELSE t[c - 1]
  <2>1. listHead = s[1] /\ listTail = s[c] /\ 1 \in 1 .. c /\ c \in 1 .. c
    BY <1>0, <1>1 DEF IsChain
  <2>2. (prev = Null <=> k = 1) /\ (next = Null <=> k = c)
    BY <1>a, <1>0, <1>1
  <2>3. c - 1 # 0 => 1 \in 1 .. c - 1 /\ c - 1 \in 1 .. c - 1
    BY <1>1
  <2>4. listHead' = IF c - 1 = 0 THEN Null ELSE t[1]
    <3>1. CASE k = 1
      <4>1. listHead' = IF c = 1 THEN Null ELSE s[2]
        BY <1>a, <1>b, <1>0, <1>1, <2>2, <3>1
      <4>2. c - 1 # 0 => t[1] = s[2]
        BY <1>4, <2>3, <3>1
      <4>. QED
        BY <1>1, <4>1, <4>2
    <3>2. CASE k # 1
      <4>1. listHead' = s[1] /\ 1 < k /\ c - 1 # 0
        BY <1>b, <1>1, <2>1, <2>2, <3>2
      <4>. QED
        BY <1>4, <2>3, <4>1
    <3>. QED
      BY <3>1, <3>2
  <2>5. listTail' = IF c - 1 = 0 THEN Null ELSE t[c - 1]
    <3>1. CASE k = c
      <4>1. listTail' = IF c = 1 THEN Null ELSE s[c - 1]
        BY <1>a, <1>b, <1>0, <1>1, <2>2, <3>1
      <4>2. c - 1 # 0 => t[c - 1] = s[c - 1]
        BY <1>1, <1>4, <2>3, <3>1
      <4>. QED
        BY <1>1, <4>1, <4>2
    <3>2. CASE k # c
      <4>1. listTail' = s[c] /\ c - 1 >= k /\ c - 1 # 0 /\ (c - 1) + 1 = c
        BY <1>b, <1>1, <2>1, <2>2, <3>2
      <4>. QED
        BY <1>4, <2>3, <4>1
    <3>. QED
      BY <3>1, <3>2
  <2>. QED
    BY <2>4, <2>5
<1>12. c - 1 \in Nat /\ listSize' = c - 1
  BY <1>b, <1>0, <1>1
<1>13. Chained(t, c - 1)'
  BY <1>10 DEF Chained
<1>14. IsChain(t, c - 1)'
  BY <1>b, <1>3, <1>6, <1>8, <1>11, <1>12, <1>13 DEF IsChain
<1>15. t \in [1 .. listSize' -> DOMAIN node'] /\ e \subseteq Nodes
  BY <1>1, <1>3, <1>4, <1>12
<1>. QED
  BY <1>b, <1>0, <1>3, <1>12, <1>14, <1>15 DEF ListOK

LinkedAt(s, n, i) ==
  /\ node[s[i]].next = IF i = n THEN Null ELSE s[i + 1]
  /\ node[s[i]].prev = IF i = 1 THEN Null ELSE s[i - 1]
  /\ node[s[i]].val = listItems[i]

LEMMA ChainLinks ==
  ASSUME NEW n \in Nat, NEW s \in [1 .. n -> DOMAIN node], IsChain(s, n), NEW i \in 1 .. n
  PROVE  LinkedAt(s, n, i)
<1> DEFINE p == IF i = 1 THEN Null ELSE s[i - 1]
           q == IF i = n THEN Null ELSE s[i + 1]
           v == listItems[i]
<1>1. node[s[i]] = [prev |-> p, next |-> q, val |-> v]
  BY DEF IsChain, Chained
<1>. HIDE DEF p, q, v
<1>2. node[s[i]].next = q /\ node[s[i]].prev = p /\ node[s[i]].val = v
  BY <1>1
<1>. QED
  BY <1>2 DEF p, q, v, LinkedAt

\* Rank() counts from m_head to the node.
LEMMA RankIs ==
  ASSUME Null \notin DOMAIN node, NEW n \in Nat, NEW s \in [1 .. n -> DOMAIN node], IsChain(s, n), NEW j \in 1 .. n
  PROVE  L!Rank(s[j]) = j
<1> DEFINE Then(r) == [k \in 0 .. listSize |->
             IF k = 0 THEN listHead ELSE IF r[k - 1] = Null THEN Null ELSE node[r[k - 1]].next]
           rank == CHOOSE r : r = Then(r)
           f == [k \in 0 .. n |-> IF k < n THEN s[k + 1] ELSE Null]
<1>1. n = listSize /\ \A i \in 1 .. n : s[i] \in DOMAIN node /\ s[i] # Null
  BY DEF IsChain
<1>2. ASSUME NEW i \in 1 .. n
      PROVE  node[s[i]].next = IF i = n THEN Null ELSE s[i + 1]
  <2>1. LinkedAt(s, n, i)
    BY ChainLinks, Zenon
  <2>. QED
    BY <2>1, Zenon DEF LinkedAt
<1>3. ASSUME NEW k \in 0 .. n
      PROVE  f[k] = IF k = 0 THEN listHead ELSE IF f[k - 1] = Null THEN Null ELSE node[f[k - 1]].next
  <2>1. CASE k = 0
    BY <2>1 DEF IsChain
  <2>2. CASE k # 0
    <3>1. k \in 1 .. n /\ k - 1 \in 0 .. n /\ k - 1 < n /\ (k - 1) + 1 = k
      BY <2>2
    <3>2. f[k - 1] = s[k]
      BY <3>1
    <3>. QED
      BY <1>1, <1>2, <2>2, <3>1, <3>2
  <2>. QED
    BY <2>1, <2>2
<1>4. f = Then(f)
  BY <1>1, <1>3
<1>5. rank = Then(rank)
  <2>. HIDE DEF f, Then
  <2>. QED
    BY <1>4
<1>. HIDE DEF f
<1>6. rank[0] = listHead /\ \A k \in 1 .. n : rank[k] = IF rank[k - 1] = Null THEN Null ELSE node[rank[k - 1]].next
  <2>. HIDE DEF rank
  <2>. QED
    BY <1>1, <1>5
<1>7. \A k \in 0 .. n : rank[k] = f[k]
  <2> DEFINE X == {k \in 0 .. n : rank[k] = f[k]}
  <2>. HIDE DEF rank, Then
  <2>1. 0 \in X
    BY <1>1, <1>3, <1>6
  <2>2. ASSUME NEW i \in 1 .. n, i - 1 \in X
        PROVE  i \in X
    <3>1. i \in 0 .. n /\ i # 0
      OBVIOUS
    <3>2. rank[i - 1] = f[i - 1]
      BY <2>2
    <3>3. rank[i] = IF rank[i - 1] = Null THEN Null ELSE node[rank[i - 1]].next
      BY <1>6
    <3>4. f[i] = IF f[i - 1] = Null THEN Null ELSE node[f[i - 1]].next
      BY <1>3, <3>1
    <3>. QED
      BY <3>1, <3>2, <3>3, <3>4
  <2>. HIDE DEF X
  <2>3. \A k \in 0 .. n : k \in X
    BY <2>1, <2>2, UpTo
  <2>. QED
    BY <2>3 DEF X
<1>8. L!Rank(s[j]) = CHOOSE k \in 1 .. listSize : rank[k - 1] = s[j]
  BY DEF L!Rank
<1>. HIDE DEF rank
<1>9. ASSUME NEW k \in 1 .. n
      PROVE  rank[k - 1] = s[k]
  <2>1. k - 1 \in 0 .. n /\ k - 1 < n /\ (k - 1) + 1 = k
    OBVIOUS
  <2>. QED
    BY <1>7, <2>1 DEF f
<1>10. \A i, k \in 1 .. n : s[i] = s[k] => i = k
  BY DEF IsChain
<1>. QED
  BY <1>1, <1>8, <1>9, <1>10

\* find() ends on a node of the list or at its end.
LEMMA FoundIsInList ==
  ASSUME Null \notin DOMAIN node, NEW n \in Nat, NEW s \in [1 .. n -> DOMAIN node], IsChain(s, n), NEW val
  PROVE  L!Found(val) \in DOMAIN node \cup {Null}
<1> DEFINE D == DOMAIN node \cup {Null}
           G == [m \in D |-> IF m = Null \/ node[m].val = val THEN m ELSE node[m].next]
           Then(r) == [k \in 0 .. listSize |->
             IF k = 0 THEN listHead
             ELSE IF r[k - 1] = Null \/ node[r[k - 1]].val = val THEN r[k - 1] ELSE node[r[k - 1]].next]
           found == CHOOSE r : r = Then(r)
<1>1. n = listSize /\ listHead \in D
  BY DEF IsChain
<1>2. ASSUME NEW m \in DOMAIN node
      PROVE  node[m].next \in D
  <2>1. PICK i \in 1 .. n : s[i] = m
    BY DEF IsChain
  <2>2. LinkedAt(s, n, i)
    BY ChainLinks, Zenon
  <2>. QED
    BY <2>1, <2>2 DEF LinkedAt
<1>3. G \in [D -> D]
  BY <1>2
<1>4. PICK f \in [0 .. n -> D] : f[0] = listHead /\ \A k \in 1 .. n : f[k] = G[f[k - 1]]
  <2>. HIDE DEF D, G, Then, found
  <2>. QED
    <3>1. Iterates(n, D, listHead, G)
      BY <1>1, <1>3, IterationExists, Zenon
    <3>. QED
      BY <3>1 DEF Iterates
<1>5. f = Then(f)
  <2>1. ASSUME NEW k \in 0 .. n
        PROVE  f[k] = IF k = 0 THEN listHead
             ELSE IF f[k - 1] = Null \/ node[f[k - 1]].val = val THEN f[k - 1] ELSE node[f[k - 1]].next
    <3>1. CASE k = 0
      BY <1>4, <3>1
    <3>2. CASE k # 0
      <4>1. k \in 1 .. n /\ k - 1 \in 0 .. n
        BY <3>2
      <4>2. f[k] = G[f[k - 1]] /\ f[k - 1] \in D
        <5>. HIDE DEF G
        <5>. QED
          BY <1>4, <4>1
      <4>. QED
        BY <3>2, <4>2
    <3>. QED
      BY <3>1, <3>2
  <2>. HIDE DEF G, D
  <2>. QED
    BY <1>1, <1>4, <2>1
<1>6. found = Then(found)
  <2>. HIDE DEF Then
  <2>. QED
    BY <1>5
<1>7. L!Found(val) = found[n]
  BY <1>1 DEF L!Found
<1>8. \A k \in 0 .. n : found[k] \in D
  <2> DEFINE X == {k \in 0 .. n : found[k] \in D}
  <2>0. found[0] = listHead /\ \A k \in 1 .. n : found[k] =
           IF found[k - 1] = Null \/ node[found[k - 1]].val = val THEN found[k - 1] ELSE node[found[k - 1]].next
    <3>. HIDE DEF found, D, G
    <3>1. found[0] = listHead
      BY <1>1, <1>6
    <3>2. ASSUME NEW k \in 1 .. n
          PROVE  found[k] = IF found[k - 1] = Null \/ node[found[k - 1]].val = val THEN found[k - 1] ELSE node[found[k - 1]].next
      <4>1. k \in 0 .. listSize /\ k # 0
        BY <1>1
      <4>. QED
        BY <1>6, <4>1
    <3>. QED
      BY <3>1, <3>2
  <2>. HIDE DEF found
  <2>1. 0 \in X
    BY <1>1, <2>0
  <2>2. ASSUME NEW i \in 1 .. n, i - 1 \in X
        PROVE  i \in X
    BY <1>2, <2>0, <2>2
  <2>. HIDE DEF X
  <2>3. \A k \in 0 .. n : k \in X
    BY <2>1, <2>2, UpTo
  <2>. QED
    BY <2>3 DEF X
<1>. QED
  BY <1>7, <1>8

ItemsGrow(k, val) ==
  /\ listItems' \in Seq(Values) /\ Len(listItems') = listSize + 1
  /\ \A i \in 1 .. listSize + 1 :
        listItems'[i] = IF i <= k THEN listItems[i] ELSE IF i = k + 1 THEN val ELSE listItems[i - 1]

ItemsShrink(k) ==
  /\ listItems' \in Seq(Values) /\ Len(listItems') = listSize - 1
  /\ \A i \in 1 .. listSize - 1 : listItems'[i] = IF i < k THEN listItems[i] ELSE listItems[i + 1]

LEMMA Joined ==
  ASSUME NEW W, NEW a \in Seq(W), NEW b \in Seq(W)
  PROVE  /\ a \o b \in Seq(W) /\ Len(a \o b) = Len(a) + Len(b)
         /\ \A i \in 1 .. Len(a) + Len(b) : (a \o b)[i] = IF i <= Len(a) THEN a[i] ELSE b[i - Len(a)]
OBVIOUS

LEMMA AppendGrows ==
  ASSUME listItems \in Seq(Values), listSize = Len(listItems), NEW val \in Values, listItems' = Append(listItems, val)
  PROVE  ItemsGrow(listSize, val)
BY DEF ItemsGrow

LEMMA PrependGrows ==
  ASSUME listItems \in Seq(Values), listSize = Len(listItems), NEW val \in Values, listItems' = <<val>> \o listItems
  PROVE  ItemsGrow(0, val)
<1>1. <<val>> \in Seq(Values) /\ Len(<<val>>) = 1 /\ <<val>>[1] = val /\ listSize \in Nat
  OBVIOUS
<1>2. listItems' \in Seq(Values) /\ Len(listItems') = listSize + 1
  BY <1>1
<1>3. ASSUME NEW i \in 1 .. listSize + 1
      PROVE  listItems'[i] = IF i <= 0 THEN listItems[i] ELSE IF i = 0 + 1 THEN val ELSE listItems[i - 1]
  BY <1>1
<1>. QED
  BY <1>2, <1>3 DEF ItemsGrow

LEMMA InsertGrows ==
  ASSUME listItems \in Seq(Values), listSize = Len(listItems), NEW val \in Values,
         NEW j \in 1 .. listSize, listItems' = L!InsertAt(listItems, j, val)
  PROVE  ItemsGrow(j - 1, val)
<1> DEFINE a == SubSeq(listItems, 1, j - 1)
           b == SubSeq(listItems, j, Len(listItems))
<1>0. listSize \in Nat
  OBVIOUS
<1>1. a \in Seq(Values) /\ Len(a) = j - 1 /\ \A i \in 1 .. j - 1 : a[i] = listItems[i]
  BY <1>0
<1>2. b \in Seq(Values) /\ Len(b) = listSize + 1 - j /\ \A i \in 1 .. listSize + 1 - j : b[i] = listItems[i + j - 1]
  BY <1>0
<1>3. listItems' = a \o <<val>> \o b
  BY DEF L!InsertAt
<1>. HIDE DEF a, b
<1>4. <<val>> \in Seq(Values) /\ Len(<<val>>) = 1 /\ <<val>>[1] = val
  OBVIOUS
<1>5. a \o <<val>> \in Seq(Values) /\ Len(a \o <<val>>) = j /\ \A i \in 1 .. j : (a \o <<val>>)[i] = IF i < j THEN listItems[i] ELSE val
  BY <1>0, <1>1, <1>4
<1>6. listItems' \in Seq(Values) /\ Len(listItems') = listSize + 1
  <2>1. PICK ab : ab = a \o <<val>>
    OBVIOUS
  <2>2. ab \in Seq(Values) /\ Len(ab) = j
    BY <1>5, <2>1
  <2>3. listItems' = ab \o b
    BY <1>3, <2>1
  <2>4. listItems' \in Seq(Values) /\ Len(listItems') = Len(ab) + Len(b)
    BY <1>2, <2>2, <2>3, Joined, Zenon
  <2>. QED
    BY <1>0, <1>2, <2>2, <2>4
<1>7. ASSUME NEW i \in 1 .. listSize + 1
      PROVE  listItems'[i] = IF i <= j - 1 THEN listItems[i] ELSE IF i = (j - 1) + 1 THEN val ELSE listItems[i - 1]
  <2>1. CASE i <= j
    BY <1>0, <1>2, <1>3, <1>5, <2>1
  <2>2. CASE i > j
    <3>1. listItems'[i] = b[i - j]
      BY <1>0, <1>2, <1>3, <1>5, <2>2
    <3>2. i - j \in 1 .. listSize + 1 - j /\ (i - j) + j - 1 = i - 1
      BY <1>0, <2>2
    <3>. QED
      BY <1>0, <1>2, <2>2, <3>1, <3>2
  <2>. QED
    BY <1>0, <2>1, <2>2
<1>. QED
  BY <1>6, <1>7 DEF ItemsGrow

LEMMA RemoveShrinks ==
  ASSUME listItems \in Seq(Values), listSize = Len(listItems),
         NEW j \in 1 .. listSize, listItems' = L!RemoveAt(listItems, j)
  PROVE  ItemsShrink(j)
<1> DEFINE a == SubSeq(listItems, 1, j - 1)
           b == SubSeq(listItems, j + 1, Len(listItems))
<1>0. listSize \in Nat
  OBVIOUS
<1>1. a \in Seq(Values) /\ Len(a) = j - 1 /\ \A i \in 1 .. j - 1 : a[i] = listItems[i]
  BY <1>0
<1>2. b \in Seq(Values) /\ Len(b) = listSize - j /\ \A i \in 1 .. listSize - j : b[i] = listItems[i + j]
  BY <1>0
<1>3. listItems' = a \o b
  BY DEF L!RemoveAt
<1>. HIDE DEF a, b
<1>6. listItems' \in Seq(Values) /\ Len(listItems') = listSize - 1
  <2>1. listItems' \in Seq(Values) /\ Len(listItems') = Len(a) + Len(b)
    BY <1>1, <1>2, <1>3, Joined, Zenon
  <2>. QED
    BY <1>0, <1>1, <1>2, <2>1
<1>7. ASSUME NEW i \in 1 .. listSize - 1
      PROVE  listItems'[i] = IF i < j THEN listItems[i] ELSE listItems[i + 1]
  <2>1. CASE i < j
    BY <1>0, <1>1, <1>2, <1>3, <2>1
  <2>2. CASE i >= j
    <3>1. i - (j - 1) \in 1 .. listSize - j /\ (i - (j - 1)) + j = i + 1
      BY <1>0, <2>2
    <3>2. listItems'[i] = b[i - (j - 1)]
      BY <1>0, <1>1, <1>2, <1>3, <2>2
    <3>. QED
      BY <1>0, <1>2, <2>2, <3>1, <3>2
  <2>. QED
    BY <1>0, <2>1, <2>2
<1>. QED
  BY <1>6, <1>7 DEF ItemsShrink

LEMMA BeforeGrows ==
  ASSUME ListOK, Null \notin Nodes,
         NEW s \in [1 .. listSize -> DOMAIN node], IsChain(s, listSize),
         NEW k \in 1 .. listSize, NEW n \in Nodes \ DOMAIN node, NEW val \in Values,
         L!InsertBefore(n, s[k], val), listSize' = listSize + 1, ItemsGrow(k - 1, val)
  PROVE  ListOK'
<1>0. listSize \in Nat /\ Null \notin DOMAIN node
  BY DEF ListOK
<1>1. LinkedAt(s, listSize, k)
  BY <1>0, ChainLinks, Zenon
<1>2. PICK p : p = node[s[k]].prev
  OBVIOUS
<1>3. k - 1 \in 0 .. listSize /\ k - 1 # listSize /\ (k - 1) + 1 = k
  BY <1>0
<1>4. p = IF k - 1 = 0 THEN Null ELSE s[k - 1]
  BY <1>0, <1>1, <1>2 DEF LinkedAt
<1>5. p = Null <=> k - 1 = 0
  BY <1>0, <1>4
<1>6. node' = L!Linked(n, p, s[k], val) /\ listHead' = (IF p = Null THEN n ELSE listHead) /\ listTail' = listTail
  BY <1>2, Zenon DEF L!InsertBefore
<1>7. s[k] = IF k - 1 = listSize THEN Null ELSE s[(k - 1) + 1]
  BY <1>3
<1>8. listHead' = (IF k - 1 = 0 THEN n ELSE listHead) /\ listTail' = (IF k - 1 = listSize THEN n ELSE listTail)
  BY <1>3, <1>5, <1>6
<1>9. PICK h : h = k - 1
  OBVIOUS
<1>10. h \in 0 .. listSize /\ p = (IF h = 0 THEN Null ELSE s[h]) /\ s[k] = (IF h = listSize THEN Null ELSE s[h + 1])
  BY <1>3, <1>4, <1>7, <1>9
<1>11. ItemsGrow(h, val) /\ listHead' = (IF h = 0 THEN n ELSE listHead) /\ listTail' = (IF h = listSize THEN n ELSE listTail)
  BY <1>8, <1>9
<1>12. listItems' \in Seq(Values) /\ Len(listItems') = listSize + 1
       /\ \A i \in 1 .. listSize + 1 :
            listItems'[i] = IF i <= h THEN listItems[i] ELSE IF i = h + 1 THEN val ELSE listItems[i - 1]
  BY <1>11 DEF ItemsGrow
<1>. QED
  BY <1>6, <1>10, <1>11, <1>12, ListGrows

LEMMA HeadGrows ==
  ASSUME ListOK, Null \notin Nodes,
         NEW s \in [1 .. listSize -> DOMAIN node], IsChain(s, listSize),
         NEW n \in Nodes \ DOMAIN node, NEW val \in Values,
         L!InsertHead(n, val), listSize' = listSize + 1, ItemsGrow(0, val)
  PROVE  ListOK'
<1>0. listSize \in Nat /\ Null \notin DOMAIN node
  BY DEF ListOK
<1>1. CASE listSize # 0
  <2>1. 1 \in 1 .. listSize /\ 1 - 1 = 0
    BY <1>0, <1>1
  <2>2. listHead = s[1] /\ s[1] # Null
    BY <1>0, <1>1, <2>1 DEF IsChain
  <2>3. L!InsertBefore(n, s[1], val) /\ ItemsGrow(1 - 1, val)
    BY <2>1, <2>2 DEF L!InsertHead
  <2>. QED
    BY <2>1, <2>3, BeforeGrows
<1>2. CASE listSize = 0
  <2>1. listHead = Null /\ listTail = Null
    BY <1>2 DEF IsChain
  <2>2. L!InsertAlone(n, val)
    BY <2>1 DEF L!InsertHead
  <2>3. node' = L!Linked(n, Null, Null, val) /\ listHead' = n /\ listTail' = n
    BY <2>2, Zenon DEF L!InsertAlone
  <2>4. 0 \in 0 .. listSize /\ 0 = listSize
    BY <1>2
  <2>5. listHead' = (IF 0 = 0 THEN n ELSE listHead) /\ listTail' = (IF 0 = listSize THEN n ELSE listTail)
    BY <2>3, <2>4
  <2>6. Null = (IF 0 = 0 THEN Null ELSE s[0]) /\ Null = (IF 0 = listSize THEN Null ELSE s[0 + 1])
    BY <2>4
  <2>7. listItems' \in Seq(Values) /\ Len(listItems') = listSize + 1
       /\ \A i \in 1 .. listSize + 1 :
            listItems'[i] = IF i <= 0 THEN listItems[i] ELSE IF i = 0 + 1 THEN val ELSE listItems[i - 1]
    BY DEF ItemsGrow
  <2>. QED
    BY <2>3, <2>4, <2>5, <2>6, <2>7, ListGrows
<1>. QED
  BY <1>1, <1>2

LEMMA TailGrows ==
  ASSUME ListOK, Null \notin Nodes,
         NEW s \in [1 .. listSize -> DOMAIN node], IsChain(s, listSize),
         NEW n \in Nodes \ DOMAIN node, NEW val \in Values,
         L!InsertTail(n, val), listSize' = listSize + 1, ItemsGrow(listSize, val)
  PROVE  ListOK'
<1>0. listSize \in Nat /\ Null \notin DOMAIN node
  BY DEF ListOK
<1>1. CASE listSize = 0
  <2>1. listTail = Null
    BY <1>1 DEF IsChain
  <2>2. L!InsertHead(n, val) /\ ItemsGrow(0, val)
    BY <1>1, <2>1 DEF L!InsertTail
  <2>. QED
    BY <2>2, HeadGrows
<1>2. CASE listSize # 0
  <2>1. listSize \in 1 .. listSize /\ listSize \in 0 .. listSize
    BY <1>0, <1>2
  <2>2. listTail = s[listSize] /\ listTail # Null
    BY <1>0, <1>2, <2>1 DEF IsChain
  <2>3. node' = L!Linked(n, listTail, Null, val) /\ listTail' = n /\ listHead' = listHead
    BY <2>2, Zenon DEF L!InsertTail
  <2>4. PICK c, p : c = listSize /\ p = listTail
    OBVIOUS
  <2>5. c \in 0 .. listSize /\ p = (IF c = 0 THEN Null ELSE s[c]) /\ Null = (IF c = listSize THEN Null ELSE s[c + 1])
    BY <1>2, <2>1, <2>2, <2>4
  <2>6. listHead' = (IF c = 0 THEN n ELSE listHead) /\ listTail' = (IF c = listSize THEN n ELSE listTail)
        /\ node' = L!Linked(n, p, Null, val)
    BY <1>2, <2>3, <2>4
  <2>7. listItems' \in Seq(Values) /\ Len(listItems') = listSize + 1
       /\ \A i \in 1 .. listSize + 1 :
            listItems'[i] = IF i <= c THEN listItems[i] ELSE IF i = c + 1 THEN val ELSE listItems[i - 1]
    BY <2>4 DEF ItemsGrow
  <2>. QED
    BY <2>5, <2>6, <2>7, ListGrows
<1>. QED
  BY <1>1, <1>2

LEMMA UnlinkShrinks ==
  ASSUME ListOK, Null \notin Nodes,
         NEW s \in [1 .. listSize -> DOMAIN node], IsChain(s, listSize),
         NEW k \in 1 .. listSize, L!Unlink(s[k])
  PROVE  ListOK'
<1>0. listSize \in Nat /\ Null \notin DOMAIN node /\ listItems \in Seq(Values) /\ listSize = Len(listItems)
  BY DEF ListOK
<1>1. LinkedAt(s, listSize, k)
  BY <1>0, ChainLinks, Zenon
<1>2. PICK p, q : p = node[s[k]].prev /\ q = node[s[k]].next
  OBVIOUS
<1>3. p = (IF k = 1 THEN Null ELSE s[k - 1]) /\ q = IF k = listSize THEN Null ELSE s[k + 1]
  BY <1>1, <1>2 DEF LinkedAt
<1>4. node' = Unlinked(s[k], p, q)
  BY <1>2, Zenon DEF L!Unlink, L!Live, Unlinked
<1>5. listHead' = (IF p = Null THEN q ELSE listHead) /\ listTail' = (IF q = Null THEN p ELSE listTail) /\ listSize' = listSize - 1
  BY <1>2, Zenon DEF L!Unlink
<1>6. listItems' = L!RemoveAt(listItems, k)
  <2>1. L!Rank(s[k]) = k
    BY <1>0, RankIs
  <2>2. listItems' = L!RemoveAt(listItems, L!Rank(s[k]))
    BY Zenon DEF L!Unlink
  <2>. QED
    BY <2>1, <2>2
<1>7. ItemsShrink(k)
  BY <1>0, <1>6, RemoveShrinks
<1>8. listItems' \in Seq(Values) /\ Len(listItems') = listSize - 1
      /\ \A i \in 1 .. listSize - 1 : listItems'[i] = IF i < k THEN listItems[i] ELSE listItems[i + 1]
  BY <1>7 DEF ItemsShrink
<1>9. ShrinksAt(s, k, p, q)
  BY <1>3, <1>4, <1>5, <1>8, Zenon DEF ShrinksAt
<1>. QED
  BY <1>9, ListShrinks, Zenon

LEMMA ListSteps ==
  ASSUME ListOK, Null \notin Nodes, L!Next
  PROVE  ListOK'
<1>0. PICK s \in [1 .. listSize -> DOMAIN node] : IsChain(s, listSize)
  BY DEF ListOK
<1>1. listSize \in Nat /\ DOMAIN node \subseteq Nodes /\ Null \notin DOMAIN node /\ listItems \in Seq(Values) /\ listSize = Len(listItems)
  BY DEF ListOK
<1>2. ASSUME NEW m \in DOMAIN node
      PROVE  \E k \in 1 .. listSize : s[k] = m
  BY <1>0 DEF IsChain
<1>3. ASSUME NEW m \in DOMAIN node, L!Unlink(m)
      PROVE  ListOK'
  <2>1. PICK k \in 1 .. listSize : s[k] = m
    BY <1>2
  <2>2. L!Unlink(s[k])
    BY <1>3, <2>1
  <2>. QED
    BY <1>0, <2>2, UnlinkShrinks
<1>4. listHead = Null \/ listHead \in DOMAIN node
  BY <1>0, <1>1 DEF IsChain
<1>5. listTail = Null \/ listTail \in DOMAIN node
  BY <1>0, <1>1 DEF IsChain
<1>6. ASSUME UNCHANGED <<node, listHead, listTail, listSize, listItems>>
      PROVE  ListOK'
  <2>1. node' = node /\ listHead' = listHead /\ listTail' = listTail /\ listSize' = listSize /\ listItems' = listItems
    BY <1>6
  <2>2. IsChain(s, listSize)' /\ s \in [1 .. listSize' -> DOMAIN node']
    BY <1>0, <2>1 DEF IsChain, Chained
  <2>3. listSize' \in Nat /\ listItems' \in Seq(Values) /\ Len(listItems') = listSize' /\ DOMAIN node' \subseteq Nodes
        /\ node' = [m \in DOMAIN node' |-> node'[m]]
    BY <2>1 DEF ListOK
  <2>. QED
    BY <2>2, <2>3 DEF ListOK
<1>7. ASSUME NEW val \in Values, L!PushBack(val)
      PROVE  ListOK'
  <2>1. PICK n \in Nodes \ DOMAIN node : L!InsertTail(n, val) /\ listSize' = listSize + 1 /\ listItems' = Append(listItems, val)
    BY <1>7, Zenon DEF L!PushBack, L!Live
  <2>2. ItemsGrow(listSize, val)
    BY <1>1, <2>1, AppendGrows
  <2>. QED
    BY <1>0, <2>1, <2>2, TailGrows
<1>8. ASSUME NEW val \in Values, L!PushFront(val)
      PROVE  ListOK'
  <2>1. PICK n \in Nodes \ DOMAIN node : L!InsertHead(n, val) /\ listSize' = listSize + 1 /\ listItems' = <<val>> \o listItems
    BY <1>8, Zenon DEF L!PushFront, L!Live
  <2>2. ItemsGrow(0, val)
    BY <1>1, <2>1, PrependGrows
  <2>. QED
    BY <1>0, <2>1, <2>2, HeadGrows
<1>9. ASSUME NEW val \in Values, L!Insert(val)
      PROVE  ListOK'
  <2>1. PICK n \in Nodes \ DOMAIN node :
           /\ listIter \in DOMAIN node /\ L!InsertBefore(n, listIter, val) /\ listSize' = listSize + 1
           /\ listItems' = L!InsertAt(listItems, L!Rank(listIter), val)
    BY <1>9, Zenon DEF L!Insert, L!Live, L!InList
  <2>2. PICK k \in 1 .. listSize : s[k] = listIter
    BY <1>2, <2>1
  <2>3. L!Rank(s[k]) = k
    BY <1>0, <1>1, RankIs
  <2>4. L!InsertBefore(n, s[k], val) /\ listItems' = L!InsertAt(listItems, k, val)
    BY <2>1, <2>2, <2>3
  <2>5. ItemsGrow(k - 1, val)
    BY <1>1, <2>4, InsertGrows
  <2>. QED
    BY <1>0, <2>1, <2>4, <2>5, BeforeGrows
<1>10. ASSUME NEW val \in Values, L!RemoveValue(val)
       PROVE  ListOK'
  <2>1. L!Found(val) # Null /\ L!Unlink(L!Found(val))
    BY <1>10, Zenon DEF L!RemoveValue
  <2>2. L!Found(val) \in DOMAIN node \cup {Null}
    BY <1>0, <1>1, FoundIsInList
  <2>. QED
    BY <1>3, <2>1, <2>2
<1>11. ASSUME L!Clear
       PROVE  ListOK'
  <2>1. node' = <<>> /\ listHead' = Null /\ listTail' = Null /\ listSize' = 0 /\ listItems' = <<>>
    BY <1>11, Zenon DEF L!Clear
  <2> DEFINE t == [i \in 1 .. 0 |-> Null]
  <2>2. DOMAIN node' = {} /\ 1 .. 0 = {} /\ Len(listItems') = 0 /\ listItems' \in Seq(Values) /\ node' = [m \in DOMAIN node' |-> node'[m]]
    BY <2>1
  <2>3. PICK u : u = t
    OBVIOUS
  <2>4. u \in [1 .. listSize' -> DOMAIN node']
    BY <2>1, <2>2, <2>3
  <2>5. IsChain(u, listSize)'
    BY <2>1, <2>2 DEF IsChain, Chained
  <2>. QED
    BY <2>1, <2>2, <2>4, <2>5 DEF ListOK
<1>12. ASSUME L!PopFront \/ L!PopBack \/ L!RemoveAtIter
       PROVE  ListOK'
  <2>1. CASE L!PopFront
    BY <1>3, <1>4, <2>1 DEF L!PopFront
  <2>2. CASE L!PopBack
    BY <1>3, <1>5, <2>2 DEF L!PopBack
  <2>3. CASE L!RemoveAtIter
    BY <1>3, <2>3 DEF L!RemoveAtIter, L!InList, L!Live
  <2>. QED
    BY <1>12, <2>1, <2>2, <2>3
<1>13. ASSUME NEW val \in Values, L!Find(val)
       PROVE  ListOK'
  BY <1>6, <1>13 DEF L!Find
<1>14. ASSUME L!InsertFails \/ L!Forward \/ L!Backward
       PROVE  ListOK'
  BY <1>6, <1>14 DEF L!InsertFails, L!Forward, L!Backward
<1>. QED
  BY <1>7, <1>8, <1>9, <1>10, <1>11, <1>12, <1>13, <1>14, Zenon DEF L!Next

LEMMA IsSeq ==
  ASSUME NEW n \in Nat, NEW D, NEW g \in [1 .. n -> D]
  PROVE  g \in Seq(D) /\ Len(g) = n
OBVIOUS

StartOf(g, t, k, D) ==
  /\ g = [i \in 1 .. k + 1 |-> t[i]]
  /\ g \in Seq(D) /\ Len(g) = k + 1 /\ L!Last(g) = t[k + 1]
  /\ \A i \in 1 .. k + 1 : g[i] = t[i]

Walkable(t, c, link) ==
  \A i \in 1 .. c : t[i] \in DOMAIN node /\ node[t[i]][link] = t[i + 1]

\* The nodes that are met from one end, and Null behind the last of them.
LEMMA WalkIs ==
  ASSUME NEW c \in Nat, NEW D, NEW t \in [1 .. c + 1 -> D], NEW link \in {"next", "prev"},
         L!Cardinality(DOMAIN node) = c,
         Walkable(t, c, link),
         t[c + 1] \notin DOMAIN node
  PROVE  L!Walk(t[1], link) = t
<1> DEFINE Then(r) == [k \in 0 .. L!Cardinality(DOMAIN node) + 1 |->
             IF k = 0 THEN <<t[1]>>
             ELSE IF L!Last(r[k - 1]) \notin DOMAIN node THEN r[k - 1]
             ELSE Append(r[k - 1], node[L!Last(r[k - 1])][link])]
           walk == CHOOSE r : r = Then(r)
           f == [k \in 0 .. c + 1 |-> IF k = c + 1 THEN t ELSE [i \in 1 .. k + 1 |-> t[i]]]
<1>1. t \in Seq(D) /\ Len(t) = c + 1
  OBVIOUS
<1>2. ASSUME NEW k \in 0 .. c
      PROVE  StartOf(f[k], t, k, D)
  <2>1. k \in 0 .. c + 1 /\ k # c + 1
    OBVIOUS
  <2>2. f[k] = [i \in 1 .. k + 1 |-> t[i]]
    BY <2>1
  <2>. HIDE DEF f
  <2>3. k + 1 \in Nat /\ \A i \in 1 .. k + 1 : t[i] \in D
    OBVIOUS
  <2>4. f[k] \in [1 .. k + 1 -> D] /\ \A i \in 1 .. k + 1 : f[k][i] = t[i]
    BY <2>2, <2>3
  <2>5. f[k] \in Seq(D) /\ Len(f[k]) = k + 1
    BY <2>3, <2>4, IsSeq, Zenon
  <2>6. L!Last(f[k]) = t[k + 1]
    BY <2>4, <2>5 DEF L!Last
  <2>. QED
    BY <2>2, <2>4, <2>5, <2>6 DEF StartOf
<1>3. f[c + 1] = t
  OBVIOUS
<1>4. ASSUME NEW k \in 0 .. c + 1
      PROVE  f[k] = IF k = 0 THEN <<t[1]>>
             ELSE IF L!Last(f[k - 1]) \notin DOMAIN node THEN f[k - 1]
             ELSE Append(f[k - 1], node[L!Last(f[k - 1])][link])
  <2>1. CASE k = 0
    <3>1. 0 \in 0 .. c
      OBVIOUS
    <3>2. f[0] \in Seq(D) /\ Len(f[0]) = 1 /\ f[0][1] = t[1]
      <4>. HIDE DEF f
      <4>1. StartOf(f[0], t, 0, D)
        BY <1>2, <3>1, Zenon
      <4>. QED
        BY <4>1 DEF StartOf
    <3>. HIDE DEF f
    <3>3. f[0] = <<t[1]>>
      BY <3>2
    <3>. QED
      BY <2>1, <3>3
  <2>2. CASE k \in 1 .. c
    <3> DEFINE g == f[k - 1]
    <3>1. k - 1 \in 0 .. c /\ (k - 1) + 1 = k /\ k \in 0 .. c /\ k # 0
      BY <2>2
    <3>. HIDE DEF f
    <3>2. g \in Seq(D) /\ Len(g) = k /\ L!Last(g) = t[k] /\ \A i \in 1 .. k : g[i] = t[i]
      <4>1. StartOf(f[k - 1], t, k - 1, D)
        BY <1>2, <3>1
      <4>. QED
        BY <3>1, <4>1 DEF StartOf
    <3>3. t[k] \in DOMAIN node /\ node[t[k]][link] = t[k + 1] /\ t[k + 1] \in D
      <4>1. t[k] \in DOMAIN node /\ node[t[k]][link] = t[k + 1]
        BY <2>2, Zenon DEF Walkable
      <4>2. k + 1 \in 1 .. c + 1
        BY <2>2
      <4>. QED
        BY <4>1, <4>2
    <3>4. f[k] = [i \in 1 .. k + 1 |-> t[i]]
      BY <1>2, <3>1 DEF StartOf
    <3>. HIDE DEF g
    <3>5. Append(g, t[k + 1]) = [i \in 1 .. k + 1 |-> t[i]]
      BY <3>2, <3>3
    <3>. QED
      BY <3>1, <3>2, <3>3, <3>4, <3>5 DEF g
  <2>3. CASE k = c + 1
    <3>1. c \in 0 .. c /\ k - 1 = c /\ k # 0
      BY <2>3
    <3>2. f[c] = [i \in 1 .. c + 1 |-> t[i]] /\ L!Last(f[c]) = t[c + 1]
      <4>. HIDE DEF f
      <4>. QED
        BY <1>2, <3>1 DEF StartOf
    <3>3. f[c] = t
      <4>. HIDE DEF f
      <4>. QED
        BY <3>2
    <3>. HIDE DEF f
    <3>. QED
      BY <1>3, <2>3, <3>1, <3>2, <3>3
  <2>. QED
    BY <2>1, <2>2, <2>3
<1>5. f = Then(f)
  <2>1. f = [k \in 0 .. c + 1 |-> f[k]]
    OBVIOUS
  <2>. HIDE DEF f
  <2>. QED
    BY <1>4, <2>1
<1>6. walk = Then(walk)
  <2>. HIDE DEF f, Then
  <2>. QED
    BY <1>5
<1>7. L!Walk(t[1], link) = walk[c + 1]
  <2>. HIDE DEF f
  <2>. QED
    BY DEF L!Walk, L!Live
<1>. HIDE DEF f
<1>8. \A k \in 0 .. c + 1 : walk[k] = f[k]
  <2> DEFINE X == {k \in 0 .. c + 1 : walk[k] = f[k]}
  <2>. HIDE DEF walk
  <2>0. ASSUME NEW k \in 0 .. c + 1
        PROVE  walk[k] = IF k = 0 THEN <<t[1]>>
             ELSE IF L!Last(walk[k - 1]) \notin DOMAIN node THEN walk[k - 1]
             ELSE Append(walk[k - 1], node[L!Last(walk[k - 1])][link])
    BY <1>6
  <2>. HIDE DEF Then
  <2>1. 0 \in X
    BY <1>4, <2>0
  <2>2. ASSUME NEW i \in 1 .. c + 1, i - 1 \in X
        PROVE  i \in X
    <3>1. i \in 0 .. c + 1 /\ i # 0 /\ walk[i - 1] = f[i - 1]
      BY <2>2
    <3>. QED
      BY <1>4, <2>0, <3>1
  <2>. HIDE DEF X
  <2>3. \A k \in 0 .. c + 1 : k \in X
    <3>1. c + 1 \in Nat
      OBVIOUS
    <3>. QED
      BY <2>1, <2>2, <3>1, UpTo
  <2>. QED
    BY <2>3 DEF X
<1>9. c + 1 \in 0 .. c + 1
  OBVIOUS
<1>10. walk[c + 1] = f[c + 1]
  BY <1>8, <1>9
<1>. QED
  BY <1>3, <1>7, <1>10, Zenon

\* What BothWaysInOrder says, of the chain.
LEMMA ChainBothWays == ListOK /\ Null \notin Nodes => L!BothWaysInOrder
<1> SUFFICES ASSUME ListOK, Null \notin Nodes PROVE L!BothWaysInOrder
  OBVIOUS
<1>0. PICK s \in [1 .. listSize -> DOMAIN node] : IsChain(s, listSize)
  BY DEF ListOK
<1>1. PICK c \in Nat : c = listSize
  BY DEF ListOK
<1>2. Null \notin DOMAIN node /\ listItems \in Seq(Values) /\ Len(listItems) = c
  BY <1>1 DEF ListOK
<1>3. \A i \in 1 .. c : s[i] \in DOMAIN node
  BY <1>1
<1>4. L!Cardinality(DOMAIN node) = c
  <2>1. s \in Bijection(1 .. c, DOMAIN node)
    <3>1. s \in [1 .. c -> DOMAIN node] /\ (\A i, j \in 1 .. c : s[i] = s[j] => i = j) /\ \A m \in DOMAIN node : \E i \in 1 .. c : s[i] = m
      BY <1>0, <1>1 DEF IsChain
    <3>. QED
      BY <3>1 DEF Bijection, Injection, IsInjective, Surjection
  <2>2. IsFiniteSet(1 .. c) /\ Cardinality(1 .. c) = c
    BY FS_Interval
  <2>3. ExistsBijection(1 .. c, DOMAIN node)
    BY <2>1 DEF ExistsBijection
  <2>4. Cardinality(DOMAIN node) = c
    BY <2>2, <2>3, FS_Bijection
  <2>5. L!Cardinality(DOMAIN node) = Cardinality(DOMAIN node)
    BY DEF L!Cardinality, Cardinality
  <2>. QED
    BY <2>4, <2>5
<1>5. ASSUME NEW i \in 1 .. c
      PROVE  /\ node[s[i]]["next"] = IF i = c THEN Null ELSE s[i + 1]
             /\ node[s[i]]["prev"] = IF i = 1 THEN Null ELSE s[i - 1]
             /\ node[s[i]].val = listItems[i]
  <2>1. LinkedAt(s, c, i)
    BY <1>0, <1>1, ChainLinks, Zenon
  <2>. QED
    BY <2>1 DEF LinkedAt
<1> DEFINE D == DOMAIN node \cup {Null}
           t == [i \in 1 .. c + 1 |-> IF i = c + 1 THEN Null ELSE s[i]]
           u == [i \in 1 .. c + 1 |-> IF i = c + 1 THEN Null ELSE s[c + 1 - i]]
<1>6. t \in [1 .. c + 1 -> D] /\ t[c + 1] = Null /\ \A i \in 1 .. c : t[i] = s[i]
  BY <1>3
<1>7. u \in [1 .. c + 1 -> D] /\ u[c + 1] = Null /\ \A i \in 1 .. c : u[i] = s[c + 1 - i]
  BY <1>3
<1>8. t[1] = listHead /\ u[1] = listTail
  BY <1>0, <1>1 DEF IsChain
<1>. HIDE DEF t, u
<1>9. L!Walk(listHead, "next") = t
  <2>1. ASSUME NEW i \in 1 .. c
        PROVE  t[i] \in DOMAIN node /\ node[t[i]]["next"] = t[i + 1]
    <3>1. i # c => i + 1 \in 1 .. c
      OBVIOUS
    <3>. QED
      BY <1>3, <1>5, <1>6, <3>1
  <2>. QED
    <3>1. Walkable(t, c, "next")
      BY <2>1 DEF Walkable
    <3>2. L!Walk(t[1], "next") = t
      BY <1>2, <1>4, <1>6, <3>1, WalkIs
    <3>. QED
      BY <1>8, <3>2
<1>10. L!Walk(listTail, "prev") = u
  <2>1. ASSUME NEW i \in 1 .. c
        PROVE  u[i] \in DOMAIN node /\ node[u[i]]["prev"] = u[i + 1]
    <3>1. c + 1 - i \in 1 .. c /\ (i = c <=> c + 1 - i = 1) /\ (i # c => i + 1 \in 1 .. c /\ c + 1 - (i + 1) = (c + 1 - i) - 1)
      OBVIOUS
    <3>2. u[i] = s[c + 1 - i] /\ u[i + 1] = IF i = c THEN Null ELSE s[(c + 1 - i) - 1]
      BY <1>7, <3>1
    <3>. QED
      BY <1>3, <1>5, <3>1, <3>2
  <2>. QED
    <3>1. Walkable(u, c, "prev")
      BY <2>1 DEF Walkable
    <3>2. L!Walk(u[1], "prev") = u
      BY <1>2, <1>4, <1>7, <3>1, WalkIs
    <3>. QED
      BY <1>8, <3>2
<1>11. t \in Seq(D) /\ Len(t) = c + 1 /\ u \in Seq(D) /\ Len(u) = c + 1
  BY <1>6, <1>7
<1>12. L!Front(t) = [i \in 1 .. c |-> s[i]]
  BY <1>6, <1>11 DEF L!Front
<1>13. L!Front(u) = [i \in 1 .. c |-> s[c + 1 - i]]
  BY <1>7, <1>11 DEF L!Front
<1>14. L!Reverse(L!Front(u)) = L!Front(t)
  <2>1. PICK v : v = L!Front(u)
    OBVIOUS
  <2>2. v \in [1 .. c -> D]
    BY <1>3, <1>13, <2>1
  <2>3. v \in Seq(D) /\ Len(v) = c
    BY <2>2
  <2>4. \A i \in 1 .. c : v[(c - i) + 1] = s[i]
    BY <1>13, <2>1
  <2>5. L!Reverse(v) = [i \in 1 .. c |-> s[i]]
    BY <2>3, <2>4 DEF L!Reverse
  <2>. QED
    BY <1>12, <2>1, <2>5
<1>15. L!Last(t) = Null /\ L!Last(u) = Null
  BY <1>6, <1>7, <1>11 DEF L!Last
<1>16. listItems = [i \in 1 .. c |-> node[t[i]].val]
  BY <1>2, <1>5, <1>6
<1>17. listSize = L!Cardinality(DOMAIN node) /\ Len(t) = listSize + 1 /\ listItems = [i \in 1 .. listSize |-> node[t[i]].val]
  BY <1>1, <1>4, <1>11, <1>16
<1>. QED
  BY <1>9, <1>10, <1>14, <1>15, <1>17, Zenon DEF L!BothWaysInOrder, L!Live

LEMMA ListOKHolds == MCSpec => []ListOK
<1>1. MCInit => ListOK
  BY ListStarts DEF MCInit
<1>2. ListOK /\ [MCNext]_<<used, bigVars, dataVars, otherVars>> => ListOK'
  <2> SUFFICES ASSUME ListOK, [MCNext]_<<used, bigVars, dataVars, otherVars>> PROVE ListOK'
    OBVIOUS
  <2>1. ASSUME L!Next
        PROVE  ListOK'
    BY <2>1, ListSteps, ListAssumption
  <2>2. ASSUME UNCHANGED listVars
        PROVE  ListOK'
    <3>1. node' = node /\ listHead' = listHead /\ listTail' = listTail /\ listSize' = listSize /\ listItems' = listItems
      BY <2>2 DEF listVars
    <3>2. PICK s \in [1 .. listSize -> DOMAIN node] : IsChain(s, listSize)
      BY DEF ListOK
    <3>3. IsChain(s, listSize)' /\ s \in [1 .. listSize' -> DOMAIN node']
      BY <3>1, <3>2 DEF IsChain, Chained
    <3>4. listSize' \in Nat /\ listItems' \in Seq(Values) /\ Len(listItems') = listSize' /\ DOMAIN node' \subseteq Nodes
          /\ node' = [m \in DOMAIN node' |-> node'[m]]
      BY <3>1 DEF ListOK
    <3>. QED
      BY <3>3, <3>4 DEF ListOK
  <2>3. L!Next \/ UNCHANGED listVars
    BY Zenon DEF MCNext, BigNext, DataNext, OtherNext, dataVars
  <2>. QED
    BY <2>1, <2>2, <2>3
<1>. QED
  BY <1>1, <1>2, PTL DEF MCSpec

\* BothWaysInOrder (List): forwards and backwards along the links one meets the
\* same nodes, all of them and once each, with the values the calls gave them.
THEOREM BothWays == MCSpec => []BothWaysInOrder
<1>1. ListOK => BothWaysInOrder
  BY ChainBothWays, ListAssumption, Zenon DEF BothWaysInOrder
<1>. QED
  BY <1>1, ListOKHolds, PTL
-----------------------------------------------------------------------------
(* HashTable: where the items are, and that of an insertion under way.      *)

\* The slot e turns behind h, and how many turns p is behind h.
Along(h, e, n) == IF h + e < n THEN h + e ELSE h + e - n
Turns(h, p, n) == IF p >= h THEN p - h ELSE p + n - h
Way(slot, p, n) == Turns(slot.hash % n, p, n)

SlotSet == [hash : Nat, item : H!Items \cup {NoItem}]

\* A slot that an item may be carried past at its e-th turn: it is in use or was,
\* and what is or was in it has come as far.
Passed(d, n, h, e) == d[Along(h, e, n)].hash # 0 /\ Way(d[Along(h, e, n)], Along(h, e, n), n) >= e

\* A key has one slot, and all the slots on the way to it are passed.
TableGood(d, n) ==
  /\ n \in Nat /\ n <= MaxSize
  /\ d \in [0 .. n - 1 -> SlotSet]
  /\ \A p \in 0 .. n - 1 : d[p].item # NoItem => d[p].hash = H!Hash(d[p].item.key)
  /\ \A p, q \in 0 .. n - 1 : d[p].item # NoItem /\ d[q].item # NoItem /\ d[p].item.key = d[q].item.key => p = q
  /\ \A q \in 0 .. n - 1 : d[q].item # NoItem =>
       \A e \in 0 .. Way(d[q], q, n) - 1 : Passed(d, n, d[q].hash % n, e)

\* The item c on its way, at its e-th turn at p.
Carrying(d, n, c, p, e) ==
  /\ c \in H!Items /\ e \in 0 .. n - 1
  /\ p = Along(H!Hash(c.key) % n, e, n)
  /\ \A i \in 0 .. e - 1 : Passed(d, n, H!Hash(c.key) % n, i)
  /\ \A q \in 0 .. n - 1 : d[q].item # NoItem /\ d[q].item.key = c.key => Way(d[q], q, n) >= e

\* A remainder of what is less than twice the divisor.
LEMMA Remainder ==
  ASSUME NEW n \in Nat \ {0}, NEW a \in 0 .. 2 * n - 1
  PROVE  a % n = IF a < n THEN a ELSE a - n
BY SMT

LEMMA RemainderRange ==
  ASSUME NEW n \in Nat \ {0}, NEW a \in Nat
  PROVE  a % n \in 0 .. n - 1
BY SMT

LEMMA TimesAtLeast ==
  ASSUME NEW n \in Nat, NEW d \in Nat \ {0}
  PROVE  n * d >= n
<1>1. PICK c \in Nat : d = c + 1
  <2>1. d - 1 \in Nat /\ d = (d - 1) + 1
    OBVIOUS
  <2>. QED
    BY <2>1
<1>2. n * (c + 1) = n * c + n /\ n * c \in Nat
  BY SMT
<1>. QED
  BY <1>1, <1>2

LEMMA RemainderIs ==
  ASSUME NEW n \in Nat \ {0}, NEW k \in Nat, NEW r \in 0 .. n - 1, NEW a \in Nat, a = n * k + r
  PROVE  a % n = r
<1>1. PICK q \in Nat, t \in 0 .. n - 1 : a = n * q + t /\ a % n = t
  <2>1. a \div n \in Nat /\ a % n \in 0 .. n - 1 /\ a = n * (a \div n) + (a % n)
    BY SMT
  <2>. QED
    BY <2>1
<1>2. ASSUME k > q
      PROVE  FALSE
  <2>1. PICK d \in Nat \ {0} : k = q + d
    <3>1. k - q \in Nat \ {0} /\ k = q + (k - q)
      BY <1>2
    <3>. QED
      BY <3>1
  <2>2. n * (q + d) = n * q + n * d
    BY SMT
  <2>3. n * d >= n /\ n * d \in Nat /\ n * q \in Nat
    BY TimesAtLeast
  <2>. QED
    BY <1>1, <2>1, <2>2, <2>3
<1>3. ASSUME q > k
      PROVE  FALSE
  <2>1. PICK d \in Nat \ {0} : q = k + d
    <3>1. q - k \in Nat \ {0} /\ q = k + (q - k)
      BY <1>3
    <3>. QED
      BY <3>1
  <2>2. n * (k + d) = n * k + n * d
    BY SMT
  <2>3. n * d >= n /\ n * d \in Nat /\ n * k \in Nat
    BY TimesAtLeast
  <2>. QED
    BY <1>1, <2>1, <2>2, <2>3
<1>4. k = q
  BY <1>2, <1>3
<1>5. n * k \in Nat
  OBVIOUS
<1>. QED
  BY <1>1, <1>4, <1>5

\* Measured in a table of half the size.
LEMMA RemainderOfHalf ==
  ASSUME NEW n \in Nat \ {0}, NEW a \in Nat
  PROVE  a % n = IF a % (2 * n) < n THEN a % (2 * n) ELSE (a % (2 * n)) - n
<1>1. PICK m \in Nat : m = 2 * n
  OBVIOUS
<1>2. PICK q \in Nat, t \in 0 .. m - 1 : a = m * q + t /\ a % m = t
  <2>1. a \div m \in Nat /\ a % m \in 0 .. m - 1 /\ a = m * (a \div m) + (a % m)
    BY <1>1, SMT
  <2>. QED
    BY <2>1
<1>3. m * q = n * (2 * q)
  BY <1>1
<1>4. CASE t < n
  BY <1>1, <1>2, <1>3, <1>4, RemainderIs
<1>5. CASE t >= n
  <2>1. PICK r \in 0 .. n - 1, k \in Nat : r = t - n /\ k = 2 * q + 1
    <3>1. t - n \in 0 .. n - 1 /\ 2 * q + 1 \in Nat
      BY <1>1, <1>5
    <3>. QED
      BY <3>1
  <2>2. n * (2 * q + 1) = n * (2 * q) + n /\ n * (2 * q) \in Nat
    OBVIOUS
  <2>3. n * k \in Nat
    OBVIOUS
  <2>4. a = n * k + r
    BY <1>2, <1>3, <2>1, <2>2, <2>3
  <2>5. a % n = r
    BY <2>4, RemainderIs
  <2>. QED
    BY <1>1, <1>2, <1>5, <2>1, <2>5
<1>. QED
  BY <1>4, <1>5

LEMMA AlongIs ==
  ASSUME NEW n \in Nat \ {0}, NEW h \in 0 .. n - 1, NEW e \in 0 .. n - 1
  PROVE  /\ Along(h, e, n) \in 0 .. n - 1
         /\ Turns(h, Along(h, e, n), n) = e
         /\ (h + e) % n = Along(h, e, n)
<1> DEFINE sum == h + e
<1>1. sum \in 0 .. 2 * n - 1
  OBVIOUS
<1>2. sum % n = IF sum < n THEN sum ELSE sum - n
  <2>. HIDE DEF sum
  <2>. QED
    BY <1>1, Remainder
<1>. QED
  BY <1>2 DEF Along, Turns

LEMMA TurnsIs ==
  ASSUME NEW n \in Nat \ {0}, NEW h \in 0 .. n - 1, NEW p \in 0 .. n - 1
  PROVE  /\ Turns(h, p, n) \in 0 .. n - 1
         /\ Along(h, Turns(h, p, n), n) = p
         /\ (p + n - h) % n = Turns(h, p, n)
<1> DEFINE sum == p + n - h
<1>1. sum \in 0 .. 2 * n - 1
  OBVIOUS
<1>2. sum % n = IF sum < n THEN sum ELSE sum - n
  <2>. HIDE DEF sum
  <2>. QED
    BY <1>1, Remainder
<1>. QED
  BY <1>2 DEF Along, Turns

\* The next turn is at the next slot.
LEMMA AlongNext ==
  ASSUME NEW n \in Nat \ {0}, NEW h \in 0 .. n - 1, NEW e \in 0 .. n - 1, e + 1 < n
  PROVE  (Along(h, e, n) + 1) % n = Along(h, e + 1, n)
<1> DEFINE sum == Along(h, e, n) + 1
<1>1. sum \in 0 .. 2 * n - 1
  BY DEF Along
<1>2. sum % n = IF sum < n THEN sum ELSE sum - n
  <2>. HIDE DEF sum
  <2>. QED
    BY <1>1, Remainder
<1>. QED
  BY <1>2 DEF Along

\* probe_distance() in the table itself.
LEMMA DistanceIs ==
  ASSUME NEW n \in Nat \ {0}, NEW p \in 0 .. n - 1, NEW slot \in SlotSet
  PROVE  /\ slot.hash % n \in 0 .. n - 1
         /\ H!Distance(slot, p, n) = Way(slot, p, n)
         /\ Way(slot, p, n) \in 0 .. n - 1
         /\ Along(slot.hash % n, Way(slot, p, n), n) = p
<1>1. slot.hash \in Nat
  BY DEF SlotSet
<1>2. PICK h : h = slot.hash % n
  OBVIOUS
<1>3. h \in 0 .. n - 1
  BY <1>1, <1>2, RemainderRange
<1>4. Turns(h, p, n) \in 0 .. n - 1 /\ Along(h, Turns(h, p, n), n) = p /\ (p + n - h) % n = Turns(h, p, n)
  BY <1>3, TurnsIs
<1>. QED
  BY <1>2, <1>3, <1>4 DEF H!Distance, Way
-----------------------------------------------------------------------------
(* What each turn of insert_other() does to such a table.                   *)

InUseAt(d, p) == d[p].item # NoItem
HashOf(c) == H!Hash(c.key)

\* No slot has the key.
Lacks(d, n, c) == \A q \in 0 .. n - 1 : InUseAt(d, q) => d[q].item.key # c.key
Put(d, p, c) == [d EXCEPT ![p] = H!Holding(c)]

\* The item at p gives way: nothing is or was there, or it has come less far.
GivesWay(d, n, p, e) ==
  /\ d[p].hash # 0 => Way(d[p], p, n) < e
  /\ p \in 0 .. n - 1

LEMMA ItemFacts ==
  ASSUME NEW n \in Nat \ {0}, NEW c \in H!Items
  PROVE  /\ HashOf(c) \in Nat /\ HashOf(c) # 0 /\ HashOf(c) % n \in 0 .. n - 1
         /\ H!Holding(c) \in SlotSet /\ H!Holding(c).hash = HashOf(c) /\ H!Holding(c).item = c
         /\ c # NoItem
<1>1. c.key \in Nat /\ c # NoItem
  BY HashAssumption DEF H!Items
<1>2. HashOf(c) \in Nat /\ HashOf(c) # 0
  BY <1>1 DEF HashOf, H!Hash
<1>3. HashOf(c) % n \in 0 .. n - 1
  BY <1>2, RemainderRange
<1>. QED
  BY <1>1, <1>2, <1>3 DEF H!Holding, SlotSet, HashOf

\* The parts of the definitions, with the hash of an item by its name.
LEMMA TableParts ==
  ASSUME NEW d, NEW n, TableGood(d, n)
  PROVE  /\ n \in Nat /\ n <= MaxSize /\ d \in [0 .. n - 1 -> SlotSet]
         /\ \A p \in 0 .. n - 1 : d[p] \in SlotSet /\ d[p].hash \in Nat /\ d[p].item \in H!Items \cup {NoItem}
         /\ \A p \in 0 .. n - 1 : InUseAt(d, p) => d[p].item \in H!Items /\ d[p].hash = HashOf(d[p].item)
         /\ \A p, q \in 0 .. n - 1 : InUseAt(d, p) /\ InUseAt(d, q) /\ d[p].item.key = d[q].item.key => p = q
         /\ \A q \in 0 .. n - 1 : InUseAt(d, q) => \A e \in 0 .. Way(d[q], q, n) - 1 : Passed(d, n, d[q].hash % n, e)
<1>1. \A p \in 0 .. n - 1 : d[p] \in SlotSet
  BY DEF TableGood
<1>2. \A p \in 0 .. n - 1 : d[p].hash \in Nat /\ d[p].item \in H!Items \cup {NoItem}
  BY <1>1 DEF SlotSet
<1>. QED
  BY <1>1, <1>2 DEF TableGood, InUseAt, HashOf

\* An item is as far behind its slot as the turns that brought it there.
LEMMA CarryingParts ==
  ASSUME NEW d, NEW n \in Nat \ {0}, NEW c, NEW p, NEW e, Carrying(d, n, c, p, e)
  PROVE  /\ c \in H!Items /\ e \in 0 .. n - 1 /\ p \in 0 .. n - 1
         /\ p = Along(HashOf(c) % n, e, n)
         /\ Way(H!Holding(c), p, n) = e
         /\ \A i \in 0 .. e - 1 : Passed(d, n, HashOf(c) % n, i)
         /\ \A q \in 0 .. n - 1 : InUseAt(d, q) /\ d[q].item.key = c.key => Way(d[q], q, n) >= e
<1>1. c \in H!Items /\ e \in 0 .. n - 1 /\ p = Along(HashOf(c) % n, e, n)
  BY DEF Carrying, HashOf
<1>2. H!Holding(c).hash = HashOf(c) /\ HashOf(c) % n \in 0 .. n - 1
  BY <1>1, ItemFacts
<1>3. p \in 0 .. n - 1 /\ Way(H!Holding(c), p, n) = e
  BY <1>1, <1>2, AlongIs DEF Way
<1>. QED
  BY <1>1, <1>3 DEF Carrying, InUseAt, HashOf

LEMMA SameHash ==
  ASSUME NEW a, NEW b, a.key = b.key
  PROVE  HashOf(a) = HashOf(b)
BY DEF HashOf

\* Where the carried item is put its key is in no slot: it would be further on.
LEMMA NoneBehind ==
  ASSUME NEW d, NEW n \in Nat \ {0}, NEW c, NEW p, NEW e, TableGood(d, n), Carrying(d, n, c, p, e),
         GivesWay(d, n, p, e), ~ (InUseAt(d, p) /\ d[p].item.key = c.key)
  PROVE  Lacks(d, n, c)
<1> SUFFICES ASSUME NEW q \in 0 .. n - 1, InUseAt(d, q), d[q].item.key = c.key
             PROVE  FALSE
  BY DEF Lacks
<1>1. d[q].hash = HashOf(c) /\ d[q] \in SlotSet
  BY TableParts, SameHash
<1>2. Way(d[q], q, n) >= e /\ c \in H!Items /\ e \in 0 .. n - 1 /\ p = Along(HashOf(c) % n, e, n)
  BY CarryingParts
<1>3. Way(d[q], q, n) \in 0 .. n - 1 /\ Along(HashOf(c) % n, Way(d[q], q, n), n) = q
  BY <1>1, DistanceIs
<1>4. Way(d[q], q, n) # e
  BY <1>2, <1>3
<1>5. e \in 0 .. Way(d[q], q, n) - 1
  BY <1>2, <1>3, <1>4
<1>6. Passed(d, n, HashOf(c) % n, e)
  BY <1>1, <1>5, TableParts
<1>7. d[p].hash # 0 /\ Way(d[p], p, n) >= e
  BY <1>2, <1>6 DEF Passed
<1>8. Way(d[p], p, n) < e /\ p \in 0 .. n - 1
  BY <1>7 DEF GivesWay
<1>9. Way(d[p], p, n) \in 0 .. n - 1
  BY <1>8, TableParts, DistanceIs
<1>. QED
  BY <1>2, <1>7, <1>8, <1>9

\* What was passed is passed still when the carried item is put down.
LEMMA StillPassed ==
  ASSUME NEW d, NEW n \in Nat \ {0}, NEW c, NEW p, NEW e, TableGood(d, n), Carrying(d, n, c, p, e),
         GivesWay(d, n, p, e), NEW h, NEW i \in Nat, Passed(d, n, h, i)
  PROVE  Passed(Put(d, p, c), n, h, i)
<1>1. c \in H!Items /\ e \in 0 .. n - 1 /\ p \in 0 .. n - 1 /\ Way(H!Holding(c), p, n) = e
  BY CarryingParts
<1>2. H!Holding(c).hash # 0
  BY <1>1, ItemFacts
<1>3. d \in [0 .. n - 1 -> SlotSet] /\ d[p] \in SlotSet
  BY <1>1, TableParts
<1>4. Way(d[p], p, n) \in 0 .. n - 1
  BY <1>1, <1>3, DistanceIs
<1>5. CASE Along(h, i, n) = p
  <2>1. d[p].hash # 0 /\ Way(d[p], p, n) >= i
    BY <1>5 DEF Passed
  <2>2. Way(d[p], p, n) < e
    BY <2>1 DEF GivesWay
  <2>3. e >= i
    BY <1>1, <1>4, <2>1, <2>2
  <2>4. Put(d, p, c)[p] = H!Holding(c)
    BY <1>1, <1>3 DEF Put
  <2>. QED
    BY <1>1, <1>2, <1>5, <2>3, <2>4 DEF Passed
<1>6. CASE Along(h, i, n) # p
  <2>1. Put(d, p, c)[Along(h, i, n)] = d[Along(h, i, n)]
    BY <1>3, <1>6 DEF Put
  <2>. QED
    BY <2>1 DEF Passed
<1>. QED
  BY <1>5, <1>6

LEMMA FillGood ==
  ASSUME NEW d, NEW n \in Nat \ {0}, NEW c, NEW p, NEW e, TableGood(d, n), Carrying(d, n, c, p, e),
         GivesWay(d, n, p, e), Lacks(d, n, c)
  PROVE  TableGood(Put(d, p, c), n)
<1>1. c \in H!Items /\ e \in 0 .. n - 1 /\ p \in 0 .. n - 1 /\ Way(H!Holding(c), p, n) = e
  BY CarryingParts
<1>2. H!Holding(c) \in SlotSet /\ H!Holding(c).hash = HashOf(c) /\ H!Holding(c).item = c /\ c # NoItem
  BY <1>1, ItemFacts
<1>3. n <= MaxSize /\ d \in [0 .. n - 1 -> SlotSet]
  BY TableParts
<1>4. PICK f : f = Put(d, p, c)
  OBVIOUS
<1>5. f \in [0 .. n - 1 -> SlotSet] /\ f[p] = H!Holding(c) /\ \A q \in 0 .. n - 1 : q # p => f[q] = d[q]
  BY <1>1, <1>2, <1>3, <1>4 DEF Put
<1>6. ASSUME NEW q \in 0 .. n - 1, f[q].item # NoItem
      PROVE  f[q].hash = H!Hash(f[q].item.key)
  <2>1. CASE q = p
    BY <1>2, <1>5, <2>1 DEF HashOf
  <2>2. CASE q # p
    BY <1>5, <1>6, <2>2, TableParts DEF InUseAt, HashOf
  <2>. QED
    BY <2>1, <2>2
<1>7. ASSUME NEW a \in 0 .. n - 1, NEW b \in 0 .. n - 1, f[a].item # NoItem, f[b].item # NoItem, f[a].item.key = f[b].item.key
      PROVE  a = b
  <2>1. CASE a # p /\ b # p
    BY <1>5, <1>7, <2>1, TableParts DEF InUseAt
  <2>2. CASE a = p /\ b # p
    BY <1>2, <1>5, <1>7, <2>2 DEF Lacks, InUseAt
  <2>3. CASE a # p /\ b = p
    BY <1>2, <1>5, <1>7, <2>3 DEF Lacks, InUseAt
  <2>. QED
    BY <2>1, <2>2, <2>3
<1>8. ASSUME NEW q \in 0 .. n - 1, f[q].item # NoItem, NEW i \in 0 .. Way(f[q], q, n) - 1
      PROVE  Passed(f, n, f[q].hash % n, i)
  <2>1. Passed(d, n, f[q].hash % n, i)
    <3>1. CASE q = p
      BY <1>1, <1>2, <1>5, <1>8, <3>1, CarryingParts
    <3>2. CASE q # p
      BY <1>5, <1>8, <3>2, TableParts DEF InUseAt
    <3>. QED
      BY <3>1, <3>2
  <2>. QED
    BY <1>4, <2>1, StillPassed
<1>9. TableGood(f, n)
  BY <1>3, <1>5, <1>6, <1>7, <1>8 DEF TableGood
<1>. QED
  BY <1>4, <1>9

\* The item that gave way is carried on.
LEMMA NextCarrying ==
  ASSUME NEW d, NEW n \in Nat \ {0}, NEW c, NEW p, NEW e, TableGood(d, n), Carrying(d, n, c, p, e),
         GivesWay(d, n, p, e), Lacks(d, n, c), InUseAt(d, p), Way(d[p], p, n) + 1 < n
  PROVE  Carrying(Put(d, p, c), n, d[p].item, (p + 1) % n, Way(d[p], p, n) + 1)
<1>1. c \in H!Items /\ e \in 0 .. n - 1 /\ p \in 0 .. n - 1 /\ Way(H!Holding(c), p, n) = e
  BY CarryingParts
<1>2. H!Holding(c).hash # 0 /\ H!Holding(c).item = c
  BY <1>1, ItemFacts
<1>3. d \in [0 .. n - 1 -> SlotSet] /\ d[p] \in SlotSet /\ d[p].item \in H!Items /\ d[p].hash = HashOf(d[p].item)
  BY <1>1, TableParts
<1>4. PICK o, w, h, f : o = d[p].item /\ w = Way(d[p], p, n) /\ h = d[p].hash % n /\ f = Put(d, p, c)
  OBVIOUS
<1>5. w \in 0 .. n - 1 /\ h \in 0 .. n - 1 /\ Along(h, w, n) = p /\ w + 1 < n
  BY <1>1, <1>3, <1>4, DistanceIs
<1>6. f[p] = H!Holding(c) /\ \A q \in 0 .. n - 1 : q # p => f[q] = d[q]
  BY <1>1, <1>3, <1>4 DEF Put
<1>7. d[p].hash # 0
  BY <1>3, ItemFacts
<1>8. w < e
  BY <1>4, <1>7 DEF GivesWay
<1>9. (p + 1) % n = Along(h, w + 1, n) /\ w + 1 \in 0 .. n - 1
  BY <1>5, AlongNext
<1>10. ASSUME NEW i \in 0 .. (w + 1) - 1
       PROVE  Passed(f, n, h, i)
  <2>1. CASE i = w
    BY <1>1, <1>2, <1>5, <1>6, <1>8, <2>1 DEF Passed
  <2>2. CASE i # w
    <3>1. i \in 0 .. w - 1
      BY <1>5, <2>2
    <3>2. Passed(d, n, h, i)
      BY <1>1, <1>4, <3>1, TableParts
    <3>. QED
      BY <1>4, <3>1, <3>2, StillPassed
  <2>. QED
    BY <2>1, <2>2
<1>11. ASSUME NEW q \in 0 .. n - 1, f[q].item # NoItem, f[q].item.key = o.key
       PROVE  FALSE
  <2>1. CASE q = p
    BY <1>1, <1>2, <1>4, <1>6, <1>11, <2>1 DEF Lacks
  <2>2. CASE q # p
    BY <1>1, <1>4, <1>6, <1>11, <2>2, TableParts DEF InUseAt
  <2>. QED
    BY <2>1, <2>2
<1>12. Carrying(f, n, o, (p + 1) % n, w + 1)
  BY <1>3, <1>4, <1>9, <1>10, <1>11 DEF Carrying, HashOf
<1>. QED
  BY <1>4, <1>12

\* The carried item is carried past one that has come as far.
LEMMA PassCarrying ==
  ASSUME NEW d, NEW n \in Nat \ {0}, NEW c, NEW p, NEW e, TableGood(d, n), Carrying(d, n, c, p, e),
         d[p].hash # 0, Way(d[p], p, n) >= e, ~ (InUseAt(d, p) /\ d[p].item.key = c.key), e + 1 < n
  PROVE  Carrying(d, n, c, (p + 1) % n, e + 1)
<1>1. c \in H!Items /\ e \in 0 .. n - 1 /\ p \in 0 .. n - 1
  BY CarryingParts
<1>2. PICK h : h = HashOf(c) % n
  OBVIOUS
<1>3. h \in 0 .. n - 1 /\ p = Along(h, e, n)
  BY <1>1, <1>2, ItemFacts, CarryingParts
<1>4. (p + 1) % n = Along(h, e + 1, n) /\ e + 1 \in 0 .. n - 1
  BY <1>1, <1>3, AlongNext
<1>5. ASSUME NEW i \in 0 .. (e + 1) - 1
      PROVE  Passed(d, n, h, i)
  <2>1. CASE i = e
    BY <1>3, <2>1 DEF Passed
  <2>2. CASE i # e
    <3>1. i \in 0 .. e - 1
      BY <1>1, <2>2
    <3>. QED
      BY <1>2, <3>1, CarryingParts
  <2>. QED
    BY <2>1, <2>2
<1>6. ASSUME NEW q \in 0 .. n - 1, d[q].item # NoItem, d[q].item.key = c.key
      PROVE  Way(d[q], q, n) >= e + 1
  <2>1. Way(d[q], q, n) >= e
    BY <1>6, CarryingParts DEF InUseAt
  <2>2. d[q] \in SlotSet /\ d[q].hash = HashOf(c)
    BY <1>6, TableParts, SameHash DEF InUseAt
  <2>3. Way(d[q], q, n) \in 0 .. n - 1 /\ Along(h, Way(d[q], q, n), n) = q
    BY <1>2, <2>2, DistanceIs
  <2>4. Way(d[q], q, n) # e
    BY <1>3, <1>6, <2>3 DEF InUseAt
  <2>. QED
    BY <1>1, <2>1, <2>3, <2>4
<1>. QED
  BY <1>1, <1>2, <1>4, <1>5, <1>6 DEF Carrying, HashOf
-----------------------------------------------------------------------------
(* Where an item starts, what a removal leaves, and how far an item can be  *)
(* from its home in a table twice the size.                                 *)

LEMMA StartCarrying ==
  ASSUME NEW d, NEW n \in Nat \ {0}, NEW c \in H!Items, TableGood(d, n)
  PROVE  Carrying(d, n, c, HashOf(c) % n, 0)
<1>1. HashOf(c) % n \in 0 .. n - 1
  BY ItemFacts
<1>2. HashOf(c) % n = Along(HashOf(c) % n, 0, n)
  BY <1>1 DEF Along
<1>3. ASSUME NEW q \in 0 .. n - 1
      PROVE  Way(d[q], q, n) >= 0
  <2>1. d[q] \in SlotSet
    BY TableParts
  <2>2. Way(d[q], q, n) \in 0 .. n - 1
    BY <2>1, DistanceIs
  <2>. QED
    BY <2>2
<1>. QED
  BY <1>2, <1>3 DEF Carrying, HashOf

\* A slot with the same key in it, or a tombstone in its place.
KeepsHashes(d, f, n) ==
  \A q \in 0 .. n - 1 :
     f[q].hash = d[q].hash /\ (InUseAt(f, q) => InUseAt(d, q) /\ f[q].item.key = d[q].item.key)

LEMMA KeptGood ==
  ASSUME NEW d, NEW n, NEW f \in [0 .. n - 1 -> SlotSet], TableGood(d, n), KeepsHashes(d, f, n)
  PROVE  TableGood(f, n)
<1>1. \A q \in 0 .. n - 1 : Way(f[q], q, n) = Way(d[q], q, n)
  BY DEF KeepsHashes, Way
<1>2. n \in Nat /\ n <= MaxSize
  BY TableParts
<1>3. ASSUME NEW q \in 0 .. n - 1, f[q].item # NoItem, NEW i \in 0 .. Way(f[q], q, n) - 1
      PROVE  Passed(f, n, f[q].hash % n, i)
  <2>1. PICK h : h = f[q].hash % n
    OBVIOUS
  <2>2. f[q].hash = d[q].hash /\ InUseAt(d, q) /\ f[q] \in SlotSet
    BY <1>3 DEF KeepsHashes, InUseAt
  <2>3. Passed(d, n, h, i)
    BY <1>1, <1>3, <2>1, <2>2, TableParts
  <2>4. n \in Nat \ {0}
    BY <1>2
  <2>5. h \in 0 .. n - 1 /\ Way(f[q], q, n) \in 0 .. n - 1
    BY <2>1, <2>2, <2>4, DistanceIs
  <2>6. i \in 0 .. n - 1
    BY <1>2, <1>3, <2>5
  <2>7. Along(h, i, n) \in 0 .. n - 1
    BY <2>4, <2>5, <2>6, AlongIs
  <2>. QED
    BY <1>1, <2>1, <2>3, <2>7 DEF Passed, KeepsHashes
<1>4. ASSUME NEW q \in 0 .. n - 1, f[q].item # NoItem
      PROVE  f[q].hash = H!Hash(f[q].item.key)
  BY <1>4, TableParts DEF KeepsHashes, InUseAt, HashOf
<1>5. ASSUME NEW a \in 0 .. n - 1, NEW b \in 0 .. n - 1, f[a].item # NoItem, f[b].item # NoItem, f[a].item.key = f[b].item.key
      PROVE  a = b
  BY <1>5, TableParts DEF KeepsHashes, InUseAt
<1>. QED
  BY <1>2, <1>3, <1>4, <1>5 DEF TableGood

LEMMA BareGood ==
  ASSUME NEW n \in Nat, n <= MaxSize, NEW f \in [0 .. n - 1 -> SlotSet], \A q \in 0 .. n - 1 : ~ InUseAt(f, q)
  PROVE  TableGood(f, n)
BY DEF TableGood, InUseAt

LEMMA CardinalityUpTo ==
  ASSUME NEW n \in Nat
  PROVE  IsFiniteSet(0 .. n - 1) /\ Cardinality(0 .. n - 1) = n
<1>1. n - 1 \in Int /\ (IF 0 > n - 1 THEN 0 ELSE n - 1 - 0 + 1) = n
  OBVIOUS
<1>. QED
  BY <1>1, FS_Interval

LEMMA SizeIs ==
  ASSUME NEW n \in Nat, NEW d, DOMAIN d = 0 .. n - 1
  PROVE  H!Size(d) = n
<1>1. H!Cardinality(DOMAIN d) = Cardinality(DOMAIN d)
  BY DEF Cardinality, H!Cardinality
<1>. QED
  BY <1>1, CardinalityUpTo DEF H!Size

\* One slot after the other is in use: there are no more of them than slots in
\* the table that all their items come from.
ComesFrom(f, m, d, n) == \A q \in 0 .. m - 1 : InUseAt(f, q) => \E p \in 0 .. n - 1 : d[p].item = f[q].item

LEMMA ChainFits ==
  ASSUME NEW f, NEW m \in Nat \ {0}, NEW d, NEW n \in Nat, TableGood(f, m), ComesFrom(f, m, d, n),
         NEW h \in 0 .. m - 1, NEW w \in 0 .. m - 1, \A e \in 0 .. w : InUseAt(f, Along(h, e, m))
  PROVE  w < n
<1>1. \A e \in 0 .. w : e \in 0 .. m - 1 /\ Along(h, e, m) \in 0 .. m - 1 /\ Turns(h, Along(h, e, m), m) = e
  BY AlongIs
<1>2. \A e \in 0 .. w : \E p \in 0 .. n - 1 : d[p].item = f[Along(h, e, m)].item
  BY <1>1 DEF ComesFrom
<1> DEFINE g == [e \in 0 .. w |-> CHOOSE p \in 0 .. n - 1 : d[p].item = f[Along(h, e, m)].item]
<1>3. \A e \in 0 .. w : g[e] \in 0 .. n - 1 /\ d[g[e]].item = f[Along(h, e, m)].item
  BY <1>2
<1>4. g \in [0 .. w -> 0 .. n - 1]
  BY <1>3
<1>. HIDE DEF g
<1>5. ASSUME NEW a \in 0 .. w, NEW b \in 0 .. w, g[a] = g[b]
      PROVE  a = b
  <2>1. f[Along(h, a, m)].item.key = f[Along(h, b, m)].item.key
    BY <1>3, <1>5
  <2>2. Along(h, a, m) = Along(h, b, m)
    BY <1>1, <2>1, TableParts
  <2>. QED
    BY <1>1, <2>2
<1>6. g \in Injection(0 .. w, 0 .. n - 1)
  BY <1>4, <1>5 DEF Injection, IsInjective
<1>7. IsFiniteSet(0 .. n - 1) /\ Cardinality(0 .. n - 1) = n
  BY CardinalityUpTo
<1>9. Cardinality(0 .. w) = w + 1
  <2>1. PICK k \in Nat : k = w + 1 /\ k - 1 = w
    OBVIOUS
  <2>2. Cardinality(0 .. k - 1) = k
    BY CardinalityUpTo
  <2>. QED
    BY <2>1, <2>2
<1>8. Cardinality(0 .. w) <= Cardinality(0 .. n - 1)
  BY <1>6, <1>7, FS_Injection
<1>. QED
  BY <1>7, <1>8, <1>9

\* No item of such a table is further from its home than half the size.
LEMMA WayFits ==
  ASSUME NEW f, NEW m \in Nat \ {0}, NEW d, NEW n \in Nat, TableGood(f, m), ComesFrom(f, m, d, n),
         \A q \in 0 .. m - 1 : ~ InUseAt(f, q) => f[q].hash = 0,
         NEW p \in 0 .. m - 1, InUseAt(f, p)
  PROVE  Way(f[p], p, m) < n
<1>1. PICK h, w : h = f[p].hash % m /\ w = Way(f[p], p, m)
  OBVIOUS
<1>2. h \in 0 .. m - 1 /\ w \in 0 .. m - 1 /\ Along(h, w, m) = p
  BY <1>1, TableParts, DistanceIs
<1>3. ASSUME NEW e \in 0 .. w
      PROVE  InUseAt(f, Along(h, e, m))
  <2>1. CASE e = w
    BY <1>2, <2>1
  <2>2. CASE e # w
    <3>1. e \in 0 .. w - 1 /\ e \in 0 .. m - 1
      BY <1>2, <2>2
    <3>2. f[Along(h, e, m)].hash # 0
      BY <1>1, <3>1, TableParts DEF Passed
    <3>3. Along(h, e, m) \in 0 .. m - 1
      BY <1>2, <3>1, AlongIs
    <3>. QED
      BY <3>2, <3>3
  <2>. QED
    BY <2>1, <2>2
<1>. QED
  BY <1>1, <1>2, <1>3, ChainFits

\* Measured with half the size it comes to the same.
LEMMA HalfDistance ==
  ASSUME NEW n \in Nat \ {0}, NEW m, m = n * 2, NEW p \in 0 .. m - 1, NEW slot \in SlotSet, Way(slot, p, m) < n
  PROVE  H!Distance(slot, p, n) = Way(slot, p, m)
<1>0. m \in Nat \ {0} /\ m = 2 * n
  OBVIOUS
<1>1. PICK t, w : t = slot.hash % m /\ w = Way(slot, p, m)
  OBVIOUS
<1>2. t \in 0 .. m - 1 /\ w \in 0 .. n - 1 /\ p = Along(t, w, m)
  BY <1>0, <1>1, DistanceIs
<1>3. PICK u : u = slot.hash % n
  OBVIOUS
<1>4. u = IF t < n THEN t ELSE t - n
  BY <1>0, <1>1, <1>3, RemainderOfHalf DEF SlotSet
<1>5. PICK k \in Nat : p + n - u = n * k + w
  <2>1. CASE t < n
    <3>1. p + n - u = n * 1 + w
      BY <1>0, <1>2, <1>4, <2>1 DEF Along
    <3>. QED
      BY <3>1
  <2>2. CASE t >= n /\ t + w < m
    <3>1. p + n - u = n * 2 + w
      BY <1>0, <1>2, <1>4, <2>2 DEF Along
    <3>. QED
      BY <3>1
  <2>3. CASE t >= n /\ t + w >= m
    <3>1. p + n - u = n * 0 + w
      BY <1>0, <1>2, <1>4, <2>3 DEF Along
    <3>. QED
      BY <3>1
  <2>. QED
    BY <1>2, <2>1, <2>2, <2>3
<1>6. n * k \in Nat
  OBVIOUS
<1>7. PICK a \in Nat : a = p + n - u
  <2>1. n * k + w \in Nat
    BY <1>2, <1>6
  <2>. QED
    BY <1>5, <2>1
<1>8. a = n * k + w
  BY <1>5, <1>7
<1>9. a % n = w
  <2>1. w \in 0 .. n - 1
    BY <1>2
  <2>. QED
    BY <1>8, <2>1, RemainderIs
<1>. QED
  BY <1>1, <1>3, <1>7, <1>9 DEF H!Distance

UsedIn(d, n) == {q \in 0 .. n - 1 : InUseAt(d, q)}

LEMMA UsedFinite ==
  ASSUME NEW d, NEW n \in Nat
  PROVE  IsFiniteSet(UsedIn(d, n)) /\ Cardinality(UsedIn(d, n)) \in Nat
<1>1. IsFiniteSet(0 .. n - 1)
  BY FS_Interval
<1>2. UsedIn(d, n) \subseteq 0 .. n - 1
  BY DEF UsedIn
<1>. QED
  BY <1>1, <1>2, FS_Subset, FS_CardinalityType

\* A table has no more items than one that has them all.
LEMMA NoMoreUsed ==
  ASSUME NEW f, NEW m \in Nat, NEW d, NEW n \in Nat, TableGood(f, m), ComesFrom(f, m, d, n)
  PROVE  Cardinality(UsedIn(f, m)) <= Cardinality(UsedIn(d, n))
<1>1. \A q \in UsedIn(f, m) : q \in 0 .. m - 1 /\ InUseAt(f, q)
  BY DEF UsedIn
<1>2. \A q \in UsedIn(f, m) : \E p \in UsedIn(d, n) : d[p].item = f[q].item
  BY <1>1 DEF ComesFrom, UsedIn, InUseAt
<1> DEFINE g == [q \in UsedIn(f, m) |-> CHOOSE p \in UsedIn(d, n) : d[p].item = f[q].item]
<1>3. \A q \in UsedIn(f, m) : g[q] \in UsedIn(d, n) /\ d[g[q]].item = f[q].item
  BY <1>2
<1>4. g \in [UsedIn(f, m) -> UsedIn(d, n)]
  BY <1>3
<1>. HIDE DEF g
<1>5. ASSUME NEW a \in UsedIn(f, m), NEW b \in UsedIn(f, m), g[a] = g[b]
      PROVE  a = b
  <2>1. f[a].item.key = f[b].item.key
    BY <1>3, <1>5
  <2>. QED
    BY <1>1, <2>1, TableParts
<1>6. g \in Injection(UsedIn(f, m), UsedIn(d, n))
  BY <1>4, <1>5 DEF Injection, IsInjective
<1>. QED
  BY <1>6, UsedFinite, FS_Injection
-----------------------------------------------------------------------------
(* grow(): the new table has what the loop has moved, but the item that is  *)
(* carried.                                                                 *)

Has(d, n, a) == \E p \in 0 .. n - 1 : d[p].item = a

Growing(d, n, f, m, i, c, p, e) ==
  /\ TableGood(f, m)
  /\ \A q \in 0 .. m - 1 : ~ InUseAt(f, q) => f[q].hash = 0
  /\ m = IF n = 0 THEN FirstSize ELSE n * 2
  /\ i \in 0 .. n
  /\ c # NoItem => Carrying(f, m, c, p, e) /\ Lacks(f, m, c)
  /\ \A a \in H!Items : (a = c \/ Has(f, m, a)) <=> Has(d, i, a)

LEMMA NewSizeIs ==
  ASSUME NEW n \in Nat, NEW m, m = IF n = 0 THEN FirstSize ELSE n * 2
  PROVE  m \in Nat \ {0}
BY HashAssumption

\* What the new table has once an item is put down.
LEMMA PutHas ==
  ASSUME NEW f, NEW m \in Nat \ {0}, NEW c \in H!Items, NEW p \in 0 .. m - 1, TableGood(f, m), NEW a \in H!Items,
         NEW o, o = f[p].item
  PROVE  (a = o \/ Has(Put(f, p, c), m, a)) <=> (a = c \/ Has(f, m, a))
<1>1. f \in [0 .. m - 1 -> SlotSet] /\ H!Holding(c).item = c
  BY TableParts, ItemFacts
<1>2. PICK g : g = Put(f, p, c)
  OBVIOUS
<1>3. g[p].item = c /\ \A q \in 0 .. m - 1 : q # p => g[q] = f[q]
  BY <1>1, <1>2 DEF Put
<1>4. (a = o \/ Has(g, m, a)) => (a = c \/ Has(f, m, a))
  BY <1>3 DEF Has
<1>5. (a = c \/ Has(f, m, a)) => (a = o \/ Has(g, m, a))
  BY <1>3 DEF Has
<1>. QED
  BY <1>2, <1>4, <1>5

LEMMA PutUsed ==
  ASSUME NEW f, NEW m \in Nat \ {0}, NEW c \in H!Items, NEW p \in 0 .. m - 1, TableGood(f, m)
  PROVE  /\ \A q \in 0 .. m - 1 : InUseAt(Put(f, p, c), q) <=> q = p \/ InUseAt(f, q)
         /\ \A q \in 0 .. m - 1 : q # p => Put(f, p, c)[q] = f[q]
         /\ Put(f, p, c)[p].item = c
         /\ DOMAIN Put(f, p, c) = 0 .. m - 1
<1>1. f \in [0 .. m - 1 -> SlotSet] /\ H!Holding(c).item = c /\ c # NoItem
  BY TableParts, ItemFacts
<1>2. PICK g : g = Put(f, p, c)
  OBVIOUS
<1>3. g[p].item = c /\ DOMAIN g = 0 .. m - 1 /\ \A q \in 0 .. m - 1 : q # p => g[q] = f[q]
  BY <1>1, <1>2 DEF Put
<1>. QED
  BY <1>1, <1>2, <1>3 DEF InUseAt

LEMMA GrowPlaces ==
  ASSUME NEW d, NEW n \in Nat, NEW f, NEW m, NEW i, NEW c, NEW p, NEW e, Growing(d, n, f, m, i, c, p, e),
         c # NoItem, f[p].hash = 0
  PROVE  Growing(d, n, Put(f, p, c), m, i, NoItem, 0, 0)
<1>1. m \in Nat \ {0} /\ TableGood(f, m) /\ Carrying(f, m, c, p, e) /\ Lacks(f, m, c)
  BY NewSizeIs DEF Growing
<1>2. c \in H!Items /\ p \in 0 .. m - 1
  BY <1>1, CarryingParts
<1>3. GivesWay(f, m, p, e)
  BY <1>2 DEF GivesWay
<1>4. TableGood(Put(f, p, c), m)
  BY <1>1, <1>3, FillGood
<1>5. ~ InUseAt(f, p)
  <2>1. InUseAt(f, p) => f[p].item \in H!Items /\ f[p].hash = HashOf(f[p].item)
    BY <1>1, <1>2, TableParts
  <2>. QED
    BY <1>1, <2>1, ItemFacts
<1>6. f[p].item = NoItem
  BY <1>5 DEF InUseAt
<1>7. \A a \in H!Items : (a = NoItem \/ Has(Put(f, p, c), m, a)) <=> (a = c \/ Has(f, m, a))
  BY <1>1, <1>2, <1>6, PutHas
<1>8. \A q \in 0 .. m - 1 : ~ InUseAt(Put(f, p, c), q) => Put(f, p, c)[q].hash = 0
  BY <1>1, <1>2, PutUsed DEF Growing
<1>. QED
  BY <1>4, <1>7, <1>8 DEF Growing

LEMMA GrowSwaps ==
  ASSUME NEW d, NEW n \in Nat, NEW f, NEW m, NEW i, NEW c, NEW p, NEW e, Growing(d, n, f, m, i, c, p, e),
         c # NoItem, InUseAt(f, p), Way(f[p], p, m) < e, Way(f[p], p, m) + 1 < m
  PROVE  Growing(d, n, Put(f, p, c), m, i, f[p].item, (p + 1) % m, Way(f[p], p, m) + 1)
<1>1. m \in Nat \ {0} /\ TableGood(f, m) /\ Carrying(f, m, c, p, e) /\ Lacks(f, m, c)
  BY NewSizeIs DEF Growing
<1>2. c \in H!Items /\ p \in 0 .. m - 1
  BY <1>1, CarryingParts
<1>3. GivesWay(f, m, p, e)
  BY <1>2 DEF GivesWay
<1>4. TableGood(Put(f, p, c), m)
  BY <1>1, <1>3, FillGood
<1>5. Carrying(Put(f, p, c), m, f[p].item, (p + 1) % m, Way(f[p], p, m) + 1)
  BY <1>1, <1>3, NextCarrying
<1>6. Lacks(Put(f, p, c), m, f[p].item)
  BY <1>1, <1>2, PutUsed, TableParts DEF Lacks
<1>7. \A a \in H!Items : (a = f[p].item \/ Has(Put(f, p, c), m, a)) <=> (a = c \/ Has(f, m, a))
  BY <1>1, <1>2, PutHas
<1>8. \A q \in 0 .. m - 1 : ~ InUseAt(Put(f, p, c), q) => Put(f, p, c)[q].hash = 0
  BY <1>1, <1>2, PutUsed DEF Growing
<1>. QED
  BY <1>4, <1>5, <1>6, <1>7, <1>8 DEF Growing

LEMMA GrowPasses ==
  ASSUME NEW d, NEW n \in Nat, NEW f, NEW m, NEW i, NEW c, NEW p, NEW e, Growing(d, n, f, m, i, c, p, e),
         c # NoItem, f[p].hash # 0, Way(f[p], p, m) >= e, e + 1 < m
  PROVE  Growing(d, n, f, m, i, c, (p + 1) % m, e + 1)
<1>1. m \in Nat \ {0} /\ TableGood(f, m) /\ Carrying(f, m, c, p, e) /\ Lacks(f, m, c)
  BY NewSizeIs DEF Growing
<1>2. p \in 0 .. m - 1
  BY <1>1, CarryingParts
<1>3. Carrying(f, m, c, (p + 1) % m, e + 1)
  BY <1>1, <1>2, PassCarrying DEF Lacks
<1>. QED
  BY <1>3 DEF Growing

LEMMA GrowMoves ==
  ASSUME NEW d, NEW n \in Nat, NEW f, NEW m, NEW i, NEW p, NEW e, Growing(d, n, f, m, i, NoItem, p, e),
         TableGood(d, n), i < n
  PROVE  /\ InUseAt(d, i) => Growing(d, n, f, m, i + 1, d[i].item, HashOf(d[i].item) % m, 0)
         /\ ~ InUseAt(d, i) => Growing(d, n, f, m, i + 1, NoItem, p, e)
<1>1. m \in Nat \ {0} /\ TableGood(f, m) /\ i \in 0 .. n - 1 /\ i + 1 \in 0 .. n
  BY NewSizeIs DEF Growing
<1>2. \A a : Has(d, i + 1, a) <=> Has(d, i, a) \/ a = d[i].item
  <2>1. \A q \in 0 .. (i + 1) - 1 : q = i \/ q \in 0 .. i - 1
    BY <1>1
  <2>2. i \in 0 .. (i + 1) - 1 /\ \A q \in 0 .. i - 1 : q \in 0 .. (i + 1) - 1
    BY <1>1
  <2>. QED
    BY <2>1, <2>2 DEF Has
<1>3. ASSUME InUseAt(d, i)
      PROVE  Growing(d, n, f, m, i + 1, d[i].item, HashOf(d[i].item) % m, 0)
  <2>1. PICK o \in H!Items : o = d[i].item
    BY <1>1, <1>3, TableParts
  <2>2. o # NoItem
    BY <1>1, <2>1, ItemFacts
  <2>3. Carrying(f, m, o, HashOf(o) % m, 0)
    BY <1>1, StartCarrying
  <2>4. ASSUME NEW q \in 0 .. m - 1, InUseAt(f, q), f[q].item.key = o.key
        PROVE  FALSE
    <3>1. f[q].item \in H!Items
      BY <1>1, <2>4, TableParts
    <3>2. Has(f, m, f[q].item)
      BY DEF Has
    <3>3. Has(d, i, f[q].item)
      BY <3>1, <3>2 DEF Growing
    <3>4. PICK k \in 0 .. i - 1 : d[k].item = f[q].item
      BY <3>3 DEF Has
    <3>5. k \in 0 .. n - 1 /\ k # i
      BY <1>1
    <3>6. InUseAt(d, k) /\ d[k].item.key = d[i].item.key
      BY <2>1, <2>4, <3>4 DEF InUseAt
    <3>. QED
      BY <1>1, <1>3, <3>5, <3>6, TableParts
  <2>5. Lacks(f, m, o)
    BY <2>4 DEF Lacks
  <2>6. \A a \in H!Items : (a = o \/ Has(f, m, a)) <=> Has(d, i + 1, a)
    <3>1. \A a \in H!Items : a # NoItem
      BY <1>1, ItemFacts
    <3>2. \A a \in H!Items : Has(f, m, a) <=> Has(d, i, a)
      BY <3>1 DEF Growing
    <3>. QED
      BY <1>2, <2>1, <3>2
  <2>7. Growing(d, n, f, m, i + 1, o, HashOf(o) % m, 0)
    BY <1>1, <2>3, <2>5, <2>6 DEF Growing
  <2>. QED
    BY <2>1, <2>7
<1>4. ASSUME ~ InUseAt(d, i)
      PROVE  Growing(d, n, f, m, i + 1, NoItem, p, e)
  <2>1. d[i].item = NoItem
    BY <1>4 DEF InUseAt
  <2>2. \A a \in H!Items : (a = NoItem \/ Has(f, m, a)) <=> Has(d, i + 1, a)
    <3>1. \A a \in H!Items : a # NoItem
      BY <1>1, ItemFacts
    <3>. QED
      BY <1>2, <2>1, <3>1 DEF Growing
  <2>. QED
    BY <1>1, <2>2 DEF Growing
<1>. QED
  BY <1>3, <1>4

LEMMA EmptySlots ==
  ASSUME NEW m \in Nat, NEW f, f = [p \in 0 .. m - 1 |-> H!Empty]
  PROVE  /\ f \in [0 .. m - 1 -> SlotSet]
         /\ \A q \in 0 .. m - 1 : ~ InUseAt(f, q) /\ f[q].hash = 0
<1>1. H!Empty \in SlotSet /\ H!Empty.item = NoItem /\ H!Empty.hash = 0
  BY DEF H!Empty, SlotSet
<1>. QED
  BY <1>1 DEF InUseAt

LEMMA GrowStarts ==
  ASSUME NEW d, NEW n \in Nat, NEW m, m = (IF n = 0 THEN FirstSize ELSE n * 2), m <= MaxSize,
         NEW f, f = [p \in 0 .. m - 1 |-> H!Empty], NEW p, NEW e
  PROVE  Growing(d, n, f, m, 0, NoItem, p, e)
<1>1. m \in Nat \ {0}
  BY NewSizeIs
<1>2. f \in [0 .. m - 1 -> SlotSet] /\ \A q \in 0 .. m - 1 : ~ InUseAt(f, q) /\ f[q].hash = 0
  BY <1>1, EmptySlots
<1>3. TableGood(f, m)
  BY <1>1, <1>2, BareGood
<1>4. ASSUME NEW a \in H!Items
      PROVE  (a = NoItem \/ Has(f, m, a)) <=> Has(d, 0, a)
  <2>1. a # NoItem
    BY <1>1, ItemFacts
  <2>2. ~ Has(f, m, a)
    BY <1>2, <2>1 DEF Has, InUseAt
  <2>3. ~ Has(d, 0, a)
    BY DEF Has
  <2>. QED
    BY <2>1, <2>2, <2>3
<1>5. 0 \in 0 .. n
  OBVIOUS
<1>6. \A q \in 0 .. m - 1 : ~ InUseAt(f, q) => f[q].hash = 0
  BY <1>2
<1>. QED
  BY <1>3, <1>4, <1>5, <1>6, Zenon DEF Growing

\* All that the old table has the new one has in the end, and no more.
LEMMA GrowEnds ==
  ASSUME NEW d, NEW n \in Nat, NEW f, NEW m, NEW p, NEW e, Growing(d, n, f, m, n, NoItem, p, e), TableGood(d, n)
  PROVE  /\ m \in Nat \ {0} /\ TableGood(f, m)
         /\ ComesFrom(f, m, d, n) /\ ComesFrom(d, n, f, m)
         /\ Cardinality(UsedIn(f, m)) = Cardinality(UsedIn(d, n))
<1>1. m \in Nat \ {0} /\ TableGood(f, m)
  BY NewSizeIs DEF Growing
<1>2. \A a \in H!Items : Has(f, m, a) <=> Has(d, n, a)
  <2>1. \A a \in H!Items : a # NoItem
    BY <1>1, ItemFacts
  <2>. QED
    BY <2>1 DEF Growing
<1>3. ComesFrom(f, m, d, n)
  BY <1>1, <1>2, TableParts DEF ComesFrom, Has
<1>4. ComesFrom(d, n, f, m)
  BY <1>2, TableParts DEF ComesFrom, Has
<1>5. Cardinality(UsedIn(f, m)) <= Cardinality(UsedIn(d, n))
  BY <1>1, <1>3, NoMoreUsed
<1>6. Cardinality(UsedIn(d, n)) <= Cardinality(UsedIn(f, m))
  BY <1>1, <1>4, NoMoreUsed
<1>7. Cardinality(UsedIn(d, n)) \in Nat /\ Cardinality(UsedIn(f, m)) \in Nat
  BY <1>1, UsedFinite
<1>. QED
  BY <1>1, <1>3, <1>4, <1>5, <1>6, <1>7

\* While the loop runs no item is further from home than the old table is long.
LEMMA GrowWay ==
  ASSUME NEW d, NEW n \in Nat, NEW f, NEW m, NEW i, NEW c, NEW p, NEW e, Growing(d, n, f, m, i, c, p, e),
         NEW q \in 0 .. m - 1, f[q].hash # 0
  PROVE  InUseAt(f, q) /\ n # 0 /\ m = n * 2 /\ Way(f[q], q, m) < n
<1>1. m \in Nat \ {0} /\ TableGood(f, m)
  BY NewSizeIs DEF Growing
<1>2. InUseAt(f, q)
  BY DEF Growing
<1>3. ASSUME NEW k \in 0 .. m - 1, InUseAt(f, k)
      PROVE  \E b \in 0 .. n - 1 : d[b].item = f[k].item
  <2>1. f[k].item \in H!Items
    BY <1>1, <1>3, TableParts
  <2>2. Has(f, m, f[k].item)
    BY DEF Has
  <2>3. Has(d, i, f[k].item) /\ i \in 0 .. n
    BY <2>1, <2>2 DEF Growing
  <2>. QED
    BY <2>3 DEF Has
<1>4. ComesFrom(f, m, d, n)
  BY <1>3 DEF ComesFrom
<1>5. Way(f[q], q, m) < n
  BY <1>1, <1>2, <1>4, WayFits DEF Growing
<1>6. f[q] \in SlotSet
  BY <1>1, TableParts
<1>7. Way(f[q], q, m) \in 0 .. m - 1
  BY <1>1, <1>6, DistanceIs
<1>. QED
  BY <1>2, <1>5, <1>7 DEF Growing
-----------------------------------------------------------------------------
(* The inductive invariant of HashTable.                                    *)

\* m_data and m_count as they are between the turns of insert_other().
InTable(d, n, c) == TableGood(d, n) /\ c = Cardinality(UsedIn(d, n))

\* Nothing is said once an item has been carried past every slot.
HashOK ==
  /\ carried \in H!Items \cup {NoItem} /\ pending \in H!Items \cup {NoItem}
  /\ lapped \in BOOLEAN
  /\ lapped => carried # NoItem
  /\ ~lapped =>
       /\ InTable(data, H!Size(data), count)
       /\ pending = NoItem =>
            /\ fresh = H!NoTable /\ from = 0
            /\ carried # NoItem => Carrying(data, H!Size(data), carried, pos, dist)
       /\ pending # NoItem => Growing(data, H!Size(data), fresh, H!Size(fresh), from, carried, pos, dist)

LEMMA DataIs ==
  ASSUME HashOK, ~lapped
  PROVE  /\ H!Size(data) \in Nat /\ DOMAIN data = 0 .. H!Size(data) - 1
         /\ TableGood(data, H!Size(data)) /\ H!Used = UsedIn(data, H!Size(data))
         /\ count = Cardinality(UsedIn(data, H!Size(data)))
<1>1. TableGood(data, H!Size(data)) /\ count = Cardinality(UsedIn(data, H!Size(data)))
  BY DEF HashOK, InTable
<1>2. PICK n : n = H!Size(data)
  OBVIOUS
<1>3. n \in Nat /\ data \in [0 .. n - 1 -> SlotSet]
  BY <1>1, <1>2, TableParts
<1>4. DOMAIN data = 0 .. n - 1
  BY <1>3
<1>5. H!Used = UsedIn(data, n)
  BY <1>4 DEF H!Used, UsedIn, InUseAt, H!InUse
<1>. QED
  BY <1>1, <1>2, <1>3, <1>4, <1>5

\* The table that insert_other() works on, and what is measured there.
LEMMA TargetIs ==
  ASSUME HashOK, ~lapped, carried # NoItem, NEW t, t = H!Target, NEW s, s = H!Size(t)
  PROVE  /\ s \in Nat \ {0} /\ TableGood(t, s) /\ Carrying(t, s, carried, pos, dist)
         /\ pos \in 0 .. s - 1 /\ carried \in H!Items
         /\ H!InUse(H!Here) = InUseAt(t, pos) /\ H!Here = t[pos]
         /\ t[pos].hash # 0 => H!HereDistance = Way(t[pos], pos, s)
         /\ InUseAt(t, pos) => t[pos].hash # 0
<1>1. carried \in H!Items
  BY DEF HashOK
<1>2. H!Here = t[pos] /\ H!InUse(H!Here) = InUseAt(t, pos)
  BY DEF H!Here, H!InUse, InUseAt
<1>3. PICK n : n = H!Size(data)
  OBVIOUS
<1>4. n \in Nat /\ TableGood(data, n)
  BY <1>3, DataIs
<1>5. s \in Nat /\ TableGood(t, s) /\ Carrying(t, s, carried, pos, dist)
  <2>1. CASE pending = NoItem
    <3>1. t = data /\ s = n
      BY <1>3, <2>1 DEF H!Target
    <3>. QED
      BY <1>3, <1>4, <2>1, <3>1 DEF HashOK
  <2>2. CASE pending # NoItem
    <3>1. t = fresh
      BY <2>2 DEF H!Target
    <3>2. Growing(data, n, fresh, s, from, carried, pos, dist)
      BY <1>3, <2>2, <3>1 DEF HashOK
    <3>. QED
      BY <3>1, <3>2, NewSizeIs, <1>4 DEF Growing
  <2>. QED
    BY <2>1, <2>2
<1>6. s # 0
  <2>1. dist \in 0 .. s - 1
    BY <1>5 DEF Carrying
  <2>. QED
    BY <1>5, <2>1
<1>7. pos \in 0 .. s - 1
  BY <1>5, <1>6, CarryingParts
<1>8. t[pos] \in SlotSet
  BY <1>5, <1>7, TableParts
<1>9. ASSUME t[pos].hash # 0
      PROVE  H!HereDistance = Way(t[pos], pos, s)
  <2>1. CASE pending = NoItem
    <3>1. t = data /\ s = n
      BY <1>3, <2>1 DEF H!Target
    <3>2. H!Distance(t[pos], pos, s) = Way(t[pos], pos, s)
      BY <1>5, <1>6, <1>7, <1>8, DistanceIs
    <3>. QED
      BY <1>2, <1>3, <3>1, <3>2 DEF H!HereDistance
  <2>2. CASE pending # NoItem
    <3>1. t = fresh
      BY <2>2 DEF H!Target
    <3>2. Growing(data, n, t, s, from, carried, pos, dist)
      BY <1>3, <2>2, <3>1 DEF HashOK
    <3>3. InUseAt(t, pos) /\ n # 0 /\ s = n * 2 /\ Way(t[pos], pos, s) < n
      <4>1. \A q \in 0 .. s - 1 : t[q].hash # 0 => InUseAt(t, q) /\ n # 0 /\ s = n * 2 /\ Way(t[q], q, s) < n
        BY <1>4, <3>2, GrowWay
      <4>. QED
        BY <1>7, <1>9, <4>1
    <3>4. n \in Nat \ {0}
      BY <1>4, <3>3
    <3>5. H!Distance(t[pos], pos, n) = Way(t[pos], pos, s)
      BY <1>7, <1>8, <3>3, <3>4, HalfDistance
    <3>. QED
      BY <1>2, <1>3, <3>5 DEF H!HereDistance
  <2>. QED
    BY <2>1, <2>2
<1>10. ASSUME InUseAt(t, pos)
       PROVE  t[pos].hash # 0
  BY <1>5, <1>6, <1>7, <1>10, TableParts, ItemFacts
<1>. QED
  BY <1>1, <1>2, <1>5, <1>6, <1>7, <1>9, <1>10

LEMMA HashStarts ==
  ASSUME H!Init
  PROVE  HashOK
<1>1. data = H!NoTable /\ count = 0 /\ fresh = H!NoTable /\ from = 0 /\ pending = NoItem /\ carried = NoItem /\ lapped = FALSE
  BY DEF H!Init
<1>2. DOMAIN data = 0 .. 0 - 1
  BY <1>1 DEF H!NoTable
<1>3. H!Size(data) = 0
  BY <1>2, SizeIs
<1>4. data \in [0 .. 0 - 1 -> SlotSet] /\ \A q \in 0 .. 0 - 1 : ~ InUseAt(data, q)
  BY <1>1 DEF H!NoTable
<1>5. TableGood(data, 0)
  <2>1. PICK n \in Nat : n = 0 /\ n <= MaxSize
    BY HashAssumption
  <2>2. data \in [0 .. n - 1 -> SlotSet] /\ \A q \in 0 .. n - 1 : ~ InUseAt(data, q)
    BY <1>4, <2>1
  <2>3. TableGood(data, n)
    BY <2>1, <2>2, BareGood
  <2>. QED
    BY <2>1, <2>3
<1>6. UsedIn(data, 0) = {}
  BY <1>4 DEF UsedIn
<1>7. InTable(data, 0, count)
  BY <1>1, <1>5, <1>6, FS_EmptySet DEF InTable
<1>. QED
  BY <1>1, <1>3, <1>7 DEF HashOK

LEMMA FullWhenEmpty ==
  ASSUME HashOK, ~lapped, ~ H!IsFull
  PROVE  H!Size(data) # 0
<1>1. ASSUME H!Size(data) = 0
      PROVE  FALSE
  <2>1. 0 \div Part = 0
    BY HashAssumption, SMT
  <2>2. (0 \div Part) * (Part - 1) = 0
    BY <2>1, HashAssumption
  <2>3. count \in Nat
    BY DataIs, UsedFinite
  <2>. QED
    BY <1>1, <2>2, <2>3 DEF H!IsFull
<1>. QED
  BY <1>1

LEMMA InsertKeeps ==
  ASSUME HashOK, ~lapped, NEW item \in H!Items, H!Insert(item)
  PROVE  HashOK'
<1>1. PICK n : n = H!Size(data)
  OBVIOUS
<1>2. n \in Nat \ {0} /\ TableGood(data, n)
  BY <1>1, DataIs, FullWhenEmpty DEF H!Insert
<1>3. Carrying(data, n, item, HashOf(item) % n, 0)
  BY <1>2, StartCarrying
<1>4. carried' = item /\ pos' = HashOf(item) % n /\ dist' = 0 /\ pending = NoItem
      /\ data' = data /\ count' = count /\ fresh' = fresh /\ from' = from /\ pending' = pending /\ lapped' = lapped
  BY <1>1 DEF H!Insert, H!Idle, H!Carry, H!Home, HashOf
<1>5. Carrying(data', H!Size(data'), carried', pos', dist')
  BY <1>1, <1>3, <1>4
<1>. QED
  BY <1>4, <1>5 DEF HashOK

LEMMA InsertGrowsKeeps ==
  ASSUME HashOK, ~lapped, NEW item \in H!Items, H!InsertGrows(item)
  PROVE  HashOK'
<1>1. PICK n, m : n = H!Size(data) /\ m = H!NewSize
  OBVIOUS
<1>2. n \in Nat /\ m = (IF n = 0 THEN FirstSize ELSE n * 2)
  BY <1>1, DataIs DEF H!NewSize
<1>3. m \in Nat \ {0} /\ m <= MaxSize
  BY <1>1, <1>2, NewSizeIs DEF H!InsertGrows
<1>4. carried = NoItem /\ carried' = carried /\ pending' = item /\ data' = data /\ count' = count
      /\ from' = 0 /\ lapped' = lapped /\ pos' = pos /\ dist' = dist
  BY DEF H!InsertGrows, H!Idle
<1>5. fresh' = [p \in 0 .. m - 1 |-> H!Empty]
  BY <1>1 DEF H!InsertGrows, H!Slots
<1>6. Growing(data, n, fresh', m, 0, NoItem, pos, dist)
  BY <1>2, <1>3, <1>5, GrowStarts
<1>7. DOMAIN fresh' = 0 .. m - 1
  BY <1>5
<1>8. H!Size(fresh') = m
  BY <1>3, <1>7, SizeIs
<1>9. Growing(data', H!Size(data'), fresh', H!Size(fresh'), from', carried', pos', dist')
  BY <1>1, <1>4, <1>6, <1>8
<1>10. item # NoItem
  BY HashAssumption DEF H!Items
<1>. QED
  BY <1>4, <1>9, <1>10 DEF HashOK

LEMMA GrowMovesKeeps ==
  ASSUME HashOK, ~lapped, H!GrowMoves
  PROVE  HashOK'
<1>1. PICK n, m : n = H!Size(data) /\ m = H!Size(fresh)
  OBVIOUS
<1>2. pending # NoItem /\ carried = NoItem /\ from < n /\ from' = from + 1
      /\ data' = data /\ count' = count /\ fresh' = fresh /\ pending' = pending /\ lapped' = lapped
  BY <1>1 DEF H!GrowMoves
<1>3. n \in Nat /\ TableGood(data, n) /\ Growing(data, n, fresh, m, from, NoItem, pos, dist)
  BY <1>1, <1>2, DataIs DEF HashOK
<1>4. /\ InUseAt(data, from) => Growing(data, n, fresh, m, from + 1, data[from].item, HashOf(data[from].item) % m, 0)
      /\ ~ InUseAt(data, from) => Growing(data, n, fresh, m, from + 1, NoItem, pos, dist)
  BY <1>2, <1>3, GrowMoves
<1>5. CASE InUseAt(data, from)
  <2>1. carried' = data[from].item /\ pos' = HashOf(data[from].item) % m /\ dist' = 0
    BY <1>1, <1>5 DEF H!GrowMoves, H!Carry, H!Home, HashOf, H!InUse, InUseAt
  <2>2. from \in 0 .. n - 1
    BY <1>2, <1>3 DEF Growing
  <2>3. carried' \in H!Items
    BY <1>3, <1>5, <2>1, <2>2, TableParts
  <2>4. Growing(data', H!Size(data'), fresh', H!Size(fresh'), from', carried', pos', dist')
    BY <1>1, <1>2, <1>4, <1>5, <2>1
  <2>. QED
    BY <1>2, <2>3, <2>4 DEF HashOK
<1>6. CASE ~ InUseAt(data, from)
  <2>1. carried' = carried /\ pos' = pos /\ dist' = dist
    BY <1>6 DEF H!GrowMoves, H!InUse, InUseAt
  <2>2. Growing(data', H!Size(data'), fresh', H!Size(fresh'), from', carried', pos', dist')
    BY <1>1, <1>2, <1>4, <1>6, <2>1
  <2>. QED
    BY <1>2, <2>1, <2>2 DEF HashOK
<1>. QED
  BY <1>5, <1>6

LEMMA GrowEndsKeeps ==
  ASSUME HashOK, ~lapped, H!GrowEnds
  PROVE  HashOK'
<1>1. PICK n, m : n = H!Size(data) /\ m = H!Size(fresh)
  OBVIOUS
<1>2. pending # NoItem /\ carried = NoItem /\ from = n /\ from' = 0
      /\ data' = fresh /\ count' = count /\ fresh' = H!NoTable /\ pending' = NoItem /\ lapped' = lapped
      /\ carried' = pending /\ pos' = HashOf(pending) % m /\ dist' = 0
  BY <1>1 DEF H!GrowEnds, H!Carry, H!Home, HashOf
<1>3. n \in Nat /\ TableGood(data, n) /\ Growing(data, n, fresh, m, n, NoItem, pos, dist) /\ pending \in H!Items
  BY <1>1, <1>2, DataIs DEF HashOK
<1>4. m \in Nat \ {0} /\ TableGood(fresh, m) /\ Cardinality(UsedIn(fresh, m)) = Cardinality(UsedIn(data, n))
  BY <1>3, GrowEnds
<1>5. count = Cardinality(UsedIn(data, n))
  BY <1>1, DataIs
<1>6. InTable(data', H!Size(data'), count')
  BY <1>1, <1>2, <1>4, <1>5 DEF InTable
<1>7. Carrying(fresh, m, pending, HashOf(pending) % m, 0)
  BY <1>3, <1>4, StartCarrying
<1>8. Carrying(data', H!Size(data'), carried', pos', dist')
  BY <1>1, <1>2, <1>7
<1>. QED
  BY <1>2, <1>3, <1>6, <1>8 DEF HashOK

LEMMA PutCounts ==
  ASSUME NEW d, NEW n \in Nat \ {0}, NEW c \in H!Items, NEW p \in 0 .. n - 1, TableGood(d, n)
  PROVE  /\ InUseAt(d, p) => Cardinality(UsedIn(Put(d, p, c), n)) = Cardinality(UsedIn(d, n))
         /\ ~ InUseAt(d, p) => Cardinality(UsedIn(Put(d, p, c), n)) = Cardinality(UsedIn(d, n)) + 1
<1>1. \A q \in 0 .. n - 1 : InUseAt(Put(d, p, c), q) <=> q = p \/ InUseAt(d, q)
  BY PutUsed
<1>2. UsedIn(Put(d, p, c), n) = UsedIn(d, n) \cup {p}
  BY <1>1 DEF UsedIn
<1>3. p \in UsedIn(d, n) <=> InUseAt(d, p)
  BY DEF UsedIn
<1>. QED
  BY <1>2, <1>3, UsedFinite, FS_AddElement

LEMMA PlacesKeeps ==
  ASSUME HashOK, ~lapped, H!Places
  PROVE  HashOK'
<1>1. PICK t, s, c : t = H!Target /\ s = H!Size(t) /\ c = carried
  OBVIOUS
<1>2. carried # NoItem
  BY DEF H!Places
<1>3. s \in Nat \ {0} /\ TableGood(t, s) /\ Carrying(t, s, c, pos, dist) /\ pos \in 0 .. s - 1 /\ c \in H!Items
  BY <1>1, <1>2, TargetIs
<1>4. H!Here = t[pos] /\ (InUseAt(t, pos) => t[pos].hash # 0) /\ (t[pos].hash # 0 => H!HereDistance = Way(t[pos], pos, s))
      /\ H!InUse(H!Here) = InUseAt(t, pos)
  BY <1>1, <1>2, TargetIs
<1>5. ~ InUseAt(t, pos) /\ (t[pos].hash # 0 => Way(t[pos], pos, s) < dist)
  BY <1>4 DEF H!Places, H!IsFree
<1>6. GivesWay(t, s, pos, dist)
  BY <1>3, <1>5 DEF GivesWay
<1>7. Lacks(t, s, c)
  BY <1>3, <1>5, <1>6, NoneBehind
<1>8. TableGood(Put(t, pos, c), s)
  BY <1>3, <1>6, <1>7, FillGood
<1>9. DOMAIN Put(t, pos, c) = 0 .. s - 1
  BY <1>3, PutUsed
<1>10. H!Size(Put(t, pos, c)) = s
  BY <1>3, <1>9, SizeIs
<1>11. carried' = NoItem /\ pos' = 0 /\ dist' = 0 /\ from' = from /\ pending' = pending /\ lapped' = lapped
  BY DEF H!Places, H!CarryNothing
<1>12. CASE pending = NoItem
  <2>1. t = data /\ data' = Put(t, pos, c) /\ fresh' = fresh /\ count' = count + 1
    BY <1>1, <1>12 DEF H!Places, H!PutHere, H!Target, Put
  <2>2. count = Cardinality(UsedIn(t, s))
    BY <1>1, <2>1, DataIs
  <2>3. Cardinality(UsedIn(Put(t, pos, c), s)) = Cardinality(UsedIn(t, s)) + 1
    BY <1>3, <1>5, PutCounts
  <2>4. InTable(data', H!Size(data'), count')
    BY <1>8, <1>10, <2>1, <2>2, <2>3 DEF InTable
  <2>. QED
    BY <1>11, <1>12, <2>1, <2>4 DEF HashOK
<1>13. CASE pending # NoItem
  <2>1. t = fresh /\ fresh' = Put(t, pos, c) /\ data' = data /\ count' = count
    BY <1>1, <1>13 DEF H!Places, H!PutHere, H!Target, Put
  <2>2. Growing(data, H!Size(data), t, s, from, c, pos, dist) /\ H!Size(data) \in Nat
    BY <1>1, <1>13, <2>1, DataIs DEF HashOK
  <2>3. t[pos].hash = 0
    BY <1>3, <1>5, <2>2 DEF Growing
  <2>4. Growing(data, H!Size(data), Put(t, pos, c), s, from, NoItem, 0, 0)
    BY <1>1, <1>2, <2>2, <2>3, GrowPlaces
  <2>5. Growing(data', H!Size(data'), fresh', H!Size(fresh'), from', carried', pos', dist')
    BY <1>10, <1>11, <2>1, <2>4
  <2>. QED
    BY <1>11, <1>13, <2>1, <2>5 DEF HashOK
<1>. QED
  BY <1>12, <1>13

LEMMA SwapsKeeps ==
  ASSUME HashOK, ~lapped, H!Swaps
  PROVE  HashOK'
<1>1. PICK t, s, c, w : t = H!Target /\ s = H!Size(t) /\ c = carried /\ w = Way(t[pos], pos, s)
  OBVIOUS
<1>2. carried # NoItem
  BY DEF H!Swaps
<1>3. s \in Nat \ {0} /\ TableGood(t, s) /\ Carrying(t, s, c, pos, dist) /\ pos \in 0 .. s - 1 /\ c \in H!Items
  BY <1>1, <1>2, TargetIs
<1>4. H!Here = t[pos] /\ (InUseAt(t, pos) => t[pos].hash # 0) /\ (t[pos].hash # 0 => H!HereDistance = w)
      /\ H!InUse(H!Here) = InUseAt(t, pos)
  BY <1>1, <1>2, TargetIs
<1>5. InUseAt(t, pos) /\ H!HereDistance = w /\ w < dist /\ t[pos].item.key # c.key
  BY <1>1, <1>4 DEF H!Swaps, H!IsSame
<1>6. GivesWay(t, s, pos, dist)
  BY <1>1, <1>3, <1>5 DEF GivesWay
<1>7. Lacks(t, s, c)
  BY <1>3, <1>5, <1>6, NoneBehind
<1>8. TableGood(Put(t, pos, c), s)
  BY <1>3, <1>6, <1>7, FillGood
<1>9. DOMAIN Put(t, pos, c) = 0 .. s - 1
  BY <1>3, PutUsed
<1>10. H!Size(Put(t, pos, c)) = s
  BY <1>3, <1>9, SizeIs
<1>11. /\ carried' = t[pos].item /\ pos' = (pos + 1) % s /\ dist' = w + 1
       /\ from' = from /\ pending' = pending /\ count' = count
       /\ lapped' = (w + 1 >= s)
  BY <1>1, <1>4, <1>5 DEF H!Swaps, H!Advance
<1>12. carried' \in H!Items /\ carried' # NoItem
  BY <1>3, <1>5, <1>11, TableParts, ItemFacts
<1>13. lapped' \in BOOLEAN /\ pending' \in H!Items \cup {NoItem}
  BY <1>11 DEF HashOK
<1>14. CASE lapped'
  BY <1>12, <1>13, <1>14 DEF HashOK
<1>15. CASE ~ lapped'
  <2>0. w + 1 < s
    <3>1. w \in 0 .. s - 1
      BY <1>1, <1>3, TableParts, DistanceIs
    <3>. QED
      <4>1. ~ (w + 1 >= s)
        BY <1>11, <1>15, Zenon
      <4>. QED
        BY <1>3, <3>1, <4>1
  <2>1. CASE pending = NoItem
    <3>1. t = data /\ data' = Put(t, pos, c) /\ fresh' = fresh
      BY <1>1, <2>1 DEF H!Swaps, H!PutHere, H!Target, Put
    <3>2. count = Cardinality(UsedIn(t, s))
      BY <1>1, <3>1, DataIs
    <3>3. Cardinality(UsedIn(Put(t, pos, c), s)) = Cardinality(UsedIn(t, s))
      BY <1>3, <1>5, PutCounts
    <3>4. InTable(data', H!Size(data'), count')
      BY <1>8, <1>10, <1>11, <3>1, <3>2, <3>3 DEF InTable
    <3>5. Carrying(Put(t, pos, c), s, t[pos].item, (pos + 1) % s, w + 1)
      BY <1>1, <1>3, <1>5, <1>6, <1>7, <2>0, NextCarrying
    <3>6. Carrying(data', H!Size(data'), carried', pos', dist')
      BY <1>10, <1>11, <3>1, <3>5
    <3>. QED
      BY <1>11, <1>12, <1>13, <2>1, <3>1, <3>4, <3>6 DEF HashOK
  <2>2. CASE pending # NoItem
    <3>1. t = fresh /\ fresh' = Put(t, pos, c) /\ data' = data
      BY <1>1, <2>2 DEF H!Swaps, H!PutHere, H!Target, Put
    <3>2. Growing(data, H!Size(data), t, s, from, c, pos, dist) /\ H!Size(data) \in Nat
      BY <1>1, <2>2, <3>1, DataIs DEF HashOK
    <3>3. Growing(data, H!Size(data), Put(t, pos, c), s, from, t[pos].item, (pos + 1) % s, w + 1)
      BY <1>1, <1>2, <1>5, <2>0, <3>2, GrowSwaps
    <3>4. Growing(data', H!Size(data'), fresh', H!Size(fresh'), from', carried', pos', dist')
      BY <1>10, <1>11, <3>1, <3>3
    <3>. QED
      BY <1>11, <1>12, <1>13, <2>2, <3>1, <3>4 DEF HashOK
  <2>. QED
    BY <2>1, <2>2
<1>. QED
  BY <1>14, <1>15

LEMMA PassesKeeps ==
  ASSUME HashOK, ~lapped, H!Passes
  PROVE  HashOK'
<1>1. PICK t, s, c : t = H!Target /\ s = H!Size(t) /\ c = carried
  OBVIOUS
<1>2. carried # NoItem
  BY DEF H!Passes
<1>3. s \in Nat \ {0} /\ TableGood(t, s) /\ Carrying(t, s, c, pos, dist) /\ pos \in 0 .. s - 1 /\ c \in H!Items
  BY <1>1, <1>2, TargetIs
<1>4. H!Here = t[pos] /\ (t[pos].hash # 0 => H!HereDistance = Way(t[pos], pos, s)) /\ H!InUse(H!Here) = InUseAt(t, pos)
  BY <1>1, <1>2, TargetIs
<1>5. t[pos].hash # 0 /\ Way(t[pos], pos, s) >= dist /\ ~ (InUseAt(t, pos) /\ t[pos].item.key = c.key)
  BY <1>1, <1>4 DEF H!Passes, H!IsFree, H!IsSame
<1>6. /\ carried' = c /\ pos' = (pos + 1) % s /\ dist' = dist + 1
      /\ data' = data /\ fresh' = fresh /\ from' = from /\ pending' = pending /\ count' = count
      /\ lapped' = (dist + 1 >= s)
  BY <1>1 DEF H!Passes, H!Advance
<1>7. lapped' \in BOOLEAN /\ pending' \in H!Items \cup {NoItem} /\ carried' \in H!Items \cup {NoItem}
  BY <1>1, <1>6 DEF HashOK
<1>8. CASE lapped'
  BY <1>1, <1>2, <1>6, <1>7, <1>8 DEF HashOK
<1>9. CASE ~ lapped'
  <2>1. dist + 1 < s
    <3>1. ~ (dist + 1 >= s)
      BY <1>6, <1>9, Zenon
    <3>2. dist \in 0 .. s - 1
      BY <1>3 DEF Carrying
    <3>. QED
      BY <1>3, <3>1, <3>2
  <2>2. CASE pending = NoItem
    <3>1. t = data
      BY <1>1, <2>2 DEF H!Target
    <3>2. Carrying(t, s, c, (pos + 1) % s, dist + 1)
      BY <1>3, <1>5, <2>1, PassCarrying
    <3>3. Carrying(data', H!Size(data'), carried', pos', dist')
      BY <1>1, <1>6, <3>1, <3>2
    <3>. QED
      BY <1>6, <1>7, <1>9, <2>2, <3>3 DEF HashOK
  <2>3. CASE pending # NoItem
    <3>1. t = fresh
      BY <1>1, <2>3 DEF H!Target
    <3>2. Growing(data, H!Size(data), t, s, from, c, pos, dist) /\ H!Size(data) \in Nat
      BY <1>1, <2>3, <3>1, DataIs DEF HashOK
    <3>3. Growing(data, H!Size(data), t, s, from, c, (pos + 1) % s, dist + 1)
      BY <1>1, <1>2, <1>5, <2>1, <3>2, GrowPasses
    <3>4. Growing(data', H!Size(data'), fresh', H!Size(fresh'), from', carried', pos', dist')
      BY <1>1, <1>6, <3>1, <3>3
    <3>. QED
      BY <1>6, <1>7, <1>9, <2>3, <3>4 DEF HashOK
  <2>. QED
    BY <2>2, <2>3
<1>. QED
  BY <1>8, <1>9

\* The value of a key is replaced where the key is; in grow() there is none.
LEMMA ReplacesKeeps ==
  ASSUME HashOK, ~lapped, H!Replaces
  PROVE  /\ HashOK'
         /\ pending = NoItem
<1>1. PICK t, s, c : t = H!Target /\ s = H!Size(t) /\ c = carried
  OBVIOUS
<1>2. carried # NoItem
  BY DEF H!Replaces
<1>3. s \in Nat \ {0} /\ TableGood(t, s) /\ pos \in 0 .. s - 1 /\ c \in H!Items
      /\ H!Here = t[pos] /\ H!InUse(H!Here) = InUseAt(t, pos)
  BY <1>1, <1>2, TargetIs
<1>4. InUseAt(t, pos) /\ t[pos].item.key = c.key
  BY <1>1, <1>3 DEF H!Replaces, H!IsSame
<1>5. pending = NoItem
  <2>1. ASSUME pending # NoItem
        PROVE  FALSE
    <3>1. t = fresh
      BY <1>1, <2>1 DEF H!Target
    <3>2. Growing(data, H!Size(data), t, s, from, c, pos, dist)
      BY <1>1, <2>1, <3>1 DEF HashOK
    <3>3. Lacks(t, s, c)
      BY <1>1, <1>2, <3>2 DEF Growing
    <3>. QED
      BY <1>3, <1>4, <3>3 DEF Lacks
  <2>. QED
    BY <2>1
<1>6. t = data /\ data' = Put(t, pos, c) /\ fresh' = fresh /\ count' = count
      /\ carried' = NoItem /\ from' = from /\ pending' = pending /\ lapped' = lapped
  BY <1>1, <1>5 DEF H!Replaces, H!PutHere, H!Target, Put, H!CarryNothing
<1>7. PICK f : f = Put(t, pos, c)
  OBVIOUS
<1>8. t \in [0 .. s - 1 -> SlotSet] /\ H!Holding(c) \in SlotSet
  BY <1>3, TableParts, ItemFacts
<1>9. f \in [0 .. s - 1 -> SlotSet] /\ f[pos] = H!Holding(c) /\ \A q \in 0 .. s - 1 : q # pos => f[q] = t[q]
  BY <1>3, <1>7, <1>8 DEF Put
<1>10. H!Holding(c).hash = t[pos].hash /\ H!Holding(c).item = c
  BY <1>3, <1>4, TableParts, ItemFacts, SameHash
<1>11. KeepsHashes(t, f, s)
  BY <1>4, <1>9, <1>10 DEF KeepsHashes, InUseAt
<1>12. TableGood(f, s)
  BY <1>3, <1>9, <1>11, KeptGood
<1>13. Cardinality(UsedIn(f, s)) = Cardinality(UsedIn(t, s))
  BY <1>3, <1>4, <1>7, PutCounts
<1>14. H!Size(f) = s
  BY <1>3, <1>9, SizeIs
<1>15. count = Cardinality(UsedIn(t, s))
  BY <1>1, <1>6, DataIs
<1>16. InTable(data', H!Size(data'), count')
  BY <1>6, <1>7, <1>12, <1>13, <1>14, <1>15 DEF InTable
<1>. QED
  BY <1>5, <1>6, <1>16 DEF HashOK

LEMMA MinIs ==
  ASSUME NEW X, X \subseteq Nat, X # {}
  PROVE  H!Min(X) \in X /\ \A k \in X : H!Min(X) <= k
<1>1. \E m \in X : \A k \in X : m <= k
  BY LeastOf
<1>. QED
  BY <1>1 DEF H!Min

\* Outside insert() find_i() finds the slot that holds the key, if one does.
LEMMA FindIs ==
  ASSUME HashOK, ~lapped, H!Idle, NEW k \in Keys
  PROVE  /\ \A p \in DOMAIN data : H!Matches(k, p) => H!Find(k) = p /\ p # H!NotFound
         /\ (\A p \in DOMAIN data : ~ H!Matches(k, p)) => H!Find(k) = H!NotFound
<1>1. PICK n : n = H!Size(data)
  OBVIOUS
<1>2. n \in Nat /\ DOMAIN data = 0 .. n - 1 /\ TableGood(data, n) /\ H!Used = UsedIn(data, n)
      /\ count = Cardinality(UsedIn(data, n))
  BY <1>1, DataIs
<1>3. PICK h : h = H!Hash(k) % n
  OBVIOUS
<1>4. \A e \in 0 .. n - 1 : h \in 0 .. n - 1 /\ H!Probe(k, e) = Along(h, e, n) /\ Along(h, e, n) \in 0 .. n - 1
  <2> SUFFICES ASSUME NEW e \in 0 .. n - 1
               PROVE  h \in 0 .. n - 1 /\ H!Probe(k, e) = Along(h, e, n) /\ Along(h, e, n) \in 0 .. n - 1
    OBVIOUS
  <2>1. n \in Nat \ {0}
    BY <1>2
  <2>2. H!Hash(k) \in Nat
    BY HashAssumption DEF H!Hash
  <2>3. h \in 0 .. n - 1
    BY <1>3, <2>1, <2>2, RemainderRange
  <2>4. (h + e) % n = Along(h, e, n) /\ Along(h, e, n) \in 0 .. n - 1
    BY <2>1, <2>3, AlongIs
  <2>. QED
    BY <1>1, <1>3, <2>3, <2>4 DEF H!Probe, H!Home
<1>5. \A p \in 0 .. n - 1 : H!Matches(k, p) <=> InUseAt(data, p) /\ data[p].item.key = k
  BY DEF H!Matches, H!InUse, InUseAt
<1>6. ASSUME NEW p \in 0 .. n - 1, H!Matches(k, p)
      PROVE  H!Find(k) = p /\ p # H!NotFound
  <2>1. InUseAt(data, p) /\ data[p].item.key = k /\ n \in Nat \ {0}
    BY <1>2, <1>5, <1>6
  <2>2. data[p].hash = H!Hash(k) /\ data[p] \in SlotSet
    BY <1>2, <2>1, TableParts DEF HashOf
  <2>3. PICK w : w = Way(data[p], p, n)
    OBVIOUS
  <2>4. w \in 0 .. n - 1 /\ Along(h, w, n) = p
    BY <1>3, <2>1, <2>2, <2>3, DistanceIs
  <2>5. ASSUME NEW e \in 0 .. w
        PROVE  ~ H!Stops(k, e)
    <3>1. PICK q \in 0 .. n - 1 : q = Along(h, e, n) /\ q = H!Probe(k, e)
      <4>1. e \in 0 .. n - 1
        BY <1>2, <2>4
      <4>. QED
        BY <1>4, <4>1
    <3>2. data[q].hash # 0 /\ Way(data[q], q, n) >= e
      <4>1. CASE e = w
        <5>1. q = p
          BY <2>4, <3>1, <4>1
        <5>2. data[p].item \in H!Items /\ data[p].hash = HashOf(data[p].item)
          BY <1>2, <2>1, TableParts
        <5>3. data[p].hash # 0
          BY <2>1, <5>2, ItemFacts
        <5>. QED
          BY <2>3, <2>4, <4>1, <5>1, <5>3
      <4>2. CASE e # w
        <5>1. e \in 0 .. w - 1
          BY <2>4, <4>2
        <5>2. Passed(data, n, h, e)
          BY <1>2, <1>3, <2>1, <2>2, <2>3, <5>1, TableParts
        <5>. QED
          BY <3>1, <5>2 DEF Passed
      <4>. QED
        BY <4>1, <4>2
    <3>3. data[q] \in SlotSet
      BY <1>2, TableParts
    <3>4. H!Distance(data[q], q, n) = Way(data[q], q, n) /\ Way(data[q], q, n) \in 0 .. n - 1
      BY <2>1, <3>3, DistanceIs
    <3>5. ~ (e > H!Distance(data[q], q, n))
      BY <2>4, <3>2, <3>4
    <3>. QED
      BY <1>1, <3>1, <3>2, <3>5 DEF H!Stops
  <2>6. w \in H!Hits(k)
    <3>1. w \in H!Slots(H!Size(data))
      BY <1>1, <2>4 DEF H!Slots
    <3>2. H!Matches(k, H!Probe(k, w))
      BY <1>4, <1>6, <2>4
    <3>. QED
      BY <2>5, <3>1, <3>2 DEF H!Hits
  <2>7. ASSUME NEW e \in H!Hits(k)
        PROVE  e \in Nat /\ H!Probe(k, e) = p
    <3>1. e \in 0 .. n - 1 /\ H!Matches(k, H!Probe(k, e))
      BY <1>1 DEF H!Hits, H!Slots
    <3>2. PICK q \in 0 .. n - 1 : q = H!Probe(k, e)
      BY <1>4, <3>1
    <3>3. InUseAt(data, q) /\ data[q].item.key = data[p].item.key
      BY <1>5, <2>1, <3>1, <3>2
    <3>4. q = p
      BY <1>2, <2>1, <3>3, TableParts
    <3>. QED
      BY <3>1, <3>2, <3>4
  <2>8. H!Min(H!Hits(k)) \in H!Hits(k)
    <3>1. H!Hits(k) \subseteq Nat /\ H!Hits(k) # {}
      BY <2>6, <2>7
    <3>. QED
      BY <3>1, MinIs
  <2>9. count # 0
    <3>1. p \in UsedIn(data, n)
      BY <2>1 DEF UsedIn
    <3>. QED
      BY <1>2, <3>1, UsedFinite, FS_EmptySet
  <2>10. H!Find(k) = p
    BY <2>6, <2>7, <2>8, <2>9 DEF H!Find
  <2>11. n <= MaxSize
    BY <1>2, TableParts
  <2>. QED
    BY <1>2, <2>10, <2>11, HashAssumption DEF H!NotFound
<1>7. ASSUME \A p \in 0 .. n - 1 : ~ H!Matches(k, p)
      PROVE  H!Find(k) = H!NotFound
  <2>1. ASSUME NEW e \in H!Hits(k)
        PROVE  FALSE
    <3>1. e \in 0 .. n - 1 /\ H!Matches(k, H!Probe(k, e))
      BY <1>1 DEF H!Hits, H!Slots
    <3>2. H!Probe(k, e) \in 0 .. n - 1
      BY <1>4, <3>1
    <3>. QED
      BY <1>7, <3>1, <3>2
  <2>2. H!Hits(k) = {}
    BY <2>1
  <2>. QED
    BY <2>2 DEF H!Find
<1>. QED
  BY <1>2, <1>6, <1>7

LEMMA LookupHolds ==
  ASSUME HashOK
  PROVE  H!LookupFindsUnlessLapped
<1> SUFFICES ASSUME ~lapped, H!Idle, NEW k \in Keys
             PROVE  {p \in DOMAIN data : H!Matches(k, p)} = {H!Find(k)} \ {H!NotFound}
  BY DEF H!LookupFindsUnlessLapped, H!LookupFinds
<1>1. CASE \E p \in DOMAIN data : H!Matches(k, p)
  BY <1>1, FindIs
<1>2. CASE \A p \in DOMAIN data : ~ H!Matches(k, p)
  BY <1>2, FindIs
<1>. QED
  BY <1>1, <1>2

\* erase(): the slot becomes a tombstone that keeps its hash.
LEMMA EraseKeeps ==
  ASSUME HashOK, ~lapped, H!Idle, NEW p \in H!Used, H!Erase(p)
  PROVE  HashOK'
<1>1. PICK n : n = H!Size(data)
  OBVIOUS
<1>2. n \in Nat /\ DOMAIN data = 0 .. n - 1 /\ TableGood(data, n) /\ H!Used = UsedIn(data, n)
      /\ count = Cardinality(UsedIn(data, n))
  BY <1>1, DataIs
<1>3. p \in 0 .. n - 1 /\ InUseAt(data, p) /\ p \in UsedIn(data, n)
  BY <1>2 DEF UsedIn
<1>4. data[p] \in SlotSet /\ data \in [0 .. n - 1 -> SlotSet]
  BY <1>2, <1>3, TableParts
<1>5. PICK f : f = H!Ripple(p)
  OBVIOUS
<1>6. H!Deleted(data[p]) \in SlotSet /\ H!Deleted(data[p]).hash = data[p].hash /\ H!Deleted(data[p]).item = NoItem
  BY <1>4 DEF H!Deleted, SlotSet
<1>7. f \in [0 .. n - 1 -> SlotSet] /\ f[p] = H!Deleted(data[p]) /\ \A q \in 0 .. n - 1 : q # p => f[q] = data[q]
  BY <1>3, <1>4, <1>5, <1>6 DEF H!Ripple
<1>8. KeepsHashes(data, f, n)
  BY <1>6, <1>7 DEF KeepsHashes, InUseAt
<1>9. TableGood(f, n)
  BY <1>2, <1>7, <1>8, KeptGood
<1>10. UsedIn(f, n) = UsedIn(data, n) \ {p}
  BY <1>3, <1>6, <1>7 DEF UsedIn, InUseAt
<1>11. Cardinality(UsedIn(f, n)) = Cardinality(UsedIn(data, n)) - 1
  BY <1>2, <1>3, <1>10, UsedFinite, FS_RemoveElement
<1>12. H!Size(f) = n
  BY <1>2, <1>7, SizeIs
<1>13. data' = f /\ count' = count - 1 /\ fresh' = fresh /\ from' = from /\ pending' = pending
       /\ carried' = carried /\ pos' = pos /\ dist' = dist /\ lapped' = lapped
  BY <1>5 DEF H!Erase
<1>14. InTable(data', H!Size(data'), count')
  BY <1>2, <1>9, <1>11, <1>12, <1>13 DEF InTable
<1>. QED
  BY <1>13, <1>14 DEF HashOK, H!Idle

LEMMA ClearKeeps ==
  ASSUME HashOK, ~lapped, H!Clear
  PROVE  HashOK' /\ \A q \in DOMAIN data' : ~ InUseAt(data', q)
<1>1. PICK n : n = H!Size(data)
  OBVIOUS
<1>2. n \in Nat /\ DOMAIN data = 0 .. n - 1 /\ TableGood(data, n)
  BY <1>1, DataIs
<1>3. data \in [0 .. n - 1 -> SlotSet] /\ n <= MaxSize
  BY <1>2, TableParts
<1>4. PICK f : f = [p \in 0 .. n - 1 |-> IF InUseAt(data, p) THEN H!Empty ELSE data[p]]
  OBVIOUS
<1>5. f \in [0 .. n - 1 -> SlotSet] /\ \A q \in 0 .. n - 1 : ~ InUseAt(f, q)
  <2>1. H!Empty \in SlotSet /\ H!Empty.item = NoItem
    BY DEF H!Empty, SlotSet
  <2>. QED
    BY <1>3, <1>4, <2>1 DEF InUseAt
<1>6. TableGood(f, n)
  BY <1>2, <1>3, <1>5, BareGood
<1>7. UsedIn(f, n) = {}
  BY <1>5 DEF UsedIn
<1>8. H!Size(f) = n /\ DOMAIN f = 0 .. n - 1
  BY <1>2, <1>5, SizeIs
<1>9. data' = f /\ count' = 0 /\ fresh' = fresh /\ from' = from /\ pending' = pending
      /\ carried' = carried /\ lapped' = lapped
  BY <1>2, <1>4 DEF H!Clear, H!InUse, InUseAt
<1>10. InTable(data', H!Size(data'), count')
  BY <1>6, <1>7, <1>8, <1>9, FS_EmptySet DEF InTable
<1>11. carried = NoItem /\ pending = NoItem
  BY DEF H!Clear, H!Idle
<1>. QED
  BY <1>5, <1>8, <1>9, <1>10, <1>11 DEF HashOK

LEMMA RemoveErases ==
  ASSUME HashOK, ~lapped, NEW k \in Keys, H!Remove(k)
  PROVE  /\ H!Idle /\ H!Find(k) \in H!Used /\ H!Matches(k, H!Find(k)) /\ H!Erase(H!Find(k))
<1>1. H!Idle /\ H!Find(k) # H!NotFound /\ H!Erase(H!Find(k))
  BY DEF H!Remove
<1>2. PICK p \in DOMAIN data : H!Matches(k, p)
  BY <1>1, FindIs
<1>3. H!Find(k) = p
  BY <1>1, <1>2, FindIs
<1>. QED
  BY <1>1, <1>2, <1>3 DEF H!Used, H!Matches

LEMMA PopErases ==
  ASSUME HashOK, ~lapped, H!Pop
  PROVE  H!Idle /\ H!Begin \in H!Used /\ H!Erase(H!Begin)
<1>1. H!Idle /\ H!Begin # H!NotFound /\ H!Erase(H!Begin)
  BY DEF H!Pop
<1>2. H!Used # {} /\ H!Begin = H!Min(H!Used)
  BY <1>1 DEF H!Begin, H!FirstOf
<1>3. H!Used \subseteq Nat
  BY DataIs DEF UsedIn
<1>. QED
  BY <1>1, <1>2, <1>3, MinIs

LEMMA HashSteps ==
  ASSUME HashOK, ~lapped, H!Next
  PROVE  HashOK'
<1>1. ASSUME NEW item \in H!Items, H!Insert(item) \/ H!InsertGrows(item)
      PROVE  HashOK'
  BY <1>1, InsertKeeps, InsertGrowsKeeps
<1>2. ASSUME H!GrowMoves \/ H!GrowEnds
      PROVE  HashOK'
  BY <1>2, GrowMovesKeeps, GrowEndsKeeps
<1>3. ASSUME H!Places \/ H!Replaces \/ H!Swaps \/ H!Passes
      PROVE  HashOK'
  BY <1>3, PlacesKeeps, ReplacesKeeps, SwapsKeeps, PassesKeeps
<1>4. ASSUME NEW k \in Keys, H!Remove(k)
      PROVE  HashOK'
  BY <1>4, RemoveErases, EraseKeeps
<1>5. ASSUME H!Pop
      PROVE  HashOK'
  BY <1>5, PopErases, EraseKeeps
<1>6. ASSUME H!Clear
      PROVE  HashOK'
  BY <1>6, ClearKeeps
<1>. QED
  BY <1>1, <1>2, <1>3, <1>4, <1>5, <1>6 DEF H!Next
-----------------------------------------------------------------------------
(* HashTable: iterators.  The slots in use have their ranks, and the end is *)
(* past them all.                                                           *)

Ends == H!Used \cup {H!NotFound}
Rank(p) == Cardinality({q \in H!Used : q < p})

LEMMA EndsAre ==
  ASSUME HashOK, ~lapped
  PROVE  /\ H!Used \subseteq Nat /\ IsFiniteSet(H!Used) /\ H!NotFound \in Nat
         /\ H!Used \subseteq DOMAIN data /\ H!NotFound \notin DOMAIN data
         /\ \A p \in H!Used : p < H!NotFound
         /\ H!Cardinality(H!Used) = Cardinality(H!Used) /\ Cardinality(H!Used) \in Nat
<1>1. PICK n : n = H!Size(data)
  OBVIOUS
<1>2. n \in Nat /\ DOMAIN data = 0 .. n - 1 /\ TableGood(data, n) /\ H!Used = UsedIn(data, n)
  BY <1>1, DataIs
<1>3. n <= MaxSize /\ MaxSize \in Nat
  BY <1>2, TableParts, HashAssumption
<1>4. H!Used \subseteq 0 .. n - 1
  BY <1>2 DEF UsedIn
<1>5. IsFiniteSet(H!Used) /\ Cardinality(H!Used) \in Nat
  BY <1>2, UsedFinite
<1>6. H!Cardinality(H!Used) = Cardinality(H!Used)
  BY DEF Cardinality, H!Cardinality
<1>. QED
  BY <1>2, <1>3, <1>4, <1>5, <1>6 DEF H!NotFound

LEMMA Ranks ==
  ASSUME HashOK, ~lapped, NEW p \in Ends
  PROVE  /\ p \in Nat /\ Rank(p) \in Nat /\ Rank(p) <= Cardinality(H!Used)
         /\ IsFiniteSet({q \in H!Used : q < p})
<1>1. p \in Nat
  BY EndsAre DEF Ends
<1>2. {q \in H!Used : q < p} \in SUBSET H!Used
  OBVIOUS
<1>3. IsFiniteSet(H!Used)
  BY EndsAre
<1>4. IsFiniteSet({q \in H!Used : q < p}) /\ Rank(p) <= Cardinality(H!Used)
  BY <1>2, <1>3, FS_Subset DEF Rank
<1>5. Rank(p) \in Nat
  BY <1>4, FS_CardinalityType DEF Rank
<1>. QED
  BY <1>1, <1>4, <1>5

LEMMA RankOfEnd ==
  ASSUME HashOK, ~lapped
  PROVE  Rank(H!NotFound) = Cardinality(H!Used)
<1>1. {q \in H!Used : q < H!NotFound} = H!Used
  BY EndsAre
<1>. QED
  BY <1>1 DEF Rank

\* A slot adds itself to what is before the next.
LEMMA NextRank ==
  ASSUME HashOK, ~lapped, NEW p \in H!Used, NEW s \in Ends, p < s, \A q \in H!Used : ~ (p < q /\ q < s)
  PROVE  Rank(s) = Rank(p) + 1
<1>1. p \in Ends
  BY DEF Ends
<1>2. s \in Nat /\ p \in Nat /\ H!Used \subseteq Nat
  BY <1>1, Ranks, EndsAre
<1>3. {q \in H!Used : q < s} = {q \in H!Used : q < p} \cup {p}
  <2>1. ASSUME NEW q \in H!Used
        PROVE  q < s <=> q < p \/ q = p
    <3>1. q \in Nat /\ ~ (p < q /\ q < s)
      BY <1>2
    <3>. QED
      BY <1>2, <3>1
  <2>. QED
    BY <2>1
<1>4. p \notin {q \in H!Used : q < p}
  BY <1>2
<1>. QED
  BY <1>1, <1>3, <1>4, Ranks, FS_AddElement DEF Rank

LEMMA RankGrows ==
  ASSUME HashOK, ~lapped, NEW p \in H!Used, NEW s \in Ends, p < s
  PROVE  Rank(p) < Rank(s)
<1>1. p \in Ends
  BY DEF Ends
<1>2. s \in Nat /\ p \in Nat /\ H!Used \subseteq Nat
  BY <1>1, Ranks, EndsAre
<1>3. {q \in H!Used : q < p} \cup {p} \in SUBSET {q \in H!Used : q < s}
  <2>1. ASSUME NEW q \in H!Used, q < p
        PROVE  q < s
    <3>1. q \in Nat
      BY <1>2
    <3>. QED
      BY <1>2, <2>1, <3>1
  <2>. QED
    BY <2>1
<1>4. p \notin {q \in H!Used : q < p}
  BY <1>2
<1>5. IsFiniteSet({q \in H!Used : q < p}) /\ IsFiniteSet({q \in H!Used : q < s}) /\ Rank(p) \in Nat /\ Rank(s) \in Nat
  BY <1>1, Ranks
<1>6. Cardinality({q \in H!Used : q < p} \cup {p}) = Rank(p) + 1
  BY <1>4, <1>5, FS_AddElement DEF Rank
<1>7. Cardinality({q \in H!Used : q < p} \cup {p}) <= Rank(s)
  BY <1>3, <1>5, FS_Subset DEF Rank
<1>. QED
  BY <1>5, <1>6, <1>7

LEMMA RankTells ==
  ASSUME HashOK, ~lapped, NEW p \in Ends, NEW s \in Ends, Rank(p) = Rank(s)
  PROVE  p = s
<1>1. p \in Nat /\ s \in Nat /\ Rank(p) \in Nat
  BY Ranks
<1>2. ASSUME p < s
      PROVE  FALSE
  <2>1. p \in H!Used
    BY <1>1, <1>2, EndsAre DEF Ends
  <2>. QED
    BY <1>1, <1>2, <2>1, RankGrows
<1>3. ASSUME s < p
      PROVE  FALSE
  <2>1. s \in H!Used
    BY <1>1, <1>3, EndsAre DEF Ends
  <2>. QED
    BY <1>1, <1>3, <2>1, RankGrows
<1>. QED
  BY <1>1, <1>2, <1>3

\* The first, the next and the previous slot in use.
LEMMA BeginIs ==
  ASSUME HashOK, ~lapped
  PROVE  H!Begin \in Ends /\ Rank(H!Begin) = 0
<1>1. CASE H!Used = {}
  <2>1. H!Begin = H!NotFound
    BY <1>1 DEF H!Begin, H!FirstOf
  <2>2. Cardinality(H!Used) = 0
    BY <1>1, FS_EmptySet
  <2>. QED
    BY <2>1, <2>2, RankOfEnd DEF Ends
<1>2. CASE H!Used # {}
  <2>1. H!Begin = H!Min(H!Used)
    BY <1>2 DEF H!Begin, H!FirstOf
  <2>2. H!Begin \in H!Used /\ \A q \in H!Used : H!Begin <= q
    BY <1>2, <2>1, EndsAre, MinIs
  <2>3. {q \in H!Used : q < H!Begin} = {}
    BY <2>2, EndsAre
  <2>. QED
    BY <2>2, <2>3, FS_EmptySet DEF Ends, Rank
<1>. QED
  BY <1>1, <1>2

LEMMA NextIs ==
  ASSUME HashOK, ~lapped, NEW p \in H!Used
  PROVE  H!NextAfter(p) \in Ends /\ Rank(H!NextAfter(p)) = Rank(p) + 1
<1>1. PICK X : X = {q \in H!Used : q > p}
  OBVIOUS
<1>2. X \subseteq H!Used /\ X \subseteq Nat /\ p \in Nat
  BY <1>1, EndsAre
<1>3. H!NextAfter(p) \in Ends /\ p < H!NextAfter(p) /\ \A q \in H!Used : ~ (p < q /\ q < H!NextAfter(p))
  <2>1. CASE X = {}
    <3>1. H!NextAfter(p) = H!NotFound
      BY <1>1, <2>1 DEF H!NextAfter, H!FirstOf
    <3>. QED
      BY <1>1, <1>2, <2>1, <3>1, EndsAre DEF Ends
  <2>2. CASE X # {}
    <3>1. H!NextAfter(p) = H!Min(X)
      BY <1>1, <2>2 DEF H!NextAfter, H!FirstOf
    <3>2. H!Min(X) \in X /\ \A q \in X : H!Min(X) <= q
      BY <1>2, <2>2, MinIs
    <3>. QED
      BY <1>1, <1>2, <3>1, <3>2, EndsAre DEF Ends
  <2>. QED
    BY <2>1, <2>2
<1>. QED
  BY <1>3, NextRank

LEMMA MaxIs ==
  ASSUME NEW X, X \subseteq Nat, X # {}, NEW b \in Nat, \A k \in X : k <= b
  PROVE  H!Max(X) \in X /\ \A k \in X : k <= H!Max(X)
<1> DEFINE Y == {m \in Nat : \A k \in X : k <= m}
<1>1. PICK m \in Y : \A k \in Y : m <= k
  <2>1. b \in Y /\ Y \subseteq Nat
    OBVIOUS
  <2>. HIDE DEF Y
  <2>. QED
    BY <2>1, LeastOf
<1>2. ASSUME m \notin X
      PROVE  FALSE
  <2>1. \A k \in X : k \in Nat /\ k <= m - 1
    BY <1>1, <1>2
  <2>2. m - 1 \in Nat
    <3>1. PICK k \in X : k \in Nat /\ k <= m - 1
      BY <2>1
    <3>2. m \in Nat
      BY <1>1
    <3>. QED
      BY <3>1, <3>2
  <2>3. m - 1 \in Y
    BY <2>1, <2>2
  <2>. QED
    BY <1>1, <2>2, <2>3
<1>3. m \in X /\ \A k \in X : k <= m
  BY <1>1, <1>2
<1>. QED
  BY <1>3 DEF H!Max

LEMMA PrevIs ==
  ASSUME HashOK, ~lapped, NEW p \in H!Used
  PROVE  /\ H!PrevBefore(p) \in Ends
         /\ Rank(p) # 0 => H!PrevBefore(p) \in H!Used /\ Rank(p) = Rank(H!PrevBefore(p)) + 1
<1>1. PICK X : X = {q \in H!Used : q < p}
  OBVIOUS
<1>2. X \subseteq H!Used /\ X \subseteq Nat /\ p \in Nat /\ p \in Ends
  BY <1>1, EndsAre DEF Ends
<1>3. CASE X = {}
  <2>1. H!PrevBefore(p) = H!NotFound
    BY <1>1, <1>3 DEF H!PrevBefore
  <2>2. Rank(p) = 0
    BY <1>1, <1>3, FS_EmptySet DEF Rank
  <2>. QED
    BY <2>1, <2>2 DEF Ends
<1>4. CASE X # {}
  <2>1. H!PrevBefore(p) = H!Max(X)
    BY <1>1, <1>4 DEF H!PrevBefore
  <2>2. \A k \in X : k <= p
    BY <1>1, <1>2
  <2>3. H!Max(X) \in X /\ \A q \in X : q <= H!Max(X)
    BY <1>2, <1>4, <2>2, MaxIs
  <2>4. PICK y0 \in H!Used : y0 = H!Max(X)
    BY <1>2, <2>3
  <2>5. y0 < p /\ \A q \in H!Used : ~ (y0 < q /\ q < p)
    BY <1>1, <1>2, <2>3, <2>4, EndsAre
  <2>6. Rank(p) = Rank(y0) + 1
    BY <1>2, <2>5, NextRank
  <2>. QED
    BY <2>1, <2>4, <2>6 DEF Ends
<1>. QED
  BY <1>3, <1>4

\* iterator_move() forwards: n times the slot after, until there is none.
LEMMA ForwardIs ==
  ASSUME HashOK, ~lapped, NEW a \in Ends, NEW n \in Nat
  PROVE  \E f : /\ f[0] = a /\ f[n] = H!IteratorMove(a, n, H!NextAfter)
                /\ \A i \in 1 .. n : f[i] = IF f[i - 1] \in DOMAIN data THEN H!NextAfter(f[i - 1]) ELSE f[i - 1]
<1> DEFINE Then(r) == [i \in 0 .. n |->
             IF i = 0 THEN a ELSE IF r[i - 1] \in DOMAIN data THEN H!NextAfter(r[i - 1]) ELSE r[i - 1]]
           moved == CHOOSE r : r = Then(r)
           G == [p \in Ends |-> IF p \in DOMAIN data THEN H!NextAfter(p) ELSE p]
<1>1. G \in [Ends -> Ends]
  <2>1. \A p \in Ends : p \in DOMAIN data => H!NextAfter(p) \in Ends
    BY EndsAre, NextIs DEF Ends
  <2>. QED
    BY <2>1
<1>2. \A p \in Ends : G[p] = IF p \in DOMAIN data THEN H!NextAfter(p) ELSE p
  OBVIOUS
<1>3. PICK g \in [0 .. n -> Ends] : g[0] = a /\ \A k \in 1 .. n : g[k] = G[g[k - 1]]
  <2>. HIDE DEF G
  <2>1. Iterates(n, Ends, a, G)
    BY <1>1, IterationExists
  <2>. QED
    BY <2>1 DEF Iterates
<1>4. g = Then(g)
  <2>1. ASSUME NEW i \in 0 .. n
        PROVE  g[i] = IF i = 0 THEN a ELSE IF g[i - 1] \in DOMAIN data THEN H!NextAfter(g[i - 1]) ELSE g[i - 1]
    <3>1. CASE i = 0
      BY <1>3, <3>1
    <3>2. CASE i # 0
      <4>1. i \in 1 .. n /\ i - 1 \in 0 .. n
        BY <3>2
      <4>2. g[i - 1] \in Ends /\ g[i] = G[g[i - 1]]
        BY <1>3, <4>1
      <4>. HIDE DEF G
      <4>. QED
        BY <1>2, <3>2, <4>2
    <3>. QED
      BY <3>1, <3>2
  <2>2. DOMAIN g = 0 .. n
    BY <1>3
  <2>. QED
    BY <2>1, <2>2
<1>5. moved = Then(moved)
  <2>. HIDE DEF Then
  <2>. QED
    BY <1>4
<1>6. H!IteratorMove(a, n, H!NextAfter) = moved[n]
  BY DEF H!IteratorMove
<1>. HIDE DEF moved
<1>7. moved[0] = a /\ \A i \in 1 .. n : moved[i] = IF moved[i - 1] \in DOMAIN data THEN H!NextAfter(moved[i - 1]) ELSE moved[i - 1]
  <2>1. \A i \in 0 .. n : moved[i] = Then(moved)[i]
    BY <1>5
  <2>2. \A i \in 0 .. n : Then(moved)[i] = IF i = 0 THEN a ELSE IF moved[i - 1] \in DOMAIN data THEN H!NextAfter(moved[i - 1]) ELSE moved[i - 1]
    OBVIOUS
  <2>. HIDE DEF Then
  <2>3. \A i \in 0 .. n : moved[i] = IF i = 0 THEN a ELSE IF moved[i - 1] \in DOMAIN data THEN H!NextAfter(moved[i - 1]) ELSE moved[i - 1]
    BY <2>1, <2>2
  <2>4. 0 \in 0 .. n /\ \A i \in 1 .. n : i \in 0 .. n /\ i # 0
    OBVIOUS
  <2>. QED
    BY <2>3, <2>4
<1>. QED
  BY <1>6, <1>7

\* iterator_move() backwards.
LEMMA BackwardIs ==
  ASSUME HashOK, ~lapped, NEW a \in Ends, NEW n \in Nat
  PROVE  \E f : /\ f[0] = a /\ f[n] = H!IteratorMove(a, n, H!PrevBefore)
                /\ \A i \in 1 .. n : f[i] = IF f[i - 1] \in DOMAIN data THEN H!PrevBefore(f[i - 1]) ELSE f[i - 1]
<1> DEFINE Then(r) == [i \in 0 .. n |->
             IF i = 0 THEN a ELSE IF r[i - 1] \in DOMAIN data THEN H!PrevBefore(r[i - 1]) ELSE r[i - 1]]
           moved == CHOOSE r : r = Then(r)
           G == [p \in Ends |-> IF p \in DOMAIN data THEN H!PrevBefore(p) ELSE p]
<1>1. G \in [Ends -> Ends]
  <2>1. \A p \in Ends : p \in DOMAIN data => H!PrevBefore(p) \in Ends
    BY EndsAre, PrevIs DEF Ends
  <2>. QED
    BY <2>1
<1>2. \A p \in Ends : G[p] = IF p \in DOMAIN data THEN H!PrevBefore(p) ELSE p
  OBVIOUS
<1>3. PICK g \in [0 .. n -> Ends] : g[0] = a /\ \A k \in 1 .. n : g[k] = G[g[k - 1]]
  <2>. HIDE DEF G
  <2>1. Iterates(n, Ends, a, G)
    BY <1>1, IterationExists
  <2>. QED
    BY <2>1 DEF Iterates
<1>4. g = Then(g)
  <2>1. ASSUME NEW i \in 0 .. n
        PROVE  g[i] = IF i = 0 THEN a ELSE IF g[i - 1] \in DOMAIN data THEN H!PrevBefore(g[i - 1]) ELSE g[i - 1]
    <3>1. CASE i = 0
      BY <1>3, <3>1
    <3>2. CASE i # 0
      <4>1. i \in 1 .. n /\ i - 1 \in 0 .. n
        BY <3>2
      <4>2. g[i - 1] \in Ends /\ g[i] = G[g[i - 1]]
        BY <1>3, <4>1
      <4>. HIDE DEF G
      <4>. QED
        BY <1>2, <3>2, <4>2
    <3>. QED
      BY <3>1, <3>2
  <2>2. DOMAIN g = 0 .. n
    BY <1>3
  <2>. QED
    BY <2>1, <2>2
<1>5. moved = Then(moved)
  <2>. HIDE DEF Then
  <2>. QED
    BY <1>4
<1>6. H!IteratorMove(a, n, H!PrevBefore) = moved[n]
  BY DEF H!IteratorMove
<1>. HIDE DEF moved
<1>7. moved[0] = a /\ \A i \in 1 .. n : moved[i] = IF moved[i - 1] \in DOMAIN data THEN H!PrevBefore(moved[i - 1]) ELSE moved[i - 1]
  <2>1. \A i \in 0 .. n : moved[i] = Then(moved)[i]
    BY <1>5
  <2>2. \A i \in 0 .. n : Then(moved)[i] = IF i = 0 THEN a ELSE IF moved[i - 1] \in DOMAIN data THEN H!PrevBefore(moved[i - 1]) ELSE moved[i - 1]
    OBVIOUS
  <2>. HIDE DEF Then
  <2>3. \A i \in 0 .. n : moved[i] = IF i = 0 THEN a ELSE IF moved[i - 1] \in DOMAIN data THEN H!PrevBefore(moved[i - 1]) ELSE moved[i - 1]
    BY <2>1, <2>2
  <2>4. 0 \in 0 .. n /\ \A i \in 1 .. n : i \in 0 .. n /\ i # 0
    OBVIOUS
  <2>. QED
    BY <2>3, <2>4
<1>. QED
  BY <1>6, <1>7

LEMMA ForwardRank ==
  ASSUME HashOK, ~lapped, NEW n \in Nat
  PROVE  /\ H!IteratorMove(H!Begin, n, H!NextAfter) \in Ends
         /\ Rank(H!IteratorMove(H!Begin, n, H!NextAfter)) = IF n <= Cardinality(H!Used) THEN n ELSE Cardinality(H!Used)
<1>1. PICK a \in Ends, c \in Nat : a = H!Begin /\ Rank(a) = 0 /\ c = Cardinality(H!Used)
  BY BeginIs, EndsAre
<1>2. PICK f : /\ f[0] = a /\ f[n] = H!IteratorMove(a, n, H!NextAfter)
               /\ \A i \in 1 .. n : f[i] = IF f[i - 1] \in DOMAIN data THEN H!NextAfter(f[i - 1]) ELSE f[i - 1]
  BY ForwardIs, Zenon
<1> DEFINE X == {i \in 0 .. n : f[i] \in Ends /\ Rank(f[i]) = IF i <= c THEN i ELSE c}
<1>3. 0 \in X
  BY <1>1, <1>2
<1>4. ASSUME NEW i \in 1 .. n, i - 1 \in X
      PROVE  i \in X
  <2>1. PICK p : p = f[i - 1]
    OBVIOUS
  <2>2. p \in Ends /\ Rank(p) = (IF i - 1 <= c THEN i - 1 ELSE c)
    BY <1>4, <2>1
  <2>3. CASE p \in H!Used
    <3>1. f[i] = H!NextAfter(p)
      BY <1>2, <2>1, <2>3, EndsAre
    <3>2. f[i] \in Ends /\ Rank(f[i]) = Rank(p) + 1
      BY <2>3, <3>1, NextIs
    <3>3. Rank(f[i]) <= c
      BY <1>1, <3>2, Ranks
    <3>. QED
      BY <2>2, <3>2, <3>3
  <2>4. CASE p \notin H!Used
    <3>1. p = H!NotFound
      BY <2>2, <2>4 DEF Ends
    <3>2. f[i] = p
      BY <1>2, <2>1, <3>1, EndsAre
    <3>3. Rank(p) = c
      BY <1>1, <3>1, RankOfEnd
    <3>. QED
      BY <2>2, <3>2, <3>3
  <2>. QED
    BY <2>3, <2>4
<1>5. \A i \in 0 .. n : i \in X
  <2>. HIDE DEF X
  <2>. QED
    BY <1>3, <1>4, UpTo
<1>6. n \in X
  <2>. HIDE DEF X
  <2>. QED
    BY <1>5
<1>. QED
  BY <1>1, <1>2, <1>6

LEMMA BackwardRank ==
  ASSUME HashOK, ~lapped, NEW p \in H!Used, NEW n \in Nat, n = Rank(p)
  PROVE  H!IteratorMove(p, n, H!PrevBefore) = H!Begin
<1>1. p \in Ends /\ H!Used \subseteq DOMAIN data
  BY EndsAre DEF Ends
<1>0. PICK a \in Ends : a = p
  BY <1>1
<1>2. PICK f : /\ f[0] = a /\ f[n] = H!IteratorMove(a, n, H!PrevBefore)
               /\ \A i \in 1 .. n : f[i] = IF f[i - 1] \in DOMAIN data THEN H!PrevBefore(f[i - 1]) ELSE f[i - 1]
  BY BackwardIs, Zenon
<1> DEFINE X == {i \in 0 .. n : f[i] \in H!Used /\ Rank(f[i]) = n - i}
<1>3. 0 \in X
  BY <1>0, <1>2
<1>4. ASSUME NEW i \in 1 .. n, i - 1 \in X
      PROVE  i \in X
  <2>1. PICK s : s = f[i - 1]
    OBVIOUS
  <2>2. s \in H!Used /\ Rank(s) = n - (i - 1)
    BY <1>4, <2>1
  <2>3. f[i] = H!PrevBefore(s)
    BY <1>1, <1>2, <2>1, <2>2
  <2>4. Rank(s) # 0
    BY <2>2
  <2>5. f[i] \in H!Used /\ Rank(s) = Rank(f[i]) + 1
    BY <2>2, <2>3, <2>4, PrevIs
  <2>6. f[i] \in Ends
    BY <2>5 DEF Ends
  <2>7. Rank(f[i]) \in Nat
    BY <2>6, Ranks
  <2>. QED
    BY <2>2, <2>5, <2>7
<1>5. \A i \in 0 .. n : i \in X
  <2>. HIDE DEF X
  <2>. QED
    BY <1>3, <1>4, UpTo
<1>6. n \in X
  <2>. HIDE DEF X
  <2>. QED
    BY <1>5
<1>7. f[n] \in Ends /\ Rank(f[n]) = 0
  BY <1>6 DEF Ends
<1>8. f[n] = H!Begin
  BY <1>7, BeginIs, RankTells
<1>. QED
  BY <1>0, <1>2, <1>8

LEMMA WalksHolds ==
  ASSUME HashOK
  PROVE  H!WalksOver
<1> SUFFICES ASSUME H!Idle
             PROVE  /\ ~lapped => count = H!Cardinality(H!Used)
                    /\ H!IteratorMove(H!Begin, H!Cardinality(H!Used) + 1, H!NextAfter) = H!NotFound
                    /\ \A p \in H!Used :
                         LET before == H!Cardinality({q \in H!Used : q < p})
                         IN  H!IteratorMove(H!Begin, before, H!NextAfter) = p /\ H!IteratorMove(p, before, H!PrevBefore) = H!Begin
  BY DEF H!WalksOver
<1>1. ~ lapped
  BY DEF HashOK, H!Idle
<1>2. PICK c \in Nat : c = Cardinality(H!Used) /\ c = H!Cardinality(H!Used)
  BY <1>1, EndsAre
<1>3. count = c
  BY <1>1, <1>2, DataIs
<1>4. H!IteratorMove(H!Begin, c + 1, H!NextAfter) = H!NotFound
  <2>1. PICK n \in Nat : n = c + 1
    OBVIOUS
  <2>2. H!IteratorMove(H!Begin, n, H!NextAfter) \in Ends /\ Rank(H!IteratorMove(H!Begin, n, H!NextAfter)) = c
    BY <1>1, <1>2, <2>1, ForwardRank
  <2>3. H!NotFound \in Ends /\ Rank(H!NotFound) = c
    BY <1>1, <1>2, RankOfEnd DEF Ends
  <2>4. H!IteratorMove(H!Begin, n, H!NextAfter) = H!NotFound
    BY <1>1, <2>2, <2>3, RankTells
  <2>. QED
    BY <2>1, <2>4
<1>5. ASSUME NEW p \in H!Used
      PROVE  LET before == H!Cardinality({q \in H!Used : q < p})
             IN  H!IteratorMove(H!Begin, before, H!NextAfter) = p /\ H!IteratorMove(p, before, H!PrevBefore) = H!Begin
  <2>1. p \in Ends
    BY DEF Ends
  <2>2. H!Cardinality({q \in H!Used : q < p}) = Rank(p)
    BY DEF Rank, Cardinality, H!Cardinality
  <2>3. PICK n \in Nat : n = Rank(p) /\ n <= c
    BY <1>1, <1>2, <2>1, Ranks
  <2>4. H!IteratorMove(H!Begin, n, H!NextAfter) \in Ends /\ Rank(H!IteratorMove(H!Begin, n, H!NextAfter)) = n
    BY <1>1, <1>2, <2>3, ForwardRank
  <2>5. H!IteratorMove(H!Begin, n, H!NextAfter) = p
    BY <1>1, <2>1, <2>3, <2>4, RankTells
  <2>6. H!IteratorMove(p, n, H!PrevBefore) = H!Begin
    BY <1>1, <2>3, BackwardRank
  <2>. QED
    BY <2>2, <2>3, <2>5, <2>6
<1>. QED
  BY <1>2, <1>3, <1>4, <1>5
-----------------------------------------------------------------------------
(* HashTable: its operations act on a finite map.                           *)

ValuesIn(d, n, k) == {d[p].item.value : p \in {q \in 0 .. n - 1 : InUseAt(d, q) /\ d[q].item.key = k}}
ValuesAt(d, n, c, k) == IF c # NoItem /\ c.key = k THEN {c.value} ELSE ValuesIn(d, n, k)
MapOf(d, n, c) == [k \in Keys |-> ValuesAt(d, n, c, k)]

LEMMA MapIs ==
  ASSUME NEW n, DOMAIN data = 0 .. n - 1, NEW c, c = H!Incoming
  PROVE  H!Map = MapOf(data, n, c)
BY DEF H!Map, MapOf, ValuesAt, ValuesIn, H!Matches, InUseAt, H!InUse

LEMMA MapIsThen ==
  ASSUME NEW n, DOMAIN data' = 0 .. n - 1, NEW c, c = H!Incoming'
  PROVE  H!Map' = MapOf(data', n, c)
BY DEF H!Map, MapOf, ValuesAt, ValuesIn, H!Matches, InUseAt, H!InUse

\* The values of the key of a slot.
LEMMA ValuesOf ==
  ASSUME NEW d, NEW n, TableGood(d, n), NEW p \in 0 .. n - 1, InUseAt(d, p), NEW k, k = d[p].item.key
  PROVE  ValuesIn(d, n, k) = {d[p].item.value}
<1>1. \A q \in 0 .. n - 1 : InUseAt(d, q) /\ d[q].item.key = k <=> q = p
  BY TableParts
<1>. QED
  BY <1>1 DEF ValuesIn

LEMMA NoValues ==
  ASSUME NEW d, NEW n, NEW k, \A q \in 0 .. n - 1 : InUseAt(d, q) => d[q].item.key # k
  PROVE  ValuesIn(d, n, k) = {}
BY DEF ValuesIn

LEMMA SameValues ==
  ASSUME NEW d, NEW n, NEW f, NEW k,
         \A q \in 0 .. n - 1 : (InUseAt(d, q) /\ d[q].item.key = k) <=> (InUseAt(f, q) /\ f[q].item.key = k),
         \A q \in 0 .. n - 1 : InUseAt(d, q) /\ d[q].item.key = k => d[q].item = f[q].item
  PROVE  ValuesIn(d, n, k) = ValuesIn(f, n, k)
BY DEF ValuesIn

\* What is put down is there, and what gave way is carried instead.
LEMMA PutMap ==
  ASSUME NEW d, NEW n \in Nat \ {0}, NEW c \in H!Items, NEW p \in 0 .. n - 1, TableGood(d, n), Lacks(d, n, c),
         TableGood(Put(d, p, c), n), NEW o, o = d[p].item
  PROVE  MapOf(Put(d, p, c), n, o) = MapOf(d, n, c)
<1>1. PICK f : f = Put(d, p, c)
  OBVIOUS
<1>2. f[p].item = c /\ InUseAt(f, p) /\ (\A q \in 0 .. n - 1 : q # p => f[q] = d[q]) /\ c # NoItem
  BY <1>1, PutUsed, ItemFacts
<1>3. ASSUME NEW k \in Keys
      PROVE  ValuesAt(f, n, o, k) = ValuesAt(d, n, c, k)
  <2>1. CASE c.key = k
    <3>1. ValuesIn(f, n, k) = {c.value}
      BY <1>1, <1>2, <2>1, ValuesOf
    <3>2. ~ (o # NoItem /\ o.key = k)
      BY <2>1 DEF Lacks, InUseAt
    <3>. QED
      BY <1>2, <2>1, <3>1, <3>2 DEF ValuesAt
  <2>2. CASE c.key # k /\ o # NoItem /\ o.key = k
    <3>1. ValuesIn(d, n, k) = {o.value}
      BY <2>2, ValuesOf DEF InUseAt
    <3>. QED
      BY <2>2, <3>1 DEF ValuesAt
  <2>3. CASE c.key # k /\ ~ (o # NoItem /\ o.key = k)
    <3>1. \A q \in 0 .. n - 1 : (InUseAt(d, q) /\ d[q].item.key = k) <=> (InUseAt(f, q) /\ f[q].item.key = k)
      BY <1>2, <2>3 DEF InUseAt
    <3>2. \A q \in 0 .. n - 1 : InUseAt(d, q) /\ d[q].item.key = k => d[q].item = f[q].item
      BY <1>2, <2>3 DEF InUseAt
    <3>3. ValuesIn(d, n, k) = ValuesIn(f, n, k)
      BY <3>1, <3>2, SameValues
    <3>. QED
      BY <2>3, <3>3 DEF ValuesAt
  <2>. QED
    BY <2>1, <2>2, <2>3
<1>. QED
  BY <1>1, <1>3 DEF MapOf

LEMMA ReplaceMap ==
  ASSUME NEW d, NEW n \in Nat \ {0}, NEW c \in H!Items, NEW p \in 0 .. n - 1, TableGood(d, n),
         InUseAt(d, p), d[p].item.key = c.key, TableGood(Put(d, p, c), n)
  PROVE  MapOf(Put(d, p, c), n, NoItem) = MapOf(d, n, c)
<1>1. PICK f : f = Put(d, p, c)
  OBVIOUS
<1>2. f[p].item = c /\ InUseAt(f, p) /\ (\A q \in 0 .. n - 1 : q # p => f[q] = d[q]) /\ c # NoItem
  BY <1>1, PutUsed, ItemFacts
<1>3. ASSUME NEW k \in Keys
      PROVE  ValuesAt(f, n, NoItem, k) = ValuesAt(d, n, c, k)
  <2>1. CASE c.key = k
    <3>1. ValuesIn(f, n, k) = {c.value}
      BY <1>1, <1>2, <2>1, ValuesOf
    <3>. QED
      BY <1>2, <2>1, <3>1 DEF ValuesAt
  <2>2. CASE c.key # k
    <3>1. \A q \in 0 .. n - 1 : (InUseAt(d, q) /\ d[q].item.key = k) <=> (InUseAt(f, q) /\ f[q].item.key = k)
      BY <1>2, <2>2 DEF InUseAt
    <3>2. \A q \in 0 .. n - 1 : InUseAt(d, q) /\ d[q].item.key = k => d[q].item = f[q].item
      BY <1>2, <2>2 DEF InUseAt
    <3>3. ValuesIn(d, n, k) = ValuesIn(f, n, k)
      BY <3>1, <3>2, SameValues
    <3>. QED
      BY <2>2, <3>3 DEF ValuesAt
  <2>. QED
    BY <2>1, <2>2
<1>. QED
  BY <1>1, <1>3 DEF MapOf

LEMMA GrownMap ==
  ASSUME NEW d, NEW n, NEW f, NEW m, NEW c, ComesFrom(f, m, d, n), ComesFrom(d, n, f, m)
  PROVE  MapOf(f, m, c) = MapOf(d, n, c)
<1>1. ASSUME NEW k \in Keys
      PROVE  ValuesIn(f, m, k) = ValuesIn(d, n, k)
  <2>1. ASSUME NEW v \in ValuesIn(f, m, k)
        PROVE  v \in ValuesIn(d, n, k)
    <3>1. PICK q \in 0 .. m - 1 : InUseAt(f, q) /\ f[q].item.key = k /\ v = f[q].item.value
      BY DEF ValuesIn
    <3>2. PICK p \in 0 .. n - 1 : d[p].item = f[q].item
      BY <3>1 DEF ComesFrom
    <3>. QED
      BY <3>1, <3>2 DEF ValuesIn, InUseAt
  <2>2. ASSUME NEW v \in ValuesIn(d, n, k)
        PROVE  v \in ValuesIn(f, m, k)
    <3>1. PICK q \in 0 .. n - 1 : InUseAt(d, q) /\ d[q].item.key = k /\ v = d[q].item.value
      BY DEF ValuesIn
    <3>2. PICK p \in 0 .. m - 1 : f[p].item = d[q].item
      BY <3>1 DEF ComesFrom
    <3>. QED
      BY <3>1, <3>2 DEF ValuesIn, InUseAt
  <2>. QED
    BY <2>1, <2>2
<1>2. \A k \in Keys : ValuesAt(f, m, c, k) = ValuesAt(d, n, c, k)
  BY <1>1 DEF ValuesAt
<1>. QED
  BY <1>2 DEF MapOf

LEMMA InsertMap ==
  ASSUME NEW d, NEW n, NEW c \in H!Items
  PROVE  MapOf(d, n, c) = [MapOf(d, n, NoItem) EXCEPT ![c.key] = {c.value}]
<1>1. c # NoItem /\ c.key \in Keys
  BY HashAssumption DEF H!Items
<1>. QED
  BY <1>1 DEF MapOf, ValuesAt

WithoutKey(m, k) == [m EXCEPT ![k] = {}]

LEMMA EraseMap ==
  ASSUME NEW d, NEW n, NEW f, NEW p \in 0 .. n - 1, TableGood(d, n), InUseAt(d, p),
         f[p].item = NoItem, \A q \in 0 .. n - 1 : q # p => f[q] = d[q], NEW k, k = d[p].item.key
  PROVE  /\ k \in Keys
         /\ MapOf(f, n, NoItem) = WithoutKey(MapOf(d, n, NoItem), k)
         /\ MapOf(d, n, NoItem)[k] # {}
<1>1. d[p].item \in H!Items
  BY TableParts
<1>2. k \in Keys
  BY <1>1 DEF H!Items
<1>3. ValuesIn(d, n, k) = {d[p].item.value}
  BY ValuesOf
<1>4. \A q \in 0 .. n - 1 : InUseAt(f, q) => f[q].item.key # k
  BY TableParts DEF InUseAt
<1>5. ValuesIn(f, n, k) = {}
  BY <1>4, NoValues
<1>6. ASSUME NEW a \in Keys, a # k
      PROVE  ValuesIn(d, n, a) = ValuesIn(f, n, a)
  <2>1. \A q \in 0 .. n - 1 : (InUseAt(d, q) /\ d[q].item.key = a) <=> (InUseAt(f, q) /\ f[q].item.key = a)
    BY <1>6 DEF InUseAt
  <2>2. \A q \in 0 .. n - 1 : InUseAt(d, q) /\ d[q].item.key = a => d[q].item = f[q].item
    BY <1>6 DEF InUseAt
  <2>. QED
    BY <2>1, <2>2, SameValues
<1>7. MapOf(f, n, NoItem) = WithoutKey(MapOf(d, n, NoItem), k)
  BY <1>2, <1>5, <1>6 DEF MapOf, ValuesAt, WithoutKey
<1>8. MapOf(d, n, NoItem)[k] # {}
  BY <1>2, <1>3 DEF MapOf, ValuesAt
<1>. QED
  BY <1>2, <1>7, <1>8

\* What the abstract map does at a step.
MapStep == [H!FM!Next]_<<H!Map, H!Idle>>

LEMMA Stutters ==
  ASSUME H!Map' = H!Map, H!Idle' = H!Idle
  PROVE  MapStep
BY DEF MapStep

LEMMA MapPuts ==
  ASSUME H!Idle, ~ H!Idle', NEW c \in H!Items, H!Map' = [H!Map EXCEPT ![c.key] = {c.value}]
  PROVE  MapStep
<1>1. PICK k \in Keys, v \in Values : k = c.key /\ v = c.value
  BY DEF H!Items
<1>2. H!FM!Put(k, v)
  BY <1>1 DEF H!FM!Put
<1>. QED
  BY <1>2 DEF MapStep, H!FM!Next

LEMMA MapReturns ==
  ASSUME ~ H!Idle, H!Idle', H!Map' = H!Map
  PROVE  MapStep
<1>1. H!FM!PutReturns
  BY DEF H!FM!PutReturns
<1>. QED
  BY <1>1 DEF MapStep, H!FM!Next

LEMMA MapTakes ==
  ASSUME H!Idle, H!Idle', NEW k \in Keys, H!Map[k] # {}, H!Map' = [H!Map EXCEPT ![k] = {}]
  PROVE  MapStep
<1>1. H!FM!Take(k)
  BY DEF H!FM!Take
<1>. QED
  BY <1>1 DEF MapStep, H!FM!Next

LEMMA MapClears ==
  ASSUME H!Idle, H!Idle', H!Map' = [k \in Keys |-> {}]
  PROVE  MapStep
<1>1. H!FM!Clear
  BY DEF H!FM!Clear
<1>. QED
  BY <1>1 DEF MapStep, H!FM!Next

LEMMA InsertMaps ==
  ASSUME HashOK, ~lapped, NEW item \in H!Items, H!Insert(item) \/ H!InsertGrows(item)
  PROVE  MapStep
<1>1. PICK n : n = H!Size(data) /\ DOMAIN data = 0 .. n - 1
  BY DataIs
<1>2. H!Idle /\ carried = NoItem /\ pending = NoItem /\ data' = data
  BY DEF H!Insert, H!InsertGrows, H!Idle
<1>3. item # NoItem
  BY HashAssumption DEF H!Items
<1>4. item = H!Incoming' /\ ~ H!Idle'
  BY <1>2, <1>3 DEF H!Insert, H!InsertGrows, H!Carry, H!Incoming, H!Idle
<1>5. H!Incoming = NoItem
  BY <1>2 DEF H!Incoming
<1>6. H!Map' = MapOf(data, n, item)
  BY <1>1, <1>2, <1>4, MapIsThen
<1>7. H!Map = MapOf(data, n, NoItem)
  BY <1>1, <1>5, MapIs
<1>8. H!Map' = [H!Map EXCEPT ![item.key] = {item.value}]
  BY <1>6, <1>7, InsertMap
<1>. QED
  BY <1>2, <1>4, <1>8, MapPuts

\* In grow() the table that is in use stays as it is.
LEMMA GrowingMaps ==
  ASSUME HashOK, ~lapped, pending # NoItem, pending' = pending, data' = data
  PROVE  MapStep
<1>1. PICK n : n = H!Size(data) /\ DOMAIN data = 0 .. n - 1
  BY DataIs
<1>2. PICK c : c = H!Incoming /\ c = H!Incoming'
  BY DEF H!Incoming
<1>3. H!Map = MapOf(data, n, c) /\ H!Map' = MapOf(data, n, c)
  BY <1>1, <1>2, MapIs, MapIsThen
<1>4. H!Idle' = H!Idle
  BY DEF H!Idle
<1>. QED
  BY <1>3, <1>4, Stutters

LEMMA GrowEndsMaps ==
  ASSUME HashOK, ~lapped, H!GrowEnds
  PROVE  MapStep
<1>1. PICK n, m, c : n = H!Size(data) /\ m = H!Size(fresh) /\ c = pending
  OBVIOUS
<1>2. c # NoItem /\ carried = NoItem /\ from = n /\ data' = fresh /\ pending' = NoItem /\ carried' = c
  BY <1>1 DEF H!GrowEnds, H!Carry
<1>3. n \in Nat /\ TableGood(data, n) /\ DOMAIN data = 0 .. n - 1 /\ Growing(data, n, fresh, m, n, NoItem, pos, dist)
  BY <1>1, <1>2, DataIs DEF HashOK
<1>4. TableGood(fresh, m) /\ ComesFrom(fresh, m, data, n) /\ ComesFrom(data, n, fresh, m)
  BY <1>3, GrowEnds
<1>5. DOMAIN data' = 0 .. m - 1
  BY <1>2, <1>4, TableParts
<1>6. c = H!Incoming /\ c = H!Incoming'
  BY <1>1, <1>2 DEF H!Incoming
<1>7. H!Map = MapOf(data, n, c) /\ H!Map' = MapOf(fresh, m, c)
  BY <1>2, <1>3, <1>5, <1>6, MapIs, MapIsThen
<1>8. H!Map' = H!Map
  BY <1>4, <1>7, GrownMap
<1>9. H!Idle' = H!Idle
  BY <1>1, <1>2 DEF H!Idle
<1>. QED
  BY <1>8, <1>9, Stutters

LEMMA PlacesMaps ==
  ASSUME HashOK, ~lapped, H!Places, pending = NoItem
  PROVE  MapStep
<1>1. PICK s, c : s = H!Size(data) /\ c = carried
  OBVIOUS
<1>2. carried # NoItem /\ carried' = NoItem /\ pending' = NoItem /\ data' = Put(data, pos, c) /\ data = H!Target
  BY <1>1 DEF H!Places, H!CarryNothing, H!PutHere, H!Target, Put
<1>3. s \in Nat \ {0} /\ TableGood(data, s) /\ Carrying(data, s, c, pos, dist) /\ pos \in 0 .. s - 1 /\ c \in H!Items
  BY <1>1, <1>2, TargetIs
<1>4. H!Here = data[pos] /\ (InUseAt(data, pos) => data[pos].hash # 0)
      /\ (data[pos].hash # 0 => H!HereDistance = Way(data[pos], pos, s)) /\ H!InUse(H!Here) = InUseAt(data, pos)
  BY <1>1, <1>2, TargetIs
<1>5. ~ InUseAt(data, pos) /\ (data[pos].hash # 0 => Way(data[pos], pos, s) < dist)
  BY <1>4 DEF H!Places, H!IsFree
<1>6. GivesWay(data, s, pos, dist)
  BY <1>3, <1>5 DEF GivesWay
<1>7. Lacks(data, s, c)
  BY <1>3, <1>5, <1>6, NoneBehind
<1>8. TableGood(Put(data, pos, c), s)
  BY <1>3, <1>6, <1>7, FillGood
<1>9. NoItem = data[pos].item
  BY <1>5 DEF InUseAt
<1>10. MapOf(Put(data, pos, c), s, NoItem) = MapOf(data, s, c)
  BY <1>3, <1>7, <1>8, <1>9, PutMap
<1>11. DOMAIN data = 0 .. s - 1 /\ DOMAIN data' = 0 .. s - 1
  BY <1>2, <1>3, PutUsed, TableParts
<1>12. c = H!Incoming /\ NoItem = H!Incoming'
  BY <1>1, <1>2 DEF H!Incoming
<1>13. H!Map = MapOf(data, s, c) /\ H!Map' = MapOf(Put(data, pos, c), s, NoItem)
  BY <1>2, <1>11, <1>12, MapIs, MapIsThen
<1>14. ~ H!Idle /\ H!Idle'
  BY <1>2 DEF H!Idle
<1>. QED
  BY <1>10, <1>13, <1>14, MapReturns

LEMMA SwapsMaps ==
  ASSUME HashOK, ~lapped, H!Swaps, pending = NoItem
  PROVE  MapStep
<1>1. PICK s, c, o : s = H!Size(data) /\ c = carried /\ o = data[pos].item
  OBVIOUS
<1>2. carried # NoItem /\ pending' = NoItem /\ data' = Put(data, pos, c) /\ data = H!Target
  BY <1>1 DEF H!Swaps, H!Advance, H!PutHere, H!Target, Put
<1>3. s \in Nat \ {0} /\ TableGood(data, s) /\ Carrying(data, s, c, pos, dist) /\ pos \in 0 .. s - 1 /\ c \in H!Items
  BY <1>1, <1>2, TargetIs
<1>4. H!Here = data[pos] /\ (InUseAt(data, pos) => data[pos].hash # 0)
      /\ (data[pos].hash # 0 => H!HereDistance = Way(data[pos], pos, s)) /\ H!InUse(H!Here) = InUseAt(data, pos)
  BY <1>1, <1>2, TargetIs
<1>5. InUseAt(data, pos) /\ Way(data[pos], pos, s) < dist /\ data[pos].item.key # c.key /\ carried' = o
  BY <1>1, <1>4 DEF H!Swaps, H!IsSame, H!Advance
<1>6. GivesWay(data, s, pos, dist)
  BY <1>3, <1>5 DEF GivesWay
<1>7. Lacks(data, s, c)
  BY <1>3, <1>5, <1>6, NoneBehind
<1>8. TableGood(Put(data, pos, c), s)
  BY <1>3, <1>6, <1>7, FillGood
<1>9. MapOf(Put(data, pos, c), s, o) = MapOf(data, s, c)
  BY <1>1, <1>3, <1>7, <1>8, PutMap
<1>10. DOMAIN data = 0 .. s - 1 /\ DOMAIN data' = 0 .. s - 1
  BY <1>2, <1>3, PutUsed, TableParts
<1>11. c = H!Incoming /\ o = H!Incoming'
  BY <1>1, <1>2, <1>5 DEF H!Incoming
<1>12. H!Map = MapOf(data, s, c) /\ H!Map' = MapOf(Put(data, pos, c), s, o)
  BY <1>2, <1>10, <1>11, MapIs, MapIsThen
<1>13. o # NoItem
  BY <1>1, <1>5 DEF InUseAt
<1>14. H!Idle' = H!Idle
  BY <1>2, <1>5, <1>13 DEF H!Idle
<1>. QED
  BY <1>9, <1>12, <1>14, Stutters

LEMMA PassesMaps ==
  ASSUME HashOK, ~lapped, H!Passes, pending = NoItem
  PROVE  MapStep
<1>1. PICK n, c : n = H!Size(data) /\ DOMAIN data = 0 .. n - 1 /\ c = carried
  BY DataIs
<1>2. carried' = carried /\ pending' = pending /\ data' = data
  BY DEF H!Passes, H!Advance
<1>3. c = H!Incoming /\ c = H!Incoming'
  BY <1>1, <1>2 DEF H!Incoming
<1>4. H!Map = MapOf(data, n, c) /\ H!Map' = MapOf(data, n, c)
  BY <1>1, <1>2, <1>3, MapIs, MapIsThen
<1>5. H!Idle' = H!Idle
  BY <1>2 DEF H!Idle
<1>. QED
  BY <1>4, <1>5, Stutters

LEMMA ReplacesMaps ==
  ASSUME HashOK, ~lapped, H!Replaces
  PROVE  MapStep
<1>0. pending = NoItem
  BY ReplacesKeeps
<1>1. PICK s, c : s = H!Size(data) /\ c = carried
  OBVIOUS
<1>2. carried # NoItem /\ carried' = NoItem /\ pending' = NoItem /\ lapped' = lapped
      /\ data' = Put(data, pos, c) /\ data = H!Target
  BY <1>0, <1>1 DEF H!Replaces, H!CarryNothing, H!PutHere, H!Target, Put
<1>3. s \in Nat \ {0} /\ TableGood(data, s) /\ pos \in 0 .. s - 1 /\ c \in H!Items
      /\ H!Here = data[pos] /\ H!InUse(H!Here) = InUseAt(data, pos)
  BY <1>1, <1>2, TargetIs
<1>4. InUseAt(data, pos) /\ data[pos].item.key = c.key
  BY <1>1, <1>3 DEF H!Replaces, H!IsSame
<1>5. DOMAIN data = 0 .. s - 1 /\ DOMAIN data' = 0 .. s - 1
  BY <1>2, <1>3, PutUsed, TableParts
<1>6. H!Size(data') = s
  BY <1>3, <1>5, SizeIs
<1>7. TableGood(Put(data, pos, c), s)
  <2>1. HashOK'
    BY ReplacesKeeps
  <2>. QED
    BY <1>2, <1>6, <2>1 DEF HashOK, InTable
<1>8. MapOf(Put(data, pos, c), s, NoItem) = MapOf(data, s, c)
  BY <1>3, <1>4, <1>7, ReplaceMap
<1>9. c = H!Incoming /\ NoItem = H!Incoming'
  BY <1>0, <1>1, <1>2 DEF H!Incoming
<1>10. H!Map = MapOf(data, s, c) /\ H!Map' = MapOf(Put(data, pos, c), s, NoItem)
  BY <1>2, <1>5, <1>9, MapIs, MapIsThen
<1>11. ~ H!Idle /\ H!Idle'
  BY <1>2 DEF H!Idle
<1>. QED
  BY <1>8, <1>10, <1>11, MapReturns

LEMMA EraseMaps ==
  ASSUME HashOK, ~lapped, H!Idle, NEW p \in H!Used, H!Erase(p)
  PROVE  MapStep
<1>1. PICK n : n = H!Size(data)
  OBVIOUS
<1>2. n \in Nat /\ DOMAIN data = 0 .. n - 1 /\ TableGood(data, n) /\ H!Used = UsedIn(data, n)
  BY <1>1, DataIs
<1>3. p \in 0 .. n - 1 /\ InUseAt(data, p)
  BY <1>2 DEF UsedIn
<1>4. data[p] \in SlotSet
  BY <1>2, <1>3, TableParts
<1>5. H!Deleted(data[p]).item = NoItem
  BY <1>4 DEF H!Deleted, SlotSet
<1>6. PICK f : f = H!Ripple(p)
  OBVIOUS
<1>7. f[p].item = NoItem /\ DOMAIN f = 0 .. n - 1 /\ \A q \in 0 .. n - 1 : q # p => f[q] = data[q]
  BY <1>2, <1>3, <1>5, <1>6 DEF H!Ripple
<1>8. data' = f /\ pending' = pending /\ carried' = carried /\ pending = NoItem /\ carried = NoItem
  BY <1>6 DEF H!Erase, H!Idle
<1>9. NoItem = H!Incoming /\ NoItem = H!Incoming'
  BY <1>8 DEF H!Incoming
<1>10. H!Map = MapOf(data, n, NoItem) /\ H!Map' = MapOf(f, n, NoItem)
  BY <1>2, <1>7, <1>8, <1>9, MapIs, MapIsThen
<1>11. PICK k : k = data[p].item.key
  OBVIOUS
<1>12. /\ k \in Keys
       /\ MapOf(f, n, NoItem) = WithoutKey(MapOf(data, n, NoItem), k)
       /\ MapOf(data, n, NoItem)[k] # {}
  BY <1>2, <1>3, <1>7, <1>11, EraseMap
<1>13. H!Idle'
  BY <1>8 DEF H!Idle
<1>. QED
  BY <1>10, <1>12, <1>13, MapTakes DEF WithoutKey

LEMMA ClearMaps ==
  ASSUME HashOK, ~lapped, H!Clear
  PROVE  MapStep
<1>1. PICK n : n = H!Size(data) /\ DOMAIN data = 0 .. n - 1
  BY DataIs
<1>2. pending' = NoItem /\ carried' = NoItem /\ DOMAIN data' = 0 .. n - 1 /\ H!Idle
  BY <1>1 DEF H!Clear, H!Idle
<1>3. \A q \in 0 .. n - 1 : ~ InUseAt(data', q)
  BY <1>2, ClearKeeps
<1>4. NoItem = H!Incoming'
  BY <1>2 DEF H!Incoming
<1>5. H!Map' = MapOf(data', n, NoItem)
  BY <1>2, <1>4, MapIsThen
<1>6. \A k \in Keys : ValuesAt(data', n, NoItem, k) = {}
  BY <1>3, NoValues DEF ValuesAt
<1>7. H!Map' = [k \in Keys |-> {}]
  BY <1>5, <1>6 DEF MapOf
<1>8. H!Idle'
  BY <1>2 DEF H!Idle
<1>. QED
  BY <1>2, <1>7, <1>8, MapClears

LEMMA HashMaps ==
  ASSUME HashOK, ~lapped, H!Next
  PROVE  MapStep
<1>1. ASSUME NEW item \in H!Items, H!Insert(item) \/ H!InsertGrows(item)
      PROVE  MapStep
  BY <1>1, InsertMaps
<1>2. ASSUME H!GrowMoves
      PROVE  MapStep
  <2>1. pending # NoItem /\ pending' = pending /\ data' = data
    BY <1>2 DEF H!GrowMoves
  <2>. QED
    BY <2>1, GrowingMaps
<1>3. ASSUME H!GrowEnds
      PROVE  MapStep
  BY <1>3, GrowEndsMaps
<1>4. ASSUME H!Places \/ H!Swaps \/ H!Passes
      PROVE  MapStep
  <2>1. CASE pending = NoItem
    BY <1>4, <2>1, PlacesMaps, SwapsMaps, PassesMaps
  <2>2. CASE pending # NoItem
    <3>1. pending' = pending /\ data' = data
      BY <1>4, <2>2 DEF H!Places, H!Swaps, H!Passes, H!Advance, H!PutHere
    <3>. QED
      BY <2>2, <3>1, GrowingMaps
  <2>. QED
    BY <2>1, <2>2
<1>5. ASSUME H!Replaces
      PROVE  MapStep
  BY <1>5, ReplacesMaps
<1>6. ASSUME NEW k \in Keys, H!Remove(k)
      PROVE  MapStep
  BY <1>6, RemoveErases, EraseMaps
<1>7. ASSUME H!Pop
      PROVE  MapStep
  BY <1>7, PopErases, EraseMaps
<1>8. ASSUME H!Clear
      PROVE  MapStep
  BY <1>8, ClearMaps
<1>. QED
  BY <1>1, <1>2, <1>3, <1>4, <1>5, <1>6, <1>7, <1>8 DEF H!Next

\* A table that is not in use, or that nothing is said of, stays as it is.
LEMMA HashStays ==
  ASSUME [MCNext]_<<used, bigVars, dataVars, otherVars>>
  PROVE  (~lapped /\ H!Next) \/ UNCHANGED hashVars
BY Zenon DEF MCNext, BigNext, DataNext, OtherNext, bigVars

LEMMA HashOKHolds == MCSpec => []HashOK
<1>1. MCInit => HashOK
  BY HashStarts DEF MCInit
<1>2. HashOK /\ [MCNext]_<<used, bigVars, dataVars, otherVars>> => HashOK'
  <2> SUFFICES ASSUME HashOK, [MCNext]_<<used, bigVars, dataVars, otherVars>> PROVE HashOK'
    OBVIOUS
  <2>1. CASE ~lapped /\ H!Next
    BY <2>1, HashSteps
  <2>2. CASE UNCHANGED hashVars
    BY <2>2 DEF hashVars, HashOK
  <2>. QED
    BY <2>1, <2>2, HashStays
<1>. QED
  BY <1>1, <1>2, PTL DEF MCSpec

\* LookupAndWalk (HashTable): as long as no item has been carried round the whole
\* table, find() finds a key exactly if a slot holds it, and the iterators walk
\* over each slot in use once, forwards and back.
THEOREM FindsAndWalks == MCSpec => []LookupAndWalk
<1>1. HashOK => LookupAndWalk
  BY LookupHolds, WalksHolds DEF LookupAndWalk
<1>. QED
  BY <1>1, HashOKHolds, PTL

\* ActsAsMap (HashTable): every step of its operations is one of FiniteMap or no
\* step at all, with what it stands for read from the slots and from the item
\* on its way.
THEOREM TableActsAsMap == MCSpec => ActsAsMap
<1>1. HashOK /\ [MCNext]_<<used, bigVars, dataVars, otherVars>> => [~lapped => MapStep]_hashVars
  <2> SUFFICES ASSUME HashOK, [MCNext]_<<used, bigVars, dataVars, otherVars>> PROVE [~lapped => MapStep]_hashVars
    OBVIOUS
  <2>1. CASE ~lapped /\ H!Next
    BY <2>1, HashMaps
  <2>2. CASE UNCHANGED hashVars
    BY <2>2
  <2>. QED
    BY <2>1, <2>2, HashStays
<1>2. MCSpec => [][~lapped => MapStep]_hashVars
  BY <1>1, HashOKHolds, PTL DEF MCSpec
<1>3. ActsAsMap <=> [][~lapped => MapStep]_hashVars
  BY DEF ActsAsMap, H!ActsAsMap, MapStep, hashVars, H!vars
<1>. QED
  BY <1>2, <1>3
=============================================================================
