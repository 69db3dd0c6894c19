----------------------------- MODULE VectorProofs ------------------------------
(***************************************************************************)
(* Theorems about the machines of module Vector, for all values, keys,     *)
(* capacities and lengths: a Table is in order, finds the first of equal   *)
(* items and puts the newest before them; a Vector holds what was put in;  *)
(* a ScopedArrayPtr keeps its data.                                        *)
(*                                                                         *)
(* The array comes first: for each of its operations a lemma says what the *)
(* record is that it returns (IsArray, IsClean) and which sequence that    *)
(* holds (Made).  The code's loops are recursive functions in the model:   *)
(* IterationExists and RecursionExists say, by the least argument at which *)
(* it would fail (LeastOf), that such a function satisfies its definition, *)
(* and a lemma named ...Is what the loop has computed when it ends.        *)
(***************************************************************************)
EXTENDS MCContainers, FiniteSetTheorems, WellFoundedInduction, TLAPS
-----------------------------------------------------------------------------
(* The array of a Vector.                                                   *)

\* What may be written in a place, when the array holds items of X.
Slots(X) == UNION {[0 .. n - 1 -> X \cup {Raw}] : n \in Nat}
Arrays(X) == [pod : BOOLEAN, cap : Nat, size : Nat, data : Slots(X), ok : BOOLEAN]
IsArray(v, X) ==
  /\ v \in Arrays(X) /\ v.size <= v.cap /\ v.data \in [0 .. v.cap - 1 -> X \cup {Raw}]
  /\ \A p \in 0 .. v.size - 1 : v.data[p] \in X
\* Where there is no object the place is raw, unless it holds plain data.
IsClean(v, X) == v.pod \/ \A p \in 0 .. v.cap - 1 : p >= v.size => v.data[p] = Raw

LEMMA VectorFacts ==
  /\ FirstCapacity \in Nat \ {0} /\ MaxCapacity \in Nat /\ Count \in Nat /\ MaxLen \in Nat
  /\ Raw \notin Values \cup {Zero} /\ TableKeys \subseteq Int
BY VectorAssumption

\* An array of n places is one of the arrays.
LEMMA SlotsHave ==
  ASSUME NEW X, NEW n \in Nat, NEW f \in [0 .. n - 1 -> X \cup {Raw}]
  PROVE  f \in Slots(X)
BY DEF Slots

\* The contents are the items of the places below m_size.
LEMMA ContentsAre ==
  ASSUME NEW X, NEW v, IsArray(v, X)
  PROVE  /\ V!Contents(v) \in Seq(X) /\ Len(V!Contents(v)) = v.size
         /\ \A i \in 1 .. v.size : V!Contents(v)[i] = v.data[i - 1]
         /\ v.size \in Nat /\ v.cap \in Nat /\ v.size <= v.cap
<1>1. v.size \in Nat /\ v.cap \in Nat /\ v.size <= v.cap
  BY DEF IsArray, Arrays
<1>2. V!Contents(v) = [i \in 1 .. v.size |-> v.data[i - 1]]
  BY DEF V!Contents
<1>3. \A i \in 1 .. v.size : v.data[i - 1] \in X
  <2>1. ASSUME NEW i \in 1 .. v.size
        PROVE  v.data[i - 1] \in X
    <3>1. i - 1 \in 0 .. v.size - 1
      BY <1>1
    <3>. QED
      BY <3>1 DEF IsArray
  <2>. QED
    BY <2>1
<1>. QED
  BY <1>1, <1>2, <1>3

Made(v, s, c, w) ==
  /\ V!Contents(w) = s /\ w.size = Len(s) /\ w.cap = c /\ w.pod = v.pod /\ w.ok = v.ok
  /\ \A i \in 1 .. Len(s) : w.data[i - 1] = s[i]

\* A new array of c places holds the sequence it is made of.
LEMMA HoldingIs ==
  ASSUME NEW X, NEW v, IsArray(v, X), NEW s \in Seq(X), NEW c \in Nat, Len(s) <= c
  PROVE  IsArray(V!Holding(v, s, c), X) /\ IsClean(V!Holding(v, s, c), X) /\ Made(v, s, c, V!Holding(v, s, c))
<1> DEFINE f == [p \in 0 .. c - 1 |->
                   IF p < Len(s) THEN s[p + 1] ELSE IF v.pod /\ p < v.cap THEN v.data[p] ELSE Raw]
           w == [pod |-> v.pod, cap |-> c, size |-> Len(s), data |-> f, ok |-> v.ok]
<1>1. v \in Arrays(X) /\ v.data \in [0 .. v.cap - 1 -> X \cup {Raw}] /\ v.cap \in Nat
  BY DEF IsArray, Arrays
<1>2. Len(s) \in Nat /\ \A i \in 1 .. Len(s) : s[i] \in X
  OBVIOUS
<1>3. f \in [0 .. c - 1 -> X \cup {Raw}]
  <2>1. ASSUME NEW p \in 0 .. c - 1
        PROVE  (IF p < Len(s) THEN s[p + 1] ELSE IF v.pod /\ p < v.cap THEN v.data[p] ELSE Raw) \in X \cup {Raw}
    <3>1. CASE p < Len(s)
      BY <1>2, <3>1
    <3>2. CASE ~ (p < Len(s))
      <4>1. p < v.cap => v.data[p] \in X \cup {Raw}
        BY <1>1
      <4>. QED
        BY <3>2, <4>1
    <3>. QED
      BY <3>1, <3>2
  <2>. QED
    BY <2>1
<1>4. V!Holding(v, s, c) = w
  BY Zenon DEF V!Holding
<1>5. \A i \in 1 .. Len(s) : f[i - 1] = s[i]
  BY <1>2
<1>6. \A p \in 0 .. c - 1 : p >= Len(s) => v.pod \/ f[p] = Raw
  BY <1>2
<1>7. f \in Slots(X)
  BY <1>3, SlotsHave
<1>. HIDE DEF f
<1>8. w \in Arrays(X)
  BY <1>1, <1>2, <1>7 DEF Arrays
<1>9. \A p \in 0 .. Len(s) - 1 : f[p] \in X
  <2>1. ASSUME NEW p \in 0 .. Len(s) - 1
        PROVE  f[p] \in X
    <3>1. p + 1 \in 1 .. Len(s) /\ (p + 1) - 1 = p
      BY <1>2
    <3>. QED
      BY <1>2, <1>5, <3>1
  <2>. QED
    BY <2>1
<1>10. V!Contents(w) = s
  BY <1>2, <1>5 DEF V!Contents
<1>11. IsArray(w, X)
  BY <1>2, <1>3, <1>8, <1>9 DEF IsArray
<1>12. IsClean(w, X)
  BY <1>6 DEF IsClean
<1>. QED
  BY <1>4, <1>5, <1>10, <1>11, <1>12 DEF Made
-----------------------------------------------------------------------------
(* Items put into the array and taken out of it.                            *)

\* The sequences a and b joined are r.
AreJoined(a, b, r) ==
  /\ Len(r) = Len(a) + Len(b)
  /\ \A j \in 1 .. Len(a) : r[j] = a[j]
  /\ \A j \in 1 .. Len(a) + Len(b) : j > Len(a) => r[j] = b[j - Len(a)]

\* What two sequences put together have at each place.
LEMMA Joined ==
  ASSUME NEW X, NEW a \in Seq(X), NEW b \in Seq(X)
  PROVE  a \o b \in Seq(X) /\ AreJoined(a, b, a \o b)
<1>1. a \o b \in Seq(X) /\ Len(a \o b) = Len(a) + Len(b)
  OBVIOUS
<1>2. \A j \in 1 .. Len(a) : (a \o b)[j] = a[j]
  OBVIOUS
<1>3. ASSUME NEW j \in 1 .. Len(a) + Len(b), j > Len(a)
      PROVE  (a \o b)[j] = b[j - Len(a)]
  BY <1>3
<1>. QED
  BY <1>1, <1>2, <1>3 DEF AreJoined

\* A sequence with one item put in, place by place.
LEMMA InsertAtIs ==
  ASSUME NEW X, NEW s \in Seq(X), NEW i \in 1 .. Len(s) + 1, NEW e \in X
  PROVE  /\ V!InsertAt(s, i, e) \in Seq(X) /\ Len(V!InsertAt(s, i, e)) = Len(s) + 1
         /\ \A j \in 1 .. Len(s) + 1 :
              V!InsertAt(s, i, e)[j] = IF j < i THEN s[j] ELSE IF j = i THEN e ELSE s[j - 1]
<1> DEFINE a == SubSeq(s, 1, i - 1)
           b == SubSeq(s, i, Len(s))
           ae == a \o <<e>>
           n == Len(s)
<1>0. n \in Nat /\ i \in Nat /\ i - 1 \in Nat /\ n - i + 1 \in Nat /\ i <= n + 1 /\ i >= 1
  OBVIOUS
<1>1. a \in Seq(X) /\ Len(a) = i - 1 /\ \A j \in 1 .. i - 1 : a[j] = s[j]
  OBVIOUS
<1>2. b \in Seq(X) /\ Len(b) = n - i + 1 /\ \A j \in 1 .. n - i + 1 : b[j] = s[j + i - 1]
  OBVIOUS
<1>3. <<e>> \in Seq(X) /\ Len(<<e>>) = 1 /\ <<e>>[1] = e
  OBVIOUS
<1>4. V!InsertAt(s, i, e) = ae \o b
  BY DEF V!InsertAt
<1>. HIDE DEF a, b
<1>5. /\ ae \in Seq(X) /\ Len(ae) = (i - 1) + 1
      /\ \A j \in 1 .. i - 1 : ae[j] = a[j]
      /\ \A j \in 1 .. (i - 1) + 1 : j > i - 1 => ae[j] = <<e>>[j - (i - 1)]
  <2>1. ae \in Seq(X) /\ AreJoined(a, <<e>>, ae)
    BY <1>1, <1>3, Joined
  <2>. HIDE DEF ae
  <2>. QED
    BY <1>1, <1>3, <2>1 DEF AreJoined
<1>. HIDE DEF ae, n
<1>6. (i - 1) + 1 = i
  BY <1>0
<1>7. ae \in Seq(X) /\ Len(ae) = i
  BY <1>5, <1>6
<1>8. /\ ae \o b \in Seq(X) /\ Len(ae \o b) = i + (n - i + 1)
      /\ \A j \in 1 .. i : (ae \o b)[j] = ae[j]
      /\ \A j \in 1 .. i + (n - i + 1) : j > i => (ae \o b)[j] = b[j - i]
  <2>1. ae \o b \in Seq(X) /\ AreJoined(ae, b, ae \o b)
    BY <1>2, <1>7, Joined
  <2>. QED
    BY <1>2, <1>7, <2>1 DEF AreJoined
<1>9. i + (n - i + 1) = n + 1
  BY <1>0
<1>10. ASSUME NEW j \in 1 .. n + 1
       PROVE  (ae \o b)[j] = IF j < i THEN s[j] ELSE IF j = i THEN e ELSE s[j - 1]
  <2>0. j \in Nat
    BY <1>0
  <2>1. CASE j < i
    <3>1. j \in 1 .. i /\ j \in 1 .. i - 1
      BY <1>0, <2>1
    <3>. QED
      BY <1>1, <1>5, <1>8, <2>1, <3>1
  <2>2. CASE j = i
    <3>1. i \in 1 .. i /\ i \in 1 .. (i - 1) + 1 /\ i > i - 1 /\ i - (i - 1) = 1 /\ ~ (i < i)
      BY <1>0
    <3>2. ae[i] = e
      BY <1>3, <1>5, <3>1
    <3>. QED
      BY <1>8, <2>2, <3>1, <3>2
  <2>3. CASE j > i
    <3>1. j - i \in 1 .. n - i + 1 /\ (j - i) + i - 1 = j - 1 /\ ~ (j < i) /\ j # i
      BY <1>0, <2>0, <2>3
    <3>2. (ae \o b)[j] = b[j - i]
      BY <1>8, <1>9, <2>3
    <3>3. b[j - i] = s[j - 1]
      BY <1>2, <3>1
    <3>. QED
      BY <3>1, <3>2, <3>3
  <2>4. j < i \/ j = i \/ j > i
    BY <1>0, <2>0
  <2>. QED
    BY ONLY <2>1, <2>2, <2>3, <2>4
<1>. QED
  BY <1>4, <1>8, <1>9, <1>10 DEF n

\* The sequence s is c with e before what was at i.
IsPut(X, c, i, e, s) ==
  /\ s \in Seq(X) /\ Len(s) = Len(c) + 1
  /\ \A j \in 1 .. Len(c) + 1 : s[j] = IF j < i THEN c[j] ELSE IF j = i THEN e ELSE c[j - 1]

LEMMA PutIs ==
  ASSUME NEW X, NEW c \in Seq(X), NEW i \in 1 .. Len(c) + 1, NEW e \in X
  PROVE  IsPut(X, c, i, e, V!InsertAt(c, i, e))
BY InsertAtIs DEF IsPut

\* s without the n items after the first i.
Cut(s, i, n) == SubSeq(s, 1, i) \o SubSeq(s, i + n + 1, Len(s))
\* ... which is r.
IsCut(s, i, n, r) == Len(r) = Len(s) - n /\ \A j \in 1 .. Len(s) - n : r[j] = IF j <= i THEN s[j] ELSE s[j + n]

\* A sequence with n items cut out, place by place.
LEMMA CutIs ==
  ASSUME NEW X, NEW s \in Seq(X), NEW i \in Nat, NEW n \in Nat, i + n <= Len(s)
  PROVE  Cut(s, i, n) \in Seq(X) /\ IsCut(s, i, n, Cut(s, i, n))
<1> DEFINE a == SubSeq(s, 1, i)
           b == SubSeq(s, i + n + 1, Len(s))
           k == Len(s)
           m == k - i - n
<1>0. k \in Nat /\ m \in Nat /\ i + m = k - n
  OBVIOUS
<1>1. a \in Seq(X) /\ Len(a) = i /\ \A j \in 1 .. i : a[j] = s[j]
  OBVIOUS
<1>2. b \in Seq(X) /\ Len(b) = m /\ \A j \in 1 .. m : b[j] = s[j + i + n]
  OBVIOUS
<1>3. Cut(s, i, n) = a \o b
  BY DEF Cut
<1>. HIDE DEF a, b, m
<1>4. /\ a \o b \in Seq(X) /\ Len(a \o b) = i + m
      /\ \A j \in 1 .. i : (a \o b)[j] = a[j]
      /\ \A j \in 1 .. i + m : j > i => (a \o b)[j] = b[j - i]
  <2>1. a \o b \in Seq(X) /\ AreJoined(a, b, a \o b)
    BY <1>1, <1>2, Joined
  <2>. QED
    BY <1>1, <1>2, <2>1 DEF AreJoined
<1>. HIDE DEF k
<1>5. ASSUME NEW j \in 1 .. k - n
      PROVE  (a \o b)[j] = IF j <= i THEN s[j] ELSE s[j + n]
  <2>0. j \in Nat /\ j \in 1 .. i + m
    BY <1>0
  <2>1. CASE j <= i
    <3>1. j \in 1 .. i
      BY <2>0, <2>1
    <3>. QED
      BY <1>1, <1>4, <2>1, <3>1
  <2>2. CASE j > i
    <3>1. j - i \in 1 .. m /\ (j - i) + i + n = j + n /\ ~ (j <= i)
      BY <1>0, <2>0, <2>2
    <3>2. (a \o b)[j] = b[j - i]
      BY <1>4, <2>0, <2>2
    <3>. QED
      BY <1>2, <3>1, <3>2
  <2>3. j <= i \/ j > i
    BY <2>0
  <2>. QED
    BY ONLY <2>1, <2>2, <2>3
<1>. QED
  BY <1>0, <1>3, <1>4, <1>5 DEF k, IsCut

\* insert_at(): the contents with one item more, where there is room for it.
LEMMA InsertedIs ==
  ASSUME NEW X, NEW v, IsArray(v, X), NEW pos1 \in Int, NEW e \in X
  PROVE  /\ V!Place(v, pos1) \in 0 .. v.size
         /\ V!CanInsert(v) =>
              /\ IsArray(V!Inserted(v, pos1, e), X) /\ IsClean(V!Inserted(v, pos1, e), X)
              /\ Made(v, V!InsertAt(V!Contents(v), V!Place(v, pos1) + 1, e), V!InsertCapacity(v), V!Inserted(v, pos1, e))
         /\ ~ V!CanInsert(v) => V!Inserted(v, pos1, e) = v
<1> DEFINE c == V!InsertCapacity(v)
           s == V!InsertAt(V!Contents(v), V!Place(v, pos1) + 1, e)
<1>1. /\ V!Contents(v) \in Seq(X) /\ Len(V!Contents(v)) = v.size
      /\ v.size \in Nat /\ v.cap \in Nat /\ v.size <= v.cap
  BY ContentsAre
<1>2. V!Place(v, pos1) \in 0 .. v.size
  BY <1>1 DEF V!Place
<1>3. s \in Seq(X) /\ Len(s) = v.size + 1
  <2>1. V!Place(v, pos1) + 1 \in 1 .. Len(V!Contents(v)) + 1
    BY <1>1, <1>2
  <2>. QED
    BY <1>1, <2>1, InsertAtIs
<1>4. c \in Nat /\ v.size + 1 <= c
  <2>1. V!Wanted(v) > v.size \/ v.size < v.cap
    BY <1>1, VectorFacts DEF V!Wanted
  <2>2. ASSUME NEW n \in Nat
        PROVE  V!Rounded(n) \in Nat /\ V!Rounded(n) > n
    BY DEF V!Rounded
  <2>3. V!Wanted(v) \in Nat
    BY <1>1, VectorFacts DEF V!Wanted
  <2>4. V!Rounded(V!Wanted(v)) \in Nat /\ V!Rounded(V!Wanted(v)) > V!Wanted(v)
    BY <2>2, <2>3
  <2>5. c = IF v.size < v.cap THEN v.cap ELSE IF v.pod THEN V!Rounded(V!Wanted(v)) ELSE V!Wanted(v)
    BY DEF V!InsertCapacity
  <2>. HIDE DEF s, c
  <2>6. CASE v.size < v.cap
    BY <1>1, <2>5, <2>6
  <2>7. CASE ~ (v.size < v.cap)
    <3>1. V!Wanted(v) >= v.size + 1 /\ V!Rounded(V!Wanted(v)) >= v.size + 1
      BY <1>1, <2>1, <2>3, <2>4, <2>7
    <3>. QED
      BY <2>3, <2>4, <2>5, <2>7, <3>1
  <2>. QED
    BY <2>6, <2>7
<1>5. V!CanInsert(v) => V!Inserted(v, pos1, e) = V!Holding(v, s, c)
  BY DEF V!Inserted
<1>6. ~ V!CanInsert(v) => V!Inserted(v, pos1, e) = v
  BY DEF V!Inserted
<1>. HIDE DEF s, c
<1>7. IsArray(V!Holding(v, s, c), X) /\ IsClean(V!Holding(v, s, c), X) /\ Made(v, s, c, V!Holding(v, s, c))
  BY <1>3, <1>4, HoldingIs
<1>. QED
  BY <1>2, <1>5, <1>6, <1>7 DEF s, c

LEMMA TakenIs ==
  ASSUME NEW X, NEW v, IsArray(v, X), NEW pos1 \in Int, NEW len \in Nat
  PROVE  /\ V!Taken(v, pos1, len) \in Nat
         /\ V!Taken(v, pos1, len) # 0 => pos1 \in Nat /\ pos1 + V!Taken(v, pos1, len) <= v.size
         /\ len # 0 /\ pos1 \in 0 .. v.size - 1 => V!Taken(v, pos1, len) # 0
         /\ V!Taken(v, pos1, 1) = IF pos1 \in 0 .. v.size - 1 THEN 1 ELSE 0
<1>1. v.size \in Nat
  BY ContentsAre
<1>. QED
  BY <1>1 DEF V!Taken

\* remove_at() of objects cuts out what it takes.
LEMMA RemovedObjectsAre ==
  ASSUME NEW X, NEW v, IsArray(v, X), NEW i \in Nat, NEW n \in Nat, i + n <= v.size
  PROVE  /\ IsArray(V!RemovedObjects(v, i, n), X) /\ IsClean(V!RemovedObjects(v, i, n), X)
         /\ Made(v, Cut(V!Contents(v), i, n), v.cap, V!RemovedObjects(v, i, n))
<1> DEFINE s == Cut(V!Contents(v), i, n)
<1>1. /\ V!Contents(v) \in Seq(X) /\ Len(V!Contents(v)) = v.size
      /\ v.size \in Nat /\ v.cap \in Nat /\ v.size <= v.cap
  BY ContentsAre
<1>2. s \in Seq(X) /\ Len(s) = v.size - n
  <2>1. i + n <= Len(V!Contents(v))
    BY <1>1
  <2>. QED
    BY <1>1, <2>1, CutIs DEF IsCut
<1>3. V!RemovedObjects(v, i, n) = V!Holding(v, s, v.cap)
  BY <1>1 DEF V!RemovedObjects, Cut
<1>. HIDE DEF s
<1>4. Len(s) <= v.cap
  BY <1>1, <1>2
<1>5. IsArray(V!Holding(v, s, v.cap), X) /\ IsClean(V!Holding(v, s, v.cap), X) /\ Made(v, s, v.cap, V!Holding(v, s, v.cap))
  BY <1>1, <1>2, <1>4, HoldingIs
<1>. QED
  BY <1>3, <1>5 DEF s

\* Of plain data: right at the end of the array only.
LEMMA RemovedPlainIs ==
  ASSUME NEW X, NEW v, IsArray(v, X), NEW i \in Nat, NEW n \in Nat, i + n <= v.size
  PROVE  /\ IsArray(V!RemovedPlain(v, i, n), X)
         /\ V!RemovedPlain(v, i, n).size = v.size - n /\ V!RemovedPlain(v, i, n).pod = v.pod
         /\ V!RemovedPlain(v, i, n).cap = v.cap
         /\ v.size - n <= i => Made(v, Cut(V!Contents(v), i, n), v.cap, V!RemovedPlain(v, i, n))
<1> DEFINE w == V!RemovedPlain(v, i, n)
           m == v.size - n
           moved == m - (i + n)
           f == [p \in DOMAIN v.data |-> IF i < m /\ p \in i .. i + moved - 1 THEN v.data[p + n] ELSE v.data[p]]
           o == v.ok /\ (i < m => moved >= 0)
<1>1. /\ V!Contents(v) \in Seq(X) /\ Len(V!Contents(v)) = v.size
      /\ v.size \in Nat /\ v.cap \in Nat /\ v.size <= v.cap
      /\ \A j \in 1 .. v.size : V!Contents(v)[j] = v.data[j - 1]
  BY ContentsAre
<1>2. /\ v \in Arrays(X) /\ v.data \in [0 .. v.cap - 1 -> X \cup {Raw}]
      /\ \A p \in 0 .. v.size - 1 : v.data[p] \in X
  BY DEF IsArray
<1>3. w = [pod |-> v.pod, cap |-> v.cap, size |-> m, ok |-> o, data |-> f]
  BY Zenon DEF V!RemovedPlain
<1>4. f \in [0 .. v.cap - 1 -> X \cup {Raw}]
  <2>1. ASSUME NEW p \in 0 .. v.cap - 1, i < m, p \in i .. i + moved - 1
        PROVE  p + n \in 0 .. v.cap - 1
    BY <1>1, <2>1
  <2>. QED
    BY <1>2, <2>1
<1>5. \A p \in 0 .. m - 1 : f[p] \in X
  <2>1. ASSUME NEW p \in 0 .. m - 1
        PROVE  f[p] \in X
    <3>1. p \in 0 .. v.size - 1 /\ p \in DOMAIN v.data
      BY <1>1, <1>2
    <3>2. CASE i < m /\ p \in i .. i + moved - 1
      <4>1. p + n \in 0 .. v.size - 1
        BY <1>1, <3>2
      <4>. QED
        BY <1>2, <3>1, <3>2, <4>1
    <3>3. CASE ~ (i < m /\ p \in i .. i + moved - 1)
      BY <1>2, <3>1, <3>3
    <3>. QED
      BY <3>2, <3>3
  <2>. QED
    BY <2>1
<1>6. m \in Nat /\ m <= v.cap
  BY <1>1
<1>7. o \in BOOLEAN /\ (m <= i => f = v.data /\ o = v.ok)
  <2>1. v.ok \in BOOLEAN
    BY <1>2 DEF Arrays
  <2>2. m <= i => ~ (i < m)
    BY <1>6
  <2>. QED
    BY <1>2, <2>1, <2>2
<1>8. f \in Slots(X)
  BY <1>1, <1>4, SlotsHave
<1>. HIDE DEF f, o
<1>9. IsArray(w, X)
  <2>1. w \in Arrays(X)
    BY <1>2, <1>3, <1>6, <1>7, <1>8 DEF Arrays
  <2>. QED
    BY <1>3, <1>4, <1>5, <1>6, <2>1 DEF IsArray
<1>10. w.size = m /\ w.pod = v.pod /\ w.cap = v.cap /\ w.ok = o /\ w.data = f
  BY <1>3
<1>11. ASSUME m <= i
       PROVE  Made(v, Cut(V!Contents(v), i, n), v.cap, w)
  <2> DEFINE s == Cut(V!Contents(v), i, n)
  <2>0. i + n <= Len(V!Contents(v))
    BY <1>1
  <2>1. s \in Seq(X) /\ IsCut(V!Contents(v), i, n, s)
    BY <1>1, <2>0, CutIs
  <2>. HIDE DEF s
  <2>2. \A j \in 1 .. m : s[j] = v.data[j - 1]
    <3>1. Len(V!Contents(v)) - n = m
      BY <1>1
    <3>2. ASSUME NEW j \in 1 .. m
          PROVE  s[j] = v.data[j - 1]
      <4>1. m \in Nat /\ j <= i /\ j \in 1 .. v.size
        BY <1>1, <1>6, <1>11
      <4>2. s[j] = V!Contents(v)[j]
        BY <2>1, <3>1, <4>1 DEF IsCut
      <4>. QED
        BY <1>1, <4>1, <4>2
    <3>. QED
      BY <3>2
  <2>3. V!Contents(w) = [j \in 1 .. m |-> v.data[j - 1]]
    BY <1>7, <1>10, <1>11 DEF V!Contents
  <2>4. V!Contents(w) = s
    BY <1>1, <2>1, <2>2, <2>3 DEF IsCut
  <2>. QED
    BY <1>1, <1>7, <1>10, <1>11, <2>1, <2>2, <2>4 DEF Made, s, IsCut
<1>. HIDE DEF w
<1>. QED
  BY <1>9, <1>10, <1>11 DEF w
-----------------------------------------------------------------------------
(* Recursive functions.                                                     *)

LEMMA LeastOf ==
  ASSUME NEW X, X \subseteq Nat, X # {}
  PROVE  \E m \in X : \A k \in X : m <= k
<1> DEFINE R == OpToRel(<, Nat)
<1>1. IsWellFoundedOn(R, Nat)
  BY NatLessThanWellFounded
<1>2. \A i, j \in Nat : i < j => <<i, j>> \in R
  BY DEF OpToRel
<1>. HIDE DEF R
<1>3. PICK m \in X : \A k \in X : ~ (<<k, m>> \in R)
  BY <1>1, WFMin
<1>4. ASSUME NEW k \in X
      PROVE  m <= k
  <2>1. ~ (k < m)
    BY <1>2, <1>3
  <2>. QED
    BY <2>1
<1>. QED
  BY <1>4

\* What holds of 0, and of i with i - 1, holds up to n.
LEMMA UpTo ==
  ASSUME NEW n \in Nat, NEW X, 0 \in X, \A i \in 1 .. n : i - 1 \in X => i \in X
  PROVE  \A i \in 0 .. n : i \in X
<1> DEFINE Bad == {i \in 0 .. n : i \notin X}
<1>1. ASSUME Bad # {}
      PROVE  FALSE
  <2>0. Bad \subseteq Nat
    OBVIOUS
  <2>1. PICK i \in Bad : \A k \in Bad : i <= k
    <3>. HIDE DEF Bad
    <3>. QED
      BY <1>1, <2>0, LeastOf
  <2>2. i \in 1 .. n /\ i - 1 \in 0 .. n
    BY <2>1
  <2>3. i - 1 \in X
    BY <2>1, <2>2
  <2>. QED
    BY <2>1, <2>2, <2>3
<1>. QED
  BY <1>1

Iterates(n, D, a, G) == \E f \in [0 .. n -> D] : f[0] = a /\ \A k \in 1 .. n : f[k] = G[f[k - 1]]

\* A function that gives each number G of what it gives the one before.
LEMMA IterationExists ==
  ASSUME NEW D, NEW a \in D, NEW G \in [D -> D], NEW n \in Nat
  PROVE  Iterates(n, D, a, G)
<1> DEFINE X == {m \in Nat : Iterates(m, D, a, G)}
<1>1. Iterates(0, D, a, G)
  <2> DEFINE g == [k \in 0 .. 0 |-> a]
  <2>1. g \in [0 .. 0 -> D] /\ g[0] = a /\ \A k \in 1 .. 0 : g[k] = G[g[k - 1]]
    OBVIOUS
  <2>. QED
    BY <2>1, Zenon DEF Iterates
<1>2. ASSUME NEW m \in 1 .. n, Iterates(m - 1, D, a, G)
      PROVE  Iterates(m, D, a, G)
  <2>1. PICK f \in [0 .. m - 1 -> D] : f[0] = a /\ \A k \in 1 .. m - 1 : f[k] = G[f[k - 1]]
    BY <1>2 DEF Iterates
  <2> DEFINE g == [k \in 0 .. m |-> IF k = m THEN G[f[m - 1]] ELSE f[k]]
  <2>2. m - 1 \in 0 .. m - 1 /\ \A k \in 0 .. m : k # m => k \in 0 .. m - 1
    OBVIOUS
  <2>3. g \in [0 .. m -> D]
    BY <2>2
  <2>4. g[0] = a
    BY <2>1
  <2>5. ASSUME NEW k \in 1 .. m
        PROVE  g[k] = G[g[k - 1]]
    <3>1. k - 1 \in 0 .. m /\ k - 1 # m
      OBVIOUS
    <3>2. g[k - 1] = f[k - 1]
      BY <3>1
    <3>3. CASE k = m
      BY <3>2, <3>3
    <3>4. CASE k # m
      <4>1. k \in 1 .. m - 1
        BY <3>4
      <4>. QED
        BY <2>1, <3>2, <4>1
    <3>. QED
      BY <3>3, <3>4
  <2>. HIDE DEF g
  <2>. QED
    BY <2>3, <2>4, <2>5 DEF Iterates
<1>3. 0 \in X /\ \A i \in 1 .. n : i - 1 \in X => i \in X
  BY <1>1, <1>2
<1>. HIDE DEF X
<1>4. n \in X
  BY <1>3, UpTo
<1>. QED
  BY <1>4 DEF X

\* Bodies G of recursive functions on D, whose value at d is made of values at
\* arguments of lower rank.
Descends(D, R, rank, G) ==
  \A f \in [D -> R], g \in [D -> R], d \in D :
    (\A e \in D : rank[e] < rank[d] => f[e] = g[e]) => G[f][d] = G[g][d]

IsRecursion(D, R, G) ==
  /\ R # {} /\ G \in [[D -> R] -> [D -> R]]
  /\ \E m \in Nat : \E rank \in [D -> 0 .. m] : Descends(D, R, rank, G)
HasSolution(D, R, G) == \E f \in [D -> R] : f = G[f]

LEMMA RecursionExists ==
  ASSUME NEW D, NEW R, NEW G, IsRecursion(D, R, G)
  PROVE  HasSolution(D, R, G)
<1>0. R # {} /\ G \in [[D -> R] -> [D -> R]]
  BY DEF IsRecursion
<1>m. PICK m \in Nat : \E rank \in [D -> 0 .. m] : Descends(D, R, rank, G)
  BY DEF IsRecursion
<1>r. PICK rank \in [D -> 0 .. m] : Descends(D, R, rank, G)
  BY <1>m
<1>1. PICK a \in [D -> R] : TRUE
  <2>1. PICK r \in R : TRUE
    BY <1>0
  <2>2. [d \in D |-> r] \in [D -> R]
    BY <2>1
  <2>. QED
    BY <2>2
<1>2. PICK F1 \in [0 .. m + 2 -> [D -> R]] : F1[0] = a /\ \A k \in 1 .. m + 2 : F1[k] = G[F1[k - 1]]
  <2> DEFINE n == m + 2
             Fs == [D -> R]
  <2>1. n \in Nat
    OBVIOUS
  <2>. HIDE DEF n, Fs
  <2>2. a \in Fs /\ G \in [Fs -> Fs]
    BY <1>0, <1>1 DEF Fs
  <2>3. Iterates(n, Fs, a, G)
    BY <2>1, <2>2, IterationExists
  <2>. QED
    BY <2>3 DEF Iterates, n, Fs
<1> DEFINE X == {k \in Nat : k <= m + 1 => \A d \in D : rank[d] < k => F1[k + 1][d] = F1[k][d]}
<1>3. 0 \in X
  OBVIOUS
<1>4. ASSUME NEW k \in 1 .. m + 1, k - 1 \in X
      PROVE  k \in X
  <2>1. /\ k \in Nat /\ k - 1 \in 0 .. m + 2 /\ k \in 1 .. m + 2 /\ k + 1 \in 1 .. m + 2 /\ (k + 1) - 1 = k
        /\ (k - 1) + 1 = k /\ k - 1 <= m + 1 /\ k \in 0 .. m + 2
    OBVIOUS
  <2>2. F1[k + 1] = G[F1[k]] /\ F1[k] = G[F1[k - 1]] /\ F1[k] \in [D -> R] /\ F1[k - 1] \in [D -> R]
    BY <1>0, <1>2, <2>1
  <2>3. \A d \in D : rank[d] < k - 1 => F1[k][d] = F1[k - 1][d]
    BY <1>4, <2>1
  <2>4. ASSUME NEW d \in D, rank[d] < k
        PROVE  F1[k + 1][d] = F1[k][d]
    <3>1. ASSUME NEW e \in D, rank[e] < rank[d]
          PROVE  F1[k][e] = F1[k - 1][e]
      <4>1. rank[e] \in Nat /\ rank[d] \in Nat
        OBVIOUS
      <4>2. rank[e] < k - 1
        BY <2>1, <2>4, <3>1, <4>1
      <4>. QED
        BY <2>3, <4>2
    <3>2. G[F1[k]][d] = G[F1[k - 1]][d]
      BY <1>r, <2>2, <3>1 DEF Descends
    <3>. QED
      BY <2>2, <3>2
  <2>. QED
    BY <2>1, <2>4
<1>. HIDE DEF X
<1>5. m + 1 \in X
  <2> DEFINE n == m + 1
  <2>1. n \in Nat /\ n \in 0 .. n
    OBVIOUS
  <2>2. \A k \in 1 .. n : k - 1 \in X => k \in X
    BY <1>4
  <2>. HIDE DEF n
  <2>3. n \in X
    BY <1>3, <2>1, <2>2, UpTo
  <2>. QED
    BY <2>3 DEF n
<1>6. \A d \in D : F1[m + 2][d] = F1[m + 1][d]
  <2>1. ASSUME NEW d \in D
        PROVE  F1[m + 2][d] = F1[m + 1][d]
    <3>1. rank[d] < m + 1 /\ (m + 1) + 1 = m + 2
      OBVIOUS
    <3>. QED
      BY <1>5, <3>1 DEF X
  <2>. QED
    BY <2>1
<1>7. F1[m + 2] = G[F1[m + 1]] /\ F1[m + 2] \in [D -> R] /\ F1[m + 1] \in [D -> R]
  <2>1. m + 2 \in 1 .. m + 2 /\ (m + 2) - 1 = m + 1 /\ m + 1 \in 0 .. m + 2 /\ m + 2 \in 0 .. m + 2
    OBVIOUS
  <2>. QED
    BY <1>0, <1>2, <2>1
<1>8. F1[m + 2] = F1[m + 1]
  BY <1>6, <1>7
<1>. QED
  BY <1>7, <1>8 DEF HasSolution
-----------------------------------------------------------------------------

\* remove_at(), in either form.
LEMMA RemovedIs ==
  ASSUME NEW X, NEW v, IsArray(v, X), NEW pos1 \in Int, NEW len \in Nat, NEW n, n = V!Taken(v, pos1, len)
  PROVE  /\ n \in Nat /\ IsArray(V!Removed(v, pos1, len), X)
         /\ n = 0 => V!Removed(v, pos1, len) = v
         /\ n # 0 => /\ pos1 \in Nat /\ pos1 + n <= v.size
                     /\ V!Removed(v, pos1, len).size = v.size - n /\ V!Removed(v, pos1, len).pod = v.pod
                     /\ v.pod => V!Removed(v, pos1, len) = V!RemovedPlain(v, pos1, n)
                     /\ ~ v.pod => V!Removed(v, pos1, len) = V!RemovedObjects(v, pos1, n)
                     /\ ~ v.pod \/ v.size - n <= pos1 =>
                          Made(v, Cut(V!Contents(v), pos1, n), v.cap, V!Removed(v, pos1, len))
<1> DEFINE w == V!Removed(v, pos1, len)
           s == Cut(V!Contents(v), pos1, n)
<1>1. n \in Nat /\ (n # 0 => pos1 \in Nat /\ pos1 + n <= v.size)
  BY TakenIs
<1>2. w = IF n = 0 THEN v ELSE IF v.pod THEN V!RemovedPlain(v, pos1, n) ELSE V!RemovedObjects(v, pos1, n)
  BY DEF V!Removed
<1>3. V!Contents(v) \in Seq(X) /\ Len(V!Contents(v)) = v.size /\ v.size \in Nat
  BY ContentsAre
<1>. HIDE DEF w
<1>4. CASE n = 0
  BY <1>1, <1>2, <1>4 DEF w
<1>5. CASE n # 0 /\ v.pod
  <2>1. w = V!RemovedPlain(v, pos1, n)
    BY <1>2, <1>5
  <2> DEFINE u == V!RemovedPlain(v, pos1, n)
  <2>0. pos1 \in Nat /\ n \in Nat /\ pos1 + n <= v.size
    BY <1>1, <1>5
  <2>3. /\ IsArray(u, X) /\ u.size = v.size - n /\ u.pod = v.pod
        /\ v.size - n <= pos1 => Made(v, s, v.cap, u)
    BY <2>0, RemovedPlainIs
  <2>. HIDE DEF u
  <2>2. /\ IsArray(w, X) /\ w.size = v.size - n /\ w.pod = v.pod
        /\ v.size - n <= pos1 => Made(v, s, v.cap, w)
    BY <2>1, <2>3 DEF u
  <2>. HIDE DEF s
  <2>. QED
    BY <1>1, <1>5, <2>1, <2>2 DEF w, s
<1>6. CASE n # 0 /\ ~ v.pod
  <2>1. w = V!RemovedObjects(v, pos1, n)
    BY <1>2, <1>6
  <2>2. IsArray(w, X) /\ Made(v, s, v.cap, w)
    BY <1>1, <1>6, <2>1, RemovedObjectsAre
  <2>3. Len(s) = v.size - n
    <3>1. pos1 \in Nat /\ n \in Nat /\ pos1 + n <= Len(V!Contents(v))
      BY <1>1, <1>3, <1>6
    <3>2. IsCut(V!Contents(v), pos1, n, s)
      BY <1>3, <3>1, CutIs
    <3>. QED
      BY <1>3, <3>2 DEF IsCut
  <2>. HIDE DEF s
  <2>4. w.size = v.size - n /\ w.pod = v.pod
    BY <2>2, <2>3 DEF Made
  <2>. QED
    BY <1>1, <1>6, <2>1, <2>2, <2>4 DEF w, s
<1>. QED
  BY <1>4, <1>5, <1>6

\* w is v with the first n items of s behind its own.
Extended(v, s, n, w) ==
  /\ w.size = v.size + n /\ w.pod = v.pod /\ w.ok = v.ok
  /\ \A p \in 0 .. v.size - 1 : w.data[p] = v.data[p]
  /\ \A i \in 1 .. n : w.data[v.size + i - 1] = s[i]

\* push_back(): one item more at the end, or the same.
LEMMA PushedBackIs ==
  ASSUME NEW X, NEW v, IsArray(v, X), NEW e \in X
  PROVE  /\ IsArray(V!PushedBack(v, e), X) /\ (IsClean(v, X) => IsClean(V!PushedBack(v, e), X))
         /\ V!CanInsert(v) => Extended(v, <<e>>, 1, V!PushedBack(v, e)) /\ V!PushedBack(v, e).cap = V!InsertCapacity(v)
         /\ ~ V!CanInsert(v) => V!PushedBack(v, e) = v
<1> DEFINE w == V!PushedBack(v, e)
           s == V!InsertAt(V!Contents(v), v.size + 1, e)
<1>1. /\ V!Contents(v) \in Seq(X) /\ Len(V!Contents(v)) = v.size /\ v.size \in Nat
      /\ \A i \in 1 .. v.size : V!Contents(v)[i] = v.data[i - 1]
  BY ContentsAre
<1>2. V!Place(v, v.size) = v.size /\ v.size \in Int
  BY <1>1 DEF V!Place
<1>3. w = V!Inserted(v, v.size, e)
  BY DEF V!PushedBack
<1>. HIDE DEF w
<1>4. /\ V!CanInsert(v) => IsArray(w, X) /\ IsClean(w, X) /\ Made(v, s, V!InsertCapacity(v), w)
      /\ ~ V!CanInsert(v) => w = v
  BY <1>2, <1>3, InsertedIs
<1>5. ASSUME V!CanInsert(v)
      PROVE  Extended(v, <<e>>, 1, w) /\ w.cap = V!InsertCapacity(v)
  <2>1. /\ s \in Seq(X) /\ Len(s) = v.size + 1
        /\ \A j \in 1 .. v.size + 1 :
             s[j] = IF j < v.size + 1 THEN V!Contents(v)[j] ELSE IF j = v.size + 1 THEN e ELSE V!Contents(v)[j - 1]
    <3> DEFINE c == V!Contents(v)
               n == v.size + 1
    <3>1. n = Len(c) + 1 /\ n \in 1 .. n /\ c \in Seq(X)
      BY <1>1
    <3>. HIDE DEF c, n
    <3>2. /\ s = V!InsertAt(c, n, e)
      BY DEF c, n
    <3>. HIDE DEF s
    <3>3. /\ s \in Seq(X) /\ Len(s) = n
          /\ \A j \in 1 .. n : s[j] = IF j < n THEN c[j] ELSE IF j = n THEN e ELSE c[j - 1]
      <4>1. IsPut(X, c, n, e, V!InsertAt(c, n, e))
        BY <3>1, PutIs
      <4>2. IsPut(X, c, n, e, s)
        BY <3>2, <4>1
      <4>. QED
        BY <3>1, <4>2 DEF IsPut
    <3>. QED
      BY <3>3 DEF c, n
  <2>. HIDE DEF s
  <2>2. /\ w.size = Len(s) /\ w.cap = V!InsertCapacity(v) /\ w.pod = v.pod /\ w.ok = v.ok
        /\ \A i \in 1 .. Len(s) : w.data[i - 1] = s[i]
    BY <1>4, <1>5 DEF Made
  <2>3. ASSUME NEW p \in 0 .. v.size - 1
        PROVE  w.data[p] = v.data[p]
    <3>1. p + 1 \in 1 .. v.size /\ p + 1 \in 1 .. v.size + 1 /\ (p + 1) - 1 = p /\ p + 1 < v.size + 1
      BY <1>1
    <3>2. w.data[p] = s[p + 1]
      BY <2>1, <2>2, <3>1
    <3>3. s[p + 1] = V!Contents(v)[p + 1]
      BY <2>1, <3>1
    <3>. QED
      BY <1>1, <3>1, <3>2, <3>3
  <2>4. w.data[v.size] = e
    <3>1. v.size + 1 \in 1 .. Len(s) /\ (v.size + 1) - 1 = v.size
      BY <1>1, <2>1
    <3>2. s[v.size + 1] = e
      BY <1>1, <2>1
    <3>. QED
      BY <2>2, <3>1, <3>2
  <2>5. \A i \in 1 .. 1 : w.data[v.size + i - 1] = <<e>>[i]
    <3>1. v.size + 1 - 1 = v.size /\ <<e>>[1] = e
      BY <1>1
    <3>2. \A i \in 1 .. 1 : i = 1
      OBVIOUS
    <3>. QED
      BY <2>4, <3>1, <3>2
  <2>. QED
    BY <2>1, <2>2, <2>3, <2>5 DEF Extended
<1>. QED
  BY <1>4, <1>5 DEF w

\* Places are enough where there is room below the capacity.
LEMMA RoomIsEnough ==
  ASSUME NEW v, v.size < v.cap
  PROVE  V!CanInsert(v) /\ V!InsertCapacity(v) = v.cap
BY DEF V!CanInsert, V!InsertCapacity

\* fill[k] of Filled(v, s).
FilledTo(v, s, k, w, X) ==
  /\ IsArray(w, X) /\ (IsClean(v, X) => IsClean(w, X))
  /\ \E n \in 0 .. k :
       /\ Extended(v, s, n, w)
       /\ n < k => ~ V!CanInsert(w)
       /\ v.size + Len(s) <= v.cap => n = k /\ w.cap = v.cap

\* A loop of push_back() puts in what it is given, as far as there is room.
LEMMA FilledIs ==
  ASSUME NEW X, NEW v, IsArray(v, X), NEW s \in Seq(X)
  PROVE  FilledTo(v, s, Len(s), V!Filled(v, s), X)
<1> DEFINE m == Len(s)
           D == 0 .. m
           A == {w \in Arrays(X) : IsArray(w, X)}
           body(f) == [n \in D |-> IF n = 0 THEN v ELSE V!PushedBack(f[n - 1], s[n])]
           G == [f \in [D -> A] |-> body(f)]
           rank == [n \in D |-> n]
<1>1. m \in Nat /\ \A i \in 1 .. m : s[i] \in X
  OBVIOUS
<1>. HIDE DEF m
<1>2. v \in A
  BY DEF IsArray
<1>3. \A w \in A, e \in X : V!PushedBack(w, e) \in A
  <2>1. ASSUME NEW w \in A, NEW e \in X
        PROVE  V!PushedBack(w, e) \in A
    <3>1. IsArray(V!PushedBack(w, e), X)
      BY PushedBackIs
    <3>. QED
      BY <3>1 DEF IsArray
  <2>. QED
    BY <2>1
<1>. HIDE DEF A
<1>4. G \in [[D -> A] -> [D -> A]]
  <2>1. ASSUME NEW f \in [D -> A]
        PROVE  body(f) \in [D -> A]
    <3>1. ASSUME NEW n \in D, n # 0
          PROVE  V!PushedBack(f[n - 1], s[n]) \in A
      <4>1. n - 1 \in D /\ n \in 1 .. m
        BY <1>1, <3>1
      <4>2. f[n - 1] \in A /\ s[n] \in X
        BY <1>1, <4>1
      <4>. QED
        BY <1>3, <4>2
    <3>. QED
      BY <1>2, <3>1
  <2>. HIDE DEF body
  <2>. QED
    BY <2>1
<1>5. Descends(D, A, rank, G)
  <2>1. ASSUME NEW f \in [D -> A], NEW g \in [D -> A], NEW d \in D,
               \A e \in D : rank[e] < rank[d] => f[e] = g[e]
        PROVE  G[f][d] = G[g][d]
    <3>1. G[f][d] = IF d = 0 THEN v ELSE V!PushedBack(f[d - 1], s[d])
      OBVIOUS
    <3>2. G[g][d] = IF d = 0 THEN v ELSE V!PushedBack(g[d - 1], s[d])
      OBVIOUS
    <3>3. d # 0 => f[d - 1] = g[d - 1]
      <4>1. d # 0 => d - 1 \in D /\ rank[d - 1] < rank[d]
        BY <1>1
      <4>. QED
        BY <2>1, <4>1
    <3>. QED
      BY <3>1, <3>2, <3>3
  <2>. HIDE DEF G, rank
  <2>. QED
    BY <2>1 DEF Descends
<1>6. rank \in [D -> 0 .. m]
  OBVIOUS
<1> DEFINE fill == CHOOSE f : f = body(f)
<1>7. \E f : f = body(f)
  <2>. HIDE DEF D, rank, G
  <2>1. IsRecursion(D, A, G)
    BY <1>1, <1>2, <1>4, <1>5, <1>6 DEF IsRecursion
  <2>2. PICK f \in [D -> A] : f = G[f]
    BY <2>1, RecursionExists DEF HasSolution
  <2>. HIDE DEF body
  <2>3. G[f] = body(f)
    BY DEF G
  <2>. QED
    BY <2>2, <2>3
<1>8. fill = body(fill)
  <2>. HIDE DEF body
  <2>. QED
    BY <1>7
<1>9. V!Filled(v, s) = fill[m]
  BY DEF V!Filled, m
<1>. HIDE DEF fill
<1>10. fill[0] = v /\ \A n \in 1 .. m : fill[n] = V!PushedBack(fill[n - 1], s[n])
  <2>1. 0 \in D /\ \A n \in 1 .. m : n \in D /\ n # 0
    BY <1>1
  <2>2. \A n \in D : fill[n] = IF n = 0 THEN v ELSE V!PushedBack(fill[n - 1], s[n])
    <3>. HIDE DEF D
    <3>. QED
      BY <1>8
  <2>. QED
    BY <2>1, <2>2
<1> DEFINE Y == {k \in Nat : k <= m => FilledTo(v, s, k, fill[k], X)}
<1>11. v.size \in Nat /\ v.cap \in Nat
  BY ContentsAre
<1>12. 0 \in Y
  <2>1. Extended(v, s, 0, v)
    BY <1>11 DEF Extended
  <2>2. FilledTo(v, s, 0, v, X)
    BY <2>1 DEF FilledTo
  <2>. QED
    BY <1>10, <2>2
<1>13. ASSUME NEW k \in 1 .. m, k - 1 \in Y
       PROVE  k \in Y
  <2> DEFINE u == fill[k - 1]
             w == fill[k]
  <2>1. /\ k \in Nat /\ s[k] \in X /\ w = V!PushedBack(u, s[k]) /\ FilledTo(v, s, k - 1, u, X)
        /\ k - 1 \in Nat /\ k <= m
    BY <1>1, <1>10, <1>13
  <2>. HIDE DEF u, w
  <2>2. IsArray(u, X) /\ (IsClean(v, X) => IsClean(u, X))
    BY <2>1 DEF FilledTo
  <2>3. /\ IsArray(w, X) /\ (IsClean(u, X) => IsClean(w, X))
        /\ V!CanInsert(u) => Extended(u, <<s[k]>>, 1, w) /\ w.cap = V!InsertCapacity(u)
        /\ ~ V!CanInsert(u) => w = u
    BY <2>1, <2>2, PushedBackIs
  <2>4. PICK n \in 0 .. k - 1 :
          /\ Extended(v, s, n, u)
          /\ n < k - 1 => ~ V!CanInsert(u)
          /\ v.size + m <= v.cap => n = k - 1 /\ u.cap = v.cap
    BY <2>1 DEF FilledTo, m
  <2>5. v.size + m <= v.cap => V!CanInsert(u) /\ V!InsertCapacity(u) = u.cap
    <3>1. v.size + m <= v.cap => u.size < u.cap
      BY <1>1, <1>11, <2>1, <2>4 DEF Extended
    <3>. QED
      BY <3>1, RoomIsEnough
  <2>6. CASE V!CanInsert(u)
    <3>1. n = k - 1
      BY <2>1, <2>4, <2>6
    <3>2. Extended(v, s, k, w)
      <4>1. u.size = v.size + (k - 1) /\ w.size = u.size + 1 /\ w.pod = v.pod /\ w.ok = v.ok
        BY <2>3, <2>4, <2>6, <3>1 DEF Extended
      <4>2. ASSUME NEW p \in 0 .. v.size - 1
            PROVE  w.data[p] = v.data[p]
        <5>1. p \in 0 .. u.size - 1
          BY <1>11, <2>1, <4>1
        <5>. QED
          BY <2>3, <2>4, <2>6, <5>1 DEF Extended
      <4>3. ASSUME NEW i \in 1 .. k
            PROVE  w.data[v.size + i - 1] = s[i]
        <5>1. CASE i = k
          <6>1. v.size + k - 1 = u.size + 1 - 1 /\ 1 \in 1 .. 1 /\ <<s[k]>>[1] = s[k]
            BY <1>11, <2>1, <4>1
          <6>2. w.data[u.size + 1 - 1] = <<s[k]>>[1]
            BY <2>3, <2>6, <6>1 DEF Extended
          <6>. QED
            BY <5>1, <6>1, <6>2
        <5>2. CASE i # k
          <6>1. i \in 1 .. n /\ v.size + i - 1 \in 0 .. u.size - 1
            BY <1>11, <2>1, <3>1, <4>1, <5>2
          <6>. QED
            BY <2>3, <2>4, <2>6, <6>1 DEF Extended
        <5>. QED
          BY <5>1, <5>2
      <4>4. w.size = v.size + k
        BY <1>11, <2>1, <4>1
      <4>. QED
        BY <4>1, <4>2, <4>3, <4>4 DEF Extended
    <3>3. k \in 0 .. k /\ ~ (k < k)
      BY <2>1
    <3>4. v.size + m <= v.cap => w.cap = v.cap
      BY <2>3, <2>4, <2>5, <2>6
    <3>. QED
      BY <2>1, <2>2, <2>3, <3>2, <3>3, <3>4 DEF FilledTo, w, m
  <2>7. CASE ~ V!CanInsert(u)
    <3>1. w = u /\ n \in 0 .. k
      BY <2>1, <2>3, <2>7
    <3>2. ~ (v.size + m <= v.cap)
      BY <2>5, <2>7
    <3>. QED
      BY <2>1, <2>2, <2>3, <2>4, <2>7, <3>1, <3>2 DEF FilledTo, w, m
  <2>. QED
    BY <2>6, <2>7
<1>. HIDE DEF Y
<1>14. m \in Y
  <2>1. \A k \in 1 .. m : k - 1 \in Y => k \in Y
    BY <1>13
  <2>2. \A k \in 0 .. m : k \in Y
    BY <1>1, <1>12, <2>1, UpTo
  <2>. QED
    BY <1>1, <2>2
<1>. QED
  BY <1>1, <1>9, <1>14 DEF Y, m
-----------------------------------------------------------------------------

\* An empty vector.
LEMMA NewVectorIs ==
  ASSUME NEW X, NEW pod \in BOOLEAN
  PROVE  IsArray(V!NewVector(pod), X) /\ IsClean(V!NewVector(pod), X)
<1> DEFINE w == [pod |-> pod, cap |-> 0, size |-> 0, data |-> <<>>, ok |-> TRUE]
<1>1. <<>> \in [0 .. 0 - 1 -> X \cup {Raw}]
  OBVIOUS
<1>2. <<>> \in Slots(X)
  BY <1>1, SlotsHave, 0 \in Nat
<1>3. V!NewVector(pod) = w
  BY Zenon DEF V!NewVector
<1>4. w \in Arrays(X)
  BY <1>2 DEF Arrays
<1>5. IsArray(w, X) /\ IsClean(w, X)
  BY <1>1, <1>4 DEF IsArray, IsClean
<1>. QED
  BY <1>3, <1>5

\* w holds what v holds.
SameItems(v, w) ==
  w.size = v.size /\ w.pod = v.pod /\ w.ok = v.ok /\ \A p \in 0 .. v.size - 1 : w.data[p] = v.data[p]

\* Vectors with the same items below the same m_size.
LEMMA SameContents ==
  ASSUME NEW v, NEW w, v.size \in Nat, SameItems(v, w)
  PROVE  V!Contents(w) = V!Contents(v)
<1>1. \A i \in 1 .. v.size : w.data[i - 1] = v.data[i - 1]
  <2>1. ASSUME NEW i \in 1 .. v.size
        PROVE  w.data[i - 1] = v.data[i - 1]
    <3>1. i - 1 \in 0 .. v.size - 1
      OBVIOUS
    <3>. QED
      BY <3>1 DEF SameItems
  <2>. QED
    BY <2>1
<1>2. w.size = v.size
  BY DEF SameItems
<1>. QED
  BY <1>1, <1>2 DEF V!Contents

\* reserve() keeps the contents.
LEMMA ReservedIs ==
  ASSUME NEW X, NEW v, IsArray(v, X), NEW n \in Nat
  PROVE  /\ IsArray(V!Reserved(v, n), X) /\ SameItems(v, V!Reserved(v, n))
         /\ IsClean(v, X) => IsClean(V!Reserved(v, n), X)
         /\ V!CanReserve(v, n) => n <= V!Reserved(v, n).cap
<1> DEFINE s == V!Contents(v)
           c == V!Rounded(n)
           u == V!Holding(v, s, c)
<1>1. /\ s \in Seq(X) /\ Len(s) = v.size /\ v.size \in Nat /\ v.cap \in Nat /\ v.size <= v.cap
      /\ \A i \in 1 .. v.size : s[i] = v.data[i - 1]
  BY ContentsAre
<1>2. c \in Nat /\ n < c
  BY DEF V!Rounded
<1>3. V!Reserved(v, n) = IF n <= v.cap \/ c > MaxCapacity THEN v ELSE u
  BY DEF V!Reserved
<1>4. V!CanReserve(v, n) <=> (n <= v.cap \/ c <= MaxCapacity)
  BY DEF V!CanReserve
<1>5. MaxCapacity \in Nat
  BY VectorFacts
<1>. HIDE DEF s, c
<1>6. CASE n <= v.cap \/ c > MaxCapacity
  <2>1. V!Reserved(v, n) = v
    BY <1>3, <1>6
  <2>. QED
    BY <1>1, <1>2, <1>4, <1>5, <1>6, <2>1 DEF SameItems
<1>7. CASE ~ (n <= v.cap \/ c > MaxCapacity)
  <2>1. V!Reserved(v, n) = u
    BY <1>3, <1>7
  <2>2. Len(s) <= c
    BY <1>1, <1>2, <1>7
  <2>3. IsArray(u, X) /\ IsClean(u, X) /\ Made(v, s, c, u)
    BY <1>1, <1>2, <2>2, HoldingIs
  <2>. HIDE DEF u
  <2>4. u.size = v.size /\ u.cap = c /\ u.pod = v.pod /\ u.ok = v.ok /\ \A i \in 1 .. v.size : u.data[i - 1] = s[i]
    BY <1>1, <2>3 DEF Made
  <2>5. ASSUME NEW p \in 0 .. v.size - 1
        PROVE  u.data[p] = v.data[p]
    <3>1. p + 1 \in 1 .. v.size /\ (p + 1) - 1 = p
      BY <1>1
    <3>. QED
      BY <1>1, <2>4, <3>1
  <2>6. n <= u.cap
    BY <1>2, <2>4
  <2>. QED
    BY <2>1, <2>3, <2>4, <2>5, <2>6 DEF SameItems
<1>. QED
  BY <1>6, <1>7

\* A copy has the same contents.
LEMMA CopyIs ==
  ASSUME NEW X, NEW v, IsArray(v, X), V!CanCopy(v), v.ok = TRUE
  PROVE  IsArray(V!Copy(v), X) /\ SameItems(v, V!Copy(v)) /\ IsClean(V!Copy(v), X)
<1> DEFINE s == V!Contents(v)
           n == V!NewVector(v.pod)
           r == V!Reserved(n, v.size)
           w == V!Copy(v)
<1>1. /\ s \in Seq(X) /\ Len(s) = v.size /\ v.size \in Nat
      /\ \A i \in 1 .. v.size : s[i] = v.data[i - 1]
  BY ContentsAre
<1>2. v.pod \in BOOLEAN
  BY DEF IsArray, Arrays
<1>3. IsArray(n, X) /\ IsClean(n, X)
  BY <1>2, NewVectorIs
<1>4. n.size = 0 /\ n.pod = v.pod /\ n.ok = TRUE
  BY DEF V!NewVector
<1>5. w = IF v.size = 0 THEN n ELSE V!Filled(r, s)
  BY DEF V!Copy
<1>6. v.size = 0 \/ V!CanReserve(n, v.size)
  BY DEF V!CanCopy
<1>. HIDE DEF s, n, w
<1>7. CASE v.size = 0
  <2>1. SameItems(v, n)
    <3>1. n.ok = v.ok
      BY <1>4, v.ok = TRUE, Zenon
    <3>. QED
      BY <1>4, <1>7, <3>1 DEF SameItems
  <2>. QED
    BY <1>3, <1>5, <1>7, <2>1 DEF w
<1>8. CASE v.size # 0
  <2>1. w = V!Filled(r, s)
    BY <1>5, <1>8
  <2>2. /\ IsArray(r, X) /\ SameItems(n, r) /\ IsClean(r, X)
        /\ v.size <= r.cap
    BY <1>1, <1>3, <1>6, <1>8, ReservedIs
  <2>. HIDE DEF r
  <2>3. FilledTo(r, s, Len(s), w, X)
    BY <1>1, <2>1, <2>2, FilledIs
  <2>4. r.size = 0 /\ r.pod = v.pod /\ r.ok = TRUE
    BY <1>4, <2>2 DEF SameItems
  <2>5. Extended(r, s, v.size, w)
    <3>1. r.size + Len(s) <= r.cap
      BY <1>1, <2>2, <2>4
    <3>. QED
      BY <1>1, <2>3, <3>1 DEF FilledTo
  <2>6. w.size = 0 + v.size /\ w.pod = v.pod /\ w.ok = v.ok /\ \A i \in 1 .. v.size : w.data[0 + i - 1] = s[i]
    BY <2>4, <2>5 DEF Extended
  <2>7. ASSUME NEW p \in 0 .. v.size - 1
        PROVE  w.data[p] = v.data[p]
    <3>1. p + 1 \in 1 .. v.size /\ 0 + (p + 1) - 1 = p /\ (p + 1) - 1 = p
      BY <1>1
    <3>2. w.data[p] = s[p + 1]
      BY <2>6, <3>1
    <3>3. s[p + 1] = v.data[p]
      BY <1>1, <3>1
    <3>. QED
      BY <3>2, <3>3
  <2>8. SameItems(v, w)
    BY <1>1, <2>6, <2>7 DEF SameItems
  <2>9. IsArray(w, X) /\ IsClean(w, X)
    BY <2>2, <2>3 DEF FilledTo
  <2>. QED
    BY <2>8, <2>9 DEF w
<1>. QED
  BY <1>7, <1>8
-----------------------------------------------------------------------------
(* The binary search of a Table.                                            *)

Items == V!TableItems
InOrder(t) == \A p, q \in 0 .. t.size - 1 : p <= q => t.data[p].key <= t.data[q].key
IsTable(t) == IsArray(t, Items) /\ InOrder(t)

LEMMA KeysOf ==
  ASSUME NEW t, IsArray(t, Items), NEW p \in 0 .. t.size - 1
  PROVE  t.data[p] \in Items /\ t.data[p].key \in TableKeys /\ t.data[p].key \in Int
<1>1. t.data[p] \in Items
  BY DEF IsArray
<1>2. t.data[p].key \in TableKeys
  BY <1>1 DEF Items, V!TableItems
<1>. QED
  BY <1>1, <1>2, VectorFacts

\* What a turn of the search makes of the answers to smaller ranges.
Halve(t, k, stops, f, r) ==
  LET mid == r[1] + (r[2] - r[1]) \div 2
  IN  IF r[1] >= r[2] THEN [at |-> r[1], found |-> FALSE]
      ELSE IF t.data[mid].key < k THEN f[<<mid + 1, r[2]>>]
      ELSE IF stops /\ t.data[mid].key = k THEN [at |-> mid, found |-> TRUE]
      ELSE f[<<r[1], mid>>]

Ranges(t) == (0 .. t.size) \X (0 .. t.size)
Answers(t) == [at : 0 .. t.size, found : BOOLEAN]
IsHalve(t, k, stops, f) == \A r \in Ranges(t) : f[r] = Halve(t, k, stops, f, r)

LEMMA MiddleIs ==
  ASSUME NEW a \in Nat, NEW b \in Nat, a < b
  PROVE  a + (b - a) \div 2 \in Nat /\ a <= a + (b - a) \div 2 /\ a + (b - a) \div 2 < b
OBVIOUS

LEMMA SearchExists ==
  ASSUME NEW t, IsArray(t, Items), NEW k \in Int, NEW stops \in BOOLEAN
  PROVE  \E f : IsHalve(t, k, stops, f) /\ V!Search(t, k, stops) = f[<<0, t.size>>]
<1> DEFINE D == Ranges(t)
           A == Answers(t)
           body(f) == [r \in D |-> Halve(t, k, stops, f, r)]
           G == [f \in [D -> A] |-> body(f)]
           rank == [r \in D |-> IF r[1] <= r[2] THEN r[2] - r[1] ELSE 0]
<1>1. t.size \in Nat
  BY ContentsAre
<1>2. rank \in [D -> 0 .. t.size]
  BY <1>1 DEF Ranges
<1>3. ASSUME NEW r \in D
      PROVE  /\ r = <<r[1], r[2]>> /\ r[1] \in 0 .. t.size /\ r[2] \in 0 .. t.size
             /\ r[1] < r[2] => \A mid \in Nat : mid = r[1] + (r[2] - r[1]) \div 2 =>
                  /\ <<mid + 1, r[2]>> \in D /\ rank[<<mid + 1, r[2]>>] < rank[r]
                  /\ <<r[1], mid>> \in D /\ rank[<<r[1], mid>>] < rank[r]
                  /\ mid \in 0 .. t.size
  <2>1. r = <<r[1], r[2]>> /\ r[1] \in 0 .. t.size /\ r[2] \in 0 .. t.size
    BY DEF Ranges
  <2>2. ASSUME r[1] < r[2], NEW mid \in Nat, mid = r[1] + (r[2] - r[1]) \div 2
        PROVE  /\ <<mid + 1, r[2]>> \in D /\ rank[<<mid + 1, r[2]>>] < rank[r]
               /\ <<r[1], mid>> \in D /\ rank[<<r[1], mid>>] < rank[r]
               /\ mid \in 0 .. t.size
    <3>1. r[1] <= mid /\ mid < r[2] /\ r[1] \in Nat /\ r[2] \in Nat
      BY <1>1, <2>1, <2>2, MiddleIs
    <3>2. mid + 1 \in 0 .. t.size /\ mid \in 0 .. t.size /\ mid + 1 <= r[2]
      BY <1>1, <2>1, <3>1
    <3>3. <<mid + 1, r[2]>> \in D /\ <<r[1], mid>> \in D
      BY <2>1, <3>2 DEF Ranges
    <3>4. rank[<<mid + 1, r[2]>>] = r[2] - (mid + 1)
      BY <3>2, <3>3
    <3>5. rank[<<r[1], mid>>] = mid - r[1]
      BY <3>1, <3>3
    <3>6. rank[r] = r[2] - r[1]
      BY <2>2, <3>1
    <3>. HIDE DEF rank
    <3>. QED
      BY <3>1, <3>2, <3>3, <3>4, <3>5, <3>6
  <2>. QED
    BY <2>1, <2>2
<1>. HIDE DEF rank, D
<1>4. ASSUME NEW f \in [D -> A], NEW r \in D
      PROVE  Halve(t, k, stops, f, r) \in A
  <2> DEFINE mid == r[1] + (r[2] - r[1]) \div 2
             h == Halve(t, k, stops, f, r)
  <2>1. r[1] \in 0 .. t.size /\ r[2] \in 0 .. t.size
    BY <1>3
  <2>2. /\ r[1] >= r[2] => h = [at |-> r[1], found |-> FALSE]
        /\ r[1] < r[2] => h = f[<<mid + 1, r[2]>>] \/ h = [at |-> mid, found |-> TRUE] \/ h = f[<<r[1], mid>>]
    BY <2>1 DEF Halve
  <2>3. r[1] < r[2] => mid \in Nat
    BY <2>1, MiddleIs, <1>1
  <2>4. r[1] < r[2] => <<mid + 1, r[2]>> \in D /\ <<r[1], mid>> \in D /\ mid \in 0 .. t.size
    BY <1>3, <2>3
  <2>. HIDE DEF mid, h
  <2>5. r[1] < r[2] => f[<<mid + 1, r[2]>>] \in A /\ f[<<r[1], mid>>] \in A /\ [at |-> mid, found |-> TRUE] \in A
    BY <2>4 DEF Answers
  <2>6. [at |-> r[1], found |-> FALSE] \in A
    BY <2>1 DEF Answers
  <2>7. r[1] >= r[2] \/ r[1] < r[2]
    BY <1>1, <2>1
  <2>8. h \in A
    BY <2>2, <2>5, <2>6, <2>7
  <2>. QED
    BY <2>8 DEF h
<1>5. G \in [[D -> A] -> [D -> A]]
  BY <1>4
<1>6. ASSUME NEW f \in [D -> A], NEW g \in [D -> A], NEW r \in D,
             \A e \in D : rank[e] < rank[r] => f[e] = g[e]
      PROVE  Halve(t, k, stops, f, r) = Halve(t, k, stops, g, r)
  <2> DEFINE mid == r[1] + (r[2] - r[1]) \div 2
  <2>1. r[1] \in 0 .. t.size /\ r[2] \in 0 .. t.size
    BY <1>3
  <2>2. r[1] >= r[2] \/ r[1] < r[2]
    BY <1>1, <2>1
  <2>3. CASE r[1] >= r[2]
    BY <2>3 DEF Halve
  <2>4. CASE r[1] < r[2]
    <3>1. mid \in Nat
      BY <1>1, <2>1, <2>4, MiddleIs
    <3>2. f[<<mid + 1, r[2]>>] = g[<<mid + 1, r[2]>>] /\ f[<<r[1], mid>>] = g[<<r[1], mid>>]
      BY <1>3, <1>6, <2>4, <3>1
    <3>. QED
      BY <3>2 DEF Halve
  <2>. QED
    BY <2>2, <2>3, <2>4
<1>7. Descends(D, A, rank, G)
  <2>1. \A f \in [D -> A], r \in D : G[f][r] = Halve(t, k, stops, f, r)
    OBVIOUS
  <2>. HIDE DEF G, A
  <2>. QED
    BY <1>6, <2>1 DEF Descends
<1>8. IsRecursion(D, A, G)
  <2>1. A # {}
    <3>1. [at |-> 0, found |-> FALSE] \in A
      BY <1>1 DEF Answers
    <3>. QED
      BY <3>1
  <2>. HIDE DEF G, A
  <2>. QED
    BY <1>1, <1>2, <1>5, <1>7, <2>1 DEF IsRecursion
<1>9. PICK f \in [D -> A] : f = G[f]
  <2>. HIDE DEF G, A
  <2>. QED
    BY <1>8, RecursionExists DEF HasSolution
<1> DEFINE halve == CHOOSE g : g = body(g)
<1>10. f = body(f)
  <2>. HIDE DEF body
  <2>1. G[f] = body(f)
    BY DEF G
  <2>. QED
    BY <1>9, <2>1
<1>11. halve = body(halve)
  <2>. HIDE DEF body
  <2>. QED
    BY <1>10
<1>12. V!Search(t, k, stops) = halve[<<0, t.size>>]
  BY DEF V!Search, Halve, D, Ranges
<1>13. \A r \in D : halve[r] = Halve(t, k, stops, halve, r)
  <2>. HIDE DEF halve
  <2>. QED
    BY <1>11
<1>14. IsHalve(t, k, stops, halve)
  <2>. HIDE DEF halve
  <2>. QED
    BY <1>13 DEF IsHalve, D
<1>. HIDE DEF halve
<1>. QED
  BY <1>12, <1>14

\* What the search answers.
IsAnswer(t, k, stops, r) ==
  IF r.found THEN stops /\ r.at \in 0 .. t.size - 1 /\ t.data[r.at].key = k
  ELSE /\ r.at \in 0 .. t.size
       /\ \A p \in 0 .. t.size - 1 : p < r.at => t.data[p].key < k
       /\ \A p \in 0 .. t.size - 1 : p >= r.at => t.data[p].key >= k /\ (stops => t.data[p].key # k)

\* The range still to be searched.
IsRange(t, k, stops, a, b) ==
  /\ a \in 0 .. t.size /\ b \in 0 .. t.size /\ a <= b
  /\ \A p \in 0 .. t.size - 1 : p < a => t.data[p].key < k
  /\ \A p \in 0 .. t.size - 1 : p >= b => t.data[p].key >= k /\ (stops => t.data[p].key # k)

\* bsearch() ends at a place of the key, if there is one.
LEMMA SearchIs ==
  ASSUME NEW t, IsTable(t), NEW k \in Int, NEW stops \in BOOLEAN
  PROVE  IsAnswer(t, k, stops, V!Search(t, k, stops))
<1>1. t.size \in Nat /\ IsArray(t, Items) /\ InOrder(t)
  BY ContentsAre DEF IsTable
<1>2. PICK f : IsHalve(t, k, stops, f) /\ V!Search(t, k, stops) = f[<<0, t.size>>]
  BY <1>1, SearchExists
<1> DEFINE Good(a, b) == IsRange(t, k, stops, a, b) => IsAnswer(t, k, stops, f[<<a, b>>])
           Y == {n \in Nat : \A a, b \in 0 .. t.size : b - a <= n => Good(a, b)}
<1>3. ASSUME NEW a \in 0 .. t.size, NEW b \in 0 .. t.size, IsRange(t, k, stops, a, b),
             \A c, d \in 0 .. t.size : d - c < b - a => Good(c, d)
      PROVE  IsAnswer(t, k, stops, f[<<a, b>>])
  <2> DEFINE mid == a + (b - a) \div 2
             h == f[<<a, b>>]
  <2>1. a \in Nat /\ b \in Nat /\ a <= b
    BY <1>1, <1>3 DEF IsRange
  <2>2. h = Halve(t, k, stops, f, <<a, b>>)
    <3>1. <<a, b>> \in Ranges(t)
      BY DEF Ranges
    <3>. QED
      BY <1>2, <3>1 DEF IsHalve
  <2>3. h = IF a >= b THEN [at |-> a, found |-> FALSE]
            ELSE IF t.data[mid].key < k THEN f[<<mid + 1, b>>]
            ELSE IF stops /\ t.data[mid].key = k THEN [at |-> mid, found |-> TRUE]
            ELSE f[<<a, mid>>]
    BY <2>2 DEF Halve
  <2>4. CASE a >= b
    <3>1. a = b /\ h = [at |-> a, found |-> FALSE]
      BY <2>1, <2>3, <2>4
    <3>2. h.at = a /\ h.found = FALSE
      BY <3>1
    <3>. HIDE DEF h
    <3>3. IsAnswer(t, k, stops, h)
      BY <1>3, <3>1, <3>2 DEF IsAnswer, IsRange
    <3>. QED
      BY <3>3 DEF h
  <2>5. CASE a < b
    <3>1. mid \in Nat /\ a <= mid /\ mid < b
      BY <2>1, <2>5, MiddleIs
    <3>2. ~ (a >= b)
      BY <2>1, <2>5
    <3>. HIDE DEF mid
    <3>3. mid \in 0 .. t.size - 1 /\ mid + 1 \in 0 .. t.size /\ mid \in 0 .. t.size /\ mid + 1 <= b
      BY <1>1, <2>1, <3>1
    <3>4. /\ t.data[mid].key \in Int
          /\ \A p \in 0 .. t.size - 1 : t.data[p].key \in Int
      BY <1>1, <3>3, KeysOf
    <3>5. CASE t.data[mid].key < k
      <4>1. h = f[<<mid + 1, b>>]
        BY <2>3, <3>2, <3>5
      <4>2. ASSUME NEW p \in 0 .. t.size - 1, p < mid + 1
            PROVE  t.data[p].key < k
        <5>1. p <= mid
          BY <3>1, <4>2
        <5>2. t.data[p].key <= t.data[mid].key
          BY <1>1, <3>3, <5>1 DEF InOrder
        <5>. QED
          BY <3>4, <3>5, <5>2
      <4>3. IsRange(t, k, stops, mid + 1, b)
        BY <1>3, <3>3, <4>2 DEF IsRange
      <4>4. b - (mid + 1) < b - a
        BY <2>1, <3>1
      <4>. HIDE DEF h
      <4>5. IsAnswer(t, k, stops, f[<<mid + 1, b>>])
        BY <1>3, <3>3, <4>3, <4>4
      <4>6. IsAnswer(t, k, stops, h)
        BY <4>1, <4>5
      <4>. QED
        BY <4>6 DEF h
    <3>6. CASE ~ (t.data[mid].key < k) /\ stops /\ t.data[mid].key = k
      <4>1. h = [at |-> mid, found |-> TRUE]
        BY <2>3, <3>2, <3>6
      <4>2. h.at = mid /\ h.found = TRUE
        BY <4>1
      <4>. HIDE DEF h
      <4>3. IsAnswer(t, k, stops, h)
        BY <3>3, <3>6, <4>2 DEF IsAnswer
      <4>. QED
        BY <4>3 DEF h
    <3>7. CASE ~ (t.data[mid].key < k) /\ ~ (stops /\ t.data[mid].key = k)
      <4>1. h = f[<<a, mid>>]
        BY <2>3, <3>2, <3>7
      <4>2. ASSUME NEW p \in 0 .. t.size - 1, p >= mid
            PROVE  t.data[p].key >= k /\ (stops => t.data[p].key # k)
        <5>1. t.data[mid].key <= t.data[p].key
          BY <1>1, <3>1, <3>3, <4>2 DEF InOrder
        <5>. QED
          BY <3>4, <3>7, <5>1
      <4>3. IsRange(t, k, stops, a, mid)
        BY <1>3, <3>1, <3>3, <4>2 DEF IsRange
      <4>4. mid - a < b - a
        BY <2>1, <3>1
      <4>. HIDE DEF h
      <4>5. IsAnswer(t, k, stops, f[<<a, mid>>])
        BY <1>3, <3>3, <4>3, <4>4
      <4>6. IsAnswer(t, k, stops, h)
        BY <4>1, <4>5
      <4>. QED
        BY <4>6 DEF h
    <3>. QED
      BY <3>5, <3>6, <3>7
  <2>. QED
    BY <2>1, <2>4, <2>5
<1>. HIDE DEF Good
<1>4. \A a, b \in 0 .. t.size : (\A c, d \in 0 .. t.size : d - c < b - a => Good(c, d)) => Good(a, b)
  BY <1>3 DEF Good
<1>5. 0 \in Y
  <2>1. ASSUME NEW a \in 0 .. t.size, NEW b \in 0 .. t.size, b - a <= 0
        PROVE  Good(a, b)
    <3>1. ASSUME NEW c \in 0 .. t.size, NEW d \in 0 .. t.size, d - c < b - a
          PROVE  Good(c, d)
      <4>1. ~ (c <= d)
        BY <1>1, <2>1, <3>1
      <4>. QED
        BY <4>1 DEF Good, IsRange
    <3>. QED
      BY <1>4, <3>1
  <2>. QED
    BY <2>1
<1>6. ASSUME NEW n \in 1 .. t.size, n - 1 \in Y
      PROVE  n \in Y
  <2>1. ASSUME NEW a \in 0 .. t.size, NEW b \in 0 .. t.size, b - a <= n
        PROVE  Good(a, b)
    <3>1. ASSUME NEW c \in 0 .. t.size, NEW d \in 0 .. t.size, d - c < b - a
          PROVE  Good(c, d)
      <4>1. d - c <= n - 1
        BY <1>1, <2>1, <3>1
      <4>. QED
        BY <1>6, <4>1
    <3>. QED
      BY <1>4, <3>1
  <2>. QED
    BY <2>1, n \in Nat
<1>7. t.size \in Y
  <2>. HIDE DEF Y
  <2>1. \A n \in 1 .. t.size : n - 1 \in Y => n \in Y
    BY <1>6
  <2>2. \A n \in 0 .. t.size : n \in Y
    BY <1>1, <1>5, <2>1, UpTo
  <2>. QED
    BY <1>1, <2>2
<1>8. Good(0, t.size)
  <2>1. t.size - 0 <= t.size /\ 0 \in 0 .. t.size /\ t.size \in 0 .. t.size
    BY <1>1
  <2>. QED
    BY <1>7, <2>1
<1>9. IsRange(t, k, stops, 0, t.size)
  BY <1>1 DEF IsRange
<1>10. IsAnswer(t, k, stops, f[<<0, t.size>>])
  BY <1>8, <1>9 DEF Good
<1>. QED
  BY <1>2, <1>10
-----------------------------------------------------------------------------
(* find() goes back to the first of the run.                                *)

IsBack(t, k, at, f) ==
  \A p \in 0 .. at : f[p] = IF p > 0 /\ t.data[p - 1].key = k THEN f[p - 1] ELSE p

\* p is the first place of the key k.
IsFirst(t, k, p) ==
  p \in 0 .. t.size - 1 /\ t.data[p].key = k /\ \A q \in 0 .. t.size - 1 : t.data[q].key = k => p <= q

LEMMA BackExists ==
  ASSUME NEW t, NEW k, NEW at \in Nat
  PROVE  LET back[p \in 0 .. at] == IF p > 0 /\ t.data[p - 1].key = k THEN back[p - 1] ELSE p
         IN  IsBack(t, k, at, back)
<1> DEFINE D == 0 .. at
           body(f) == [p \in D |-> IF p > 0 /\ t.data[p - 1].key = k THEN f[p - 1] ELSE p]
           G == [f \in [D -> D] |-> body(f)]
           rank == [p \in D |-> p]
           back == CHOOSE f : f = body(f)
<1>1. rank \in [D -> 0 .. at] /\ D # {}
  BY 0 \in D
<1>2. \A p \in D : p > 0 => p - 1 \in D /\ rank[p - 1] < rank[p]
  OBVIOUS
<1>3. G \in [[D -> D] -> [D -> D]]
  BY <1>2
<1>4. Descends(D, D, rank, G)
  <2>1. ASSUME NEW f \in [D -> D], NEW g \in [D -> D], NEW d \in D,
               \A e \in D : rank[e] < rank[d] => f[e] = g[e]
        PROVE  G[f][d] = G[g][d]
    <3>1. /\ G[f][d] = IF d > 0 /\ t.data[d - 1].key = k THEN f[d - 1] ELSE d
          /\ G[g][d] = IF d > 0 /\ t.data[d - 1].key = k THEN g[d - 1] ELSE d
      OBVIOUS
    <3>2. d > 0 => f[d - 1] = g[d - 1]
      BY <1>2, <2>1
    <3>. QED
      BY <3>1, <3>2
  <2>. HIDE DEF G, rank, D
  <2>. QED
    BY <2>1 DEF Descends
<1>5. IsRecursion(D, D, G)
  <2>. HIDE DEF G, rank, D
  <2>. QED
    BY <1>1, <1>3, <1>4 DEF IsRecursion
<1>6. PICK f \in [D -> D] : f = G[f]
  <2>. HIDE DEF G, D
  <2>. QED
    BY <1>5, RecursionExists DEF HasSolution
<1>7. f = body(f)
  <2>. HIDE DEF body
  <2>1. G[f] = body(f)
    BY DEF G
  <2>. QED
    BY <1>6, <2>1
<1>8. back = body(back)
  <2>. HIDE DEF body
  <2>. QED
    BY <1>7
<1>9. IsBack(t, k, at, back)
  <2>. HIDE DEF back
  <2>. QED
    BY <1>8 DEF IsBack
<1>. QED
  BY <1>9

\* find() gives the first place of the key, exactly if there is one.
LEMMA FindIs ==
  ASSUME NEW t, IsTable(t), NEW k \in Int
  PROVE  \/ V!Find(t, k) = V!End /\ \A p \in 0 .. t.size - 1 : t.data[p].key # k
         \/ IsFirst(t, k, V!Find(t, k))
<1> DEFINE hit == V!Search(t, k, TRUE)
           back == CHOOSE f : f = [p \in 0 .. hit.at |-> IF p > 0 /\ t.data[p - 1].key = k THEN f[p - 1] ELSE p]
<1>1. t.size \in Nat /\ IsArray(t, Items) /\ InOrder(t)
  BY ContentsAre DEF IsTable
<1>2. IsAnswer(t, k, TRUE, hit)
  BY SearchIs
<1>3. V!Find(t, k) = IF hit.found THEN back[hit.at] ELSE V!End
  BY DEF V!Find
<1>4. ASSUME hit.at \in Nat
      PROVE  IsBack(t, k, hit.at, back)
  <2>. HIDE DEF hit
  <2>. QED
    BY <1>4, BackExists
<1>. HIDE DEF back, hit
<1>5. CASE ~ hit.found
  <2>1. V!Find(t, k) = V!End
    BY <1>3, <1>5
  <2>2. ASSUME NEW p \in 0 .. t.size - 1
        PROVE  t.data[p].key # k
    <3>1. hit.at \in 0 .. t.size /\ (p < hit.at => t.data[p].key < k) /\ (p >= hit.at => t.data[p].key # k)
      BY <1>2, <1>5 DEF IsAnswer
    <3>2. t.data[p].key \in Int
      BY <1>1, KeysOf
    <3>. QED
      BY <1>1, <3>1, <3>2
  <2>. QED
    BY <2>1, <2>2
<1>6. CASE hit.found
  <2>1. hit.at \in 0 .. t.size - 1 /\ t.data[hit.at].key = k
    BY <1>2, <1>6 DEF IsAnswer
  <2>2. hit.at \in Nat /\ V!Find(t, k) = back[hit.at]
    BY <1>1, <1>3, <1>6, <2>1
  <2>3. IsBack(t, k, hit.at, back)
    BY <1>4, <2>2
  <2> DEFINE Run(p, q) == /\ q \in 0 .. p /\ \A i \in q .. p - 1 : t.data[i].key = k
                          /\ q > 0 => t.data[q - 1].key # k
             Y == {p \in Nat : p <= hit.at => Run(p, back[p])}
  <2>4. ASSUME NEW p \in 0 .. hit.at, p > 0 => Run(p - 1, back[p - 1])
        PROVE  Run(p, back[p])
    <3>1. back[p] = IF p > 0 /\ t.data[p - 1].key = k THEN back[p - 1] ELSE p
      BY <2>3 DEF IsBack
    <3>2. CASE p > 0 /\ t.data[p - 1].key = k
      <4>1. back[p] = back[p - 1] /\ Run(p - 1, back[p - 1])
        BY <2>4, <3>1, <3>2
      <4>2. \A i \in back[p - 1] .. p - 1 : i = p - 1 \/ i \in back[p - 1] .. (p - 1) - 1
        BY <2>2, <3>2, <4>1
      <4>. QED
        BY <2>2, <3>2, <4>1, <4>2
    <3>3. CASE ~ (p > 0 /\ t.data[p - 1].key = k)
      BY <2>2, <3>1, <3>3
    <3>. QED
      BY <3>2, <3>3
  <2>5. 0 \in Y
    BY <2>2, <2>4
  <2>6. \A p \in 1 .. hit.at : p - 1 \in Y => p \in Y
    <3>1. ASSUME NEW p \in 1 .. hit.at, p - 1 \in Y
          PROVE  p \in Y
      <4>1. Run(p - 1, back[p - 1]) /\ p \in 0 .. hit.at /\ p \in Nat
        BY <2>2, <3>1
      <4>2. Run(p, back[p])
        BY <2>4, <4>1
      <4>. QED
        BY <4>1, <4>2
    <3>. QED
      BY <3>1
  <2>7. Run(hit.at, back[hit.at])
    <3>. HIDE DEF Run
    <3>1. \A p \in 0 .. hit.at : p \in Y
      <4>. HIDE DEF Y
      <4>. QED
        BY <2>2, <2>5, <2>6, UpTo
    <3>. QED
      BY <2>2, <3>1
  <2> DEFINE q == back[hit.at]
  <2>8. q \in 0 .. t.size - 1 /\ q <= hit.at /\ q \in Nat
    BY <1>1, <2>1, <2>2, <2>7
  <2>9. t.data[q].key = k
    <3>1. q = hit.at \/ q \in q .. hit.at - 1
      BY <2>2, <2>8
    <3>. QED
      BY <2>1, <2>7, <3>1
  <2>10. ASSUME NEW p \in 0 .. t.size - 1, t.data[p].key = k
         PROVE  q <= p
    <3>1. ASSUME p < q
          PROVE  FALSE
      <4>1. q > 0 /\ q - 1 \in 0 .. t.size - 1 /\ p <= q - 1 /\ q - 1 <= q
        BY <1>1, <2>8, <3>1
      <4>2. t.data[p].key <= t.data[q - 1].key /\ t.data[q - 1].key <= t.data[q].key
        BY <1>1, <2>8, <4>1 DEF InOrder
      <4>3. t.data[q - 1].key # k
        BY <2>7, <4>1
      <4>4. t.data[q - 1].key \in Int
        BY <1>1, <4>1, KeysOf
      <4>. QED
        BY <2>9, <2>10, <4>2, <4>3, <4>4
    <3>. QED
      BY <1>1, <2>8, <3>1
  <2>11. IsFirst(t, k, q)
    <3>. HIDE DEF q
    <3>. QED
      BY <2>8, <2>9, <2>10 DEF IsFirst
  <2>. QED
    BY <2>2, <2>11
<1>. QED
  BY <1>5, <1>6
-----------------------------------------------------------------------------
(* Insertions, removals and copies of tables.                               *)

LEMMA RemoveAtIs ==
  ASSUME NEW s, NEW a \in Nat
  PROVE  V!RemoveAt(s, a) = Cut(s, a - 1, 1)
<1>1. (a - 1) + 1 + 1 = a + 1
  OBVIOUS
<1>2. V!RemoveAt(s, a) = SubSeq(s, 1, a - 1) \o SubSeq(s, a + 1, Len(s))
  BY DEF V!RemoveAt
<1>3. Cut(s, a - 1, 1) = SubSeq(s, 1, a - 1) \o SubSeq(s, (a - 1) + 1 + 1, Len(s))
  BY DEF Cut
<1>. QED
  BY <1>1, <1>2, <1>3

\* Table::insert() of one item puts it before those of equal keys.
LEMMA InsertedItemIs ==
  ASSUME NEW t, IsTable(t), NEW e \in Items
  PROVE  /\ IsTable(V!InsertedItem(t, e))
         /\ V!CanInsert(t) => /\ V!InsertedItem(t, e).size = t.size + 1
                              /\ V!PutFirst(V!Contents(t), e, V!Contents(V!InsertedItem(t, e)))
         /\ ~ V!CanInsert(t) => V!InsertedItem(t, e) = t
<1> DEFINE hit == V!Search(t, e.key, FALSE)
           w == V!InsertedItem(t, e)
           c == V!Contents(t)
           s == V!InsertAt(c, hit.at + 1, e)
<1>1. /\ t.size \in Nat /\ IsArray(t, Items) /\ InOrder(t) /\ c \in Seq(Items) /\ Len(c) = t.size
      /\ \A i \in 1 .. t.size : c[i] = t.data[i - 1]
  BY ContentsAre DEF IsTable
<1>2. e.key \in Int
  BY VectorFacts DEF Items, V!TableItems
<1>3. IsAnswer(t, e.key, FALSE, hit)
  BY <1>2, SearchIs
<1>4. /\ hit.at \in 0 .. t.size
      /\ \A p \in 0 .. t.size - 1 : p < hit.at => t.data[p].key < e.key
      /\ \A p \in 0 .. t.size - 1 : p >= hit.at => t.data[p].key >= e.key
  BY <1>3 DEF IsAnswer
<1>5. w = V!Inserted(t, hit.at, e)
  BY DEF V!InsertedItem
<1>. HIDE DEF hit, w, c
<1>6. V!Place(t, hit.at) = hit.at /\ hit.at \in Int
  BY <1>1, <1>4 DEF V!Place
<1>7. /\ V!CanInsert(t) => IsArray(w, Items) /\ Made(t, s, V!InsertCapacity(t), w)
      /\ ~ V!CanInsert(t) => w = t
  BY <1>1, <1>5, <1>6, InsertedIs DEF c
<1>8. CASE ~ V!CanInsert(t)
  BY <1>7, <1>8 DEF w
<1>9. CASE V!CanInsert(t)
  <2> DEFINE a == hit.at + 1
             m == t.size + 1
  <2>1. a \in 1 .. m /\ hit.at = a - 1 /\ m = Len(c) + 1 /\ m \in Nat /\ a \in Nat /\ t.size = m - 1
    BY <1>1, <1>4
  <2>2. s = V!InsertAt(c, a, e)
    OBVIOUS
  <2>. HIDE DEF a, m, s
  <2>3. /\ s \in Seq(Items) /\ Len(s) = m
        /\ \A j \in 1 .. m : s[j] = IF j < a THEN c[j] ELSE IF j = a THEN e ELSE c[j - 1]
    <3>1. c \in Seq(Items) /\ a \in 1 .. Len(c) + 1 /\ m = Len(c) + 1
      BY <1>1, <2>1
    <3>2. /\ s \in Seq(Items) /\ Len(s) = Len(c) + 1
          /\ \A j \in 1 .. Len(c) + 1 : s[j] = IF j < a THEN c[j] ELSE IF j = a THEN e ELSE c[j - 1]
      <4>1. IsPut(Items, c, a, e, V!InsertAt(c, a, e))
        BY <3>1, PutIs
      <4>2. IsPut(Items, c, a, e, s)
        BY <2>2, <4>1
      <4>. QED
        BY <4>2 DEF IsPut
    <3>. QED
      BY <3>1, <3>2
  <2>4. /\ w.size = m /\ V!Contents(w) = s /\ IsArray(w, Items)
        /\ \A i \in 1 .. m : w.data[i - 1] = s[i]
    BY <1>7, <1>9, <2>3 DEF Made
  \* The keys by their places in s.
  <2>5. ASSUME NEW j \in 1 .. m
        PROVE  /\ j < a => j \in 1 .. t.size /\ s[j] = t.data[j - 1] /\ j - 1 \in 0 .. t.size - 1 /\ s[j].key < e.key
               /\ j = a => s[j] = e
               /\ j > a => j - 1 \in 1 .. t.size /\ s[j] = t.data[j - 2] /\ j - 2 \in 0 .. t.size - 1 /\ s[j].key >= e.key
               /\ s[j].key \in Int
    <3>1. ASSUME j < a
          PROVE  j \in 1 .. t.size /\ s[j] = t.data[j - 1] /\ j - 1 \in 0 .. t.size - 1 /\ s[j].key < e.key
      <4>1. j \in 1 .. t.size /\ j - 1 \in 0 .. t.size - 1 /\ j - 1 < hit.at
        BY <2>1, <3>1
      <4>2. s[j] = t.data[j - 1]
        BY <1>1, <2>3, <3>1, <4>1
      <4>. QED
        BY <1>4, <4>1, <4>2
    <3>2. j = a => s[j] = e
      BY <2>1, <2>3
    <3>3. ASSUME j > a
          PROVE  j - 1 \in 1 .. t.size /\ s[j] = t.data[j - 2] /\ j - 2 \in 0 .. t.size - 1 /\ s[j].key >= e.key
      <4>1. /\ j - 1 \in 1 .. t.size /\ j - 2 \in 0 .. t.size - 1 /\ j - 2 >= hit.at /\ ~ (j < a) /\ j # a
            /\ (j - 1) - 1 = j - 2
        BY <2>1, <3>3
      <4>2. s[j] = t.data[j - 2]
        BY <1>1, <2>3, <4>1
      <4>. QED
        BY <1>4, <4>1, <4>2
    <3>4. s[j].key \in Int
      <4>1. s[j] \in Items
        BY <2>3
      <4>. QED
        BY <4>1, VectorFacts DEF Items, V!TableItems
    <3>. QED
      BY <3>1, <3>2, <3>3, <3>4
  <2>6. ASSUME NEW i \in 1 .. m, NEW j \in 1 .. m, i <= j
        PROVE  s[i].key <= s[j].key
    <3>0. i \in Nat /\ j \in Nat /\ s[i].key \in Int /\ s[j].key \in Int
      BY <2>5
    <3>1. CASE i < a /\ j < a
      <4>1. i - 1 <= j - 1
        BY <3>0, <2>6
      <4>. QED
        BY <1>1, <2>5, <3>1, <4>1 DEF InOrder
    <3>2. CASE i < a /\ j >= a
      <4>1. s[i].key < e.key /\ s[j].key >= e.key
        <5>1. j = a \/ j > a
          BY <2>1, <3>0, <3>2
        <5>. QED
          BY <1>2, <2>5, <3>2, <5>1
      <4>. QED
        BY <1>2, <3>0, <4>1
    <3>3. CASE i = a
      <4>1. s[i] = e /\ s[j].key >= e.key
        <5>1. j = a \/ j > a
          BY <2>1, <2>6, <3>0, <3>3
        <5>. QED
          BY <1>2, <2>5, <3>3, <5>1
      <4>. QED
        BY <1>2, <3>0, <4>1
    <3>4. CASE i > a
      <4>1. i - 2 <= j - 2 /\ j > a
        BY <2>1, <2>6, <3>0, <3>4
      <4>. QED
        BY <1>1, <2>5, <3>4, <4>1 DEF InOrder
    <3>. QED
      BY <2>1, <2>6, <3>0, <3>1, <3>2, <3>3, <3>4
  <2>7. InOrder(w)
    <3>1. ASSUME NEW p \in 0 .. w.size - 1, NEW q \in 0 .. w.size - 1, p <= q
          PROVE  w.data[p].key <= w.data[q].key
      <4>1. p + 1 \in 1 .. m /\ q + 1 \in 1 .. m /\ p + 1 <= q + 1 /\ (p + 1) - 1 = p /\ (q + 1) - 1 = q
        BY <2>1, <2>4, <3>1
      <4>2. w.data[p] = s[p + 1] /\ w.data[q] = s[q + 1]
        BY <2>4, <4>1
      <4>. QED
        BY <2>6, <4>1, <4>2
    <3>. QED
      BY <3>1 DEF InOrder
  <2>8. V!PutFirst(c, e, s)
    <3>1. V!RemoveAt(s, a) = c
      <4>1. V!RemoveAt(s, a) = Cut(s, a - 1, 1)
        BY <2>1, RemoveAtIs
      <4> DEFINE r == Cut(s, a - 1, 1)
      <4>2. r \in Seq(Items) /\ IsCut(s, a - 1, 1, r)
        <5>1. a - 1 \in Nat /\ 1 \in Nat /\ (a - 1) + 1 <= Len(s)
          BY <2>1, <2>3
        <5>. QED
          BY <2>3, <5>1, CutIs
      <4>. HIDE DEF r
      <4>3. Len(r) = t.size /\ \A j \in 1 .. t.size : r[j] = IF j <= a - 1 THEN s[j] ELSE s[j + 1]
        BY <2>1, <2>3, <4>2 DEF IsCut
      <4>4. ASSUME NEW j \in 1 .. t.size
            PROVE  r[j] = c[j]
        <5>1. CASE j <= a - 1
          <6>1. j < a /\ j \in 1 .. m
            BY <2>1, <5>1
          <6>. QED
            BY <2>3, <4>3, <5>1, <6>1
        <5>2. CASE ~ (j <= a - 1)
          <6>1. ~ (j + 1 < a) /\ j + 1 # a /\ j + 1 \in 1 .. m /\ (j + 1) - 1 = j
            BY <2>1, <5>2
          <6>2. s[j + 1] = c[j]
            BY <2>3, <6>1
          <6>. QED
            BY <4>3, <5>2, <6>2
        <5>. QED
          BY <5>1, <5>2
      <4>5. r = c
        BY <1>1, <4>2, <4>3, <4>4
      <4>. QED
        BY <4>1, <4>5 DEF r
    <3>2. ASSUME NEW q \in 1 .. a - 1
          PROVE  s[q].key < e.key
      <4>1. q \in 1 .. m /\ q < a
        BY <2>1
      <4>. QED
        BY <2>5, <4>1
    <3>3. s[a] = e
      BY <2>1, <2>5
    <3>4. a \in 1 .. Len(s)
      BY <2>1, <2>3
    <3>. QED
      BY <3>1, <3>2, <3>3, <3>4 DEF V!PutFirst
  <2>. QED
    BY <1>9, <2>4, <2>7, <2>8 DEF IsTable, w, c, m
<1>. QED
  BY <1>8, <1>9
-----------------------------------------------------------------------------

\* What a removal leaves of a table, unless it is of plain data before the end.
LEMMA RemovedTable ==
  ASSUME NEW t, IsTable(t), NEW pos1 \in Int, NEW len \in Nat,
         ~ t.pod \/ V!Removed(t, pos1, len) = t \/ ~ (pos1 < V!Removed(t, pos1, len).size)
  PROVE  IsTable(V!Removed(t, pos1, len)) /\ V!Removed(t, pos1, len).size <= t.size
<1> DEFINE n == V!Taken(t, pos1, len)
           w == V!Removed(t, pos1, len)
           c == V!Contents(t)
           s == Cut(c, pos1, n)
<1>1. /\ t.size \in Nat /\ IsArray(t, Items) /\ InOrder(t) /\ c \in Seq(Items) /\ Len(c) = t.size
      /\ \A i \in 1 .. t.size : c[i] = t.data[i - 1]
  BY ContentsAre DEF IsTable
<1>. HIDE DEF c
<1>2. /\ n \in Nat /\ IsArray(w, Items)
      /\ n = 0 => w = t
      /\ n # 0 => /\ pos1 \in Nat /\ pos1 + n <= t.size /\ w.size = t.size - n
                  /\ ~ t.pod \/ t.size - n <= pos1 => Made(t, s, t.cap, w)
  BY <1>1, RemovedIs DEF c
<1>3. ~ t.pod \/ w = t \/ ~ (pos1 < w.size)
  OBVIOUS
<1>. HIDE DEF n, w
<1>4. CASE w = t
  BY <1>1, <1>4 DEF w
<1>5. CASE w # t
  <2>1. /\ n # 0 /\ pos1 \in Nat /\ pos1 + n <= t.size /\ w.size = t.size - n
    BY <1>2, <1>5
  <2>2. ~ t.pod \/ t.size - n <= pos1
    BY <1>1, <1>2, <1>3, <1>5, <2>1
  <2>3. Made(t, s, t.cap, w)
    BY <1>2, <2>1, <2>2
  <2>4. IsCut(c, pos1, n, s)
    <3>1. pos1 + n <= Len(c)
      BY <1>1, <2>1
    <3>. QED
      BY <1>1, <1>2, <2>1, <3>1, CutIs
  <2>. HIDE DEF s
  <2>5. ASSUME NEW p \in 0 .. w.size - 1
        PROVE  /\ p < pos1 => p \in 0 .. t.size - 1 /\ w.data[p] = t.data[p]
               /\ p >= pos1 => p + n \in 0 .. t.size - 1 /\ w.data[p] = t.data[p + n]
    <3>1. /\ p + 1 \in 1 .. Len(c) - n /\ (p + 1) - 1 = p /\ Len(s) = Len(c) - n /\ p \in Nat
      BY <1>1, <1>2, <2>1, <2>4 DEF IsCut
    <3>2. w.data[p] = s[p + 1] /\ s[p + 1] = IF p + 1 <= pos1 THEN c[p + 1] ELSE c[p + 1 + n]
      BY <2>3, <2>4, <3>1 DEF Made, IsCut
    <3>3. CASE p < pos1
      <4>1. p + 1 <= pos1 /\ p + 1 \in 1 .. t.size /\ p \in 0 .. t.size - 1 /\ ~ (p >= pos1)
        BY <1>1, <1>2, <2>1, <3>3, <3>1
      <4>. QED
        BY <1>1, <3>1, <3>2, <4>1
    <3>4. CASE p >= pos1
      <4>1. /\ ~ (p + 1 <= pos1) /\ p + 1 + n \in 1 .. t.size /\ p + n \in 0 .. t.size - 1 /\ ~ (p < pos1)
            /\ (p + 1 + n) - 1 = p + n
        BY <1>1, <1>2, <2>1, <3>4, <3>1
      <4>2. c[p + 1 + n] = t.data[p + n]
        BY <1>1, <4>1
      <4>. QED
        BY <3>2, <4>1, <4>2
    <3>. QED
      BY <2>1, <3>1, <3>3, <3>4
  <2>6. InOrder(w)
    <3>1. ASSUME NEW p \in 0 .. w.size - 1, NEW q \in 0 .. w.size - 1, p <= q
          PROVE  w.data[p].key <= w.data[q].key
      <4>0. p \in Nat /\ q \in Nat
        OBVIOUS
      <4>1. CASE q < pos1
        <5>1. p < pos1
          BY <2>1, <3>1, <4>0, <4>1
        <5>. QED
          BY <1>1, <2>5, <3>1, <4>1, <5>1 DEF InOrder
      <4>2. CASE p < pos1 /\ q >= pos1
        <5>1. p <= q + n
          BY <1>2, <3>1, <4>0
        <5>. QED
          BY <1>1, <2>5, <4>2, <5>1 DEF InOrder
      <4>3. CASE p >= pos1
        <5>1. q >= pos1 /\ p + n <= q + n
          BY <1>2, <2>1, <3>1, <4>0, <4>3
        <5>. QED
          BY <1>1, <2>5, <4>3, <5>1 DEF InOrder
      <4>. QED
        BY <2>1, <4>0, <4>1, <4>2, <4>3
    <3>. QED
      BY <3>1 DEF InOrder
  <2>7. w.size <= t.size
    BY <1>1, <1>2, <2>1
  <2>. QED
    BY <1>2, <2>6, <2>7 DEF IsTable, w
<1>. QED
  BY <1>4, <1>5

\* A copy of a table is a table.
LEMMA CopiedTable ==
  ASSUME NEW t, IsTable(t), t.ok = TRUE, V!CanCopy(t)
  PROVE  IsTable(V!Copy(t)) /\ V!Copy(t).size = t.size
<1>1. IsArray(t, Items) /\ InOrder(t)
  BY DEF IsTable
<1>2. IsArray(V!Copy(t), Items) /\ SameItems(t, V!Copy(t))
  BY <1>1, CopyIs
<1>. QED
  BY <1>1, <1>2 DEF IsTable, InOrder, SameItems

\* So is an empty vector.
LEMMA NewTable ==
  ASSUME NEW pod \in BOOLEAN
  PROVE  IsTable(V!NewVector(pod))
<1>1. IsArray(V!NewVector(pod), Items)
  BY NewVectorIs
<1>2. V!NewVector(pod).size = 0
  BY DEF V!NewVector
<1>. QED
  BY <1>1, <1>2 DEF IsTable, InOrder

\* insert(first, last) of two items.
PutTwo(t, e1, e2) == V!InsertedItem(V!InsertedItem(t, e1), e2)
\* A range of two is two insertions.
LEMMA InsertRangeIs ==
  ASSUME NEW e1, NEW e2, V!InsertRange(<<e1, e2>>)
  PROVE  sorted' = PutTwo(sorted, e1, e2) /\ erased' = erased
<1> DEFINE D == 0 .. 2
           s == <<e1, e2>>
           body(f) == [n \in D |-> IF n = 0 THEN sorted ELSE V!InsertedItem(f[n - 1], s[n])]
           put == CHOOSE f : f = body(f)
           g == [n \in D |-> IF n = 0 THEN sorted ELSE IF n = 1 THEN V!InsertedItem(sorted, e1) ELSE PutTwo(sorted, e1, e2)]
<1>1. Len(s) = 2 /\ s[1] = e1 /\ s[2] = e2
  OBVIOUS
<1>2. g = body(g)
  <2>1. ASSUME NEW n \in D
        PROVE  g[n] = IF n = 0 THEN sorted ELSE V!InsertedItem(g[n - 1], s[n])
    <3>1. g[0] = sorted /\ g[1] = V!InsertedItem(sorted, e1) /\ g[2] = PutTwo(sorted, e1, e2)
      OBVIOUS
    <3>2. n = 0 \/ n = 1 \/ n = 2
      OBVIOUS
    <3>. HIDE DEF g, s
    <3>3. CASE n = 0
      BY <3>1, <3>3
    <3>4. CASE n = 1
      <4>1. n - 1 = 0 /\ n # 0
        BY <3>4
      <4>. QED
        BY <1>1, <3>1, <3>4, <4>1
    <3>5. CASE n = 2
      <4>1. n - 1 = 1 /\ n # 0
        BY <3>5
      <4>. QED
        BY <1>1, <3>1, <3>5, <4>1 DEF PutTwo
    <3>. QED
      BY <3>2, <3>3, <3>4, <3>5
  <2>2. g = [n \in D |-> g[n]]
    OBVIOUS
  <2>. HIDE DEF g
  <2>. QED
    BY <2>1, <2>2
<1>3. put = body(put)
  <2>. HIDE DEF body, g
  <2>. QED
    BY <1>2
<1>4. sorted' = put[2] /\ erased' = erased
  <2>1. V!InsertRange(s)
    OBVIOUS
  <2>. HIDE DEF s
  <2>2. D = 0 .. Len(s)
    BY <1>1
  <2>3. sorted' \in {put[Len(s)]} /\ erased' = erased
    BY <2>1, <2>2, Zenon DEF V!InsertRange
  <2>. HIDE DEF put
  <2>. QED
    BY <1>1, <2>3
<1>. HIDE DEF put
<1>5. put[0] = sorted /\ put[1] = V!InsertedItem(put[0], s[1]) /\ put[2] = V!InsertedItem(put[1], s[2])
  <2>1. \A n \in D : put[n] = IF n = 0 THEN sorted ELSE V!InsertedItem(put[n - 1], s[n])
    BY <1>3
  <2>2. 0 \in D /\ 1 \in D /\ 2 \in D /\ 1 - 1 = 0 /\ 2 - 1 = 1 /\ 1 # 0 /\ 2 # 0
    OBVIOUS
  <2>. HIDE DEF D, s
  <2>3. put[0] = sorted
    BY <2>1, <2>2
  <2>4. put[1] = V!InsertedItem(put[1 - 1], s[1])
    BY <2>1, <2>2
  <2>5. put[2] = V!InsertedItem(put[2 - 1], s[2])
    BY <2>1, <2>2
  <2>. QED
    BY <2>2, <2>3, <2>4, <2>5
<1>. QED
  BY <1>1, <1>4, <1>5 DEF PutTwo
-----------------------------------------------------------------------------
TableOK == erased \in BOOLEAN /\ (sorted.ok /\ ~ erased => IsTable(sorted))

\* What an insertion of one item, of two, and a removal by key leave.
PutOne(t, e, w) ==
  IF V!CanInsert(t) THEN V!PutFirst(V!Contents(t), e, V!Contents(w)) ELSE V!Contents(w) = V!Contents(t)
PutBoth(t, e1, e2, w) ==
  IF V!CanInsert(t)
  THEN \/ V!PutFirst(V!Contents(t), e1, V!Contents(w)) /\ ~ V!CanInsert(w)
       \/ \E mid \in {V!RemoveAt(V!Contents(w), p) : p \in 1 .. Len(V!Contents(w))} :
            V!PutFirst(V!Contents(t), e1, mid) /\ V!PutFirst(mid, e2, V!Contents(w))
  ELSE V!Contents(w) = V!Contents(t)
TakenFirst(t, k, w) ==
  \E p \in 1 .. Len(V!Contents(t)) :
    /\ V!Contents(t)[p].key = k /\ V!Contents(w) = V!RemoveAt(V!Contents(t), p)
    /\ \A q \in 1 .. p - 1 : V!Contents(t)[q].key # k

LEMMA PutOneIs ==
  ASSUME NEW t, IsTable(t), NEW e \in Items
  PROVE  IsTable(V!InsertedItem(t, e)) /\ PutOne(t, e, V!InsertedItem(t, e))
BY InsertedItemIs DEF PutOne

LEMMA PutTwoIs ==
  ASSUME NEW t, IsTable(t), NEW e1 \in Items, NEW e2 \in Items
  PROVE  IsTable(PutTwo(t, e1, e2)) /\ PutBoth(t, e1, e2, PutTwo(t, e1, e2))
<1> DEFINE u == V!InsertedItem(t, e1)
           w == V!InsertedItem(u, e2)
<1>1. /\ IsTable(u)
      /\ V!CanInsert(t) => V!PutFirst(V!Contents(t), e1, V!Contents(u))
      /\ ~ V!CanInsert(t) => u = t
  BY InsertedItemIs
<1>. HIDE DEF u
<1>2. /\ IsTable(w)
      /\ V!CanInsert(u) => V!PutFirst(V!Contents(u), e2, V!Contents(w))
      /\ ~ V!CanInsert(u) => w = u
  BY <1>1, InsertedItemIs
<1>3. PutTwo(t, e1, e2) = w
  BY DEF PutTwo, u
<1>. HIDE DEF w
<1>4. PutBoth(t, e1, e2, w)
  <2>1. CASE V!CanInsert(t) /\ V!CanInsert(u)
    <3> DEFINE c == V!Contents(u)
               d == V!Contents(w)
    <3>1. V!PutFirst(V!Contents(t), e1, c) /\ V!PutFirst(c, e2, d)
      BY <1>1, <1>2, <2>1
    <3>. HIDE DEF c, d
    <3>2. c \in {V!RemoveAt(d, p) : p \in 1 .. Len(d)}
      BY <3>1 DEF V!PutFirst
    <3>. QED
      BY <2>1, <3>1, <3>2 DEF PutBoth, d
  <2>2. CASE V!CanInsert(t) /\ ~ V!CanInsert(u)
    BY <1>1, <1>2, <2>2 DEF PutBoth
  <2>3. CASE ~ V!CanInsert(t)
    \* The second finds no more room than the first.
    BY <1>1, <1>2, <2>3 DEF PutBoth
  <2>. QED
    BY <2>1, <2>2, <2>3
<1>. QED
  BY <1>2, <1>3, <1>4

LEMMA TableInit == V!TableInit => TableOK
<1>. SUFFICES ASSUME V!TableInit
              PROVE  TableOK
  OBVIOUS
<1>1. (sorted = V!NewVector(FALSE) \/ sorted = V!NewVector(TRUE)) /\ erased = FALSE
  BY DEF V!TableInit
<1>2. IsTable(V!NewVector(FALSE)) /\ IsTable(V!NewVector(TRUE))
  BY NewTable
<1>3. IsTable(sorted)
  BY <1>1, <1>2
<1>. QED
  BY <1>1, <1>3 DEF TableOK

\* An erasure at a place.
LEMMA EraseStep ==
  ASSUME TableOK, sorted.ok, NEW pos1 \in Int, NEW len \in Nat, V!EraseAt(pos1, len)
  PROVE  /\ erased' \in BOOLEAN /\ (~ erased' => ~ erased)
         /\ ~ erased' => IsTable(sorted')
<1> DEFINE w == V!Removed(sorted, pos1, len)
<1>1. sorted' = w /\ erased' = (erased \/ (sorted.pod /\ sorted' # sorted /\ pos1 < sorted'.size))
  BY DEF V!EraseAt
<1>2. erased' \in BOOLEAN /\ (~ erased' => ~ erased)
  BY <1>1 DEF TableOK
<1>3. ASSUME ~ erased'
      PROVE  IsTable(sorted')
  <2>1. IsTable(sorted)
    BY <1>2, <1>3 DEF TableOK
  <2>2. ~ sorted.pod \/ w = sorted \/ ~ (pos1 < w.size)
    BY <1>1, <1>3
  <2>. QED
    BY <1>1, <2>1, <2>2, RemovedTable
<1>. QED
  BY <1>2, <1>3

\* remove(key) takes the first item of the key, which find() gives.
LEMMA RemovedFirst ==
  ASSUME TableOK, sorted.ok, NEW k \in TableKeys, V!RemoveKey(k), ~ erased'
  PROVE  TakenFirst(sorted, k, sorted')
<1> DEFINE at == V!Find(sorted, k)
           w == V!Removed(sorted, at, 1)
           c == V!Contents(sorted)
<1>1. /\ at # V!End /\ sorted' = w
      /\ ~ erased /\ (~ sorted.pod \/ w = sorted \/ ~ (at < w.size))
  BY DEF V!RemoveKey, V!EraseAt
<1>2. IsTable(sorted) /\ IsArray(sorted, Items) /\ k \in Int
  BY <1>1, VectorFacts DEF TableOK, IsTable
<1>3. IsFirst(sorted, k, at)
  BY <1>1, <1>2, FindIs
<1>. HIDE DEF at
<1>4. /\ c \in Seq(Items) /\ Len(c) = sorted.size /\ sorted.size \in Nat
      /\ \A i \in 1 .. sorted.size : c[i] = sorted.data[i - 1]
  BY <1>2, ContentsAre
<1>5. at \in 0 .. sorted.size - 1 /\ at \in Int /\ at \in Nat
  BY <1>3, <1>4 DEF IsFirst
<1>6. V!Taken(sorted, at, 1) = 1
  BY <1>2, <1>5, TakenIs, 1 \in Nat
<1>7. /\ w.size = sorted.size - 1
      /\ ~ sorted.pod \/ sorted.size - 1 <= at => Made(sorted, Cut(c, at, 1), sorted.cap, w)
  <2>1. 1 # 0 /\ 1 \in Nat
    OBVIOUS
  <2>. QED
    BY <1>2, <1>5, <1>6, <2>1, RemovedIs
<1>. HIDE DEF w, c
<1>8. ~ sorted.pod \/ sorted.size - 1 <= at
  <2>1. w # sorted
    BY <1>4, <1>7
  <2>. QED
    BY <1>1, <1>4, <1>5, <1>7, <2>1
<1>9. V!Contents(w) = V!RemoveAt(c, at + 1)
  <2>1. V!RemoveAt(c, at + 1) = Cut(c, (at + 1) - 1, 1)
    <3>1. at + 1 \in Nat
      BY <1>5
    <3>. QED
      BY <3>1, RemoveAtIs
  <2>2. (at + 1) - 1 = at
    BY <1>5
  <2>. QED
    BY <1>7, <1>8, <2>1, <2>2 DEF Made
<1>10. at + 1 \in 1 .. Len(c) /\ c[at + 1].key = k
  <2>1. at + 1 \in 1 .. sorted.size /\ (at + 1) - 1 = at
    BY <1>4, <1>5
  <2>. QED
    BY <1>3, <1>4, <2>1 DEF IsFirst
<1>11. ASSUME NEW q \in 1 .. (at + 1) - 1
       PROVE  c[q].key # k
  <2>1. q \in 1 .. sorted.size /\ q - 1 \in 0 .. sorted.size - 1 /\ ~ (at <= q - 1)
    BY <1>4, <1>5
  <2>. QED
    BY <1>3, <1>4, <2>1 DEF IsFirst
<1>. QED
  BY <1>1, <1>9, <1>10, <1>11 DEF TakenFirst, c

\* What a step does, whichever calls it could be.
LEMMA NewestStaysFirst ==
  ASSUME TableOK
  PROVE  V!NewestIsFirst
<1>. SUFFICES ASSUME ~ erased', sorted.ok
              PROVE  /\ \A e \in Items : V!TableInsert(e) => PutOne(sorted, e, sorted')
                     /\ \A e1, e2 \in Items : V!InsertRange(<<e1, e2>>) => PutBoth(sorted, e1, e2, sorted')
                     /\ \A k \in TableKeys : V!RemoveKey(k) => TakenFirst(sorted, k, sorted')
  BY DEF V!NewestIsFirst, PutOne, PutBoth, TakenFirst, Items
<1>1. ASSUME NEW e \in Items, V!TableInsert(e)
      PROVE  PutOne(sorted, e, sorted')
  <2>1. sorted' = V!InsertedItem(sorted, e) /\ erased' = erased
    BY <1>1 DEF V!TableInsert
  <2>2. IsTable(sorted)
    BY <2>1 DEF TableOK
  <2>. QED
    BY <2>1, <2>2, PutOneIs
<1>2. ASSUME NEW e1 \in Items, NEW e2 \in Items, V!InsertRange(<<e1, e2>>)
      PROVE  PutBoth(sorted, e1, e2, sorted')
  <2>1. sorted' = PutTwo(sorted, e1, e2) /\ erased' = erased
    BY <1>2, InsertRangeIs
  <2>2. IsTable(sorted)
    BY <2>1 DEF TableOK
  <2>. QED
    BY <2>1, <2>2, PutTwoIs
<1>3. ASSUME NEW k \in TableKeys, V!RemoveKey(k)
      PROVE  TakenFirst(sorted, k, sorted')
  BY <1>3, RemovedFirst
<1>. QED
  BY <1>1, <1>2, <1>3

\* Every step of a Table keeps it in order.
LEMMA TableStep ==
  ASSUME TableOK, V!TableNext \/ UNCHANGED tableVars
  PROVE  TableOK'
<1> DEFINE Good == /\ erased' \in BOOLEAN /\ (~ erased' => ~ erased)
                   /\ ~ erased' => IsTable(sorted')
<1>1. CASE UNCHANGED tableVars
  <2>1. sorted' = sorted /\ erased' = erased
    BY <1>1 DEF tableVars
  <2>. QED
    BY <2>1 DEF TableOK, IsTable, InOrder, IsArray, Arrays
<1>2. CASE V!TableNext
  <2>0. sorted.ok
    BY <1>2 DEF V!TableNext
  <2>1. ASSUME NEW e \in Items, V!TableInsert(e)
        PROVE  Good
    <3>1. sorted' = V!InsertedItem(sorted, e) /\ erased' = erased
      BY <2>1 DEF V!TableInsert
    <3>2. ~ erased => IsTable(sorted)
      BY <2>0 DEF TableOK
    <3>. QED
      BY <3>1, <3>2, PutOneIs DEF TableOK
  <2>2. ASSUME NEW e1 \in Items, NEW e2 \in Items, V!InsertRange(<<e1, e2>>)
        PROVE  Good
    <3>1. sorted' = PutTwo(sorted, e1, e2) /\ erased' = erased
      BY <2>2, InsertRangeIs
    <3>2. ~ erased => IsTable(sorted)
      BY <2>0 DEF TableOK
    <3>. QED
      BY <3>1, <3>2, PutTwoIs DEF TableOK
  <2>3. ASSUME NEW pos1 \in Int, NEW len \in Nat, V!EraseAt(pos1, len)
        PROVE  Good
    BY <2>0, <2>3, EraseStep
  <2>4. ASSUME NEW k \in TableKeys, V!RemoveKey(k)
        PROVE  Good
    <3>1. V!EraseAt(V!Find(sorted, k), 1)
      BY <2>4 DEF V!RemoveKey
    <3>2. CASE erased
      <4>1. erased' = TRUE
        BY <3>1, <3>2 DEF V!EraseAt
      <4>. QED
        BY <4>1
    <3>3. CASE ~ erased
      <4>1. IsTable(sorted) /\ k \in Int
        BY <2>0, <3>3, VectorFacts DEF TableOK
      <4>2. V!Find(sorted, k) \in Int
        <5>1. V!End \in Int
          BY DEF V!End
        <5>. QED
          BY <4>1, <5>1, FindIs DEF IsFirst
      <4>. QED
        BY <2>3, <3>1, <4>2, 1 \in Nat
    <3>. QED
      BY <3>2, <3>3
  <2>5. ASSUME V!TablePopBack
        PROVE  Good
    <3>1. V!EraseAt(sorted.size - 1, 1)
      BY <2>5 DEF V!TablePopBack
    <3>2. CASE erased
      <4>1. erased' = TRUE
        BY <3>1, <3>2 DEF V!EraseAt
      <4>. QED
        BY <4>1
    <3>3. CASE ~ erased
      <4>1. sorted.size \in Nat
        BY <2>0, <3>3, ContentsAre DEF TableOK, IsTable
      <4>2. sorted.size - 1 \in Int
        BY <4>1
      <4>. QED
        BY <2>3, <3>1, <4>2, 1 \in Nat
    <3>. QED
      BY <3>2, <3>3
  <2>6. ASSUME V!TableAssignCopy
        PROVE  Good
    <3>1. V!CanCopy(sorted) /\ sorted' = V!Copy(sorted) /\ erased' = erased
      BY <2>6 DEF V!TableAssignCopy
    <3>2. ASSUME ~ erased
          PROVE  IsTable(sorted')
      <4>1. IsTable(sorted) /\ sorted.size \in Nat
        BY <2>0, <3>2, ContentsAre DEF TableOK, IsTable
      <4>2. sorted.ok = TRUE
        <5>1. sorted.ok \in BOOLEAN
          BY <4>1 DEF IsTable, IsArray, Arrays
        <5>. QED
          BY <2>0, <5>1
      <4>. QED
        BY <3>1, <4>1, <4>2, CopiedTable
    <3>. QED
      BY <3>1, <3>2 DEF TableOK
  <2>7. Good
    <3>. HIDE DEF Good
    <3>1. CASE \E e \in V!TableItems : V!TableInsert(e)
      BY <2>1, <3>1 DEF Items
    <3>2. CASE \E e1, e2 \in V!TableItems : V!InsertRange(<<e1, e2>>)
      BY <2>2, <3>2 DEF Items
    <3>3. CASE \E pos1 \in 0 .. sorted.size - 1, len \in 1 .. 2 : V!EraseAt(pos1, len)
      <4>1. PICK pos1 \in 0 .. sorted.size - 1, len \in 1 .. 2 : V!EraseAt(pos1, len)
        BY <3>3
      <4>2. pos1 \in Int /\ len \in Nat
        OBVIOUS
      <4>. QED
        BY <2>3, <4>1, <4>2
    <3>. QED
      BY <1>2, <2>4, <2>5, <2>6, <3>1, <3>2, <3>3 DEF V!TableNext
  <2>. QED
    BY <2>0, <2>7 DEF TableOK
<1>. QED
  BY <1>1, <1>2

\* Which is what the property says of a state.
LEMMA FindsTheFirstHolds ==
  ASSUME TableOK
  PROVE  V!FindsTheFirst
<1>. SUFFICES ASSUME sorted.ok, ~ erased
              PROVE  /\ \A p \in 1 .. sorted.size - 1 : sorted.data[p - 1].key <= sorted.data[p].key
                     /\ \A k \in TableKeys :
                          LET places == {p \in 0 .. sorted.size - 1 : sorted.data[p].key = k}
                          IN  V!Find(sorted, k) =
                                IF places = {} THEN V!End ELSE CHOOSE p \in places : \A q \in places : p <= q
  BY DEF V!FindsTheFirst
<1>1. IsTable(sorted) /\ InOrder(sorted) /\ sorted.size \in Nat
  BY ContentsAre DEF TableOK, IsTable
<1>2. ASSUME NEW p \in 1 .. sorted.size - 1
      PROVE  sorted.data[p - 1].key <= sorted.data[p].key
  <2>1. p - 1 \in 0 .. sorted.size - 1 /\ p \in 0 .. sorted.size - 1 /\ p - 1 <= p
    BY <1>1
  <2>. QED
    BY <1>1, <2>1 DEF InOrder
<1>3. ASSUME NEW k \in TableKeys, NEW places, places = {p \in 0 .. sorted.size - 1 : sorted.data[p].key = k}
      PROVE  V!Find(sorted, k) = IF places = {} THEN V!End ELSE CHOOSE p \in places : \A q \in places : p <= q
  <2> DEFINE at == V!Find(sorted, k)
  <2>1. k \in Int
    BY VectorFacts
  <2>2. \/ at = V!End /\ \A p \in 0 .. sorted.size - 1 : sorted.data[p].key # k
        \/ IsFirst(sorted, k, at)
    BY <1>1, <2>1, FindIs
  <2>. HIDE DEF at
  <2>3. CASE at = V!End /\ \A p \in 0 .. sorted.size - 1 : sorted.data[p].key # k
    <3>1. places = {}
      BY <1>3, <2>3
    <3>. QED
      BY <2>3, <3>1 DEF at
  <2>4. CASE IsFirst(sorted, k, at)
    <3>1. at \in places /\ \A q \in places : at <= q
      BY <1>3, <2>4 DEF IsFirst
    <3>2. \A p \in places : (\A q \in places : p <= q) => p = at
      <4>1. places \subseteq Int
        BY <1>3
      <4>. QED
        BY <3>1, <4>1
    <3>3. places # {}
      BY <3>1
    <3>4. (CHOOSE p \in places : \A q \in places : p <= q) = at
      BY <3>1, <3>2
    <3>. QED
      BY <3>3, <3>4 DEF at
  <2>. QED
    BY <2>2, <2>3, <2>4
<1>. QED
  BY <1>2, <1>3
-----------------------------------------------------------------------------
(* Loops.                                                                   *)

\* f[n] is what the n-th step makes makes of f[n - 1].
IsLoop(A, a, m, makes, f) == f \in [0 .. m -> A] /\ f[0] = a /\ \A n \in 1 .. m : f[n] = makes[<<n, f[n - 1]>>]

LEMMA LoopExists ==
  ASSUME NEW A, NEW a \in A, NEW m \in Nat, NEW makes \in [(1 .. m) \X A -> A]
  PROVE  \E f : IsLoop(A, a, m, makes, f)
<1> DEFINE D == 0 .. m
           body(f) == [n \in D |-> IF n = 0 THEN a ELSE makes[<<n, f[n - 1]>>]]
           G == [f \in [D -> A] |-> body(f)]
           rank == [n \in D |-> n]
<1>1. \A n \in D : n # 0 => n - 1 \in D /\ n \in 1 .. m /\ rank[n - 1] < rank[n]
  OBVIOUS
<1>2. rank \in [D -> 0 .. m] /\ A # {}
  OBVIOUS
<1>. HIDE DEF D
<1>3. G \in [[D -> A] -> [D -> A]]
  <2>1. ASSUME NEW f \in [D -> A]
        PROVE  body(f) \in [D -> A]
    <3>1. ASSUME NEW n \in D, n # 0
          PROVE  makes[<<n, f[n - 1]>>] \in A
      <4>1. f[n - 1] \in A /\ n \in 1 .. m
        BY <1>1, <3>1
      <4>. QED
        BY <4>1
    <3>. QED
      BY <3>1
  <2>. HIDE DEF body
  <2>. QED
    BY <2>1
<1>4. Descends(D, A, rank, G)
  <2>1. ASSUME NEW f \in [D -> A], NEW g \in [D -> A], NEW d \in D,
               \A e \in D : rank[e] < rank[d] => f[e] = g[e]
        PROVE  G[f][d] = G[g][d]
    <3>1. /\ G[f][d] = IF d = 0 THEN a ELSE makes[<<d, f[d - 1]>>]
          /\ G[g][d] = IF d = 0 THEN a ELSE makes[<<d, g[d - 1]>>]
      OBVIOUS
    <3>2. d # 0 => f[d - 1] = g[d - 1]
      BY <1>1, <2>1
    <3>. QED
      BY <3>1, <3>2
  <2>. HIDE DEF G, rank
  <2>. QED
    BY <2>1 DEF Descends
<1>5. IsRecursion(D, A, G)
  <2>. HIDE DEF G, rank
  <2>. QED
    BY <1>2, <1>3, <1>4 DEF IsRecursion
<1>6. PICK f \in [D -> A] : f = G[f]
  <2>. HIDE DEF G
  <2>. QED
    BY <1>5, RecursionExists DEF HasSolution
<1>7. \A n \in D : f[n] = IF n = 0 THEN a ELSE makes[<<n, f[n - 1]>>]
  <2>1. G[f] = body(f)
    OBVIOUS
  <2>2. f = body(f)
    <3>. HIDE DEF G, body
    <3>. QED
      BY <1>6, <2>1
  <2>. HIDE DEF G
  <2>. QED
    BY <2>2
<1>8. 0 \in D /\ \A n \in 1 .. m : n \in D /\ n # 0
  BY DEF D
<1>9. f \in [0 .. m -> A]
  BY <1>6 DEF D
<1>10. f[0] = a /\ \A n \in 1 .. m : f[n] = makes[<<n, f[n - 1]>>]
  BY <1>7, <1>8
<1>. QED
  BY <1>9, <1>10 DEF IsLoop
-----------------------------------------------------------------------------
(* What a vector holds.                                                     *)

LEMMA ContentsIs ==
  ASSUME NEW X, NEW w, IsArray(w, X), NEW r \in Seq(X), Len(r) = w.size,
         \A p \in 0 .. w.size - 1 : w.data[p] = r[p + 1]
  PROVE  V!Contents(w) = r
<1>1. w.size \in Nat
  BY ContentsAre
<1>2. ASSUME NEW i \in 1 .. w.size
      PROVE  w.data[i - 1] = r[i]
  <2>1. i - 1 \in 0 .. w.size - 1 /\ (i - 1) + 1 = i
    BY <1>1
  <2>2. w.data[i - 1] = r[(i - 1) + 1]
    BY <2>1
  <2>. QED
    BY <2>1, <2>2
<1>3. V!Contents(w) = [i \in 1 .. w.size |-> w.data[i - 1]]
  BY DEF V!Contents
<1>. QED
  BY <1>1, <1>2, <1>3

\* What a vector holds by its places.
LEMMA PlacesAre ==
  ASSUME NEW X, NEW v, IsArray(v, X), NEW p \in 0 .. v.size - 1
  PROVE  v.data[p] = V!Contents(v)[p + 1] /\ p + 1 \in 1 .. v.size
<1>1. v.size \in Nat /\ \A i \in 1 .. v.size : V!Contents(v)[i] = v.data[i - 1]
  BY ContentsAre
<1>2. p + 1 \in 1 .. v.size /\ (p + 1) - 1 = p
  BY <1>1
<1>. QED
  BY <1>1, <1>2

LEMMA ExtendedContents ==
  ASSUME NEW X, NEW v, IsArray(v, X), NEW s \in Seq(X), NEW n \in 0 .. Len(s), NEW w, IsArray(w, X), Extended(v, s, n, w),
         NEW r \in Seq(X), Len(r) = v.size + n, \A i \in 1 .. v.size : r[i] = V!Contents(v)[i],
         \A i \in 1 .. n : r[v.size + i] = s[i]
  PROVE  V!Contents(w) = r
<1>1. v.size \in Nat /\ n \in Nat /\ w.size = v.size + n
  BY ContentsAre DEF Extended
<1>2. ASSUME NEW p \in 0 .. w.size - 1
      PROVE  w.data[p] = r[p + 1]
  <2>1. CASE p < v.size
    <3>1. p \in 0 .. v.size - 1
      BY <1>1, <2>1
    <3>2. v.data[p] = V!Contents(v)[p + 1] /\ p + 1 \in 1 .. v.size
      BY <3>1, PlacesAre
    <3>. QED
      BY <3>1, <3>2 DEF Extended
  <2>2. CASE p >= v.size
    <3>1. PICK i \in 1 .. n : p = v.size + i - 1 /\ p + 1 = v.size + i
      <4>0. p \in Nat /\ p <= v.size + n - 1 /\ p >= v.size /\ n \in Nat /\ v.size \in Nat
        BY <1>1, <2>2
      <4>1. p - v.size + 1 \in 1 .. n /\ p = v.size + (p - v.size + 1) - 1 /\ p + 1 = v.size + (p - v.size + 1)
        BY <4>0
      <4>. QED
        BY <4>1
    <3>2. w.data[p] = s[i]
      BY <3>1 DEF Extended
    <3>3. r[p + 1] = s[i]
      BY <3>1
    <3>. QED
      BY <3>2, <3>3
  <2>. QED
    BY <1>1, <2>1, <2>2
<1>. QED
  BY <1>1, <1>2, ContentsIs

LEMMA PushedContents ==
  ASSUME NEW X, NEW v, IsArray(v, X), NEW e \in X, V!CanInsert(v)
  PROVE  V!Contents(V!PushedBack(v, e)) = Append(V!Contents(v), e)
<1> DEFINE w == V!PushedBack(v, e)
           c == V!Contents(v)
           s == <<e>>
           r == Append(c, e)
<1>1. c \in Seq(X) /\ Len(c) = v.size /\ v.size \in Nat
  BY ContentsAre
<1>2. IsArray(w, X) /\ Extended(v, s, 1, w)
  BY PushedBackIs
<1>3. s \in Seq(X) /\ Len(s) = 1 /\ s[1] = e
  OBVIOUS
<1>. HIDE DEF c, w, s
<1>4. r \in Seq(X) /\ Len(r) = v.size + 1 /\ (\A i \in 1 .. v.size : r[i] = c[i]) /\ r[v.size + 1] = e
  BY <1>1
<1>. HIDE DEF r
<1>5. \A i \in 1 .. 1 : r[v.size + i] = s[i]
  <2>1. \A i \in 1 .. 1 : i = 1
    OBVIOUS
  <2>. QED
    BY <1>3, <1>4, <2>1
<1>6. 1 \in 0 .. Len(s)
  BY <1>3
<1>7. V!Contents(w) = r
  BY <1>2, <1>3, <1>4, <1>5, <1>6, ExtendedContents DEF c
<1>. QED
  BY <1>7 DEF w, r, c

\* w is v without its last n items.
Shorter(v, n, w) ==
  /\ w.size = v.size - n /\ w.pod = v.pod /\ w.ok = v.ok
  /\ \A p \in 0 .. v.size - n - 1 : w.data[p] = v.data[p]

LEMMA RemovedKeeps ==
  ASSUME NEW X, NEW v, IsArray(v, X), IsClean(v, X), NEW pos1 \in Int, NEW len \in Nat
  PROVE  LET w == V!Removed(v, pos1, len) IN IsArray(w, X) /\ IsClean(w, X) /\ w.pod = v.pod
<1> DEFINE w == V!Removed(v, pos1, len)
           n == V!Taken(v, pos1, len)
<1>1. /\ n \in Nat /\ IsArray(w, X)
      /\ n = 0 => w = v
      /\ n # 0 => /\ pos1 \in Nat /\ pos1 + n <= v.size /\ w.pod = v.pod
                  /\ ~ v.pod => w = V!RemovedObjects(v, pos1, n)
  BY RemovedIs
<1>. HIDE DEF w, n
<1>2. CASE n = 0
  BY <1>1, <1>2 DEF w
<1>3. CASE n # 0 /\ v.pod
  <2>1. IsClean(w, X)
    BY <1>1, <1>3 DEF IsClean
  <2>. QED
    BY <1>1, <1>3, <2>1 DEF w
<1>4. CASE n # 0 /\ ~ v.pod
  <2>1. IsClean(V!RemovedObjects(v, pos1, n), X)
    BY <1>1, <1>4, RemovedObjectsAre
  <2>. QED
    BY <1>1, <1>4, <2>1 DEF w
<1>. QED
  BY <1>2, <1>3, <1>4

\* A removal of which it can be said what is left: of objects, or at the end.
LEMMA RemovedLeaves ==
  ASSUME NEW X, NEW v, IsArray(v, X), NEW i \in Nat, NEW len \in Nat, NEW n, n = V!Taken(v, i, len),
         n # 0, ~ v.pod \/ v.size - n <= i
  PROVE  LET w == V!Removed(v, i, len)
         IN  /\ w.size = v.size - n /\ w.pod = v.pod /\ w.ok = v.ok /\ n \in Nat /\ i + n <= v.size
             /\ V!Contents(w) = Cut(V!Contents(v), i, n)
             /\ \A p \in 0 .. w.size - 1 : w.data[p] = IF p < i THEN v.data[p] ELSE v.data[p + n]
<1> DEFINE w == V!Removed(v, i, len)
           c == V!Contents(v)
           s == Cut(c, i, n)
<1>1. /\ c \in Seq(X) /\ Len(c) = v.size /\ v.size \in Nat
      /\ \A j \in 1 .. v.size : c[j] = v.data[j - 1]
  BY ContentsAre
<1>. HIDE DEF c
<1>2. i \in Int
  OBVIOUS
<1>3. n \in Nat /\ i + n <= v.size /\ w.size = v.size - n /\ w.pod = v.pod /\ Made(v, s, v.cap, w)
  BY <1>2, RemovedIs DEF c
<1>. HIDE DEF w
<1>4. IsCut(c, i, n, s)
  <2>1. i + n <= Len(c)
    BY <1>1, <1>3
  <2>. QED
    BY <1>1, <1>3, <2>1, CutIs
<1>. HIDE DEF s
<1>5. ASSUME NEW p \in 0 .. w.size - 1
      PROVE  w.data[p] = IF p < i THEN v.data[p] ELSE v.data[p + n]
  <2>1. p + 1 \in 1 .. Len(c) - n /\ (p + 1) - 1 = p /\ Len(s) = Len(c) - n /\ p \in Nat
    BY <1>1, <1>3, <1>4 DEF IsCut
  <2>2. w.data[p] = s[p + 1] /\ s[p + 1] = IF p + 1 <= i THEN c[p + 1] ELSE c[p + 1 + n]
    BY <1>3, <1>4, <2>1 DEF Made, IsCut
  <2>3. CASE p < i
    <3>1. p + 1 <= i /\ p + 1 \in 1 .. v.size
      BY <1>1, <1>3, <2>1, <2>3
    <3>. QED
      BY <1>1, <2>1, <2>2, <2>3, <3>1
  <2>4. CASE ~ (p < i)
    <3>0. p \in Nat /\ n \in Nat /\ v.size \in Nat /\ p + 1 <= v.size - n /\ ~ (p < i) /\ i \in Nat
      BY <1>1, <1>3, <2>1, <2>4
    <3>1. ~ (p + 1 <= i) /\ p + 1 + n \in 1 .. v.size /\ (p + 1 + n) - 1 = p + n
      BY <3>0
    <3>2. c[p + 1 + n] = v.data[p + n]
      BY <1>1, <3>1
    <3>. QED
      BY <2>2, <2>4, <3>1, <3>2
  <2>. QED
    BY <2>3, <2>4
<1>6. w.ok = v.ok /\ V!Contents(w) = s
  BY <1>3 DEF Made
<1>. QED
  BY <1>3, <1>5, <1>6 DEF w, s, c

LEMMA PoppedBackIs ==
  ASSUME NEW X, NEW v, IsArray(v, X), IsClean(v, X)
  PROVE  LET w == V!PoppedBack(v)
         IN  /\ IsArray(w, X) /\ IsClean(w, X)
             /\ v.size > 0 => Shorter(v, 1, w) /\ V!Contents(w) = Cut(V!Contents(v), v.size - 1, 1)
             /\ v.size = 0 => w = v
<1> DEFINE w == V!PoppedBack(v)
           i == v.size - 1
<1>1. v.size \in Nat /\ i \in Int
  BY ContentsAre
<1>2. w = V!Removed(v, i, 1)
  BY DEF V!PoppedBack
<1>. HIDE DEF w
<1>3. IsArray(w, X) /\ IsClean(w, X)
  <2>. HIDE DEF i
  <2>. QED
    BY <1>1, <1>2, RemovedKeeps, 1 \in Nat
<1>4. V!Taken(v, i, 1) = IF i \in 0 .. v.size - 1 THEN 1 ELSE 0
  BY <1>1, TakenIs, 1 \in Nat
<1>5. CASE v.size = 0
  <2>1. V!Taken(v, i, 1) = 0
    BY <1>4, <1>5
  <2>2. w = v
    BY <1>2, <2>1 DEF V!Removed
  <2>. QED
    BY <1>3, <1>5, <2>2 DEF w
<1>6. CASE v.size > 0
  <2>1. i \in Nat /\ V!Taken(v, i, 1) = 1 /\ v.size - 1 <= i
    BY <1>1, <1>4, <1>6
  <2>2. /\ w.size = v.size - 1 /\ w.pod = v.pod /\ w.ok = v.ok /\ V!Contents(w) = Cut(V!Contents(v), i, 1)
        /\ \A p \in 0 .. w.size - 1 : w.data[p] = IF p < i THEN v.data[p] ELSE v.data[p + 1]
    <3>. HIDE DEF i
    <3>1. 1 \in Nat /\ 1 # 0 /\ 1 = V!Taken(v, i, 1)
      BY <2>1
    <3>. QED
      BY <1>2, <2>1, <3>1, RemovedLeaves
  <2>3. Shorter(v, 1, w)
    <3>1. \A p \in 0 .. v.size - 1 - 1 : p < i /\ p \in 0 .. w.size - 1
      BY <1>1, <2>2
    <3>. HIDE DEF i
    <3>. QED
      BY <2>2, <3>1 DEF Shorter
  <2>4. ~ (v.size = 0)
    BY <1>6
  <2>. QED
    BY <1>3, <2>2, <2>3, <2>4 DEF w
<1>. QED
  BY <1>1, <1>5, <1>6

\* A loop of pop_back() leaves the first items.
LEMMA ShortenedIs ==
  ASSUME NEW X, NEW v, IsArray(v, X), IsClean(v, X), NEW n \in 0 .. v.size
  PROVE  LET w == V!Shortened(v, n) IN IsArray(w, X) /\ IsClean(w, X) /\ Shorter(v, n, w)
<1> DEFINE A == {w \in Arrays(X) : IsArray(w, X) /\ IsClean(w, X)}
           makes == [e \in (1 .. n) \X A |-> V!PoppedBack(e[2])]
           D == 0 .. n
           body(f) == [k \in D |-> IF k = 0 THEN v ELSE V!PoppedBack(f[k - 1])]
           pop == CHOOSE f : f = body(f)
<1>0. v.size \in Nat /\ n \in Nat /\ n <= v.size
  BY ContentsAre
<1>1. v \in A
  BY DEF IsArray
<1>2. \A w \in A : V!PoppedBack(w) \in A
  <2>1. ASSUME NEW w \in A
        PROVE  V!PoppedBack(w) \in A
    <3>1. IsArray(V!PoppedBack(w), X) /\ IsClean(V!PoppedBack(w), X)
      BY PoppedBackIs
    <3>. QED
      BY <3>1 DEF IsArray
  <2>. QED
    BY <2>1
<1>. HIDE DEF A
<1>3. makes \in [(1 .. n) \X A -> A]
  BY <1>2
<1>4. PICK f : IsLoop(A, v, n, makes, f)
  <2>. HIDE DEF makes
  <2>. QED
    BY <1>0, <1>1, <1>3, LoopExists
<1>5. f = body(f)
  <2>1. f \in [D -> A] /\ f[0] = v /\ \A k \in 1 .. n : f[k] = makes[<<k, f[k - 1]>>]
    BY <1>4 DEF IsLoop
  <2>2. ASSUME NEW k \in 1 .. n
        PROVE  f[k] = V!PoppedBack(f[k - 1])
    <3>1. k - 1 \in D
      BY <1>0
    <3>2. f[k - 1] \in A
      BY <2>1, <3>1
    <3>. QED
      BY <2>1, <3>2
  <2>3. \A k \in D : k # 0 => k \in 1 .. n
    BY <1>0
  <2>. HIDE DEF makes, D
  <2>. QED
    BY <2>1, <2>2, <2>3
<1>6. pop = body(pop)
  <2>. HIDE DEF body
  <2>. QED
    BY <1>5
<1>7. V!Shortened(v, n) = pop[n]
  BY DEF V!Shortened
<1>. HIDE DEF pop
<1>8. pop[0] = v /\ \A k \in 1 .. n : pop[k] = V!PoppedBack(pop[k - 1])
  <2>1. \A k \in D : pop[k] = IF k = 0 THEN v ELSE V!PoppedBack(pop[k - 1])
    BY <1>6
  <2>2. 0 \in D /\ \A k \in 1 .. n : k \in D /\ k # 0
    BY <1>0
  <2>. HIDE DEF D
  <2>. QED
    BY <2>1, <2>2
<1> DEFINE Good(k) == IsArray(pop[k], X) /\ IsClean(pop[k], X) /\ Shorter(v, k, pop[k])
           Y == {k \in Nat : k <= n => Good(k)}
<1>9. 0 \in Y
  <2>1. v.size - 0 = v.size
    BY <1>0
  <2>2. Shorter(v, 0, v)
    BY <2>1 DEF Shorter
  <2>. QED
    BY <1>8, <2>2
<1>10. ASSUME NEW k \in 1 .. n, k - 1 \in Y
       PROVE  k \in Y
  <2> DEFINE u == pop[k - 1]
             w == pop[k]
  <2>1. k \in Nat /\ k - 1 \in Nat /\ k <= n /\ w = V!PoppedBack(u)
    BY <1>8, <1>0
  <2>2. IsArray(u, X) /\ IsClean(u, X) /\ Shorter(v, k - 1, u)
    BY <1>10, <2>1, <1>0
  <2>. HIDE DEF u, w
  <2>3. u.size = v.size - (k - 1) /\ u.size > 0
    BY <1>0, <2>1, <2>2 DEF Shorter
  <2>4. IsArray(w, X) /\ IsClean(w, X) /\ Shorter(u, 1, w)
    BY <2>1, <2>2, <2>3, PoppedBackIs
  <2>5. Shorter(v, k, w)
    <3>1. w.size = v.size - k /\ w.pod = v.pod /\ w.ok = v.ok
      BY <1>0, <2>1, <2>2, <2>3, <2>4 DEF Shorter
    <3>2. ASSUME NEW p \in 0 .. v.size - k - 1
          PROVE  w.data[p] = v.data[p]
      <4>1. p \in 0 .. u.size - 1 - 1 /\ p \in 0 .. v.size - (k - 1) - 1
        BY <1>0, <2>1, <2>3
      <4>. QED
        BY <2>2, <2>4, <4>1 DEF Shorter
    <3>. QED
      BY <3>1, <3>2 DEF Shorter
  <2>. QED
    BY <2>1, <2>4, <2>5 DEF w
<1>11. n \in Y
  <2>. HIDE DEF Y
  <2>1. \A k \in 1 .. n : k - 1 \in Y => k \in Y
    BY <1>10
  <2>2. \A k \in 0 .. n : k \in Y
    BY <1>0, <1>9, <2>1, UpTo
  <2>. QED
    BY <1>0, <2>2
<1>12. Good(n)
  BY <1>0, <1>11
<1>. QED
  BY <1>7, <1>12
-----------------------------------------------------------------------------
(* Vector::remove(value).                                                   *)

\* kept[n] are those of the first n items that are not e.
IsKept(s, e, kept) ==
  /\ kept[0] = <<>>
  /\ \A n \in 1 .. Len(s) : kept[n] = IF s[n] = e THEN kept[n - 1] ELSE Append(kept[n - 1], s[n])

LEMMA OthersAre ==
  ASSUME NEW X, NEW s \in Seq(X), NEW e
  PROVE  \E kept : IsKept(s, e, kept) /\ V!Others(s, e) = kept[Len(s)] /\ \A n \in 0 .. Len(s) : kept[n] \in Seq(X)
<1> DEFINE m == Len(s)
           A == Seq(X)
           makes == [d \in (1 .. m) \X A |-> IF s[d[1]] = e THEN d[2] ELSE Append(d[2], s[d[1]])]
           D == 0 .. m
           body(f) == [n \in D |-> IF n = 0 THEN <<>> ELSE IF s[n] = e THEN f[n - 1] ELSE Append(f[n - 1], s[n])]
           kept == CHOOSE f : f = body(f)
<1>1. m \in Nat /\ <<>> \in A /\ \A n \in 1 .. m : s[n] \in X
  OBVIOUS
<1>2. makes \in [(1 .. m) \X A -> A]
  <2>1. ASSUME NEW d \in (1 .. m) \X A
        PROVE  (IF s[d[1]] = e THEN d[2] ELSE Append(d[2], s[d[1]])) \in A
    <3>1. d[1] \in 1 .. m /\ d[2] \in Seq(X)
      OBVIOUS
    <3>2. s[d[1]] \in X
      BY <1>1, <3>1
    <3>3. Append(d[2], s[d[1]]) \in Seq(X)
      BY <3>1, <3>2
    <3>. QED
      BY <3>1, <3>3
  <2>. QED
    BY <2>1
<1>. HIDE DEF m
<1>3. PICK f : IsLoop(A, <<>>, m, makes, f)
  <2>. HIDE DEF makes, A
  <2>. QED
    BY <1>1, <1>2, LoopExists
<1>4. f = body(f)
  <2>1. f \in [D -> A] /\ f[0] = <<>> /\ \A n \in 1 .. m : f[n] = makes[<<n, f[n - 1]>>]
    BY <1>3 DEF IsLoop
  <2>2. ASSUME NEW n \in 1 .. m
        PROVE  f[n] = IF s[n] = e THEN f[n - 1] ELSE Append(f[n - 1], s[n])
    <3>1. n - 1 \in D
      BY <1>1
    <3>2. f[n - 1] \in A
      BY <2>1, <3>1
    <3>3. <<n, f[n - 1]>> \in (1 .. m) \X A
      BY <3>2
    <3>4. makes[<<n, f[n - 1]>>] = IF s[n] = e THEN f[n - 1] ELSE Append(f[n - 1], s[n])
      <4> DEFINE d == <<n, f[n - 1]>>
      <4>1. d[1] = n /\ d[2] = f[n - 1]
        OBVIOUS
      <4>2. makes[d] = IF s[d[1]] = e THEN d[2] ELSE Append(d[2], s[d[1]])
        BY <3>3
      <4>. HIDE DEF d, makes
      <4>3. makes[d] = IF s[n] = e THEN f[n - 1] ELSE Append(f[n - 1], s[n])
        BY <4>1, <4>2
      <4>. QED
        BY <4>3 DEF d
    <3>. QED
      BY <2>1, <3>4
  <2>3. \A n \in D : n # 0 => n \in 1 .. m
    BY <1>1
  <2>. HIDE DEF makes, D
  <2>. QED
    BY <2>1, <2>2, <2>3
<1>5. kept = body(kept)
  <2>. HIDE DEF body
  <2>. QED
    BY <1>4
<1>6. V!Others(s, e) = kept[m]
  BY DEF V!Others, m
<1>. HIDE DEF kept
<1>7. kept[0] = <<>> /\ \A n \in 1 .. m : kept[n] = IF s[n] = e THEN kept[n - 1] ELSE Append(kept[n - 1], s[n])
  <2>1. \A n \in D : kept[n] = IF n = 0 THEN <<>> ELSE IF s[n] = e THEN kept[n - 1] ELSE Append(kept[n - 1], s[n])
    BY <1>5
  <2>2. 0 \in D /\ \A n \in 1 .. m : n \in D /\ n # 0
    BY <1>1
  <2>. HIDE DEF D
  <2>. QED
    BY <2>1, <2>2
<1> DEFINE Y == {n \in Nat : n <= m => kept[n] \in Seq(X)}
<1>8. 0 \in Y
  BY <1>1, <1>7
<1>9. ASSUME NEW n \in 1 .. m, n - 1 \in Y
      PROVE  n \in Y
  <2>1. n \in Nat /\ n - 1 \in Nat /\ n <= m /\ kept[n - 1] \in Seq(X) /\ s[n] \in X
    BY <1>1, <1>9
  <2>2. Append(kept[n - 1], s[n]) \in Seq(X)
    BY <2>1
  <2>. QED
    BY <1>7, <2>1, <2>2
<1>10. \A n \in 0 .. m : kept[n] \in Seq(X)
  <2>. HIDE DEF Y
  <2>1. \A n \in 1 .. m : n - 1 \in Y => n \in Y
    BY <1>9
  <2>2. \A n \in 0 .. m : n \in Y
    BY <1>1, <1>8, <2>1, UpTo
  <2>. QED
    BY <2>2 DEF Y
<1>. QED
  BY <1>6, <1>7, <1>10 DEF IsKept, m

\* The loop: s[u] is the vector and the position after u turns.
Turn(e, r) ==
  IF r.pos >= r.v.size THEN r
  ELSE IF r.v.data[r.pos] = e THEN [v |-> V!Removed(r.v, r.pos, 1), pos |-> r.pos]
  ELSE [v |-> r.v, pos |-> r.pos + 1]
IsRemoving(v, e, f) ==
  f[0] = [v |-> v, pos |-> 0] /\ \A u \in 1 .. v.size : f[u] = Turn(e, f[u - 1])

LEMMA RemovingExists ==
  ASSUME NEW X, NEW v, IsArray(v, X), IsClean(v, X), NEW e
  PROVE  \E f : /\ IsRemoving(v, e, f) /\ V!RemovedAll(v, e) = f[v.size].v
                /\ \A u \in 0 .. v.size : /\ f[u] = [v |-> f[u].v, pos |-> f[u].pos] /\ f[u].pos \in Nat
                                          /\ IsArray(f[u].v, X) /\ IsClean(f[u].v, X) /\ f[u].v.pod = v.pod
<1> DEFINE m == v.size
           A == {r \in [v : Arrays(X), pos : Nat] : IsArray(r.v, X) /\ IsClean(r.v, X) /\ r.v.pod = v.pod}
           makes == [d \in (1 .. m) \X A |-> Turn(e, d[2])]
           D == 0 .. m
           a == [v |-> v, pos |-> 0]
           old(r) == IF r.pos >= r.v.size THEN r
                     ELSE IF r.v.data[r.pos] = e THEN [r EXCEPT !.v = V!Removed(r.v, r.pos, 1)]
                     ELSE [r EXCEPT !.pos = @ + 1]
           body(f) == [u \in D |-> IF u = 0 THEN a ELSE old(f[u - 1])]
           step == CHOOSE f : f = body(f)
<1>1. m \in Nat
  BY ContentsAre
<1>2. a \in A
  BY DEF IsArray
<1>3. ASSUME NEW r \in A
      PROVE  Turn(e, r) \in A /\ old(r) = Turn(e, r)
  <2>1. r = [v |-> r.v, pos |-> r.pos] /\ r.pos \in Nat /\ r.pos \in Int /\ IsArray(r.v, X) /\ IsClean(r.v, X) /\ r.v.pod = v.pod
    OBVIOUS
  <2> DEFINE w == V!Removed(r.v, r.pos, 1)
  <2>2. IsArray(w, X) /\ IsClean(w, X) /\ w.pod = v.pod
    BY <2>1, RemovedKeeps, 1 \in Nat
  <2>. HIDE DEF w
  <2>3. w \in Arrays(X) /\ r.v \in Arrays(X)
    BY <2>1, <2>2 DEF IsArray
  <2>4. [v |-> w, pos |-> r.pos] \in A
    BY <2>1, <2>2, <2>3
  <2>5. [v |-> r.v, pos |-> r.pos + 1] \in A
    BY <2>1, <2>3
  <2>6. [r EXCEPT !.v = w] = [v |-> w, pos |-> r.pos] /\ [r EXCEPT !.pos = @ + 1] = [v |-> r.v, pos |-> r.pos + 1]
    BY <2>1
  <2>. HIDE DEF A
  <2>7. Turn(e, r) = IF r.pos >= r.v.size THEN r
                     ELSE IF r.v.data[r.pos] = e THEN [v |-> w, pos |-> r.pos]
                     ELSE [v |-> r.v, pos |-> r.pos + 1]
    BY DEF Turn, w
  <2>8. old(r) = IF r.pos >= r.v.size THEN r
                 ELSE IF r.v.data[r.pos] = e THEN [r EXCEPT !.v = w]
                 ELSE [r EXCEPT !.pos = @ + 1]
    BY DEF w
  <2>. HIDE DEF old
  <2>. QED
    BY <2>4, <2>5, <2>6, <2>7, <2>8
<1>4. V!RemovedAll(v, e) = step[m].v
  BY DEF V!RemovedAll
<1>. HIDE DEF A, m, a, old
<1>5. makes \in [(1 .. m) \X A -> A]
  BY <1>3
<1>6. PICK f : IsLoop(A, a, m, makes, f)
  <2>. HIDE DEF makes
  <2>. QED
    BY <1>1, <1>2, <1>5, LoopExists
<1>7. f = body(f)
  <2>1. f \in [D -> A] /\ f[0] = a /\ \A u \in 1 .. m : f[u] = makes[<<u, f[u - 1]>>]
    BY <1>6 DEF IsLoop
  <2>2. ASSUME NEW u \in 1 .. m
        PROVE  f[u] = old(f[u - 1])
    <3>1. u - 1 \in D
      BY <1>1
    <3>2. f[u - 1] \in A
      BY <2>1, <3>1
    <3>3. f[u] = Turn(e, f[u - 1])
      BY <2>1, <3>2
    <3>. QED
      BY <1>3, <3>2, <3>3
  <2>3. \A u \in D : u # 0 => u \in 1 .. m
    BY <1>1
  <2>. HIDE DEF makes, D
  <2>. QED
    BY <2>1, <2>2, <2>3
<1>8. step = body(step)
  <2>. HIDE DEF body
  <2>. QED
    BY <1>7
<1>. HIDE DEF step
<1>9. step[0] = a /\ \A u \in 1 .. m : step[u] = old(step[u - 1])
  <2>1. \A u \in D : step[u] = IF u = 0 THEN a ELSE old(step[u - 1])
    BY <1>8
  <2>2. 0 \in D /\ \A u \in 1 .. m : u \in D /\ u # 0
    BY <1>1
  <2>. HIDE DEF D
  <2>. QED
    BY <2>1, <2>2
<1> DEFINE Y == {u \in Nat : u <= m => step[u] \in A}
<1>10. 0 \in Y
  BY <1>2, <1>9
<1>11. ASSUME NEW u \in 1 .. m, u - 1 \in Y
       PROVE  u \in Y
  <2>1. u \in Nat /\ u - 1 \in Nat /\ u <= m /\ step[u - 1] \in A
    BY <1>1, <1>11
  <2>2. step[u] \in A
    BY <1>3, <1>9, <2>1
  <2>. QED
    BY <2>1, <2>2
<1>12. \A u \in 0 .. m : step[u] \in A
  <2>. HIDE DEF Y
  <2>1. \A u \in 1 .. m : u - 1 \in Y => u \in Y
    BY <1>11
  <2>2. \A u \in 0 .. m : u \in Y
    BY <1>1, <1>10, <2>1, UpTo
  <2>. QED
    BY <2>2 DEF Y
<1>13. \A u \in 1 .. m : step[u] = Turn(e, step[u - 1])
  <2>1. \A u \in 1 .. m : u - 1 \in 0 .. m
    BY <1>1
  <2>. QED
    BY <1>3, <1>9, <1>12, <2>1
<1>14. ASSUME NEW r \in A
       PROVE  /\ r = [v |-> r.v, pos |-> r.pos] /\ r.pos \in Nat
              /\ IsArray(r.v, X) /\ IsClean(r.v, X) /\ r.v.pod = v.pod
  BY DEF A
<1>15. IsRemoving(v, e, step)
  BY <1>9, <1>13 DEF IsRemoving, m, a
<1>. QED
  BY <1>4, <1>12, <1>14, <1>15 DEF m

\* u turns leave the items of the first u that are not e, and those behind.
LeftBy(v, e, u, ku, r) ==
  /\ r.v.ok = v.ok /\ r.pos = Len(ku) /\ r.v.size = Len(ku) + (v.size - u)
  /\ \A i \in 1 .. Len(ku) : r.v.data[i - 1] = ku[i]
  /\ \A i \in u + 1 .. v.size : r.v.data[Len(ku) + (i - u) - 1] = V!Contents(v)[i]

LEMMA TurnLeaves ==
  ASSUME NEW X, NEW v, IsArray(v, X), NEW e, NEW u \in 1 .. v.size,
         NEW r, r.pos \in Nat, IsArray(r.v, X), r.v.pod = v.pod, NEW k1 \in Seq(X), LeftBy(v, e, u - 1, k1, r),
         V!Contents(v)[u] = e => ~ v.pod \/ u = v.size
  PROVE  LeftBy(v, e, u, IF V!Contents(v)[u] = e THEN k1 ELSE Append(k1, V!Contents(v)[u]), Turn(e, r))
<1> DEFINE c == V!Contents(v)
           n == Len(k1)
           m == v.size
<1>1. /\ c \in Seq(X) /\ Len(c) = m /\ m \in Nat /\ n \in Nat /\ u \in Nat /\ u >= 1 /\ u <= m /\ c[u] \in X
  BY ContentsAre
<1>. HIDE DEF c, m
<1>2. /\ r.v.ok = v.ok /\ r.pos = n /\ r.v.size = n + (m - (u - 1))
      /\ \A i \in 1 .. n : r.v.data[i - 1] = k1[i]
      /\ \A i \in (u - 1) + 1 .. m : r.v.data[n + (i - (u - 1)) - 1] = c[i]
  BY DEF LeftBy, c, m
<1>. HIDE DEF n
<1>3. /\ r.v.size = n + (m - u) + 1 /\ ~ (r.pos >= r.v.size) /\ r.v.size \in Nat
      /\ \A i \in u .. m : r.v.data[n + (i - u)] = c[i]
  <2>1. ASSUME NEW i \in u .. m
        PROVE  r.v.data[n + (i - u)] = c[i]
    <3>1. i \in (u - 1) + 1 .. m /\ n + (i - (u - 1)) - 1 = n + (i - u)
      BY <1>1
    <3>. QED
      BY <1>2, <3>1
  <2>2. r.v.size = n + (m - u) + 1 /\ ~ (r.pos >= r.v.size) /\ r.v.size \in Nat
    BY <1>1, <1>2
  <2>. QED
    BY <2>1, <2>2
<1>4. r.v.data[n] = c[u]
  <2>1. u \in u .. m /\ n + (u - u) = n
    BY <1>1
  <2>2. r.v.data[n + (u - u)] = c[u]
    BY <1>3, <2>1
  <2>. QED
    BY <2>1, <2>2
<1>5. CASE c[u] = e
  <2> DEFINE w == V!Removed(r.v, n, 1)
             z1 == [v |-> w, pos |-> n]
  <2>1. Turn(e, r) = z1
    BY <1>2, <1>3, <1>4, <1>5 DEF Turn
  <2>2. V!Taken(r.v, n, 1) = 1
    <3>1. n \in Int /\ 1 \in Nat /\ n \in 0 .. r.v.size - 1
      BY <1>1, <1>3
    <3>. QED
      BY <3>1, TakenIs
  <2>3. ~ r.v.pod \/ r.v.size - 1 <= n
    <3>1. ~ v.pod \/ u = m
      BY <1>5 DEF c, m
    <3>. QED
      BY <1>1, <1>3, <3>1
  <2>4. /\ w.size = r.v.size - 1 /\ w.ok = r.v.ok
        /\ \A p \in 0 .. w.size - 1 : w.data[p] = IF p < n THEN r.v.data[p] ELSE r.v.data[p + 1]
    <3> DEFINE u1 == r.v
    <3>1. 1 \in Nat /\ 1 # 0 /\ 1 = V!Taken(u1, n, 1) /\ IsArray(u1, X) /\ (~ u1.pod \/ u1.size - 1 <= n)
      BY <2>2, <2>3
    <3>2. w = V!Removed(u1, n, 1)
      OBVIOUS
    <3>. HIDE DEF u1, w
    <3>3. /\ w.size = u1.size - 1 /\ w.ok = u1.ok
          /\ \A p \in 0 .. w.size - 1 : w.data[p] = IF p < n THEN u1.data[p] ELSE u1.data[p + 1]
      BY <1>1, <3>1, <3>2, RemovedLeaves
    <3>. QED
      BY <3>3 DEF u1
  <2>. HIDE DEF w
  <2>5. z1.v = w /\ z1.pos = n
    OBVIOUS
  <2>6. w.size = n + (m - u) /\ w.ok = v.ok
    BY <1>1, <1>2, <1>3, <2>4
  <2>7. ASSUME NEW i \in 1 .. n
        PROVE  w.data[i - 1] = k1[i]
    <3>1. i - 1 \in 0 .. w.size - 1 /\ i - 1 < n
      BY <1>1, <2>6
    <3>2. w.data[i - 1] = r.v.data[i - 1]
      BY <2>4, <3>1
    <3>. QED
      BY <1>2, <3>2
  <2>8. ASSUME NEW i \in u + 1 .. m
        PROVE  w.data[n + (i - u) - 1] = c[i]
    <3>1. /\ n + (i - u) - 1 \in 0 .. w.size - 1 /\ ~ (n + (i - u) - 1 < n) /\ (n + (i - u) - 1) + 1 = n + (i - u)
          /\ i \in u .. m
      BY <1>1, <2>6
    <3>2. w.data[n + (i - u) - 1] = r.v.data[n + (i - u)]
      BY <2>4, <3>1
    <3>. QED
      BY <1>3, <3>1, <3>2
  <2>. HIDE DEF z1
  <2>9. LeftBy(v, e, u, k1, z1)
    BY <2>5, <2>6, <2>7, <2>8 DEF LeftBy, c, m, n
  <2>. QED
    BY <1>5, <2>1, <2>9 DEF c
<1>6. CASE c[u] # e
  <2> DEFINE k2 == Append(k1, c[u])
             z1 == [v |-> r.v, pos |-> n + 1]
  <2>1. Turn(e, r) = z1
    BY <1>2, <1>3, <1>4, <1>6 DEF Turn
  <2>2. k2 \in Seq(X) /\ Len(k2) = n + 1 /\ (\A i \in 1 .. n : k2[i] = k1[i]) /\ k2[n + 1] = c[u]
    BY <1>1 DEF n
  <2>3. z1.v = r.v /\ z1.pos = n + 1
    OBVIOUS
  <2>. HIDE DEF k2, z1
  <2>4. r.v.size = (n + 1) + (m - u)
    BY <1>1, <1>3
  <2>5. ASSUME NEW i \in 1 .. n + 1
        PROVE  r.v.data[i - 1] = k2[i]
    <3>1. CASE i = n + 1
      <4>1. i - 1 = n
        BY <1>1, <3>1
      <4>. QED
        BY <1>4, <2>2, <3>1, <4>1
    <3>2. CASE i # n + 1
      <4>1. i \in 1 .. n
        BY <1>1, <3>2
      <4>. QED
        BY <1>2, <2>2, <4>1
    <3>. QED
      BY <3>1, <3>2
  <2>6. ASSUME NEW i \in u + 1 .. m
        PROVE  r.v.data[(n + 1) + (i - u) - 1] = c[i]
    <3>1. i \in u .. m /\ (n + 1) + (i - u) - 1 = n + (i - u)
      BY <1>1
    <3>2. r.v.data[n + (i - u)] = c[i]
      BY <1>3, <3>1
    <3>. QED
      BY <3>1, <3>2
  <2>7. LeftBy(v, e, u, k2, z1)
    BY <1>2, <2>2, <2>3, <2>4, <2>5, <2>6 DEF LeftBy, c, m
  <2>. QED
    BY <1>6, <2>1, <2>7 DEF k2, c
<1>. QED
  BY <1>5, <1>6

\* remove(value) leaves the other items, in order.
LEMMA RemovedAllIs ==
  ASSUME NEW X, NEW v, IsArray(v, X), IsClean(v, X), NEW e
  PROVE  /\ IsArray(V!RemovedAll(v, e), X) /\ IsClean(V!RemovedAll(v, e), X)
         /\ ~ (v.pod /\ \E p \in 1 .. v.size - 1 : v.data[p - 1] = e) =>
              V!Contents(V!RemovedAll(v, e)) = V!Others(V!Contents(v), e)
<1> DEFINE c == V!Contents(v)
           m == v.size
           w == V!RemovedAll(v, e)
<1>1. /\ c \in Seq(X) /\ Len(c) = m /\ m \in Nat /\ \A i \in 1 .. m : c[i] = v.data[i - 1]
  BY ContentsAre
<1>2. PICK f : /\ IsRemoving(v, e, f) /\ w = f[m].v
               /\ \A u \in 0 .. m : /\ f[u] = [v |-> f[u].v, pos |-> f[u].pos] /\ f[u].pos \in Nat
                                    /\ IsArray(f[u].v, X) /\ IsClean(f[u].v, X) /\ f[u].v.pod = v.pod
  BY RemovingExists
<1>. HIDE DEF w, c
<1>3. PICK kept : IsKept(c, e, kept) /\ V!Others(c, e) = kept[Len(c)] /\ \A n \in 0 .. Len(c) : kept[n] \in Seq(X)
  BY <1>1, OthersAre
<1>4. IsArray(w, X) /\ IsClean(w, X)
  <2>1. m \in 0 .. m
    BY <1>1
  <2>2. IsArray(f[m].v, X) /\ IsClean(f[m].v, X) /\ w = f[m].v
    BY <1>2, <2>1
  <2>. QED
    BY <2>2
<1>5. ASSUME ~ (v.pod /\ \E p \in 1 .. m - 1 : v.data[p - 1] = e)
      PROVE  V!Contents(w) = V!Others(c, e)
  <2> DEFINE Y == {u \in Nat : u <= m => LeftBy(v, e, u, kept[u], f[u])}
  <2>1. 0 \in Y
    <3>1. f[0].v = v /\ f[0].pos = 0 /\ kept[0] = <<>>
      BY <1>2, <1>3 DEF IsRemoving, IsKept
    <3>2. ASSUME NEW i \in 0 + 1 .. m
          PROVE  v.data[0 + (i - 0) - 1] = c[i]
      <4>1. i \in 1 .. m /\ 0 + (i - 0) - 1 = i - 1
        BY <1>1
      <4>. QED
        BY <1>1, <4>1
    <3>3. Len(<<>>) = 0 /\ m = 0 + (m - 0)
      BY <1>1
    <3>4. LeftBy(v, e, 0, <<>>, f[0])
      BY <3>1, <3>2, <3>3 DEF LeftBy, c
    <3>. QED
      BY <3>1, <3>4
  <2>2. ASSUME NEW u \in 1 .. m, u - 1 \in Y
        PROVE  u \in Y
    <3>1. u \in Nat /\ u - 1 \in Nat /\ u <= m /\ u - 1 \in 0 .. m /\ u - 1 <= m
      BY <1>1
    <3>2. LeftBy(v, e, u - 1, kept[u - 1], f[u - 1])
      BY <2>2, <3>1
    <3>3. /\ f[u - 1].pos \in Nat /\ IsArray(f[u - 1].v, X) /\ f[u - 1].v.pod = v.pod /\ kept[u - 1] \in Seq(X)
      BY <1>1, <1>2, <1>3, <3>1
    <3>4. f[u] = Turn(e, f[u - 1])
      BY <1>2 DEF IsRemoving
    <3>5. kept[u] = IF c[u] = e THEN kept[u - 1] ELSE Append(kept[u - 1], c[u])
      BY <1>1, <1>3 DEF IsKept
    <3>6. c[u] = e => ~ v.pod \/ u = m
      <4>1. u # m => u \in 1 .. m - 1
        BY <1>1
      <4>. QED
        BY <1>1, <1>5, <4>1
    <3> DEFINE r == f[u - 1]
               k1 == kept[u - 1]
    <3>. HIDE DEF r, k1, Y
    <3>7. LeftBy(v, e, u, IF c[u] = e THEN k1 ELSE Append(k1, c[u]), Turn(e, r))
      BY <3>2, <3>3, <3>6, TurnLeaves DEF c, r, k1
    <3>8. LeftBy(v, e, u, kept[u], f[u])
      BY <3>4, <3>5, <3>7 DEF r, k1
    <3>. QED
      BY <3>1, <3>8 DEF Y
  <2>3. m \in Y
    <3>. HIDE DEF Y
    <3>1. \A u \in 1 .. m : u - 1 \in Y => u \in Y
      BY <2>2
    <3>2. \A u \in 0 .. m : u \in Y
      BY <1>1, <2>1, <3>1, UpTo
    <3>. QED
      BY <1>1, <3>2
  <2> DEFINE k1 == kept[m]
  <2>4. LeftBy(v, e, m, k1, f[m])
    BY <1>1, <2>3
  <2>5. k1 \in Seq(X) /\ V!Others(c, e) = k1
    BY <1>1, <1>3
  <2>. HIDE DEF k1
  <2>6. w.size = Len(k1) /\ \A i \in 1 .. Len(k1) : w.data[i - 1] = k1[i]
    <3>1. w.size = Len(k1) + (m - m) /\ \A i \in 1 .. Len(k1) : w.data[i - 1] = k1[i]
      BY <1>2, <2>4 DEF LeftBy
    <3>. QED
      BY <1>1, <2>5, <3>1
  <2>7. ASSUME NEW p \in 0 .. w.size - 1
        PROVE  w.data[p] = k1[p + 1]
    <3>1. p + 1 \in 1 .. Len(k1) /\ (p + 1) - 1 = p
      BY <2>5, <2>6
    <3>2. w.data[(p + 1) - 1] = k1[p + 1]
      BY <2>6, <3>1
    <3>. QED
      BY <3>1, <3>2
  <2>8. V!Contents(w) = k1
    BY <1>4, <2>5, <2>6, <2>7, ContentsIs
  <2>. QED
    BY <2>5, <2>8
<1>. QED
  BY <1>4, <1>5 DEF w, c
-----------------------------------------------------------------------------
(* The calls of Vector.                                                     *)

\* The vector is an array of the items that were put in, unless the last call
\* was one of the two faults.
VecOK ==
  /\ iter \in Int
  /\ vec.ok => IsArray(vec, Values) /\ IsClean(vec, Values) /\ (~ faulty => V!Contents(vec) = items)

\* v is a vector of the items s, unless f.
Holds(v, s, f) == v.ok => IsArray(v, Values) /\ IsClean(v, Values) /\ (~ f => V!Contents(v) = s)

LEMMA InsertHolds ==
  ASSUME NEW v, IsArray(v, Values), IsClean(v, Values), NEW pos1 \in Int, NEW e \in Values
  PROVE  LET w == V!Inserted(v, pos1, e)
         IN  Holds(w, IF V!CanInsert(v) THEN V!InsertAt(V!Contents(v), V!Place(v, pos1) + 1, e) ELSE V!Contents(v), FALSE)
<1> DEFINE w == V!Inserted(v, pos1, e)
           s == V!InsertAt(V!Contents(v), V!Place(v, pos1) + 1, e)
<1>1. /\ V!CanInsert(v) => IsArray(w, Values) /\ IsClean(w, Values) /\ Made(v, s, V!InsertCapacity(v), w)
      /\ ~ V!CanInsert(v) => w = v
  BY InsertedIs
<1>. HIDE DEF w, s
<1>2. CASE V!CanInsert(v)
  <2>1. V!Contents(w) = s
    BY <1>1, <1>2 DEF Made
  <2>. QED
    BY <1>1, <1>2, <2>1 DEF Holds, w, s
<1>3. CASE ~ V!CanInsert(v)
  BY <1>1, <1>3 DEF Holds, w
<1>. QED
  BY <1>2, <1>3

LEMMA PushHolds ==
  ASSUME NEW v, IsArray(v, Values), IsClean(v, Values), NEW e \in Values
  PROVE  Holds(V!PushedBack(v, e), IF V!CanInsert(v) THEN Append(V!Contents(v), e) ELSE V!Contents(v), FALSE)
<1>1. IsArray(V!PushedBack(v, e), Values) /\ IsClean(V!PushedBack(v, e), Values)
  BY PushedBackIs
<1>2. V!CanInsert(v) => V!Contents(V!PushedBack(v, e)) = Append(V!Contents(v), e)
  BY PushedContents
<1>3. ~ V!CanInsert(v) => V!PushedBack(v, e) = v
  BY PushedBackIs
<1>. QED
  BY <1>1, <1>2, <1>3 DEF Holds

LEMMA PopHolds ==
  ASSUME NEW v, IsArray(v, Values), IsClean(v, Values)
  PROVE  Holds(V!PoppedBack(v), IF v.size > 0 THEN V!Front(V!Contents(v)) ELSE V!Contents(v), FALSE)
<1> DEFINE w == V!PoppedBack(v)
           c == V!Contents(v)
<1>1. c \in Seq(Values) /\ Len(c) = v.size /\ v.size \in Nat
  BY ContentsAre
<1>2. /\ IsArray(w, Values) /\ IsClean(w, Values)
      /\ v.size > 0 => V!Contents(w) = Cut(c, v.size - 1, 1)
      /\ v.size = 0 => w = v
  BY PoppedBackIs
<1>. HIDE DEF w, c
<1>3. CASE v.size > 0
  <2> DEFINE n == v.size - 1
             r == Cut(c, n, 1)
             b == V!Front(c)
  <2>1. n \in Nat /\ n + 1 = v.size /\ n + 1 <= Len(c)
    BY <1>1, <1>3
  <2>2. r \in Seq(Values) /\ IsCut(c, n, 1, r)
    BY <1>1, <2>1, CutIs, 1 \in Nat
  <2>3. b = SubSeq(c, 1, Len(c) - 1)
    BY DEF V!Front
  <2>. HIDE DEF r, b
  <2>4. b \in Seq(Values) /\ Len(b) = n /\ \A j \in 1 .. n : b[j] = c[j]
    BY <1>1, <2>1, <2>3
  <2>. HIDE DEF n
  <2>5. Len(r) = n /\ \A j \in 1 .. n : r[j] = c[j]
    <3>1. Len(c) - 1 = n
      BY <1>1, <2>1
    <3>2. Len(r) = n /\ \A j \in 1 .. n : r[j] = IF j <= n THEN c[j] ELSE c[j + 1]
      BY <2>2, <3>1 DEF IsCut
    <3>. QED
      BY <2>1, <3>2
  <2>6. r = b
    BY <2>2, <2>4, <2>5
  <2>. QED
    BY <1>2, <1>3, <2>6 DEF Holds, w, c, r, b, n
<1>4. CASE v.size = 0
  <2>1. ~ (v.size > 0)
    BY <1>4
  <2>. QED
    BY <1>2, <1>4, <2>1 DEF Holds, w, c
<1>5. v.size > 0 \/ v.size = 0
  BY <1>1
<1>. QED
  BY <1>3, <1>4, <1>5, Zenon

LEMMA EraseHolds ==
  ASSUME NEW v, IsArray(v, Values), IsClean(v, Values), NEW pos1 \in Int, NEW len \in Nat
  PROVE  LET w == V!Removed(v, pos1, len)
         IN  Holds(w, IF V!Taken(v, pos1, len) > 0
                      THEN SubSeq(V!Contents(v), 1, pos1) \o SubSeq(V!Contents(v), pos1 + len + 1, v.size)
                      ELSE V!Contents(v),
                   v.pod /\ w # v /\ pos1 < w.size)
<1> DEFINE w == V!Removed(v, pos1, len)
           c == V!Contents(v)
           n == V!Taken(v, pos1, len)
           s == SubSeq(c, 1, pos1) \o SubSeq(c, pos1 + len + 1, v.size)
           f == v.pod /\ w # v /\ pos1 < w.size
<1>1. c \in Seq(Values) /\ Len(c) = v.size /\ v.size \in Nat
  BY ContentsAre
<1>2. IsArray(w, Values) /\ IsClean(w, Values)
  BY RemovedKeeps
<1>3. /\ n \in Nat
      /\ n = 0 => w = v
      /\ n # 0 => pos1 \in Nat /\ pos1 + n <= v.size /\ w.size = v.size - n
  BY RemovedIs
<1>4. n = IF pos1 \notin 0 .. v.size - 1 THEN 0 ELSE IF len > v.size - pos1 THEN v.size - pos1 ELSE len
  BY DEF V!Taken
<1>. HIDE DEF w, n, c
<1>5. ASSUME n # 0, ~ f
      PROVE  V!Contents(w) = s
  <2>1. ~ v.pod \/ v.size - n <= pos1
    <3>1. w # v
      <4>1. w.size # v.size
        BY <1>1, <1>3, <1>5
      <4>. QED
        BY <4>1
    <3>. QED
      BY <1>1, <1>3, <1>5, <3>1
  <2>2. V!Contents(w) = Cut(c, pos1, n)
    BY <1>3, <1>5, <2>1, RemovedLeaves DEF w, n, c
  <2>3. SubSeq(c, pos1 + len + 1, v.size) = SubSeq(c, pos1 + n + 1, v.size)
    <3>1. CASE n = len
      BY <3>1
    <3>2. CASE n # len
      <4>0. pos1 \in 0 .. v.size - 1
        BY <1>4, <1>5
      <4>5. len > v.size - pos1 /\ n = v.size - pos1
        BY <1>4, <3>2, <4>0
      <4>1. pos1 + n = v.size /\ pos1 + len > v.size /\ pos1 \in Nat
        BY <1>1, <4>0, <4>5
      <4> DEFINE b1 == SubSeq(c, pos1 + len + 1, v.size)
                 b2 == SubSeq(c, pos1 + n + 1, v.size)
      <4>2. b1 = <<>>
        BY <1>1, <4>1
      <4>3. b2 = <<>>
        BY <1>1, <4>1
      <4>. QED
        BY <4>2, <4>3
    <3>. QED
      BY <3>1, <3>2
  <2>4. Cut(c, pos1, n) = SubSeq(c, 1, pos1) \o SubSeq(c, pos1 + n + 1, v.size)
    BY <1>1 DEF Cut
  <2>. QED
    BY <2>2, <2>3, <2>4
<1>. HIDE DEF s, f
<1>6. Holds(w, IF n > 0 THEN s ELSE c, f)
  <2>1. CASE n = 0
    <3>1. w = v /\ ~ (n > 0)
      BY <1>3, <2>1
    <3>. QED
      BY <1>2, <3>1 DEF Holds, c
  <2>2. CASE n # 0
    <3>1. n > 0
      BY <1>3, <2>2
    <3>. QED
      BY <1>2, <1>5, <2>2, <3>1 DEF Holds
  <2>. QED
    BY <2>1, <2>2
<1>. QED
  BY <1>6 DEF w, n, s, f, c

LEMMA RemoveHolds ==
  ASSUME NEW v, IsArray(v, Values), IsClean(v, Values), NEW e \in Values
  PROVE  Holds(V!RemovedAll(v, e), V!Others(V!Contents(v), e), v.pod /\ \E p \in 1 .. v.size - 1 : v.data[p - 1] = e)
BY RemovedAllIs DEF Holds

LEMMA ResizeHolds ==
  ASSUME NEW X, NEW v, IsArray(v, X), IsClean(v, X), NEW n \in Nat, NEW e \in X
  PROVE  LET w == V!Resized(v, n, e)
             c == V!Contents(v)
         IN  /\ IsArray(w, X) /\ IsClean(w, X) /\ w.pod = v.pod /\ w.ok = v.ok
             /\ ~ V!CanReserve(v, n) => w = v
             /\ V!CanReserve(v, n) => w.size = n /\ V!Contents(w) = [i \in 1 .. n |-> IF i <= v.size THEN c[i] ELSE e]
<1> DEFINE w == V!Resized(v, n, e)
           c == V!Contents(v)
           r == [i \in 1 .. n |-> IF i <= v.size THEN c[i] ELSE e]
           s == [i \in 1 .. n - v.size |-> e]
           u == V!Reserved(v, n)
<1>1. /\ c \in Seq(X) /\ Len(c) = v.size /\ v.size \in Nat
      /\ \A i \in 1 .. v.size : c[i] = v.data[i - 1]
  BY ContentsAre
<1>. HIDE DEF c
<1>2. w = IF ~ V!CanReserve(v, n) THEN v
          ELSE IF n >= v.size THEN V!Filled(u, s)
          ELSE V!Shortened(v, v.size - n)
  BY DEF V!Resized
<1>3. r \in Seq(X) /\ Len(r) = n /\ \A i \in 1 .. n : r[i] = IF i <= v.size THEN c[i] ELSE e
  <2>1. \A i \in 1 .. n : (IF i <= v.size THEN c[i] ELSE e) \in X
    BY <1>1
  <2>. QED
    BY <2>1
<1>. HIDE DEF w, r
<1>4. CASE ~ V!CanReserve(v, n)
  BY <1>2, <1>4 DEF w
<1>5. CASE V!CanReserve(v, n) /\ n >= v.size
  <2> DEFINE k == n - v.size
  <2>1. w = V!Filled(u, s)
    BY <1>2, <1>5
  <2>2. k \in Nat /\ v.size + k = n
    BY <1>1, <1>5
  <2>3. s \in Seq(X) /\ Len(s) = k /\ \A i \in 1 .. k : s[i] = e
    BY <2>2
  <2>4. IsArray(u, X) /\ SameItems(v, u) /\ IsClean(u, X) /\ n <= u.cap
    BY <1>5, ReservedIs
  <2>. HIDE DEF s, k, u
  <2>5. FilledTo(u, s, Len(s), w, X)
    BY <2>1, <2>3, <2>4, FilledIs
  <2>6. u.size = v.size /\ u.pod = v.pod /\ u.ok = v.ok /\ V!Contents(u) = c
    BY <1>1, <2>4, SameContents DEF SameItems, c
  <2>7. IsArray(w, X) /\ IsClean(w, X) /\ Extended(u, s, k, w)
    <3>1. u.size + Len(s) <= u.cap
      BY <2>2, <2>3, <2>4, <2>6
    <3>. QED
      BY <2>3, <2>4, <2>5, <3>1 DEF FilledTo
  <2>8. w.size = n /\ w.pod = v.pod /\ w.ok = v.ok
    BY <2>2, <2>6, <2>7 DEF Extended
  <2>9. V!Contents(w) = r
    <3>1. Len(r) = u.size + k /\ k \in 0 .. Len(s)
      BY <1>3, <2>2, <2>3, <2>6
    <3>2. \A i \in 1 .. u.size : r[i] = V!Contents(u)[i]
      <4>1. \A i \in 1 .. v.size : i \in 1 .. n /\ i <= v.size
        BY <1>1, <2>2
      <4>. QED
        BY <1>3, <2>6, <4>1
    <3>3. \A i \in 1 .. k : r[u.size + i] = s[i]
      <4>1. \A i \in 1 .. k : v.size + i \in 1 .. n /\ ~ (v.size + i <= v.size)
        BY <1>1, <2>2
      <4>. QED
        BY <1>3, <2>3, <2>6, <4>1
    <3>. QED
      BY <1>3, <2>3, <2>4, <2>7, <3>1, <3>2, <3>3, ExtendedContents
  <2>. QED
    BY <1>5, <2>7, <2>8, <2>9 DEF w, r, c
<1>6. CASE V!CanReserve(v, n) /\ ~ (n >= v.size)
  <2> DEFINE k == v.size - n
  <2>1. w = V!Shortened(v, k)
    BY <1>2, <1>6
  <2>2. k \in 0 .. v.size /\ v.size - k = n
    BY <1>1, <1>6
  <2>. HIDE DEF k
  <2>3. IsArray(w, X) /\ IsClean(w, X) /\ Shorter(v, k, w)
    BY <2>1, <2>2, ShortenedIs
  <2>4. w.size = n /\ w.pod = v.pod /\ w.ok = v.ok /\ \A p \in 0 .. n - 1 : w.data[p] = v.data[p]
    BY <2>2, <2>3 DEF Shorter
  <2>5. ASSUME NEW p \in 0 .. w.size - 1
        PROVE  w.data[p] = r[p + 1]
    <3>1. p + 1 \in 1 .. n /\ p + 1 <= v.size /\ p + 1 \in 1 .. v.size /\ (p + 1) - 1 = p
      BY <1>1, <1>6, <2>4
    <3>2. r[p + 1] = c[p + 1]
      BY <1>3, <3>1
    <3>3. c[p + 1] = v.data[p]
      BY <1>1, <3>1
    <3>. QED
      BY <2>4, <3>2, <3>3
  <2>6. V!Contents(w) = r
    BY <1>3, <2>3, <2>4, <2>5, ContentsIs
  <2>. QED
    BY <1>6, <2>3, <2>4, <2>6 DEF w, r, c
<1>. QED
  BY <1>4, <1>5, <1>6

LEMMA AssignNHolds ==
  ASSUME NEW v, IsArray(v, Values), IsClean(v, Values), NEW n \in Nat, NEW e \in Values
  PROVE  LET w == V!AssignedN(v, n, e)
         IN  Holds(w, IF V!CanReserve(v, n) THEN [i \in 1 .. n |-> e] ELSE V!Contents(v),
                   V!CanReserve(v, n) /\ w.size # n)
<1> DEFINE w == V!AssignedN(v, n, e)
           s == [i \in 1 .. n |-> e]
           s1 == [i \in 1 .. v.size |-> e]
           c1 == IF n > v.cap THEN V!Rounded(n) ELSE v.cap
<1>1. v.size \in Nat /\ v.cap \in Nat /\ v.size <= v.cap
  BY ContentsAre
<1>2. w = IF ~ V!CanReserve(v, n) THEN v
          ELSE IF v.pod \/ n > v.cap THEN V!Holding(v, s, c1)
          ELSE IF n < v.size THEN [v EXCEPT !.ok = FALSE]
          ELSE V!Holding(v, s1, v.cap)
  BY DEF V!AssignedN
<1>3. s \in Seq(Values) /\ Len(s) = n /\ s1 \in Seq(Values) /\ Len(s1) = v.size
  BY <1>1
<1>4. c1 \in Nat /\ n <= c1
  <2>1. V!Rounded(n) \in Nat /\ n < V!Rounded(n)
    BY DEF V!Rounded
  <2>. QED
    BY <1>1, <2>1
<1>. HIDE DEF w, s, s1, c1
<1>5. CASE ~ V!CanReserve(v, n)
  BY <1>2, <1>5 DEF Holds, w
<1>6. CASE V!CanReserve(v, n) /\ (v.pod \/ n > v.cap)
  <2>1. w = V!Holding(v, s, c1)
    BY <1>2, <1>6
  <2>2. IsArray(w, Values) /\ IsClean(w, Values) /\ Made(v, s, c1, w)
    BY <1>3, <1>4, <2>1, HoldingIs
  <2>3. V!Contents(w) = s
    BY <2>2 DEF Made
  <2>. QED
    BY <1>6, <2>2, <2>3 DEF Holds, w, s
<1>7. CASE V!CanReserve(v, n) /\ ~ (v.pod \/ n > v.cap) /\ n < v.size
  <2>1. w = [v EXCEPT !.ok = FALSE]
    BY <1>2, <1>7
  <2>2. w.ok = FALSE
    BY <2>1 DEF IsArray, Arrays
  <2>. QED
    BY <2>2 DEF Holds, w
<1>8. CASE V!CanReserve(v, n) /\ ~ (v.pod \/ n > v.cap) /\ ~ (n < v.size)
  <2>1. w = V!Holding(v, s1, v.cap)
    BY <1>2, <1>8
  <2>2. IsArray(w, Values) /\ IsClean(w, Values) /\ Made(v, s1, v.cap, w)
    BY <1>1, <1>3, <2>1, HoldingIs
  <2>3. V!Contents(w) = s1 /\ w.size = v.size
    BY <1>3, <2>2 DEF Made
  <2>4. v.size = n => s1 = s
    BY DEF s, s1
  <2>. QED
    BY <1>8, <2>2, <2>3, <2>4 DEF Holds, w, s
<1>. QED
  BY <1>5, <1>6, <1>7, <1>8

LEMMA AssignRangeHolds ==
  ASSUME NEW v, IsArray(v, Values), NEW s \in Seq(Values)
  PROVE  LET w == V!AssignedRange(v, s) IN Holds(w, SubSeq(s, 1, w.size), FALSE)
<1> DEFINE w == V!AssignedRange(v, s)
           c0 == V!Cleared(v)
           u == V!Reserved(c0, Len(s))
           m == Len(s)
<1>1. v.cap \in Nat
  BY ContentsAre
<1>2. m \in Nat /\ <<>> \in Seq(Values) /\ Len(<<>>) = 0
  OBVIOUS
<1>3. IsArray(c0, Values) /\ IsClean(c0, Values) /\ c0.size = 0
  <2>1. c0 = V!Holding(v, <<>>, v.cap)
    BY DEF V!Cleared
  <2>2. Len(<<>>) <= v.cap
    BY <1>1, <1>2
  <2>3. /\ IsArray(V!Holding(v, <<>>, v.cap), Values) /\ IsClean(V!Holding(v, <<>>, v.cap), Values)
        /\ Made(v, <<>>, v.cap, V!Holding(v, <<>>, v.cap))
    BY <1>1, <1>2, <2>2, HoldingIs
  <2>. QED
    BY <1>2, <2>1, <2>3 DEF Made
<1>. HIDE DEF c0, m
<1>4. IsArray(u, Values) /\ IsClean(u, Values) /\ u.size = 0
  BY <1>2, <1>3, ReservedIs DEF SameItems, m
<1>5. w = V!Filled(u, s)
  BY DEF V!AssignedRange, c0
<1>. HIDE DEF w, u
<1>6. FilledTo(u, s, m, w, Values)
  BY <1>4, <1>5, FilledIs DEF m
<1>7. IsArray(w, Values) /\ IsClean(w, Values)
  BY <1>4, <1>6 DEF FilledTo
<1>8. PICK n \in 0 .. m : Extended(u, s, n, w)
  BY <1>6 DEF FilledTo
<1> DEFINE r == SubSeq(s, 1, n)
<1>9. r \in Seq(Values) /\ Len(r) = n /\ \A i \in 1 .. n : r[i] = s[i]
  <2>1. n \in Nat /\ n <= Len(s)
    BY <1>2 DEF m
  <2>. QED
    BY <2>1
<1>10. w.size = n
  BY <1>2, <1>4, <1>8 DEF Extended
<1>. HIDE DEF r
<1>11. V!Contents(w) = r
  <2>1. Len(r) = u.size + n /\ \A i \in 1 .. u.size : r[i] = V!Contents(u)[i]
    BY <1>2, <1>4, <1>9
  <2>2. \A i \in 1 .. n : r[u.size + i] = s[i]
    <3>1. \A i \in 1 .. n : u.size + i = i
      BY <1>4
    <3>. QED
      BY <1>9, <3>1
  <2>. QED
    BY <1>4, <1>7, <1>8, <1>9, <2>1, <2>2, ExtendedContents DEF m
<1>. QED
  BY <1>7, <1>10, <1>11 DEF Holds, w, r

LEMMA CopyHolds ==
  ASSUME NEW v, IsArray(v, Values), v.ok = TRUE, V!CanCopy(v)
  PROVE  Holds(V!Copy(v), V!Contents(v), FALSE)
<1>1. IsArray(V!Copy(v), Values) /\ SameItems(v, V!Copy(v)) /\ IsClean(V!Copy(v), Values)
  BY CopyIs
<1>2. v.size \in Nat
  BY ContentsAre
<1>3. V!Contents(V!Copy(v)) = V!Contents(v)
  BY <1>1, <1>2, SameContents
<1>. QED
  BY <1>1, <1>3 DEF Holds

LEMMA ShuffleHolds ==
  ASSUME NEW v, IsArray(v, Values), v.size > 1, NEW q \in [1 .. v.size - 1 -> 1 .. v.size]
  PROVE  LET mix[i \in 0 .. v.size - 1] == IF i = 0 THEN V!Contents(v) ELSE V!Swapped(mix[i - 1], i, q[i])
             s == mix[v.size - 1]
         IN  Holds(V!Holding(v, s, v.cap), s, FALSE)
<1> DEFINE m == v.size - 1
           c == V!Contents(v)
           A == [1 .. v.size -> Values]
           makes == [d \in (1 .. m) \X A |-> V!Swapped(d[2], d[1], q[d[1]])]
           D == 0 .. m
           body(f) == [i \in D |-> IF i = 0 THEN c ELSE V!Swapped(f[i - 1], i, q[i])]
           mix == CHOOSE f : f = body(f)
           s == mix[m]
<1>1. /\ v.size \in Nat /\ v.cap \in Nat /\ v.size <= v.cap /\ m \in Nat /\ c \in Seq(Values) /\ Len(c) = v.size
  BY ContentsAre
<1>2. c \in A
  <2>1. c = [i \in 1 .. v.size |-> c[i]] /\ \A i \in 1 .. v.size : c[i] \in Values
    BY <1>1
  <2>. HIDE DEF c
  <2>. QED
    BY <2>1
<1>. HIDE DEF c
<1>3. ASSUME NEW a \in A, NEW i \in 1 .. m
      PROVE  V!Swapped(a, i, q[i]) \in A
  <2>1. i \in 1 .. v.size /\ q[i] \in 1 .. v.size
    BY <1>1
  <2>2. a[i] \in Values /\ a[q[i]] \in Values
    BY <2>1
  <2>. QED
    BY <2>1, <2>2 DEF V!Swapped
<1>4. makes \in [(1 .. m) \X A -> A]
  <2>1. ASSUME NEW d \in (1 .. m) \X A
        PROVE  V!Swapped(d[2], d[1], q[d[1]]) \in A
    <3>1. d[1] \in 1 .. m /\ d[2] \in A
      OBVIOUS
    <3>. HIDE DEF A, m
    <3>. QED
      BY <1>3, <3>1
  <2>. HIDE DEF A, m
  <2>. QED
    BY <2>1
<1>. HIDE DEF A
<1>5. PICK f : IsLoop(A, c, m, makes, f)
  <2>. HIDE DEF makes, m
  <2>. QED
    BY <1>1, <1>2, <1>4, LoopExists
<1>6. f = body(f)
  <2>1. f \in [D -> A] /\ f[0] = c /\ \A i \in 1 .. m : f[i] = makes[<<i, f[i - 1]>>]
    BY <1>5 DEF IsLoop
  <2>2. ASSUME NEW i \in 1 .. m
        PROVE  f[i] = V!Swapped(f[i - 1], i, q[i])
    <3>1. i - 1 \in D
      BY <1>1
    <3>2. f[i - 1] \in A
      BY <2>1, <3>1
    <3> DEFINE d == <<i, f[i - 1]>>
    <3>3. d \in (1 .. m) \X A /\ d[1] = i /\ d[2] = f[i - 1]
      BY <3>2
    <3>. HIDE DEF d
    <3>4. makes[d] = V!Swapped(d[2], d[1], q[d[1]])
      BY <3>3
    <3>. HIDE DEF makes
    <3>5. f[i] = makes[d]
      BY <2>1 DEF d
    <3>. QED
      BY <3>3, <3>4, <3>5
  <2>3. \A i \in D : i # 0 => i \in 1 .. m
    BY <1>1
  <2>. HIDE DEF makes, D
  <2>. QED
    BY <2>1, <2>2, <2>3
<1>7. mix = body(mix)
  <2>. HIDE DEF body
  <2>. QED
    BY <1>6
<1>. HIDE DEF mix, m
<1>8. mix[0] = c /\ \A i \in 1 .. m : mix[i] = V!Swapped(mix[i - 1], i, q[i])
  <2>1. \A i \in D : mix[i] = IF i = 0 THEN c ELSE V!Swapped(mix[i - 1], i, q[i])
    BY <1>7
  <2>2. 0 \in D /\ \A i \in 1 .. m : i \in D /\ i # 0
    BY <1>1
  <2>. HIDE DEF D
  <2>. QED
    BY <2>1, <2>2
<1> DEFINE Y == {i \in Nat : i <= m => mix[i] \in A}
<1>9. 0 \in Y
  BY <1>2, <1>8
<1>10. \A i \in 1 .. m : i - 1 \in Y => i \in Y
  <2>1. ASSUME NEW i \in 1 .. m, i - 1 \in Y
        PROVE  i \in Y
    <3>1. i \in Nat /\ i - 1 \in Nat /\ mix[i - 1] \in A
      BY <1>1, <2>1
    <3>2. mix[i] \in A
      BY <1>3, <1>8, <3>1
    <3>. QED
      BY <3>1, <3>2
  <2>. QED
    BY <2>1
<1>11. m \in Y
  <2>. HIDE DEF Y
  <2>1. \A i \in 0 .. m : i \in Y
    BY <1>1, <1>9, <1>10, UpTo
  <2>. QED
    BY <1>1, <2>1
<1>12. s \in A
  BY <1>1, <1>11
<1>. HIDE DEF s
<1>13. s \in Seq(Values) /\ Len(s) = v.size
  BY <1>1, <1>12 DEF A
<1>14. /\ IsArray(V!Holding(v, s, v.cap), Values) /\ IsClean(V!Holding(v, s, v.cap), Values)
       /\ Made(v, s, v.cap, V!Holding(v, s, v.cap))
  BY <1>1, <1>13, HoldingIs
<1>15. Holds(V!Holding(v, s, v.cap), s, FALSE)
  BY <1>14 DEF Holds, Made
<1>. QED
  BY <1>15 DEF s, mix, m, c
-----------------------------------------------------------------------------
LEMMA VectorInit == V!Init => VecOK
<1>. SUFFICES ASSUME V!Init
              PROVE  VecOK
  OBVIOUS
<1>1. (vec = V!NewVector(TRUE) \/ vec = V!NewVector(FALSE)) /\ iter = V!End /\ items = <<>>
  BY DEF V!Init
<1>2. /\ IsArray(V!NewVector(TRUE), Values) /\ IsClean(V!NewVector(TRUE), Values)
      /\ IsArray(V!NewVector(FALSE), Values) /\ IsClean(V!NewVector(FALSE), Values)
  BY NewVectorIs
<1>3. IsArray(vec, Values) /\ IsClean(vec, Values)
  BY <1>1, <1>2
<1>4. vec.size = 0
  BY <1>1 DEF V!NewVector
<1>5. V!Contents(vec) = <<>>
  BY <1>4 DEF V!Contents
<1>6. iter \in Int
  BY <1>1 DEF V!End
<1>. QED
  BY <1>1, <1>3, <1>5, <1>6 DEF VecOK

\* What a step leads to.
Leads == iter' \in Int /\ Holds(vec', items', faulty')

LEMMA LeadsTo == ASSUME Leads PROVE VecOK'
BY DEF Leads, Holds, VecOK

\* Every step of a Vector keeps what it holds.
LEMMA VectorStep ==
  ASSUME VecOK, V!Next \/ UNCHANGED vectorVars
  PROVE  VecOK'
<1>1. CASE UNCHANGED vectorVars
  BY <1>1 DEF vectorVars, VecOK, IsArray, IsClean, Arrays, V!Contents
<1>2. CASE V!Next
  <2>0. /\ vec.ok /\ iter \in Int /\ IsArray(vec, Values) /\ IsClean(vec, Values)
        /\ V!Old = V!Contents(vec) /\ vec.size \in Nat /\ vec.cap \in Nat /\ V!Contents(vec) \in Seq(Values)
    BY <1>2, ContentsAre DEF V!Next, VecOK, V!Old
  <2>e. V!End \in Int
    BY DEF V!End
  <2>a. vec.ok = TRUE
    <3>1. vec.ok \in BOOLEAN
      BY <2>0 DEF IsArray, Arrays
    <3>. QED
      BY <2>0, <3>1
  <2>1. ASSUME NEW e \in Values, V!PushBack(e)
        PROVE  Leads
    <3> DEFINE w == V!PushedBack(vec, e)
    <3>1. /\ vec' = w /\ items' = (IF V!CanInsert(vec) THEN Append(V!Old, e) ELSE V!Old) /\ faulty' = FALSE
          /\ iter' = IF V!CanInsert(vec) THEN vec'.size - 1 ELSE V!End
      BY <2>1 DEF V!PushBack, V!Calls, V!Sound
    <3>2. Holds(w, IF V!CanInsert(vec) THEN Append(V!Contents(vec), e) ELSE V!Contents(vec), FALSE)
      BY <2>0, PushHolds
    <3>3. w.size \in Nat
      <4>1. IsArray(w, Values)
        BY <2>0, PushedBackIs
      <4>. QED
        BY <4>1, ContentsAre
    <3>. HIDE DEF w
    <3>4. iter' \in Int
      BY <2>e, <3>1, <3>3
    <3>. QED
      BY <2>0, <3>1, <3>2, <3>4 DEF Leads
  <2>2. ASSUME NEW e \in Values, V!Insert(e)
        PROVE  Leads
    <3> DEFINE w == V!Inserted(vec, iter, e)
    <3>1. /\ vec' = w /\ faulty' = FALSE
          /\ items' = IF V!CanInsert(vec) THEN V!InsertAt(V!Old, V!Place(vec, iter) + 1, e) ELSE V!Old
          /\ iter' = IF V!CanInsert(vec) THEN V!Place(vec, iter) ELSE V!End
      BY <2>2 DEF V!Insert, V!Calls, V!Sound
    <3>2. Holds(w, IF V!CanInsert(vec) THEN V!InsertAt(V!Contents(vec), V!Place(vec, iter) + 1, e) ELSE V!Contents(vec), FALSE)
      BY <2>0, InsertHolds
    <3>3. V!Place(vec, iter) \in Int
      BY <2>0 DEF V!Place
    <3>. HIDE DEF w
    <3>4. iter' \in Int
      BY <2>e, <3>1, <3>3
    <3>. QED
      BY <2>0, <3>1, <3>2, <3>4 DEF Leads
  <2>3. ASSUME NEW e \in Values, V!RemoveValue(e)
        PROVE  Leads
    <3> DEFINE w == V!RemovedAll(vec, e)
               bad == vec.pod /\ \E p \in 1 .. vec.size - 1 : vec.data[p - 1] = e
    <3>1. vec' = w /\ items' = V!Others(V!Old, e) /\ faulty' = bad /\ iter' = iter
      BY <2>3 DEF V!RemoveValue, V!Calls
    <3>2. Holds(w, V!Others(V!Contents(vec), e), bad)
      BY <2>0, RemoveHolds
    <3>. HIDE DEF w, bad
    <3>. QED
      BY <2>0, <3>1, <3>2 DEF Leads
  <2>4. ASSUME NEW e \in Values, NEW n \in 0 .. MaxLen, V!Resize(n, e)
        PROVE  Leads
    <3> DEFINE w == V!Resized(vec, n, e)
               r == [i \in 1 .. n |-> IF i <= vec.size THEN V!Old[i] ELSE e]
    <3>1. vec' = w /\ items' = (IF V!CanReserve(vec, n) THEN r ELSE V!Old) /\ faulty' = FALSE /\ iter' = iter
      BY <2>4 DEF V!Resize, V!Calls, V!Sound
    <3>2. n \in Nat
      OBVIOUS
    <3>3. /\ IsArray(w, Values) /\ IsClean(w, Values)
          /\ ~ V!CanReserve(vec, n) => w = vec
          /\ V!CanReserve(vec, n) => V!Contents(w) = r
      BY <2>0, <3>2, ResizeHolds
    <3>. HIDE DEF w, r
    <3>. QED
      BY <2>0, <3>1, <3>3 DEF Leads, Holds
  <2>5. ASSUME NEW e \in Values, NEW n \in 0 .. MaxLen, V!AssignN(n, e)
        PROVE  Leads
    <3> DEFINE w == V!AssignedN(vec, n, e)
               s == [i \in 1 .. n |-> e]
    <3>1. /\ vec' = w /\ items' = (IF V!CanReserve(vec, n) THEN s ELSE V!Old)
          /\ faulty' = (V!CanReserve(vec, n) /\ vec'.size # n) /\ iter' = iter
      BY <2>5 DEF V!AssignN, V!Calls
    <3>2. n \in Nat
      OBVIOUS
    <3>3. Holds(w, IF V!CanReserve(vec, n) THEN s ELSE V!Contents(vec), V!CanReserve(vec, n) /\ w.size # n)
      BY <2>0, <3>2, AssignNHolds
    <3>. HIDE DEF w, s
    <3>. QED
      BY <2>0, <3>1, <3>3 DEF Leads
  <2>6. ASSUME NEW len \in 1 .. 2, V!Erase(len)
        PROVE  Leads
    <3> DEFINE w == V!Removed(vec, iter, len)
               s == SubSeq(V!Old, 1, iter) \o SubSeq(V!Old, iter + len + 1, vec.size)
               bad == vec.pod /\ w # vec /\ iter < w.size
    <3>1. /\ vec' = w /\ items' = (IF V!Taken(vec, iter, len) > 0 THEN s ELSE V!Old)
          /\ faulty' = (vec.pod /\ vec' # vec /\ iter < vec'.size)
          /\ iter' = V!RemovedPos(vec, iter, len)
      BY <2>6 DEF V!Erase, V!Calls
    <3>2. len \in Nat
      OBVIOUS
    <3>3. Holds(w, IF V!Taken(vec, iter, len) > 0 THEN s ELSE V!Contents(vec), bad)
      BY <2>0, <3>2, EraseHolds
    <3>4. iter' \in Int
      BY <2>0, <2>e, <3>1 DEF V!RemovedPos
    <3>5. faulty' = bad
      BY <3>1
    <3>. HIDE DEF w, s, bad
    <3>. QED
      BY <2>0, <3>1, <3>3, <3>4, <3>5 DEF Leads
  <2>7. ASSUME NEW s \in UNION {[1 .. n -> Values] : n \in 0 .. MaxLen}, V!AssignRange(s)
        PROVE  Leads
    <3> DEFINE w == V!AssignedRange(vec, s)
    <3>1. vec' = w /\ items' = SubSeq(s, 1, vec'.size) /\ faulty' = FALSE /\ iter' = iter
      BY <2>7 DEF V!AssignRange, V!Sound
    <3>2. s \in Seq(Values)
      <4>1. PICK n \in 0 .. MaxLen : s \in [1 .. n -> Values]
        OBVIOUS
      <4>2. n \in Nat
        BY <4>1, VectorFacts
      <4>. QED
        BY <4>1, <4>2
    <3>3. Holds(w, SubSeq(s, 1, w.size), FALSE)
      BY <2>0, <3>2, AssignRangeHolds
    <3>. HIDE DEF w
    <3>. QED
      BY <2>0, <3>1, <3>3 DEF Leads
  <2>8. ASSUME V!PopBack
        PROVE  Leads
    <3> DEFINE w == V!PoppedBack(vec)
    <3>1. vec' = w /\ items' = (IF vec.size > 0 THEN V!Front(V!Old) ELSE V!Old) /\ faulty' = FALSE /\ iter' = iter
      BY <2>8 DEF V!PopBack, V!Calls, V!Sound
    <3>2. Holds(w, IF vec.size > 0 THEN V!Front(V!Contents(vec)) ELSE V!Contents(vec), FALSE)
      BY <2>0, PopHolds
    <3>. HIDE DEF w
    <3>. QED
      BY <2>0, <3>1, <3>2 DEF Leads
  <2>9. ASSUME V!AssignCopy
        PROVE  Leads
    <3> DEFINE w == V!Copy(vec)
    <3>1. V!CanCopy(vec) /\ vec' = w /\ items' = V!Old /\ faulty' = FALSE /\ iter' = iter
      BY <2>9 DEF V!AssignCopy, V!Calls, V!Sound
    <3>2. Holds(w, V!Contents(vec), FALSE)
      BY <2>0, <2>a, <3>1, CopyHolds
    <3>. HIDE DEF w
    <3>. QED
      BY <2>0, <3>1, <3>2 DEF Leads
  <2>10. ASSUME V!Shuffle
         PROVE  Leads
    <3>1. vec.size > 1 /\ faulty' = FALSE /\ iter' = iter
      BY <2>10 DEF V!Shuffle, V!Sound
    <3>2. PICK q \in [1 .. vec.size - 1 -> 1 .. vec.size] :
            LET mix[i \in 0 .. vec.size - 1] == IF i = 0 THEN V!Old ELSE V!Swapped(mix[i - 1], i, q[i])
            IN  \E s \in {mix[vec.size - 1]} : V!Calls(V!Holding(vec, s, vec.cap), TRUE, s)
      BY <2>10 DEF V!Shuffle
    <3> DEFINE mix == CHOOSE f : f = [i \in 0 .. vec.size - 1 |-> IF i = 0 THEN V!Contents(vec) ELSE V!Swapped(f[i - 1], i, q[i])]
               s1 == mix[vec.size - 1]
    <3>3. V!Calls(V!Holding(vec, s1, vec.cap), TRUE, s1)
      BY <3>2, Zenon DEF V!Old
    <3>4. Holds(V!Holding(vec, s1, vec.cap), s1, FALSE)
      BY <2>0, <3>1, ShuffleHolds
    <3>. HIDE DEF s1
    <3>5. vec' = V!Holding(vec, s1, vec.cap) /\ items' = s1
      BY <3>3 DEF V!Calls
    <3>. QED
      BY <2>0, <3>1, <3>4, <3>5 DEF Leads
  <2>11. ASSUME V!Begin \/ V!Step(1) \/ V!Step(-1)
         PROVE  Leads
    <3>1. vec' = vec /\ items' = V!Old /\ faulty' = FALSE
      BY <2>11 DEF V!Begin, V!Step, V!Sound
    <3>2. V!Clamp(vec, iter) \in Int
      BY <2>0 DEF V!Clamp
    <3>3. V!Moved(vec, iter, 1) \in Int /\ V!Moved(vec, iter, -1) \in Int
      BY <2>e, <3>2 DEF V!Moved
    <3>4. iter' \in Int
      BY <2>11, <2>e, <3>3 DEF V!Begin, V!Step
    <3>. QED
      BY <2>0, <3>1, <3>4 DEF Leads, Holds
  <2>12. Leads
    <3>. HIDE DEF Leads
    <3>. QED
      BY <1>2, <2>1, <2>2, <2>3, <2>4, <2>5, <2>6, <2>7, <2>8, <2>9, <2>10, <2>11 DEF V!Next
  <2>. QED
    BY <2>12, LeadsTo
<1>. QED
  BY <1>1, <1>2

\* Which is what the property says of a state.
LEMMA HoldsItemsHolds ==
  ASSUME VecOK
  PROVE  V!HoldsItems
<1>. SUFFICES ASSUME vec.ok, ~ faulty
              PROVE  /\ V!Contents(vec) = items
                     /\ vec.pod \/ \A p \in 0 .. vec.cap - 1 : vec.data[p] = Raw <=> p >= vec.size
  BY DEF V!HoldsItems
<1>1. IsArray(vec, Values) /\ IsClean(vec, Values) /\ V!Contents(vec) = items /\ vec.size \in Nat /\ vec.cap \in Nat
  BY ContentsAre DEF VecOK
<1>2. ASSUME ~ vec.pod, NEW p \in 0 .. vec.cap - 1
      PROVE  vec.data[p] = Raw <=> p >= vec.size
  <2>1. p >= vec.size => vec.data[p] = Raw
    BY <1>1, <1>2 DEF IsClean
  <2>2. ASSUME ~ (p >= vec.size)
        PROVE  vec.data[p] # Raw
    <3>1. p \in 0 .. vec.size - 1
      BY <1>1, <2>2
    <3>2. vec.data[p] \in Values
      BY <1>1, <3>1 DEF IsArray
    <3>. QED
      BY <3>2, VectorFacts
  <2>. QED
    BY <2>1, <2>2
<1>. QED
  BY <1>1, <1>2
-----------------------------------------------------------------------------
(* ScopedArrayPtr.                                                          *)

Plain == Values \cup {Zero, Raw}
ArrayOK ==
  /\ where \in {"static", "dynamic", "null"}
  /\ inside \in [1 .. Count -> Plain]
  /\ IsArray(dynamic, Plain) /\ dynamic.pod = TRUE

LEMMA ArrayInit == V!ScopedInit => ArrayOK
<1>. SUFFICES ASSUME V!ScopedInit
              PROVE  ArrayOK
  OBVIOUS
<1>1. where = "static" /\ inside = [i \in 1 .. Count |-> Raw] /\ dynamic = V!NewVector(TRUE)
  BY DEF V!ScopedInit
<1>2. IsArray(dynamic, Plain)
  BY <1>1, NewVectorIs
<1>3. dynamic.pod = TRUE
  BY <1>1 DEF V!NewVector
<1>. QED
  BY <1>1, <1>2, <1>3 DEF ArrayOK, Plain

LEMMA VisibleIs ==
  /\ where = "static" => V!Visible = inside
  /\ where = "dynamic" => V!Visible = V!Contents(dynamic)
  /\ where = "null" => V!Visible = <<>>
BY DEF V!Visible

LEMMA VisibleNext ==
  /\ where' = "static" => V!Visible' = inside'
  /\ where' = "dynamic" => V!Visible' = V!Contents(dynamic)'
  /\ where' = "null" => V!Visible' = <<>>
BY DEF V!Visible

LEMMA DataIs ==
  /\ where = "static" => V!Data = inside
  /\ where = "dynamic" \/ where = "null" => V!Data = V!Contents(dynamic)
  /\ where' = "static" => V!Data' = inside'
  /\ where' = "dynamic" \/ where' = "null" => V!Data' = V!Contents(dynamic)'
BY VisibleIs, VisibleNext DEF V!Data

\* What the dynamic vector is after a resize().
Grows(v, n, w) ==
  /\ IsArray(w, Plain) /\ w.pod = TRUE
  /\ ~ V!CanReserve(v, n) => w = v
  /\ V!CanReserve(v, n) => w.size = n
  /\ \A i \in 1 .. v.size : i <= w.size => V!Contents(w)[i] = V!Contents(v)[i]

LEMMA ResizeGrows ==
  ASSUME NEW v, IsArray(v, Plain), v.pod = TRUE, NEW n \in Nat
  PROVE  Grows(v, n, V!Resized(v, n, Zero))
<1> DEFINE w == V!Resized(v, n, Zero)
           c == V!Contents(v)
           r == [i \in 1 .. n |-> IF i <= v.size THEN c[i] ELSE Zero]
<1>1. IsClean(v, Plain) /\ Zero \in Plain
  BY DEF IsClean, Plain
<1>2. /\ IsArray(w, Plain) /\ w.pod = v.pod
      /\ ~ V!CanReserve(v, n) => w = v
      /\ V!CanReserve(v, n) => w.size = n /\ V!Contents(w) = r
  BY <1>1, ResizeHolds
<1>3. v.size \in Nat
  BY ContentsAre
<1>. HIDE DEF w, c
<1>4. ASSUME NEW i \in 1 .. v.size, i <= w.size
      PROVE  V!Contents(w)[i] = c[i]
  <2>1. CASE ~ V!CanReserve(v, n)
    BY <1>2, <2>1 DEF c
  <2>2. CASE V!CanReserve(v, n)
    <3>1. i \in 1 .. n /\ i <= v.size
      BY <1>2, <1>3, <1>4, <2>2
    <3>2. V!Contents(w) = r /\ r[i] = c[i]
      BY <1>2, <2>2, <3>1
    <3>. QED
      BY <3>2
  <2>. QED
    BY <2>1, <2>2
<1>5. w.pod = TRUE
  BY <1>2, v.pod = TRUE, Zenon
<1>. QED
  BY <1>2, <1>4, <1>5 DEF Grows, w, c

\* The data move from the object to the vector unchanged.
LEMMA ExchangedIs ==
  ASSUME ArrayOK, NEW v, IsArray(v, Plain), v.pod = TRUE, Count < v.size
  PROVE  LET w == V!Exchanged(v)
         IN  /\ IsArray(w, Plain) /\ w.pod = TRUE /\ w.size = v.size
             /\ \A i \in 1 .. Count : V!Contents(w)[i] = inside[i] /\ v.data[i - 1] \in Plain
<1> DEFINE f == [p \in DOMAIN v.data |-> IF p < Count THEN inside[p + 1] ELSE v.data[p]]
           w == V!Exchanged(v)
<1>1. /\ v.size \in Nat /\ v.cap \in Nat /\ v.size <= v.cap /\ Count \in Nat /\ inside \in [1 .. Count -> Plain]
      /\ v.data \in [0 .. v.cap - 1 -> Plain \cup {Raw}] /\ (\A p \in 0 .. v.size - 1 : v.data[p] \in Plain)
      /\ v = [pod |-> v.pod, cap |-> v.cap, size |-> v.size, data |-> v.data, ok |-> v.ok] /\ v.ok \in BOOLEAN
  BY ContentsAre, VectorFacts DEF ArrayOK, IsArray, Arrays
<1>2. ASSUME NEW p \in 0 .. v.cap - 1, p < Count
      PROVE  p + 1 \in 1 .. Count /\ inside[p + 1] \in Plain
  <2>1. p + 1 \in 1 .. Count
    BY <1>1, <1>2
  <2>. QED
    BY <1>1, <2>1
<1>3. f \in [0 .. v.cap - 1 -> Plain \cup {Raw}]
  BY <1>1, <1>2
<1>4. \A p \in 0 .. v.size - 1 : f[p] \in Plain
  <2>1. ASSUME NEW p \in 0 .. v.size - 1
        PROVE  f[p] \in Plain
    <3>1. p \in 0 .. v.cap - 1 /\ p \in DOMAIN v.data
      BY <1>1
    <3>. QED
      BY <1>1, <1>2, <3>1
  <2>. QED
    BY <2>1
<1>5. \A i \in 1 .. Count : f[i - 1] = inside[i]
  <2>1. ASSUME NEW i \in 1 .. Count
        PROVE  f[i - 1] = inside[i]
    <3>1. i - 1 \in DOMAIN v.data /\ i - 1 < Count /\ (i - 1) + 1 = i
      BY <1>1
    <3>2. f[i - 1] = inside[(i - 1) + 1]
      BY <3>1
    <3>. QED
      BY <3>1, <3>2
  <2>. QED
    BY <2>1
<1>6. w = [v EXCEPT !.data = f]
  BY Zenon DEF V!Exchanged
<1>7. f \in Slots(Plain)
  BY <1>1, <1>3, SlotsHave
<1>. HIDE DEF f, w
<1>8. w = [pod |-> v.pod, cap |-> v.cap, size |-> v.size, data |-> f, ok |-> v.ok]
  <2> DEFINE z1 == [pod |-> v.pod, cap |-> v.cap, size |-> v.size, data |-> v.data, ok |-> v.ok]
  <2>1. v = z1
    BY <1>1
  <2>2. [z1 EXCEPT !.data = f] = [pod |-> v.pod, cap |-> v.cap, size |-> v.size, data |-> f, ok |-> v.ok]
    OBVIOUS
  <2>. HIDE DEF z1
  <2>. QED
    BY <1>6, <2>1, <2>2
<1>9. w.pod = v.pod /\ w.cap = v.cap /\ w.size = v.size /\ w.data = f /\ w.ok = v.ok
  BY <1>8
<1>10. v.pod \in BOOLEAN
  BY v.pod = TRUE, Zenon
<1>11. w \in Arrays(Plain)
  BY <1>1, <1>7, <1>8, <1>10 DEF Arrays
<1>12. IsArray(w, Plain)
  BY <1>1, <1>3, <1>4, <1>9, <1>11 DEF IsArray
<1>13. ASSUME NEW i \in 1 .. Count
       PROVE  V!Contents(w)[i] = inside[i] /\ v.data[i - 1] \in Plain
  <2>1. i \in 1 .. w.size /\ i - 1 \in 0 .. v.size - 1
    BY <1>1, <1>9
  <2>2. V!Contents(w)[i] = w.data[i - 1]
    BY <1>12, <2>1, ContentsAre
  <2>. QED
    BY <1>1, <1>5, <1>9, <2>1, <2>2
<1>14. w.pod = TRUE
  BY <1>9, v.pod = TRUE, Zenon
<1>. QED
  BY <1>9, <1>12, <1>13, <1>14 DEF w

\* Each resize() by itself: what was there stays, and there is room.
Keeps == \A i \in DOMAIN V!Data \cap DOMAIN V!Data' : V!Data'[i] = V!Data[i]

\* resize() of a ScopedArrayPtr, in all its cases.
LEMMA ResizeStep ==
  ASSUME ArrayOK, NEW n \in Nat, V!ScopedResize(n)
  PROVE  ArrayOK' /\ Keeps /\ (told' => Len(V!Visible') >= n) /\ (where' = "null" => ~ told')
<1>0. /\ dynamic.size \in Nat /\ Count \in Nat /\ IsArray(dynamic, Plain) /\ dynamic.pod = TRUE
      /\ inside \in [1 .. Count -> Plain] /\ Len(V!Contents(dynamic)) = dynamic.size
      /\ V!Contents(dynamic) \in Seq(Plain)
  BY ContentsAre, VectorFacts DEF ArrayOK
<1>s. V!Contents(dynamic)' = V!Contents(dynamic')
  BY DEF V!Contents
<1> DEFINE v == V!Resized(dynamic, n, Zero)
<1>g. Grows(dynamic, n, v)
  BY <1>0, ResizeGrows
<1>. HIDE DEF v
<1>v. IsArray(v, Plain) /\ v.pod = TRUE /\ v.size \in Nat
  BY <1>g, ContentsAre DEF Grows
<1>1. CASE V!Stays(n)
  <2>1. where = "static" /\ n <= Count /\ where' = where /\ inside' = inside /\ dynamic' = dynamic
    BY <1>1 DEF V!Stays
  <2>2. ArrayOK'
    BY <2>1 DEF ArrayOK, IsArray, Arrays
  <2>3. V!Visible' = inside /\ Len(inside) = Count
    BY <1>0, <2>1, VisibleNext
  <2>4. Keeps
    BY <2>1, DataIs DEF Keeps
  <2>. QED
    BY <1>0, <2>1, <2>2, <2>3, <2>4
<1>2. CASE V!Leaves(n) /\ ~ told'
  <2>1. where = "static" /\ n > Count /\ where' = where /\ inside' = inside /\ dynamic' = v
        /\ told' = V!ResizeSucceeds(dynamic, n)
    BY <1>2 DEF V!Leaves, v
  <2>2. ~ V!CanReserve(dynamic, n)
    <3>1. n # 0
      BY <1>0, <2>1
    <3>. QED
      BY <1>2, <2>1, <3>1 DEF V!ResizeSucceeds
  <2>3. dynamic' = dynamic
    BY <1>g, <2>1, <2>2 DEF Grows
  <2>4. ArrayOK'
    BY <2>1, <2>3 DEF ArrayOK, IsArray, Arrays
  <2>5. Keeps
    BY <2>1, DataIs DEF Keeps
  <2>. QED
    BY <1>2, <2>4, <2>5
<1>3. CASE V!Leaves(n) /\ told'
  <2>1. /\ where = "static" /\ n > Count /\ where' = "dynamic" /\ told' = V!ResizeSucceeds(dynamic, n)
        /\ inside' = [i \in 1 .. Count |-> v.data[i - 1]] /\ dynamic' = V!Exchanged(v)
    BY <1>3 DEF V!Leaves, v
  <2>2. v.size = n
    BY <1>3, <1>g, <2>1 DEF Grows, V!ResizeSucceeds
  <2> DEFINE w == V!Exchanged(v)
  <2>3. /\ IsArray(w, Plain) /\ w.pod = TRUE /\ w.size = n
        /\ \A i \in 1 .. Count : V!Contents(w)[i] = inside[i] /\ v.data[i - 1] \in Plain
    <3>1. Count < v.size
      BY <1>0, <2>1, <2>2
    <3>. QED
      BY <1>v, <2>2, <3>1, ExchangedIs
  <2>. HIDE DEF w
  <2>4. dynamic' = w
    BY <2>1 DEF w
  <2>5. ArrayOK'
    <3>1. inside' \in [1 .. Count -> Plain]
      BY <2>1, <2>3
    <3>2. IsArray(dynamic', Plain) /\ dynamic'.pod = TRUE
      BY <2>3, <2>4
    <3>. QED
      BY <2>1, <3>1, <3>2 DEF ArrayOK, IsArray, Arrays, Slots, Plain
  <2>6. V!Visible' = V!Contents(w) /\ V!Data = inside /\ V!Data' = V!Contents(w)
    BY <1>s, <2>1, <2>4, VisibleNext, DataIs
  <2>7. Len(V!Contents(w)) = n
    BY <2>3, ContentsAre
  <2>8. Keeps
    BY <1>0, <2>3, <2>6 DEF Keeps
  <2>9. n >= n /\ where' # "null"
    BY <2>1
  <2>. QED
    BY <2>5, <2>6, <2>7, <2>8, <2>9
<1>4. CASE V!Resizes(n)
  <2>1. /\ where # "static" /\ told' = V!ResizeSucceeds(dynamic, n) /\ dynamic' = v /\ inside' = inside
        /\ where' = IF told' THEN "dynamic" ELSE "null"
    BY <1>4 DEF V!Resizes, v
  <2>2. (where = "dynamic" \/ where = "null") /\ (where' = "dynamic" \/ where' = "null")
    BY <2>1 DEF ArrayOK
  <2>3. ArrayOK'
    <3>1. IsArray(dynamic', Plain) /\ dynamic'.pod = TRUE
      BY <1>v, <2>1
    <3>. QED
      BY <1>0, <2>1, <2>2, <3>1 DEF ArrayOK, IsArray, Arrays, Slots, Plain
  <2>4. V!Data = V!Contents(dynamic) /\ V!Data' = V!Contents(v)
    BY <1>s, <2>1, <2>2, DataIs
  <2>5. V!Contents(v) \in Seq(Plain) /\ Len(V!Contents(v)) = v.size
    BY <1>v, ContentsAre
  <2>6. Keeps
    <3>1. ASSUME NEW i \in DOMAIN V!Contents(dynamic), i \in DOMAIN V!Contents(v)
          PROVE  V!Contents(v)[i] = V!Contents(dynamic)[i]
      <4>1. i \in 1 .. dynamic.size /\ i <= v.size
        BY <1>0, <2>5, <3>1
      <4>. QED
        BY <1>g, <4>1 DEF Grows
    <3>. QED
      BY <2>4, <3>1 DEF Keeps
  <2>7. told' => Len(V!Visible') >= n
    <3>1. ASSUME told'
          PROVE  Len(V!Visible') >= n
      <4>1. V!CanReserve(dynamic, n)
        BY <2>1, <3>1 DEF V!ResizeSucceeds
      <4>2. v.size = n
        BY <1>g, <4>1 DEF Grows
      <4>3. V!Visible' = V!Contents(v)
        BY <1>s, <2>1, <3>1, VisibleNext
      <4>. QED
        BY <2>5, <4>2, <4>3
    <3>. QED
      BY <3>1
  <2>8. where' = "null" => ~ told'
    BY <2>1
  <2>. QED
    BY <2>3, <2>6, <2>7, <2>8
<1>. QED
  BY <1>1, <1>2, <1>3, <1>4 DEF V!ScopedResize

LEMMA WriteStep ==
  ASSUME ArrayOK, NEW i, NEW e \in Values, V!Write(i, e)
  PROVE  /\ ArrayOK' /\ where' # "null"
         /\ \A j \in DOMAIN V!Data \cap DOMAIN V!Data' : V!Data'[j] = V!Data[j] \/ j = i
<1>0. /\ dynamic.size \in Nat /\ Count \in Nat /\ IsArray(dynamic, Plain) /\ dynamic.pod = TRUE
      /\ inside \in [1 .. Count -> Plain] /\ Len(V!Contents(dynamic)) = dynamic.size
      /\ V!Contents(dynamic) \in Seq(Plain) /\ dynamic.cap \in Nat /\ dynamic.size <= dynamic.cap
      /\ \A j \in 1 .. dynamic.size : V!Contents(dynamic)[j] = dynamic.data[j - 1]
  BY ContentsAre, VectorFacts DEF ArrayOK
<1>s. V!Contents(dynamic)' = V!Contents(dynamic')
  BY DEF V!Contents
<1>1. /\ i \in DOMAIN V!Visible /\ where' = where
      /\ where = "static" => inside' = [inside EXCEPT ![i] = e] /\ dynamic' = dynamic
      /\ where # "static" => dynamic' = [dynamic EXCEPT !.data[i - 1] = e] /\ inside' = inside
  BY DEF V!Write
<1>2. where # "null"
  <2>1. ASSUME where = "null"
        PROVE  FALSE
    <3>1. V!Visible = <<>>
      BY <2>1, VisibleIs
    <3>. QED
      BY <1>1, <3>1
  <2>. QED
    BY <2>1
<1>3. e \in Plain
  BY DEF Plain
<1>4. CASE where = "static"
  <2>1. i \in 1 .. Count
    BY <1>0, <1>1, <1>4, VisibleIs
  <2>2. inside' \in [1 .. Count -> Plain] /\ \A j \in 1 .. Count : inside'[j] = inside[j] \/ j = i
    BY <1>0, <1>1, <1>3, <1>4, <2>1
  <2>3. ArrayOK'
    BY <1>1, <1>4, <2>2 DEF ArrayOK, IsArray, Arrays
  <2>4. V!Data = inside /\ V!Data' = inside'
    BY <1>1, <1>4, DataIs
  <2>. QED
    BY <1>0, <1>1, <1>2, <2>2, <2>3, <2>4
<1>5. CASE where = "dynamic"
  <2>1. i \in 1 .. dynamic.size
    <3>1. V!Visible = V!Contents(dynamic)
      BY <1>5, VisibleIs
    <3>. QED
      BY <1>0, <1>1, <3>1
  <2>2. i - 1 \in 0 .. dynamic.size - 1 /\ i - 1 \in 0 .. dynamic.cap - 1
    BY <1>0, <2>1
  <2> DEFINE d == dynamic.data
             f == [d EXCEPT ![i - 1] = e]
             w == [pod |-> dynamic.pod, cap |-> dynamic.cap, size |-> dynamic.size, data |-> f, ok |-> dynamic.ok]
  <2>3. /\ dynamic = [pod |-> dynamic.pod, cap |-> dynamic.cap, size |-> dynamic.size, data |-> d, ok |-> dynamic.ok]
        /\ d \in [0 .. dynamic.cap - 1 -> Plain \cup {Raw}] /\ dynamic.ok \in BOOLEAN /\ dynamic.pod \in BOOLEAN
        /\ \A p \in 0 .. dynamic.size - 1 : d[p] \in Plain
    BY <1>0 DEF IsArray, Arrays
  <2>4. dynamic' = w
    <3> DEFINE z1 == [pod |-> dynamic.pod, cap |-> dynamic.cap, size |-> dynamic.size, data |-> d, ok |-> dynamic.ok]
    <3>1. dynamic' = [dynamic EXCEPT !.data[i - 1] = e]
      BY <1>1, <1>5
    <3>2. [dynamic EXCEPT !.data[i - 1] = e] = [dynamic EXCEPT !.data = f]
      BY Zenon
    <3>3. [z1 EXCEPT !.data = f] = w
      OBVIOUS
    <3>. HIDE DEF w, f
    <3>4. [dynamic EXCEPT !.data = f] = [z1 EXCEPT !.data = f]
      BY <2>3
    <3>. HIDE DEF z1
    <3>. QED
      BY <3>1, <3>2, <3>3, <3>4
  <2>5. f \in [0 .. dynamic.cap - 1 -> Plain \cup {Raw}] /\ \A p \in 0 .. dynamic.cap - 1 : f[p] = IF p = i - 1 THEN e ELSE d[p]
    BY <1>3, <2>2, <2>3
  <2>6. \A p \in 0 .. dynamic.size - 1 : f[p] \in Plain
    <3>1. ASSUME NEW p \in 0 .. dynamic.size - 1
          PROVE  f[p] \in Plain
      <4>1. p \in 0 .. dynamic.cap - 1
        BY <1>0
      <4>2. f[p] = IF p = i - 1 THEN e ELSE d[p]
        BY <2>5, <4>1
      <4>. HIDE DEF f
      <4>. QED
        BY <1>3, <2>3, <4>2
    <3>. QED
      BY <3>1
  <2>7. f \in Slots(Plain)
    BY <1>0, <2>5, SlotsHave
  <2>. HIDE DEF f
  <2>8. w \in Arrays(Plain)
    BY <1>0, <2>3, <2>7 DEF Arrays
  <2>9. w.pod = dynamic.pod /\ w.cap = dynamic.cap /\ w.size = dynamic.size /\ w.data = f
    OBVIOUS
  <2>. HIDE DEF w
  <2>10. IsArray(w, Plain)
    BY <1>0, <2>5, <2>6, <2>8, <2>9 DEF IsArray
  <2>11. w.pod = TRUE
    BY <1>0, <2>9
  <2>12. ArrayOK'
    <3>1. IsArray(dynamic', Plain) /\ dynamic'.pod = TRUE
      BY <2>4, <2>10, <2>11
    <3>. QED
      BY <1>0, <1>1, <1>5, <3>1 DEF ArrayOK, IsArray, Arrays, Slots, Plain
  <2>13. V!Data = V!Contents(dynamic) /\ V!Data' = V!Contents(w)
    BY <1>s, <1>1, <1>5, <2>4, DataIs
  <2>14. ASSUME NEW j \in DOMAIN V!Contents(dynamic)
         PROVE  V!Contents(w)[j] = V!Contents(dynamic)[j] \/ j = i
    <3>1. j \in 1 .. dynamic.size /\ j - 1 \in 0 .. dynamic.cap - 1
      BY <1>0
    <3>2. V!Contents(w)[j] = f[j - 1]
      <4>1. j \in 1 .. w.size
        BY <2>9, <3>1
      <4>2. V!Contents(w)[j] = w.data[j - 1]
        BY <2>10, <4>1, ContentsAre
      <4>. QED
        BY <2>9, <4>2
    <3>3. j # i => f[j - 1] = d[j - 1]
      <4>1. j # i => j - 1 # i - 1
        BY <2>1, <3>1
      <4>. QED
        BY <2>5, <3>1, <4>1
    <3>. QED
      BY <1>0, <3>1, <3>2, <3>3
  <2>. QED
    BY <1>1, <1>2, <2>12, <2>13, <2>14
<1>. QED
  BY <1>2, <1>4, <1>5 DEF ArrayOK

\* Every step of a ScopedArrayPtr keeps its data.
LEMMA ArrayStep ==
  ASSUME ArrayOK, V!ScopedNext \/ UNCHANGED arrayVars
  PROVE  ArrayOK' /\ (V!ScopedNext => V!DataIsKept)
<1>1. CASE UNCHANGED arrayVars /\ ~ V!ScopedNext
  BY <1>1 DEF arrayVars, ArrayOK, IsArray, Arrays
<1>2. CASE V!ScopedNext
  <2>1. ASSUME NEW n \in 0 .. MaxCapacity + 1, V!ScopedResize(n)
        PROVE  ArrayOK' /\ Keeps /\ (where' = "null" => ~ told')
    <3>1. n \in Nat
      BY VectorFacts
    <3>. QED
      BY <2>1, <3>1, ResizeStep
  <2>2. ASSUME NEW i, NEW e \in Values, V!Write(i, e)
        PROVE  /\ ArrayOK' /\ where' # "null"
               /\ \A j \in DOMAIN V!Data \cap DOMAIN V!Data' : V!Data'[j] = V!Data[j] \/ \E e1 \in Values : V!Write(j, e1)
    BY <2>2, WriteStep
  <2>3. ASSUME NEW n \in 0 .. MaxCapacity, V!ScopedResize(n), told'
        PROVE  Len(V!Visible') >= n
    <3>1. n \in Nat
      BY VectorFacts
    <3>. QED
      BY <2>3, <3>1, ResizeStep
  <2>4. CASE \E n \in 0 .. MaxCapacity + 1 : V!ScopedResize(n)
    <3>1. ArrayOK' /\ Keeps /\ (where' = "null" => ~ told')
      BY <2>1, <2>4
    <3>. QED
      BY <2>3, <3>1 DEF V!DataIsKept, Keeps
  <2>5. CASE \E i \in 1 .. MaxCapacity, e \in Values : V!Write(i, e)
    <3>1. /\ ArrayOK' /\ where' # "null"
          /\ \A j \in DOMAIN V!Data \cap DOMAIN V!Data' : V!Data'[j] = V!Data[j] \/ \E e1 \in Values : V!Write(j, e1)
      BY <2>2, <2>5
    <3>. QED
      BY <2>3, <3>1 DEF V!DataIsKept
  <2>. QED
    BY <1>2, <2>4, <2>5 DEF V!ScopedNext
<1>. QED
  BY <1>1, <1>2
-----------------------------------------------------------------------------
(* The theorems.                                                            *)

\* Table and Set: at every moment the items are in order of their keys and
\* find(), a binary search and then a walk back, gives the first item of its
\* key, exactly if there is one; and in every step an insertion puts its item
\* before those of equal keys and moves no others, and a removal by key takes the
\* newest, plain data erased before the end aside: for all keys and capacities.
THEOREM NewestIsFound ==
  MCSpec => FindsTheNewest
<1> DEFINE Inv == used = "table" => TableOK
           Newest == used = "table" => V!NewestIsFirst
<1>1. MCInit => Inv
  BY TableInit DEF MCInit
<1>2. Inv /\ [MCNext]_<<used, bigVars, dataVars, otherVars>> => Inv' /\ [Newest]_<<used, tableVars>>
  <2>. SUFFICES ASSUME Inv, [MCNext]_<<used, bigVars, dataVars, otherVars>>
                PROVE  Inv' /\ [Newest]_<<used, tableVars>>
    OBVIOUS
  <2>1. used' = used
    BY DEF MCNext
  <2>2. used = "table" => V!TableNext \/ UNCHANGED tableVars
    BY DEF MCNext, BigNext, DataNext, OtherNext, dataVars
  <2>3. used = "table" => TableOK' /\ V!NewestIsFirst
    BY <2>2, TableStep, NewestStaysFirst
  <2>. QED
    BY <2>1, <2>3
<1>3. Inv => (used = "table" => V!FindsTheFirst)
  BY FindsTheFirstHolds
<1>. QED
  BY <1>1, <1>2, <1>3, PTL DEF MCSpec, FindsTheNewest

\* Vector and ScopedArrayPtr: at every moment a vector holds the items that were
\* put in, in order, with objects exactly below m_size; and in every step what an
\* array held stays through its moves from the object to the heap and back: for
\* all values, capacities and lengths.
THEOREM ItemsStay ==
  MCSpec => KeepsItems
<1> DEFINE Inv == (used = "vector" => VecOK) /\ (used = "array" => ArrayOK)
           Kept == used = "array" => V!DataIsKept
<1>1. MCInit => Inv
  BY VectorInit, ArrayInit DEF MCInit
<1>2. Inv /\ [MCNext]_<<used, bigVars, dataVars, otherVars>> => Inv' /\ [Kept]_<<used, arrayVars>>
  <2>. SUFFICES ASSUME Inv, [MCNext]_<<used, bigVars, dataVars, otherVars>>
                PROVE  Inv' /\ [Kept]_<<used, arrayVars>>
    OBVIOUS
  <2>1. used' = used
    BY DEF MCNext
  <2>2. used = "vector" => V!Next \/ UNCHANGED vectorVars
    BY DEF MCNext, BigNext, DataNext, OtherNext, dataVars
  <2>3. used = "array" => V!ScopedNext \/ UNCHANGED arrayVars
    BY DEF MCNext, BigNext, DataNext, OtherNext, dataVars
  <2>4. used = "vector" => VecOK'
    BY <2>2, VectorStep
  <2>5. used = "array" => ArrayOK' /\ (V!ScopedNext => V!DataIsKept)
    BY <2>3, ArrayStep
  <2>6. used = "array" => V!DataIsKept \/ UNCHANGED <<used, arrayVars>>
    BY <2>1, <2>3, <2>5
  <2>. QED
    BY <2>1, <2>4, <2>5, <2>6
<1>3. Inv => (used = "vector" => V!HoldsItems)
  BY HoldsItemsHolds
<1>. QED
  BY <1>1, <1>2, <1>3, PTL DEF MCSpec, KeepsItems
================================================================================
