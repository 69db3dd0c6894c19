----------------------------- MODULE LifetimeProofs -----------------------------
(***************************************************************************)
(* Theorems about how long objects live and who owns memory, for all       *)
(* values of the constants: SharedCount, as several threads change it,     *)
(* and, as instances in MCShared, Singleton, Strings, whose copies share a *)
(* text, Allocating, and UniquePtr, SharedPtr and WeakPtr of SmartPtrs.    *)
(* One of the instances takes steps in a run of MCSpec and the others stay *)
(* at their initial states, so that the invariant of each is one of MCSpec.*)
(***************************************************************************)
EXTENDS MCShared, FiniteSetTheorems, WellFoundedInduction, TLAPS

-----------------------------------------------------------------------------
(* SharedCount: where the callers keep addref_lock() apart from other uses  *)
(* of the hard count, the counts are right, the object is not used once it  *)
(* has been disposed of, nor the counts once they are freed.  The invariant *)
(* states the last two handle by handle, and adds what that discipline      *)
(* gives: a promotion finds the count it has read, and the WeakPtr it reads *)
(* is still there.                                                          *)

Hard == {"strong", "won"}

\* The object lives while there are hard references and until the thread that
\* dropped the last one has disposed of it; one thread does that.
ObjectInv ==
  /\ object <=> ref > 0 \/ \E h \in Handles : handle[h] = "disposes"
  /\ \A h \in Handles : handle[h] \in Ending => ref = 0
  /\ \A g, h \in Handles : handle[g] \in Ending /\ handle[h] \in Ending => g = h

\* A handle that is not empty keeps the counts allocated, and the thread that
\* frees them has the last one.
BlockInv ==
  /\ \A h \in Handles : handle[h] # "empty" => block
  /\ \A g, h \in Handles : handle[h] = "destroys" /\ g # h => handle[g] = "empty"

\* At most one promotion is under way, and the count is the one it read.
PromotionInv ==
  /\ \A g, h \in Handles : handle[g] \in Promoting /\ handle[h] \in Promoting => g = h
  /\ \A h \in Handles :
       /\ handle[h] \notin {"lost", "rereads"}
       /\ handle[h] = "swaps" => ref = seen[h] /\ ref > 0
       /\ handle[h] = "won" => ref = seen[h] + 1
       /\ handle[h] \in Promoting => handle[source[h]] = "weak"

Right ==
  /\ TypeOK
  /\ CountIsHard
  /\ CountIsWeak
  /\ ObjectInv
  /\ BlockInv
  /\ PromotionInv

IInv == promoteAlone => Right

-----------------------------------------------------------------------------
(* Counting handles.                                                        *)

LEMMA AreFinite ==
  ASSUME NEW K
  PROVE  /\ IsFiniteSet(Are(K)) /\ Cardinality(Are(K)) \in Nat
         /\ Cardinality(Are(K)) = 0 <=> Are(K) = {}
  <1>1. Are(K) \subseteq Handles
    BY DEF Are
  <1>2. IsFiniteSet(Are(K))
    BY <1>1, FS_Subset, SharedCountAssumption DEF SharedCountAssumption
  <1>. QED
    BY <1>2, FS_CardinalityType, FS_EmptySet

LEMMA AreFiniteNext ==
  ASSUME NEW K
  PROVE  /\ Cardinality(Are(K)') \in Nat
         /\ Cardinality(Are(K)') = 0 <=> Are(K)' = {}
  <1>1. Are(K)' \subseteq Handles
    BY DEF Are
  <1>2. IsFiniteSet(Are(K)')
    BY <1>1, FS_Subset, SharedCountAssumption DEF SharedCountAssumption
  <1>. QED
    BY <1>2, FS_CardinalityType, FS_EmptySet

\* A handle that moves into, out of, or within or outside the states K.
LEMMA MoveIn ==
  ASSUME NEW K, NEW h \in Handles, NEW s \in K, handle \in [Handles -> States],
         handle[h] \notin K, handle' = [handle EXCEPT ![h] = s]
  PROVE  Cardinality(Are(K)') = Cardinality(Are(K)) + 1
  <1>1. Are(K)' = Are(K) \cup {h} /\ h \notin Are(K)
    BY DEF Are
  <1>. QED
    BY <1>1, AreFinite, FS_AddElement

LEMMA MoveOut ==
  ASSUME NEW K, NEW h \in Handles, NEW s, s \notin K, handle \in [Handles -> States],
         handle[h] \in K, handle' = [handle EXCEPT ![h] = s]
  PROVE  Cardinality(Are(K)') = Cardinality(Are(K)) - 1
  <1>1. Are(K)' = Are(K) \ {h} /\ h \in Are(K)
    BY DEF Are
  <1>. QED
    BY <1>1, AreFinite, FS_RemoveElement

LEMMA MoveAside ==
  ASSUME NEW K, NEW h \in Handles, NEW s, s \in K <=> handle[h] \in K,
         handle \in [Handles -> States], handle' = [handle EXCEPT ![h] = s]
  PROVE  Are(K)' = Are(K)
  BY DEF Are

\* With a hard reference the hard count is not 0, and with a weak one or
\* somebody in release() the weak count is not.
LEMMA CountsPositive ==
  ASSUME Right
  PROVE  /\ (\E h \in Handles : handle[h] \in Hard) <=> ref > 0
         /\ (\E h \in Handles : handle[h] = "weak" \/ handle[h] \in Ending) => weak > 0
         /\ weak = 0 => Are({"weak"}) = {} /\ ref = 0 /\ Are(Ending) = {}
  <1>1. Cardinality(Are(Hard)) = ref /\ ref \in Nat
    BY DEF Right, TypeOK, CountIsHard, Hard
  <1>2. (\E h \in Handles : handle[h] \in Hard) <=> Are(Hard) # {}
    BY DEF Are
  <1>3. (\E h \in Handles : handle[h] \in Hard) <=> ref > 0
    BY <1>1, <1>2, AreFinite
  <1>4. /\ weak \in Nat
        /\ weak = Cardinality(Are({"weak"})) + (IF ref > 0 \/ Are(Ending) # {} THEN 1 ELSE 0)
    BY DEF Right, TypeOK, CountIsWeak
  <1>5. weak = 0 => Are({"weak"}) = {} /\ ref = 0 /\ Are(Ending) = {}
    BY <1>1, <1>4, AreFinite
  <1>6. (\E h \in Handles : handle[h] = "weak" \/ handle[h] \in Ending) =>
          Are({"weak"}) # {} \/ Are(Ending) # {}
    BY DEF Are
  <1>7. weak = 0 \/ weak > 0
    BY <1>4
  <1>. QED
    BY <1>3, <1>5, <1>6, <1>7

\* The properties follow from the invariant.
LEMMA InvImpliesSafety == Right => NoUseAfterDispose /\ NoUseAfterDestroy
  <1>. SUFFICES ASSUME Right PROVE NoUseAfterDispose /\ NoUseAfterDestroy
    OBVIOUS
  <1>1. NoUseAfterDispose
    <2>1. Are({"strong"}) # {} => object
      BY CountsPositive DEF Right, ObjectInv, Are, Hard
    <2>2. Cardinality(Are(Ending)) <= 1
      <3>1. CASE Are(Ending) = {}
        BY <3>1, FS_EmptySet
      <3>2. CASE Are(Ending) # {}
        <4>1. PICK h \in Handles : handle[h] \in Ending
          BY <3>2 DEF Are
        <4>2. Are(Ending) = {h}
          BY <4>1 DEF Right, ObjectInv, Are
        <4>3. Cardinality({h}) = 1
          BY FS_Singleton
        <4>. QED
          BY <4>2, <4>3
      <3>. QED
        BY <3>1, <3>2
    <2>3. Are({"disposes"}) # {} => object
      BY DEF Right, ObjectInv, Are
    <2>. QED
      BY <2>1, <2>2, <2>3 DEF NoUseAfterDispose
  <1>2. NoUseAfterDestroy
    <2>1. Are(States \ {"empty"}) # {} \/ object => block
      BY CountsPositive DEF Right, ObjectInv, BlockInv, Are, Hard
    <2>2. Cardinality(Are({"destroys"})) <= 1
      <3>1. CASE Are({"destroys"}) = {}
        BY <3>1, FS_EmptySet
      <3>2. CASE Are({"destroys"}) # {}
        <4>1. PICK h \in Handles : handle[h] = "destroys"
          BY <3>2 DEF Are
        <4>2. Are({"destroys"}) = {h}
          BY <4>1 DEF Right, BlockInv, Are
        <4>3. Cardinality({h}) = 1
          BY FS_Singleton
        <4>. QED
          BY <4>2, <4>3
      <3>. QED
        BY <3>1, <3>2
    <2>3. Are({"destroys"}) # {} => Are(States \ {"empty", "destroys"}) = {}
      BY DEF Right, BlockInv, Are
    <2>. QED
      BY <2>1, <2>2, <2>3 DEF NoUseAfterDestroy
  <1>. QED
    BY <1>1, <1>2

-----------------------------------------------------------------------------
(* The steps.                                                               *)

LEMMA InitInv == Init => Right
  <1>. SUFFICES ASSUME Init PROVE Right
    OBVIOUS
  <1>1. Are({"strong", "won"}) = {} /\ Are({"weak"}) = {} /\ Are(Ending) = {}
    BY DEF Init, Are, Ending
  <1>2. Cardinality(Are({"strong", "won"})) = 0 /\ Cardinality(Are({"weak"})) = 0
    BY <1>1, AreFinite
  <1>3. CountIsHard /\ CountIsWeak
    BY <1>1, <1>2 DEF Init, CountIsHard, CountIsWeak
  <1>4. TypeOK
    BY DEF Init, TypeOK, States
  <1>5. ObjectInv /\ BlockInv /\ PromotionInv
    BY DEF Init, ObjectInv, BlockInv, PromotionInv, Ending, Promoting
  <1>. QED
    BY <1>3, <1>4, <1>5 DEF Right

LEMMA CreateKeepsInv ==
  ASSUME Right, NEW h \in Handles, Create(h)
  PROVE  Right'
  <1>1. handle \in [Handles -> States] /\ handle' = [handle EXCEPT ![h] = "strong"]
    BY DEF Right, TypeOK, Create, Goes
  <1>2. \A g \in Handles : handle[g] = "empty"
    BY DEF Right, BlockInv, Create
  <1>3. ref = 0 /\ Cardinality(Are({"strong", "won"})) = 0 /\ Cardinality(Are({"weak"})) = 0
    <2>1. Are({"strong", "won"}) = {} /\ Are({"weak"}) = {}
      BY <1>2 DEF Are
    <2>2. Cardinality(Are({"strong", "won"})) = 0 /\ Cardinality(Are({"weak"})) = 0
      BY <2>1, AreFinite
    <2>. QED
      BY <2>2 DEF Right, CountIsHard
  <1>4. CountIsHard'
    <2>1. Cardinality(Are({"strong", "won"})') = 1
      <3>1. handle[h] \notin {"strong", "won"}
        BY <1>2
      <3>2. Cardinality(Are({"strong", "won"})') = Cardinality(Are({"strong", "won"})) + 1
        BY <1>1, <3>1, MoveIn
      <3>. QED
        BY <1>3, <3>2
    <2>. QED
      BY <2>1 DEF Create, CountIsHard
  <1>5. CountIsWeak'
    <2>1. Are({"weak"})' = Are({"weak"})
      BY <1>1, <1>2, MoveAside
    <2>. QED
      BY <1>3, <2>1 DEF Create, CountIsWeak
  <1>6. TypeOK'
    BY <1>1 DEF Right, TypeOK, Create, States
  <1>7. ObjectInv' /\ BlockInv' /\ PromotionInv'
    BY <1>1, <1>2, <1>6 DEF TypeOK, Create, ObjectInv, BlockInv, PromotionInv, Ending, Promoting
  <1>. QED
    BY <1>4, <1>5, <1>6, <1>7 DEF Right

LEMMA AddRefKeepsInv ==
  ASSUME Right, promoteAlone, NEW g \in Handles, NEW h \in Handles, AddRef(g, h)
  PROVE  Right'
  <1>1. /\ handle \in [Handles -> States] /\ handle[h] = "empty"
        /\ handle' = [handle EXCEPT ![h] = "strong"]
    BY DEF Right, TypeOK, AddRef, Goes
  <1>2. ref > 0 /\ ref \in Nat /\ ref' = ref + 1 /\ ref' \in Nat /\ ref' > 0
    BY CountsPositive DEF Right, TypeOK, AddRef, Hard
  <1>3. \A u \in Handles : handle[u] \notin Promoting
    BY <1>1 DEF AddRef, Apart, Are, Promoting
  <1>4. CountIsHard'
    <2>1. Cardinality(Are({"strong", "won"})') = Cardinality(Are({"strong", "won"})) + 1
      BY <1>1, MoveIn
    <2>. QED
      BY <1>2, <2>1 DEF Right, CountIsHard
  <1>5. CountIsWeak'
    <2>1. Are({"weak"})' = Are({"weak"})
      BY <1>1, MoveAside
    <2>. QED
      BY <1>2, <2>1 DEF Right, AddRef, CountIsWeak
  <1>6. TypeOK'
    BY <1>1, <1>2 DEF Right, TypeOK, AddRef, States
  <1>7. ObjectInv' /\ BlockInv'
    BY <1>1, <1>2 DEF Right, TypeOK, AddRef, ObjectInv, BlockInv, Ending
  <1>8. PromotionInv'
    BY <1>1, <1>3 DEF Right, TypeOK, AddRef, PromotionInv, Promoting
  <1>. QED
    BY <1>4, <1>5, <1>6, <1>7, <1>8 DEF Right

\* The last reference on its way out finds no promotion under way.
LEMMA ReleaseKeepsInv ==
  ASSUME Right, promoteAlone, NEW h \in Handles, Release(h)
  PROVE  Right'
  <1>1. /\ handle \in [Handles -> States] /\ handle[h] = "strong" /\ ref' = ref - 1
        /\ handle' = [handle EXCEPT ![h] = IF ref' = 0 THEN "disposes" ELSE "empty"]
    BY DEF Right, TypeOK, Release, Goes
  <1>2. ref > 0 /\ ref \in Nat /\ ref' \in Nat /\ (ref' = 0 \/ ref' > 0)
    BY <1>1, CountsPositive DEF Right, TypeOK, Hard
  <1>3. \A u \in Handles : handle[u] \notin Promoting
    BY <1>1 DEF Release, Apart, Are, Promoting
  <1>4. \A u \in Handles : handle[u] \notin Ending
    BY <1>2 DEF Right, ObjectInv
  <1>5. CountIsHard'
    <2>1. PICK s \in {"disposes", "empty"} : handle' = [handle EXCEPT ![h] = s]
      BY <1>1
    <2>2. s \notin {"strong", "won"} /\ handle[h] \in {"strong", "won"}
      BY <1>1
    <2>3. Cardinality(Are({"strong", "won"})') = Cardinality(Are({"strong", "won"})) - 1
      BY <1>1, <2>1, <2>2, MoveOut
    <2>. QED
      BY <1>1, <2>3 DEF Right, CountIsHard
  <1>6. CountIsWeak'
    <2>1. Are({"weak"})' = Are({"weak"})
      BY <1>1, MoveAside
    <2>2. ref' = 0 => Are(Ending)' # {}
      BY <1>1 DEF Are, Ending
    <2>. QED
      BY <1>2, <2>1, <2>2 DEF Right, Release, CountIsWeak
  <1>7. TypeOK'
    BY <1>1, <1>2 DEF Right, TypeOK, Release, States, Ending
  <1>8. ObjectInv' /\ BlockInv'
    BY <1>1, <1>2, <1>4 DEF Right, TypeOK, Release, ObjectInv, BlockInv, Ending
  <1>9. PromotionInv'
    BY <1>1, <1>3 DEF Release, PromotionInv, Promoting
  <1>. QED
    BY <1>5, <1>6, <1>7, <1>8, <1>9 DEF Right

LEMMA DisposeKeepsInv ==
  ASSUME Right, NEW h \in Handles, Dispose(h)
  PROVE  Right'
  <1>1. /\ handle \in [Handles -> States] /\ handle[h] = "disposes"
        /\ handle' = [handle EXCEPT ![h] = "unshares"]
    BY DEF Right, TypeOK, Dispose, Goes
  <1>2. ref = 0
    BY <1>1 DEF Right, ObjectInv, Ending
  <1>3. \A u \in Handles : handle[u] \notin Promoting
    BY <1>2 DEF Right, TypeOK, PromotionInv, Promoting
  <1>4. CountIsHard'
    <2>1. Are({"strong", "won"})' = Are({"strong", "won"})
      BY <1>1, MoveAside
    <2>. QED
      BY <2>1 DEF Right, CountIsHard, Dispose
  <1>5. CountIsWeak'
    <2>1. Are({"weak"})' = Are({"weak"}) /\ Are(Ending)' = Are(Ending)
      BY <1>1, MoveAside DEF Ending
    <2>. QED
      BY <2>1 DEF Right, CountIsWeak, Dispose
  <1>6. TypeOK'
    BY <1>1 DEF Right, TypeOK, Dispose, States, Ending
  <1>7. ObjectInv' /\ BlockInv'
    BY <1>1, <1>2 DEF Right, TypeOK, Dispose, ObjectInv, BlockInv, Ending
  <1>8. PromotionInv'
    BY <1>1, <1>3 DEF Dispose, PromotionInv, Promoting
  <1>. QED
    BY <1>4, <1>5, <1>6, <1>7, <1>8 DEF Right

LEMMA WeakAddRefKeepsInv ==
  ASSUME Right, NEW g \in Handles, NEW h \in Handles, WeakAddRef(g, h)
  PROVE  Right'
  <1>1. /\ handle \in [Handles -> States] /\ handle[h] = "empty"
        /\ handle' = [handle EXCEPT ![h] = "weak"] /\ weak \in Nat /\ weak' = weak + 1
    BY DEF Right, TypeOK, WeakAddRef, Goes
  <1>2. CountIsHard'
    <2>1. Are({"strong", "won"})' = Are({"strong", "won"})
      BY <1>1, MoveAside
    <2>. QED
      BY <2>1 DEF Right, CountIsHard, WeakAddRef
  <1>3. CountIsWeak'
    <2>1. Cardinality(Are({"weak"})') = Cardinality(Are({"weak"})) + 1
      BY <1>1, MoveIn
    <2>2. Are(Ending)' = Are(Ending)
      BY <1>1, MoveAside DEF Ending
    <2>3. Cardinality(Are({"weak"})) \in Nat
      BY AreFinite
    <2>. QED
      BY <1>1, <2>1, <2>2, <2>3 DEF Right, CountIsWeak, WeakAddRef
  <1>4. TypeOK'
    BY <1>1 DEF Right, TypeOK, WeakAddRef, States
  <1>5. ObjectInv' /\ BlockInv'
    BY <1>1 DEF Right, TypeOK, WeakAddRef, ObjectInv, BlockInv, Ending
  <1>6. PromotionInv'
    BY <1>1 DEF Right, TypeOK, WeakAddRef, PromotionInv, Promoting
  <1>. QED
    BY <1>2, <1>3, <1>4, <1>5, <1>6 DEF Right

\* The weak count reaches 0 only when every other handle is empty.
LEMMA WeakReleaseKeepsInv ==
  ASSUME Right, NEW h \in Handles, WeakRelease(h)
  PROVE  Right'
  <1>. DEFINE next == IF weak' = 0 THEN "destroys" ELSE "empty"
  <1>1. /\ handle \in [Handles -> States] /\ handle[h] \in {"weak", "unshares"}
        /\ handle' = [handle EXCEPT ![h] = next] /\ weak' = weak - 1
    BY DEF Right, TypeOK, WeakRelease, Goes
  <1>2. weak \in Nat /\ weak > 0 /\ weak' \in Nat
    BY <1>1, CountsPositive DEF Right, TypeOK, Ending
  <1>3. \A u \in Handles : handle[u] \in Promoting => source[u] # h
    BY DEF WeakRelease, Unread, Are
  <1>4. CountIsHard'
    <2>1. Are({"strong", "won"})' = Are({"strong", "won"})
      BY <1>1, MoveAside
    <2>. QED
      BY <2>1 DEF Right, CountIsHard, WeakRelease
  <1>5. CountIsWeak'
    <2>1. Cardinality(Are({"weak"})) \in Nat
      BY AreFinite
    <2>2. CASE handle[h] = "weak"
      <3>1. Cardinality(Are({"weak"})') = Cardinality(Are({"weak"})) - 1
        <4>1. next \notin {"weak"} /\ handle[h] \in {"weak"}
          BY <2>2
        <4>. HIDE DEF next
        <4>. QED
          BY <1>1, <4>1, MoveOut
      <3>2. Are(Ending)' = Are(Ending)
        BY <1>1, <2>2, MoveAside DEF Ending
      <3>. QED
        BY <1>1, <1>2, <2>1, <3>1, <3>2 DEF Right, CountIsWeak, WeakRelease
    <2>3. CASE handle[h] = "unshares"
      <3>1. Are({"weak"})' = Are({"weak"})
        BY <1>1, <2>3, MoveAside
      <3>2. Are(Ending) # {} /\ Are(Ending)' = {} /\ ref = 0
        BY <1>1, <2>3 DEF Right, ObjectInv, Are, Ending
      <3>. QED
        BY <1>1, <1>2, <2>1, <3>1, <3>2 DEF Right, CountIsWeak, WeakRelease
    <2>. QED
      BY <1>1, <2>2, <2>3
  <1>6. TypeOK'
    BY <1>1, <1>2 DEF Right, TypeOK, WeakRelease, States
  <1>7. ObjectInv'
    BY <1>1 DEF Right, TypeOK, WeakRelease, ObjectInv, Ending
  <1>8. PromotionInv'
    BY <1>1, <1>3 DEF Right, TypeOK, WeakRelease, PromotionInv, Promoting
  <1>9. BlockInv'
    <2>1. ASSUME weak' = 0, NEW g \in Handles, g # h PROVE handle[g] = "empty"
      <3>1. Are({"weak"})' = {} /\ ref = 0 /\ Are(Ending)' = {}
        <4>1. Cardinality(Are({"weak"})') = 0 /\ ~(ref > 0) /\ Are(Ending)' = {}
          BY <1>5, <2>1, AreFiniteNext DEF CountIsWeak, WeakRelease
        <4>. QED
          BY <4>1, AreFiniteNext DEF Right, TypeOK
      <3>2. handle[g] \notin {"weak"} \cup Ending
        BY <1>1, <2>1, <3>1 DEF Are
      <3>3. handle[g] \notin Hard
        BY <3>1, CountsPositive
      <3>4. handle[g] \notin Promoting
        BY <3>1, <3>3 DEF Right, PromotionInv, Promoting, Hard
      <3>5. handle[g] # "destroys"
        BY <1>1, <2>1 DEF Right, BlockInv
      <3>. QED
        BY <1>1, <3>2, <3>3, <3>4, <3>5 DEF States, Hard
    <2>. QED
      BY <1>1, <2>1 DEF Right, WeakRelease, BlockInv
  <1>. QED
    BY <1>4, <1>5, <1>6, <1>7, <1>8, <1>9 DEF Right

LEMMA DestroyKeepsInv ==
  ASSUME Right, NEW h \in Handles, Destroy(h)
  PROVE  Right'
  <1>1. /\ handle \in [Handles -> States] /\ handle[h] = "destroys"
        /\ handle' = [handle EXCEPT ![h] = "empty"]
    BY DEF Right, TypeOK, Destroy, Goes
  <1>2. \A g \in Handles : g # h => handle[g] = "empty"
    BY <1>1 DEF Right, BlockInv
  <1>3. CountIsHard' /\ CountIsWeak'
    <2>1. /\ Are({"strong", "won"})' = Are({"strong", "won"})
          /\ Are({"weak"})' = Are({"weak"}) /\ Are(Ending)' = Are(Ending)
      BY <1>1, MoveAside DEF Ending
    <2>. QED
      BY <2>1 DEF Right, CountIsHard, CountIsWeak, Destroy
  <1>4. TypeOK'
    BY <1>1 DEF Right, TypeOK, Destroy, States
  <1>5. ObjectInv' /\ BlockInv' /\ PromotionInv'
    BY <1>1, <1>2 DEF Right, TypeOK, Destroy, ObjectInv, BlockInv, PromotionInv, Ending, Promoting
  <1>. QED
    BY <1>3, <1>4, <1>5 DEF Right

\* addref_lock(): gives up, or remembers the count and the WeakPtr.
LEMMA LockKeepsInv ==
  ASSUME Right, promoteAlone, NEW g \in Handles, NEW h \in Handles, Lock(g, h)
  PROVE  Right'
  <1>1. /\ handle \in [Handles -> States] /\ handle[h] = "empty" /\ handle[g] = "weak"
        /\ ref \in Nat /\ seen \in [Handles -> Nat] /\ source \in [Handles -> Handles]
    BY DEF Right, TypeOK, Lock
  <1>2. \A u \in Handles : handle[u] \notin Promoting
    BY <1>1 DEF Lock, ReadOf, Apart, Are, Promoting
  <1>3. \/ ref = 0 /\ handle' = [handle EXCEPT ![h] = "empty"]
        \/ /\ ref > 0 /\ handle' = [handle EXCEPT ![h] = "swaps"]
           /\ seen' = [seen EXCEPT ![h] = ref] /\ source' = [source EXCEPT ![h] = g]
    BY <1>1 DEF Lock, ReadOf, Ends
  <1>4. CountIsHard' /\ CountIsWeak'
    <2>1. PICK s \in {"empty", "swaps"} : handle' = [handle EXCEPT ![h] = s]
      BY <1>3
    <2>2. /\ Are({"strong", "won"})' = Are({"strong", "won"})
          /\ Are({"weak"})' = Are({"weak"}) /\ Are(Ending)' = Are(Ending)
      BY <1>1, <2>1, MoveAside DEF Ending
    <2>. QED
      BY <2>2 DEF Right, CountIsHard, CountIsWeak, Lock, ReadOf
  <1>5. TypeOK'
    BY <1>1, <1>3 DEF Right, TypeOK, Lock, ReadOf, Ends, States, Promoting
  <1>6. ObjectInv' /\ BlockInv'
    BY <1>1, <1>3 DEF Right, Lock, ReadOf, ObjectInv, BlockInv, Ending
  <1>7. PromotionInv'
    BY <1>1, <1>2, <1>3 DEF PromotionInv, Lock, ReadOf, Promoting
  <1>. QED
    BY <1>4, <1>5, <1>6, <1>7 DEF Right

\* The swap succeeds, for nobody else changes the count.
LEMMA LockSwapsKeepsInv ==
  ASSUME Right, NEW h \in Handles, LockSwaps(h)
  PROVE  Right'
  <1>1. /\ handle \in [Handles -> States] /\ handle[h] = "swaps" /\ ref > 0 /\ ref = seen[h]
        /\ ref \in Nat /\ ref' = ref + 1 /\ handle' = [handle EXCEPT ![h] = "won"]
    BY DEF Right, TypeOK, PromotionInv, LockSwaps, Goes
  <1>2. ref' \in Nat /\ ref' > 0
    BY <1>1
  <1>3. CountIsHard'
    <2>1. Cardinality(Are({"strong", "won"})') = Cardinality(Are({"strong", "won"})) + 1
      BY <1>1, MoveIn
    <2>. QED
      BY <1>1, <2>1 DEF Right, CountIsHard
  <1>4. CountIsWeak'
    <2>1. Are({"weak"})' = Are({"weak"})
      BY <1>1, MoveAside
    <2>. QED
      BY <1>1, <1>2, <2>1 DEF Right, LockSwaps, CountIsWeak
  <1>5. TypeOK'
    BY <1>1, <1>2 DEF Right, TypeOK, LockSwaps, States, Promoting
  <1>6. ObjectInv' /\ BlockInv'
    BY <1>1, <1>2 DEF Right, LockSwaps, ObjectInv, BlockInv, Ending
  <1>7. PromotionInv'
    BY <1>1 DEF Right, TypeOK, LockSwaps, PromotionInv, Promoting
  <1>. QED
    BY <1>3, <1>4, <1>5, <1>6, <1>7 DEF Right

LEMMA LockChecksKeepsInv ==
  ASSUME Right, NEW h \in Handles, LockChecks(h)
  PROVE  Right'
  <1>1. /\ handle \in [Handles -> States] /\ handle[h] = "won"
        /\ ref = seen[h] + 1 /\ ref \in Nat /\ handle' = [handle EXCEPT ![h] = "strong"]
    BY DEF Right, TypeOK, PromotionInv, LockChecks, Ends
  <1>2. CountIsHard' /\ CountIsWeak'
    <2>1. /\ Are({"strong", "won"})' = Are({"strong", "won"})
          /\ Are({"weak"})' = Are({"weak"}) /\ Are(Ending)' = Are(Ending)
      BY <1>1, MoveAside DEF Ending
    <2>. QED
      BY <2>1 DEF Right, CountIsHard, CountIsWeak, LockChecks
  <1>3. TypeOK'
    BY <1>1 DEF Right, TypeOK, LockChecks, Ends, States
  <1>4. ObjectInv' /\ BlockInv'
    BY <1>1 DEF Right, LockChecks, ObjectInv, BlockInv, Ending
  <1>5. PromotionInv'
    <2>1. \A u \in Handles : handle'[u] \notin Promoting
      BY <1>1 DEF Right, PromotionInv, Promoting
    <2>. QED
      BY <2>1 DEF PromotionInv, Promoting
  <1>. QED
    BY <1>2, <1>3, <1>4, <1>5 DEF Right

LEMMA NextKeepsRight == Right /\ promoteAlone /\ [Next]_vars => Right'
  <1>. SUFFICES ASSUME Right, promoteAlone, [Next]_vars PROVE Right'
    OBVIOUS
  <1>1. CASE UNCHANGED vars
    BY <1>1 DEF vars, Right, TypeOK, CountIsHard, CountIsWeak, ObjectInv, BlockInv,
                PromotionInv, Are
  <1>2. ASSUME NEW h \in Handles, LockAgain(h) PROVE Right'
    BY <1>2 DEF LockAgain, Right, PromotionInv
  <1>. QED
    BY <1>1, <1>2, CreateKeepsInv, AddRefKeepsInv, WeakAddRefKeepsInv, LockKeepsInv,
       ReleaseKeepsInv, DisposeKeepsInv, WeakReleaseKeepsInv, DestroyKeepsInv,
       LockSwapsKeepsInv, LockChecksKeepsInv DEF Next

\* The callers keep to their discipline, or do not.
LEMMA DisciplineKept == [Next]_vars => promoteAlone' = promoteAlone
  BY DEF Next, vars, Create, AddRef, WeakAddRef, Lock, ReadOf, Release, Dispose, WeakRelease,
         Destroy, LockSwaps, LockChecks, LockAgain

THEOREM Invariance == Spec => []IInv
  <1>1. Init => IInv
    BY InitInv DEF IInv
  <1>2. IInv /\ [Next]_vars => IInv'
    BY NextKeepsRight, DisciplineKept DEF IInv
  <1>. QED
    BY <1>1, <1>2, PTL DEF Spec

\* m_ref_count is the number of hard references, and m_weak_count that of weak
\* references and one for all hard ones.
THEOREM CountsRight == Spec => []CountsMatch
  <1>1. IInv => CountsMatch
    BY DEF IInv, Right, CountsMatch
  <1>. QED
    BY <1>1, Invariance, PTL

\* No SharedPtr refers to an object that has been disposed of, and no handle to
\* counts that have been freed.
THEOREM NothingUsedAfterFree == Spec => []NoUseAfterFree
  <1>1. IInv => NoUseAfterFree
    BY InvImpliesSafety DEF IInv, NoUseAfterFree, NoUseAfterDispose, NoUseAfterDestroy
  <1>. QED
    BY <1>1, Invariance, PTL

-----------------------------------------------------------------------------
(* Singleton                                                                *)

InOnce == {"registers", "constructs", "built", "publishes", "leaves"}
Singles == {inner, outer}
CallFrames == [s : Singles, at : InOnce \cup {"once"}]
NoneTwice(s) == \A i, j \in DOMAIN s : s[i] = s[j] => i = j
OnStack(s) == \E i \in DOMAIN stack : stack[i] = s

SingletonTypes ==
  /\ once \in [Singles -> Threads \cup {"new", "done"}]
  /\ built \in [Singles -> {"none", "raw", "built", "freed"}]
  /\ instance \in [Singles -> BOOLEAN]
  /\ stack \in Seq(Singles) /\ NoneTwice(stack)
  /\ calls \in [Threads -> Seq(CallFrames)]
  /\ exit \in [at : {"no", "loops", "calls", "clears", "over"}, s : Singles \cup {NULL}]

\* The call that is inside Once finds the object as far as it has come with it,
\* registered for the end of the process before it is constructed.
CallHolds(s, at) ==
  /\ at = "registers" => built[s] = "raw" /\ ~instance[s] /\ ~OnStack(s) /\ exit.s # s
  /\ at \in {"constructs", "built"} => built[s] = "raw" /\ ~instance[s]
  /\ at = "publishes" => built[s] = "built" /\ ~instance[s]
  /\ at \in InOnce \ {"registers"} /\ exit.at = "no" => OnStack(s)

\* One call at a time is inside the Once of a singleton.
CallsHold ==
  /\ \A t \in Threads : \A i \in DOMAIN calls[t], s \in Singles, at \in InOnce :
       calls[t][i].s = s /\ calls[t][i].at = at => once[s] = t /\ CallHolds(s, at)
  /\ \A t \in Threads : \A i, j \in DOMAIN calls[t] :
       calls[t][i].at \in InOnce /\ calls[t][j].at \in InOnce /\ calls[t][i].s = calls[t][j].s => i = j

\* A singleton as the process that ends finds it.
SingletonHolds(s) ==
  /\ once[s] = "new" => built[s] = "none" /\ ~instance[s] /\ ~OnStack(s) /\ exit.s # s
  /\ instance[s] => built[s] = "built" \/ exit = [at |-> "clears", s |-> s]
  /\ built[s] = "freed" => ~OnStack(s) /\ ~(exit.at = "calls" /\ exit.s = s)
  /\ exit.at = "no" /\ instance[s] => OnStack(s)

ExitHolds ==
  /\ exit.at \in {"calls", "clears"} <=> exit.s # NULL
  /\ exit.s # NULL => ~OnStack(exit.s)
  /\ exit.at = "clears" => instance[exit.s]

SingletonInv == SingletonTypes /\ CallsHold /\ (\A s \in Singles : SingletonHolds(s)) /\ ExitHolds

\* The innermost call of a thread goes on.
LEMMA HeadReplaced ==
  ASSUME NEW F, NEW s \in Seq(F), s # <<>>, NEW f \in F
  PROVE  LET n == <<f>> \o Tail(s)
         IN  n \in Seq(F) /\ Len(n) = Len(s) /\ n[1] = f /\ Len(s) >= 1 /\ \A i \in 2 .. Len(s) : n[i] = s[i]
<1> DEFINE n == <<f>> \o Tail(s)
<1>1. Len(s) \in Nat /\ Len(s) >= 1 /\ Tail(s) \in Seq(F) /\ Len(Tail(s)) = Len(s) - 1
  OBVIOUS
<1>2. \A i \in 1 .. Len(s) - 1 : Tail(s)[i] = s[i + 1]
  OBVIOUS
<1>3. n \in Seq(F) /\ Len(n) = Len(s) /\ n[1] = f
  BY <1>1
<1>4. ASSUME NEW i \in 2 .. Len(s)
      PROVE  n[i] = s[i]
  <2>1. i - 1 \in 1 .. Len(s) - 1 /\ (i - 1) + 1 = i
    BY <1>1
  <2>2. n[i] = Tail(s)[i - 1]
    BY <1>1, <2>1
  <2>3. Tail(s)[i - 1] = s[(i - 1) + 1]
    BY <1>2, <2>1
  <2>. QED
    BY <2>1, <2>2, <2>3
<1>. QED
  BY <1>1, <1>3, <1>4

\* What a call inside Once relies on, in a step that leaves it alone.
Alone(s) ==
  /\ ~instance[s] => built'[s] = built[s] /\ ~instance'[s]
  /\ ~OnStack(s) /\ exit.s # s => ~OnStack(s)' /\ exit'.s # s
  /\ exit'.at = "no" => exit.at = "no"
  /\ exit'.at = "no" /\ OnStack(s) => OnStack(s)'

LEMMA CallLeftAlone ==
  ASSUME NEW s, NEW at, CallHolds(s, at), Alone(s)
  PROVE  CallHolds(s, at)'
BY Zenon DEF CallHolds, Alone

LEMMA CallsHoldThen ==
  ASSUME \A t \in Threads : \A i \in DOMAIN calls'[t], s \in Singles, at \in InOnce :
           calls'[t][i].s = s /\ calls'[t][i].at = at => once'[s] = t /\ CallHolds(s, at)',
         \A t \in Threads : \A i, j \in DOMAIN calls'[t] :
           calls'[t][i].at \in InOnce /\ calls'[t][j].at \in InOnce /\ calls'[t][i].s = calls'[t][j].s => i = j
  PROVE  CallsHold'
BY DEF CallsHold

\* A thread inside Once goes on, or goes in, and all others are left alone.
LEMMA MoveKeepsCalls ==
  ASSUME SingletonAssumption, SingletonTypes, CallsHold,
         NEW t \in Threads, calls[t] # <<>>, NEW r \in Singles, NEW next \in InOnce \cup {"once"}, r = Head(calls[t]).s,
         calls' = [calls EXCEPT ![t] = <<[s |-> r, at |-> next]>> \o Tail(@)],
         Head(calls[t]).at \in InOnce \/ once[r] = "new",
         next \in InOnce => once'[r] = t /\ CallHolds(r, next)',
         \A s \in Singles \ {r} : once'[s] = once[s] /\ Alone(s)
  PROVE  calls' \in [Threads -> Seq(CallFrames)] /\ CallsHold'
<1> DEFINE f == [s |-> r, at |-> next]
<1>0. f \in CallFrames /\ f.s = r /\ f.at = next
  BY DEF CallFrames
<1>. HIDE DEF f
<1>1. /\ calls[t] \in Seq(CallFrames) /\ calls \in [Threads -> Seq(CallFrames)] /\ DOMAIN calls[t] = 1 .. Len(calls[t])
      /\ Len(calls[t]) \in Nat
  BY DEF SingletonTypes
<1>2. /\ calls'[t] \in Seq(CallFrames) /\ Len(calls'[t]) = Len(calls[t]) /\ calls'[t][1] = f /\ Len(calls[t]) >= 1
      /\ \A i \in 2 .. Len(calls[t]) : calls'[t][i] = calls[t][i]
  <2>1. calls'[t] = <<f>> \o Tail(calls[t])
    BY <1>1 DEF f
  <2>. QED
    BY <1>0, <1>1, <2>1, HeadReplaced
<1>3. calls' \in [Threads -> Seq(CallFrames)] /\ \A u \in Threads \ {t} : calls'[u] = calls[u]
  BY <1>1, <1>2
<1>4. Head(calls[t]) = calls[t][1] /\ 1 \in DOMAIN calls[t] 
  BY <1>1, <1>2
\* The other calls that are inside Once are for other singletons.
<1>5. ASSUME NEW u \in Threads, NEW i \in DOMAIN calls[u], u # t \/ i # 1,
             calls[u][i].at \in InOnce, calls[u][i].s = r
      PROVE  FALSE
  <2>1. once[r] = u
    BY <1>4, <1>5, Zenon DEF CallsHold
  <2>2. u # "new"
    BY DEF SingletonAssumption
  <2>3. Head(calls[t]).at \in InOnce
    BY <2>1, <2>2
  <2>4. once[r] = t
    <3>1. calls[t][1].s = r /\ calls[t][1].at \in InOnce
      BY <1>4, <2>3
    <3>. QED
      BY <1>4, <3>1 DEF CallsHold
  <2>5. u = t
    BY <2>1, <2>4
  <2>6. i = 1
    BY <1>4, <1>5, <2>3, <2>5, Zenon DEF CallsHold
  <2>. QED
    BY <1>5, <2>5, <2>6
<1>6. ASSUME NEW u \in Threads, NEW i \in DOMAIN calls'[u], u # t \/ i # 1
      PROVE  i \in DOMAIN calls[u] /\ calls'[u][i] = calls[u][i]
  <2>1. CASE u = t
    <3>1. i \in 1 .. Len(calls[t]) /\ i # 1
      BY <1>2, <1>6, <2>1
    <3>2. i \in 2 .. Len(calls[t])
      BY <1>1, <3>1
    <3>. QED
      BY <1>1, <1>2, <2>1, <3>1, <3>2
  <2>. QED
    BY <1>3, <2>1
<1>7. \A u \in Threads : \A i \in DOMAIN calls'[u], s \in Singles, at \in InOnce :
        calls'[u][i].s = s /\ calls'[u][i].at = at => once'[s] = u /\ CallHolds(s, at)'
  <2> SUFFICES ASSUME NEW u \in Threads, NEW i \in DOMAIN calls'[u], NEW s \in Singles, NEW at \in InOnce,
                      calls'[u][i].s = s, calls'[u][i].at = at
               PROVE  once'[s] = u /\ CallHolds(s, at)'
    OBVIOUS
  <2>1. CASE u = t /\ i = 1
    <3>1. s = r /\ at = next
      BY <1>0, <1>2, <2>1
    <3>. QED
      BY <2>1, <3>1
  <2>2. CASE u # t \/ i # 1
    <3>1. i \in DOMAIN calls[u] /\ calls[u][i].s = s /\ calls[u][i].at = at
      BY <1>6, <2>2
    <3>2. once[s] = u /\ CallHolds(s, at)
      BY <3>1, Zenon DEF CallsHold
    <3>3. s # r
      BY <1>5, <2>2, <3>1
    <3>4. once'[s] = once[s] /\ Alone(s)
      BY <3>3
    <3>. QED
      BY <3>2, <3>4, CallLeftAlone
  <2>. QED
    BY <2>1, <2>2
<1>8. ASSUME NEW u \in Threads, NEW i \in DOMAIN calls'[u], NEW j \in DOMAIN calls'[u],
             calls'[u][i].at \in InOnce, calls'[u][j].at \in InOnce, calls'[u][i].s = calls'[u][j].s
      PROVE  i = j
  <2>1. CASE u # t \/ (i # 1 /\ j # 1)
    <3>1. i \in DOMAIN calls[u] /\ calls'[u][i] = calls[u][i] /\ j \in DOMAIN calls[u] /\ calls'[u][j] = calls[u][j]
      BY <1>6, <2>1
    <3>. QED
      BY <1>8, <3>1, Zenon DEF CallsHold
  <2>2. CASE u = t /\ i = 1 /\ j # 1
    <3>1. j \in DOMAIN calls[u] /\ calls'[u][j] = calls[u][j] /\ calls'[u][i] = f
      BY <1>2, <1>6, <2>2
    <3>. QED
      BY <1>0, <1>5, <1>8, <2>2, <3>1
  <2>3. CASE u = t /\ i # 1 /\ j = 1
    <3>1. i \in DOMAIN calls[u] /\ calls'[u][i] = calls[u][i] /\ calls'[u][j] = f
      BY <1>2, <1>6, <2>3
    <3>. QED
      BY <1>0, <1>5, <1>8, <2>3, <3>1
  <2>. QED
    BY <2>1, <2>2, <2>3
<1>9. \A u \in Threads : \A i, j \in DOMAIN calls'[u] :
        calls'[u][i].at \in InOnce /\ calls'[u][j].at \in InOnce /\ calls'[u][i].s = calls'[u][j].s => i = j
  BY <1>8, Zenon
<1>10. CallsHold'
  BY <1>7, <1>9, CallsHoldThen, Zenon
<1>. QED
  BY <1>3, <1>10

\* A step of the process that ends, or none.
LEMMA ExitKeepsCalls ==
  ASSUME SingletonTypes, CallsHold, calls' = calls, once' = once, \A s \in Singles : Alone(s)
  PROVE  CallsHold'
<1>1. ASSUME NEW t \in Threads, NEW i \in DOMAIN calls'[t], NEW s \in Singles, NEW at \in InOnce,
             calls'[t][i].s = s, calls'[t][i].at = at
      PROVE  once'[s] = t /\ CallHolds(s, at)'
  <2>1. i \in DOMAIN calls[t] /\ calls[t][i].s = s /\ calls[t][i].at = at
    BY <1>1
  <2>2. once[s] = t /\ CallHolds(s, at)
    BY <2>1, Zenon DEF CallsHold
  <2>. QED
    BY <2>2, CallLeftAlone
<1>2. \A t \in Threads : \A i, j \in DOMAIN calls'[t] :
        calls'[t][i].at \in InOnce /\ calls'[t][j].at \in InOnce /\ calls'[t][i].s = calls'[t][j].s => i = j
  <2>1. \A t \in Threads : \A i, j \in DOMAIN calls[t] :
          calls[t][i].at \in InOnce /\ calls[t][j].at \in InOnce /\ calls[t][i].s = calls[t][j].s => i = j
    BY DEF CallsHold
  <2>. QED
    BY <2>1
<1>. QED
  BY <1>1, <1>2, CallsHoldThen

\* What no step but one of its own changes.
Unmoved(s) ==
  /\ once'[s] = once[s] /\ built'[s] = built[s] /\ instance'[s] = instance[s] /\ exit' = exit
  /\ OnStack(s) => OnStack(s)'
  /\ OnStack(s)' => OnStack(s)

LEMMA UnmovedIsAlone ==
  ASSUME NEW s, Unmoved(s)
  PROVE  Alone(s) /\ (SingletonHolds(s) => SingletonHolds(s)')
BY DEF Unmoved, Alone, SingletonHolds

LEMMA PushedOn ==
  ASSUME stack \in Seq(Singles), NoneTwice(stack), NEW r \in Singles, ~OnStack(r), stack' = Append(stack, r)
  PROVE  /\ stack' \in Seq(Singles) /\ NoneTwice(stack')
         /\ \A s : OnStack(s)' <=> OnStack(s) \/ s = r
<1>1. /\ stack' \in Seq(Singles) /\ Len(stack) \in Nat /\ DOMAIN stack = 1 .. Len(stack) /\ DOMAIN stack' = 1 .. Len(stack) + 1
      /\ stack'[Len(stack) + 1] = r /\ \A i \in 1 .. Len(stack) : stack'[i] = stack[i]
  OBVIOUS
<1>2. \A i \in DOMAIN stack' : i \in DOMAIN stack \/ i = Len(stack) + 1
  BY <1>1
<1>3. \A i \in DOMAIN stack : i \in DOMAIN stack' /\ stack'[i] = stack[i] /\ stack[i] # r
  BY <1>1 DEF OnStack
<1>4. NoneTwice(stack')
  BY <1>1, <1>2, <1>3 DEF NoneTwice
<1>5. ASSUME NEW s
      PROVE  OnStack(s)' <=> OnStack(s) \/ s = r
  <2>1. Len(stack) + 1 \in DOMAIN stack'
    BY <1>1
  <2>. QED
    BY <1>1, <1>2, <1>3, <2>1 DEF OnStack
<1>. QED
  BY <1>1, <1>4, <1>5

LEMMA PoppedOff ==
  ASSUME stack \in Seq(Singles), NoneTwice(stack), stack # <<>>, NEW r, r = SN!Last(stack), stack' = SN!Front(stack)
  PROVE  /\ stack' \in Seq(Singles) /\ NoneTwice(stack') /\ r \in Singles
         /\ OnStack(r) /\ ~OnStack(r)'
         /\ \A s : OnStack(s)' => OnStack(s)
<1>1. /\ stack' \in Seq(Singles) /\ Len(stack) \in Nat /\ Len(stack) >= 1 /\ DOMAIN stack = 1 .. Len(stack)
      /\ DOMAIN stack' = 1 .. Len(stack) - 1 /\ stack[Len(stack)] = r /\ \A i \in 1 .. Len(stack) - 1 : stack'[i] = stack[i]
  <2>1. Len(stack) \in Nat /\ Len(stack) >= 1 /\ DOMAIN stack = 1 .. Len(stack) /\ stack' = SubSeq(stack, 1, Len(stack) - 1)
    BY DEF SN!Front
  <2>2. stack[Len(stack)] = r
    BY DEF SN!Last
  <2>. QED
    BY <2>1, <2>2
<1>2. \A i \in DOMAIN stack' : i \in DOMAIN stack /\ stack'[i] = stack[i] /\ i # Len(stack)
  BY <1>1
<1>3. Len(stack) \in DOMAIN stack
  BY <1>1
<1>4. NoneTwice(stack')
  BY <1>2 DEF NoneTwice
<1>5. r \in Singles
  BY <1>1, <1>3
<1>6. OnStack(r) /\ ~OnStack(r)'
  BY <1>1, <1>2, <1>3 DEF OnStack, NoneTwice
<1>7. \A s : OnStack(s)' => OnStack(s)
  BY <1>2 DEF OnStack
<1>. QED
  BY <1>1, <1>4, <1>5, <1>6, <1>7

\* The steps that a thread takes inside instance_ptr(), one call further each.
LEMMA MoveKeepsSingletons ==
  ASSUME SingletonAssumption, SingletonInv,
         NEW t \in Threads, calls[t] # <<>>, NEW r \in Singles, r = SN!This(t), NEW next \in InOnce \cup {"once"},
         SN!Goes(t, next), exit' = exit,
         once' \in [Singles -> Threads \cup {"new", "done"}], built' \in [Singles -> {"none", "raw", "built", "freed"}],
         instance' \in [Singles -> BOOLEAN], stack' \in Seq(Singles), NoneTwice(stack'),
         Head(calls[t]).at \in InOnce \/ once[r] = "new",
         next \in InOnce => once'[r] = t /\ CallHolds(r, next)',
         \A s \in Singles \ {r} : Unmoved(s),
         SingletonHolds(r)', exit.s = r => ~OnStack(r)' /\ (exit.at = "clears" => instance'[r])
  PROVE  SingletonInv'
<1>1. calls' = [calls EXCEPT ![t] = <<[s |-> r, at |-> next]>> \o Tail(@)]
  BY DEF SN!Goes, SN!Call, SN!This
<1>2. calls' \in [Threads -> Seq(CallFrames)] /\ CallsHold'
  <2>1. \A s \in Singles \ {r} : once'[s] = once[s] /\ Alone(s)
    BY UnmovedIsAlone DEF Unmoved
  <2>2. SingletonTypes /\ CallsHold /\ r = Head(calls[t]).s
    BY DEF SingletonInv, SN!This
  <2>. QED
    BY <1>1, <2>1, <2>2, MoveKeepsCalls
<1>3. \A s \in Singles : SingletonHolds(s)'
  <2>1. \A s \in Singles : SingletonHolds(s)
    BY DEF SingletonInv
  <2>. QED
    BY <2>1, UnmovedIsAlone
<1>4. ExitHolds'
  <2>1. ExitHolds /\ exit.s \in Singles \cup {NULL}
    BY DEF SingletonInv, SingletonTypes
  <2>2. \A s \in Singles : exit.s = s => ~OnStack(s)' /\ (exit.at = "clears" => instance'[s])
    <3>1. TAKE s \in Singles
    <3>2. CASE s = r
      BY <3>2
    <3>3. CASE s # r
      <4>1. Unmoved(s) /\ s # NULL
        BY <3>3 DEF SingletonAssumption, Singles
      <4>2. exit.s = s => ~OnStack(s) /\ (exit.at = "clears" => instance[s])
        BY <2>1, <4>1 DEF ExitHolds
      <4>. QED
        BY <4>1, <4>2 DEF Unmoved
    <3>. QED
      BY <3>2, <3>3
  <2>. QED
    BY <2>1, <2>2 DEF ExitHolds
<1>. QED
  BY <1>2, <1>3, <1>4 DEF SingletonInv, SingletonTypes

\* The steps that only change which calls a thread is in: those inside Once
\* stay, shift places further out.
LEMMA CallsMove ==
  ASSUME SingletonInv, UNCHANGED <<once, built, instance, stack, exit>>,
         NEW t \in Threads, NEW new \in Seq(CallFrames), calls' = [calls EXCEPT ![t] = new], NEW shift \in Int,
         \A i \in DOMAIN new : new[i].at \in InOnce =>
           /\ i + shift \in DOMAIN calls[t] /\ new[i].s = calls[t][i + shift].s
           /\ new[i].at = calls[t][i + shift].at \/ (new[i].at = "built" /\ calls[t][i + shift].at = "constructs")
  PROVE  SingletonInv'
<1>1. /\ calls \in [Threads -> Seq(CallFrames)] /\ CallsHold /\ SingletonTypes /\ ExitHolds
      /\ \A s \in Singles : SingletonHolds(s)
  BY DEF SingletonInv, SingletonTypes
<1>2. calls' \in [Threads -> Seq(CallFrames)] /\ calls'[t] = new /\ \A u \in Threads \ {t} : calls'[u] = calls[u]
  BY <1>1
<1>3. /\ DOMAIN new \subseteq Int /\ "constructs" \in InOnce
  BY DEF InOnce
<1>4. ASSUME NEW s, NEW at, CallHolds(s, at)
      PROVE  CallHolds(s, at)' /\ (at = "constructs" => CallHolds(s, "built")')
  <2>1. Alone(s)
    BY DEF Alone, OnStack
  <2>2. at = "constructs" => CallHolds(s, "built")
    BY <1>4 DEF CallHolds, InOnce
  <2>. QED
    BY <1>4, <2>1, <2>2, CallLeftAlone
<1>5. \A u \in Threads : \A i \in DOMAIN calls'[u], s \in Singles, at \in InOnce :
        calls'[u][i].s = s /\ calls'[u][i].at = at => once'[s] = u /\ CallHolds(s, at)'
  <2> SUFFICES ASSUME NEW u \in Threads, NEW i \in DOMAIN calls'[u], NEW s \in Singles, NEW at \in InOnce,
                      calls'[u][i].s = s, calls'[u][i].at = at
               PROVE  once'[s] = u /\ CallHolds(s, at)'
    OBVIOUS
  <2>1. CASE u = t
    <3>1. i \in DOMAIN new /\ new[i].at = at /\ new[i].s = s
      BY <1>2, <2>1
    <3>2. /\ i + shift \in DOMAIN calls[t] /\ s = calls[t][i + shift].s
          /\ at = calls[t][i + shift].at \/ (at = "built" /\ calls[t][i + shift].at = "constructs")
      BY <3>1
    <3>3. PICK k \in DOMAIN calls[t] : k = i + shift
      BY <3>2
    <3>4. CASE at = calls[t][k].at
      <4>1. once[s] = t /\ CallHolds(s, at)
        BY <1>1, <3>2, <3>3, <3>4 DEF CallsHold
      <4>. QED
        BY <1>4, <2>1, <4>1
    <3>5. CASE at = "built" /\ calls[t][k].at = "constructs"
      <4>1. once[s] = t /\ CallHolds(s, "constructs")
        BY <1>1, <1>3, <3>2, <3>3, <3>5 DEF CallsHold
      <4>. QED
        BY <1>4, <2>1, <3>5, <4>1
    <3>. QED
      BY <3>2, <3>3, <3>4, <3>5
  <2>2. CASE u # t
    <3>1. i \in DOMAIN calls[u] /\ calls[u][i].s = s /\ calls[u][i].at = at
      BY <1>2, <2>2
    <3>2. once[s] = u /\ CallHolds(s, at)
      BY <1>1, <3>1 DEF CallsHold
    <3>. QED
      BY <1>4, <3>2
  <2>. QED
    BY <2>1, <2>2
<1>6. \A u \in Threads : \A i, j \in DOMAIN calls'[u] :
        calls'[u][i].at \in InOnce /\ calls'[u][j].at \in InOnce /\ calls'[u][i].s = calls'[u][j].s => i = j
  <2> SUFFICES ASSUME NEW u \in Threads, NEW i \in DOMAIN calls'[u], NEW j \in DOMAIN calls'[u],
                      calls'[u][i].at \in InOnce, calls'[u][j].at \in InOnce, calls'[u][i].s = calls'[u][j].s
               PROVE  i = j
    OBVIOUS
  <2>1. CASE u = t
    <3>1. i \in DOMAIN new /\ j \in DOMAIN new /\ new[i].at \in InOnce /\ new[j].at \in InOnce /\ new[i].s = new[j].s
      BY <1>2, <2>1
    <3>2. PICK k \in DOMAIN calls[t] : k = i + shift /\ calls[t][k].at \in InOnce /\ calls[t][k].s = new[i].s
      BY <1>3, <3>1
    <3>3. PICK m \in DOMAIN calls[t] : m = j + shift /\ calls[t][m].at \in InOnce /\ calls[t][m].s = new[j].s
      BY <1>3, <3>1
    <3>4. k = m
      BY <1>1, <3>1, <3>2, <3>3 DEF CallsHold
    <3>5. i \in Int /\ j \in Int
      BY <1>3, <3>1
    <3>. QED
      BY <3>2, <3>3, <3>4, <3>5
  <2>2. CASE u # t
    BY <1>1, <1>2, <2>2 DEF CallsHold
  <2>. QED
    BY <2>1, <2>2
<1>7. CallsHold'
  BY <1>5, <1>6, CallsHoldThen
<1>8. \A s \in Singles : SingletonHolds(s)'
  <2>1. \A s \in Singles : Unmoved(s)
    BY DEF Unmoved, OnStack
  <2>. QED
    BY <1>1, <2>1, UnmovedIsAlone
<1>9. ExitHolds'
  BY <1>1 DEF ExitHolds, OnStack
<1>10. SingletonTypes'
  BY <1>1, <1>2 DEF SingletonTypes
<1>. QED
  BY <1>7, <1>8, <1>9, <1>10 DEF SingletonInv

\* A thread's innermost call.
LEMMA HeadHolds ==
  ASSUME SingletonInv, NEW t \in Threads, calls[t] # <<>>, NEW r, r = SN!This(t), NEW at, at = Head(calls[t]).at
  PROVE  /\ r \in Singles /\ at \in InOnce \cup {"once"} /\ SingletonHolds(r)
         /\ at \in InOnce => once[r] = t /\ CallHolds(r, at)
         /\ 1 \in DOMAIN calls[t] /\ calls[t][1].s = r /\ calls[t][1].at = at
<1>1. calls[t] \in Seq(CallFrames) /\ CallsHold /\ \A s \in Singles : SingletonHolds(s)
  BY DEF SingletonInv, SingletonTypes
<1>2. Head(calls[t]) = calls[t][1] /\ 1 \in DOMAIN calls[t] /\ calls[t][1] \in CallFrames
  BY <1>1
<1>3. calls[t][1].s = r /\ calls[t][1].at = at /\ r \in Singles /\ at \in InOnce \cup {"once"}
  BY <1>2 DEF CallFrames, SN!This
<1>. QED
  BY <1>1, <1>2, <1>3 DEF CallsHold

\* What an invariant says of the variables that the steps below change.
LEMMA SingletonParts ==
  ASSUME SingletonInv
  PROVE  /\ once \in [Singles -> Threads \cup {"new", "done"}] /\ built \in [Singles -> {"none", "raw", "built", "freed"}]
         /\ instance \in [Singles -> BOOLEAN] /\ stack \in Seq(Singles) /\ NoneTwice(stack)
         /\ calls \in [Threads -> Seq(CallFrames)]
         /\ exit \in [at : {"no", "loops", "calls", "clears", "over"}, s : Singles \cup {NULL}]
         /\ CallsHold /\ ExitHolds /\ SingletonTypes
BY DEF SingletonInv, SingletonTypes

LEMMA EntersOnceKeeps ==
  ASSUME SingletonAssumption, SingletonInv, NEW t \in Threads, SN!EntersOnce(t)
  PROVE  SingletonInv'
<1> PICK r : r = SN!This(t)
  OBVIOUS
<1>1. /\ calls[t] # <<>> /\ Head(calls[t]).at = "once" /\ once[r] = "new" /\ SN!Goes(t, "registers")
      /\ once' = [once EXCEPT ![r] = t] /\ built' = [built EXCEPT ![r] = "raw"] /\ UNCHANGED <<instance, stack, exit>>
  BY DEF SN!EntersOnce, SN!Top
<1>2. r \in Singles /\ SingletonHolds(r)
  BY <1>1, HeadHolds
<1>3. built[r] = "none" /\ ~instance[r] /\ ~OnStack(r) /\ exit.s # r
  BY <1>1, <1>2 DEF SingletonHolds
<1>4. t # "new" /\ "registers" \in InOnce
  BY DEF SingletonAssumption, InOnce
<1>5. once'[r] = t /\ built'[r] = "raw" /\ ~instance'[r] /\ ~OnStack(r)' /\ exit'.s # r
  BY <1>1, <1>2, <1>3, SingletonParts DEF OnStack
<1>6. CallHolds(r, "registers")' /\ SingletonHolds(r)'
  BY <1>4, <1>5 DEF CallHolds, SingletonHolds
<1>7. \A s \in Singles \ {r} : Unmoved(s)
  BY <1>1, SingletonParts DEF Unmoved, OnStack
<1>. QED
  BY <1>1, <1>2, <1>3, <1>4, <1>5, <1>6, <1>7, SingletonParts, MoveKeepsSingletons

LEMMA AddDestructorKeeps ==
  ASSUME SingletonAssumption, SingletonInv, NEW t \in Threads, SN!AddDestructor(t)
  PROVE  SingletonInv'
<1> PICK r : r = SN!This(t)
  OBVIOUS
<1>1. /\ calls[t] # <<>> /\ Head(calls[t]).at = "registers" /\ SN!Goes(t, "constructs")
      /\ stack' = Append(stack, r) /\ UNCHANGED <<once, built, instance, exit>>
  BY DEF SN!AddDestructor, SN!Top
<1>2. "registers" \in InOnce /\ "constructs" \in InOnce /\ t # "new"
  BY DEF InOnce, SingletonAssumption
<1>3. r \in Singles /\ SingletonHolds(r) /\ once[r] = t /\ CallHolds(r, "registers")
  BY <1>1, <1>2, HeadHolds
<1>4. built[r] = "raw" /\ ~instance[r] /\ ~OnStack(r) /\ exit.s # r
  BY <1>3 DEF CallHolds
<1>5. stack' \in Seq(Singles) /\ NoneTwice(stack') /\ \A s : OnStack(s)' <=> OnStack(s) \/ s = r
  BY <1>1, <1>3, <1>4, SingletonParts, PushedOn
<1>6. once'[r] = t /\ built'[r] = "raw" /\ ~instance'[r] /\ OnStack(r)' /\ exit'.s # r
  BY <1>1, <1>3, <1>4, <1>5
<1>7. CallHolds(r, "constructs")' /\ SingletonHolds(r)'
  BY <1>2, <1>6 DEF CallHolds, SingletonHolds
<1>8. \A s \in Singles \ {r} : Unmoved(s)
  BY <1>1, <1>5 DEF Unmoved
<1>. QED
  BY <1>1, <1>2, <1>3, <1>4, <1>5, <1>6, <1>7, <1>8, SingletonParts, MoveKeepsSingletons

LEMMA ConstructsKeeps ==
  ASSUME SingletonAssumption, SingletonInv, NEW t \in Threads, SN!Constructs(t)
  PROVE  SingletonInv'
<1> PICK r : r = SN!This(t)
  OBVIOUS
<1>1. /\ calls[t] # <<>> /\ Head(calls[t]).at \in {"constructs", "built"} /\ SN!Goes(t, "publishes")
      /\ built' = [built EXCEPT ![r] = "built"] /\ UNCHANGED <<once, instance, stack, exit>>
  BY DEF SN!Constructs, SN!Top
<1>2. "built" \in InOnce /\ "constructs" \in InOnce /\ "publishes" \in InOnce /\ t # "new" /\ {"constructs", "built"} \subseteq InOnce \ {"registers"}
  BY DEF InOnce, SingletonAssumption
<1>3. PICK at : at = Head(calls[t]).at
  OBVIOUS
<1>4. r \in Singles /\ SingletonHolds(r) /\ once[r] = t /\ CallHolds(r, at) /\ at \in {"constructs", "built"}
  BY <1>1, <1>2, <1>3, HeadHolds
<1>5. built[r] = "raw" /\ ~instance[r] /\ (exit.at = "no" => OnStack(r))
  BY <1>2, <1>4 DEF CallHolds
<1>6. once'[r] = t /\ built'[r] = "built" /\ ~instance'[r] /\ (exit'.at = "no" => OnStack(r)')
  BY <1>1, <1>4, <1>5, SingletonParts DEF OnStack
<1>7. CallHolds(r, "publishes")' /\ SingletonHolds(r)'
  BY <1>2, <1>6 DEF CallHolds, SingletonHolds
<1>8. \A s \in Singles \ {r} : Unmoved(s)
  BY <1>1, SingletonParts DEF Unmoved, OnStack
<1>9. exit.s = r => ~OnStack(r)' /\ (exit.at = "clears" => instance'[r])
  BY <1>1, <1>4, SingletonParts DEF ExitHolds, OnStack, SingletonAssumption, Singles
<1>. QED
  BY <1>1, <1>2, <1>4, <1>6, <1>7, <1>8, <1>9, SingletonParts, MoveKeepsSingletons

LEMMA PublishesKeeps ==
  ASSUME SingletonAssumption, SingletonInv, NEW t \in Threads, SN!Publishes(t)
  PROVE  SingletonInv'
<1> PICK r : r = SN!This(t)
  OBVIOUS
<1>1. /\ calls[t] # <<>> /\ Head(calls[t]).at = "publishes" /\ SN!Goes(t, "leaves")
      /\ instance' = [instance EXCEPT ![r] = TRUE] /\ UNCHANGED <<once, built, stack, exit>>
  BY DEF SN!Publishes, SN!Top
<1>2. "publishes" \in InOnce \ {"registers"} /\ "leaves" \in InOnce /\ t # "new"
  BY DEF InOnce, SingletonAssumption
<1>3. r \in Singles /\ SingletonHolds(r) /\ once[r] = t /\ CallHolds(r, "publishes")
  BY <1>1, <1>2, HeadHolds
<1>4. built[r] = "built" /\ ~instance[r] /\ (exit.at = "no" => OnStack(r))
  BY <1>2, <1>3 DEF CallHolds
<1>5. once'[r] = t /\ built'[r] = "built" /\ instance'[r] /\ (exit'.at = "no" => OnStack(r)')
  BY <1>1, <1>3, <1>4, SingletonParts DEF OnStack
<1>6. CallHolds(r, "leaves")' /\ SingletonHolds(r)'
  BY <1>2, <1>5 DEF CallHolds, SingletonHolds
<1>7. \A s \in Singles \ {r} : Unmoved(s)
  BY <1>1, SingletonParts DEF Unmoved, OnStack
<1>8. exit.s = r => ~OnStack(r)' /\ (exit.at = "clears" => instance'[r])
  BY <1>1, <1>3, <1>5, SingletonParts DEF ExitHolds, OnStack, SingletonAssumption, Singles
<1>9. instance' \in [Singles -> BOOLEAN]
  BY <1>1, SingletonParts
<1>. QED
  BY <1>1, <1>2, <1>3, <1>5, <1>6, <1>7, <1>8, <1>9, SingletonParts, MoveKeepsSingletons

LEMMA LeavesOnceKeeps ==
  ASSUME SingletonAssumption, SingletonInv, NEW t \in Threads, SN!LeavesOnce(t)
  PROVE  SingletonInv'
<1> PICK r : r = SN!This(t)
  OBVIOUS
<1>1. /\ calls[t] # <<>> /\ Head(calls[t]).at = "leaves" /\ SN!Goes(t, "once")
      /\ once' = [once EXCEPT ![r] = "done"] /\ UNCHANGED <<built, instance, stack, exit>>
  BY DEF SN!LeavesOnce, SN!Top
<1>2. "leaves" \in InOnce /\ "once" \notin InOnce
  BY DEF InOnce
<1>3. r \in Singles /\ SingletonHolds(r)
  BY <1>1, <1>2, HeadHolds
<1>4. once'[r] = "done"
  BY <1>1, <1>3, SingletonParts
<1>5. SingletonHolds(r)'
  BY <1>1, <1>3, <1>4 DEF SingletonHolds, OnStack
<1>6. \A s \in Singles \ {r} : Unmoved(s)
  BY <1>1, SingletonParts DEF Unmoved, OnStack
<1>7. exit.s = r => ~OnStack(r)' /\ (exit.at = "clears" => instance'[r])
  BY <1>1, <1>3, SingletonParts DEF ExitHolds, OnStack, SingletonAssumption, Singles
<1>8. once' \in [Singles -> Threads \cup {"new", "done"}]
  BY <1>1, SingletonParts
<1>. QED
  BY <1>1, <1>2, <1>3, <1>5, <1>6, <1>7, <1>8, SingletonParts, MoveKeepsSingletons

LEMMA CallingKeeps ==
  ASSUME SingletonInv, NEW t \in Threads,
         (\E s \in Singles : SN!InstancePtr(t, s)) \/ SN!Nests(t) \/ SN!Returns(t)
  PROVE  SingletonInv'
<1>1. calls \in [Threads -> Seq(CallFrames)] /\ calls[t] \in Seq(CallFrames)
  BY SingletonParts
<1>2. ASSUME NEW s \in Singles, SN!InstancePtr(t, s)
      PROVE  SingletonInv'
  <2> DEFINE new == <<[s |-> s, at |-> "once"]>>
  <2>1. calls' = [calls EXCEPT ![t] = new] /\ UNCHANGED <<once, built, instance, stack, exit>>
    BY <1>2 DEF SN!InstancePtr, SN!Call
  <2>2. new \in Seq(CallFrames) /\ DOMAIN new = 1 .. 1 /\ new[1].at = "once" /\ "once" \notin InOnce
    BY DEF CallFrames, InOnce
  <2>. HIDE DEF new
  <2>3. /\ 0 \in Int
        /\ \A i \in DOMAIN new : new[i].at \in InOnce =>
             /\ i + 0 \in DOMAIN calls[t] /\ new[i].s = calls[t][i + 0].s
             /\ new[i].at = calls[t][i + 0].at \/ (new[i].at = "built" /\ calls[t][i + 0].at = "constructs")
    BY <2>2
  <2>. QED
    BY <2>1, <2>2, <2>3, CallsMove
<1>3. ASSUME SN!Nests(t)
      PROVE  SingletonInv'
  <2> DEFINE s == SN!This(t)
             u == Uses[s]
             g == [s |-> s, at |-> "built"]
             new == <<[s |-> u, at |-> "once"]>> \o <<g>> \o Tail(calls[t])
  <2>1. /\ calls[t] # <<>> /\ Head(calls[t]).at = "constructs" /\ u # NULL
        /\ calls' = [calls EXCEPT ![t] = new] /\ UNCHANGED <<once, built, instance, stack, exit>>
    BY <1>3 DEF SN!Nests, SN!Top, SN!Call
  <2>2. s \in Singles /\ calls[t][1].s = s /\ calls[t][1].at = "constructs" /\ 1 \in DOMAIN calls[t]
    BY <2>1, HeadHolds
  <2>3. u \in Singles
    BY <2>1, <2>2 DEF Uses, Singles
  <2>4. g \in CallFrames /\ [s |-> u, at |-> "once"] \in CallFrames /\ g.s = s /\ g.at = "built" /\ "once" \notin InOnce
    BY <2>2, <2>3 DEF CallFrames, InOnce
  <2> DEFINE f == [s |-> u, at |-> "once"]
             rest == <<g>> \o Tail(calls[t])
  <2>5. f \in CallFrames /\ f.at = "once"
    BY <2>4
  <2>6. new = <<f>> \o rest
    BY <1>1, <2>1, <2>4
  <2>. HIDE DEF u, s, g, new, f
  <2>7. /\ rest \in Seq(CallFrames) /\ Len(rest) = Len(calls[t]) /\ rest[1] = g /\ Len(calls[t]) >= 1
        /\ \A i \in 2 .. Len(calls[t]) : rest[i] = calls[t][i]
    BY <1>1, <2>1, <2>4, HeadReplaced
  <2>. HIDE DEF rest
  <2>8. /\ new \in Seq(CallFrames) /\ Len(new) = Len(rest) + 1 /\ new[1] = f /\ DOMAIN new = 1 .. Len(rest) + 1
        /\ \A i \in 2 .. Len(rest) + 1 : new[i] = rest[i - 1]
    BY <2>5, <2>6, <2>7
  <2>9. ASSUME NEW i \in DOMAIN new, new[i].at \in InOnce
        PROVE  /\ i + -1 \in DOMAIN calls[t] /\ new[i].s = calls[t][i + -1].s
               /\ new[i].at = calls[t][i + -1].at \/ (new[i].at = "built" /\ calls[t][i + -1].at = "constructs")
    <3>1. i # 1
      BY <2>4, <2>5, <2>8, <2>9
    <3>2. i + -1 = i - 1 /\ i - 1 \in 1 .. Len(calls[t]) /\ new[i] = rest[i - 1]
      BY <1>1, <2>7, <2>8, <3>1
    <3>3. CASE i = 2
      <4>1. new[i] = g /\ i - 1 = 1
        BY <2>7, <3>2, <3>3
      <4>. QED
        BY <1>1, <2>2, <2>4, <3>2, <4>1
    <3>4. CASE i # 2
      <4>1. i - 1 \in 2 .. Len(calls[t])
        <5>1. i \in Nat /\ Len(calls[t]) \in Nat
          BY <1>1, <2>7, <2>8
        <5>. QED
          BY <3>2, <3>4, <5>1
      <4>2. new[i] = calls[t][i - 1]
        BY <2>7, <3>2, <4>1
      <4>. QED
        BY <1>1, <3>2, <4>2
    <3>. QED
      BY <3>3, <3>4
  <2>10. -1 \in Int
    OBVIOUS
  <2>. QED
    BY <2>1, <2>8, <2>9, <2>10, CallsMove
<1>4. ASSUME SN!Returns(t)
      PROVE  SingletonInv'
  <2> DEFINE new == Tail(calls[t])
  <2>1. calls[t] # <<>> /\ calls' = [calls EXCEPT ![t] = new] /\ UNCHANGED <<once, built, instance, stack, exit>>
    BY <1>4 DEF SN!Returns, SN!Top
  <2>2. new \in Seq(CallFrames) /\ Len(new) = Len(calls[t]) - 1 /\ Len(calls[t]) \in Nat /\ DOMAIN new = 1 .. Len(calls[t]) - 1
    BY <1>1, <2>1
  <2>3. \A i \in 1 .. Len(calls[t]) - 1 : new[i] = calls[t][i + 1]
    BY <1>1, <2>1
  <2>. HIDE DEF new
  <2>4. \A i \in DOMAIN new : i + 1 \in DOMAIN calls[t] /\ new[i] = calls[t][i + 1]
    BY <1>1, <2>2, <2>3
  <2>5. /\ 1 \in Int
        /\ \A i \in DOMAIN new : new[i].at \in InOnce =>
             /\ i + 1 \in DOMAIN calls[t] /\ new[i].s = calls[t][i + 1].s
             /\ new[i].at = calls[t][i + 1].at \/ (new[i].at = "built" /\ calls[t][i + 1].at = "constructs")
    BY <2>4
  <2>. QED
    BY <2>1, <2>2, <2>5, CallsMove
<1>. QED
  BY <1>2, <1>3, <1>4

\* The process ends: the steps of ~DLLDestructor().
LEMMA ExitKeepsSingletons ==
  ASSUME SingletonAssumption, SingletonInv, SN!Exits \/ SN!Pops \/ SN!Destroy \/ SN!Clears
  PROVE  SingletonInv'
<1>1. /\ CallsHold /\ ExitHolds /\ SingletonTypes /\ \A s \in Singles : SingletonHolds(s)
      /\ exit \in [at : {"no", "loops", "calls", "clears", "over"}, s : Singles \cup {NULL}]
      /\ stack \in Seq(Singles) /\ NoneTwice(stack)
      /\ built \in [Singles -> {"none", "raw", "built", "freed"}] /\ instance \in [Singles -> BOOLEAN]
  BY SingletonParts DEF SingletonInv
<1>2. \A s \in Singles : s # NULL
  BY DEF SingletonAssumption, Singles
<1>3. ASSUME SN!Exits
      PROVE  SingletonInv'
  <2>1. exit.at = "no" /\ exit'.at = "loops" /\ exit'.s = exit.s /\ exit' = [at |-> "loops", s |-> exit.s] /\ UNCHANGED <<once, built, instance, stack, calls>>
    BY <1>1, <1>3 DEF SN!Exits
  <2>2. exit.s = NULL
    BY <1>1, <2>1 DEF ExitHolds
  <2>3. \A s \in Singles : Alone(s)
    BY <2>1 DEF Alone, OnStack
  <2>4. CallsHold'
    BY <1>1, <2>1, <2>3, ExitKeepsCalls
  <2>5. \A s \in Singles : SingletonHolds(s)'
    BY <1>1, <1>2, <2>1, <2>2 DEF SingletonHolds, OnStack
  <2>6. ExitHolds'
    BY <2>1, <2>2 DEF ExitHolds
  <2>7. SingletonTypes'
    BY <1>1, <2>1 DEF SingletonTypes
  <2>. QED
    BY <2>4, <2>5, <2>6, <2>7 DEF SingletonInv
<1>4. ASSUME SN!Pops, stack = <<>>
      PROVE  SingletonInv'
  <2>1. exit.at = "loops" /\ exit' = [at |-> "over", s |-> NULL] /\ UNCHANGED <<once, built, instance, stack, calls>>
    BY <1>4 DEF SN!Pops
  <2>2. exit.s = NULL
    BY <1>1, <2>1 DEF ExitHolds
  <2>3. \A s \in Singles : Alone(s)
    BY <1>2, <2>1 DEF Alone, OnStack
  <2>4. CallsHold'
    BY <1>1, <2>1, <2>3, ExitKeepsCalls
  <2>5. \A s \in Singles : SingletonHolds(s)'
    BY <1>1, <1>2, <2>1, <2>2 DEF SingletonHolds, OnStack
  <2>6. ExitHolds'
    BY <2>1, <2>2 DEF ExitHolds
  <2>7. SingletonTypes'
    BY <1>1, <2>1 DEF SingletonTypes
  <2>. QED
    BY <2>4, <2>5, <2>6, <2>7 DEF SingletonInv
<1>5. ASSUME SN!Pops, stack # <<>>
      PROVE  SingletonInv'
  <2> PICK r : r = SN!Last(stack)
    OBVIOUS
  <2>1. exit.at = "loops" /\ exit' = [at |-> "calls", s |-> r] /\ stack' = SN!Front(stack) /\ UNCHANGED <<once, built, instance, calls>>
    BY <1>5 DEF SN!Pops
  <2>2. exit.s = NULL
    BY <1>1, <2>1 DEF ExitHolds
  <2>3. /\ stack' \in Seq(Singles) /\ NoneTwice(stack') /\ r \in Singles /\ OnStack(r) /\ ~OnStack(r)'
        /\ \A s : OnStack(s)' => OnStack(s)
    BY <1>1, <1>5, <2>1, PoppedOff
  <2>4. ASSUME NEW s \in Singles
        PROVE  Alone(s)
    <3>1. ~OnStack(s) => s # r
      BY <2>3
    <3>. QED
      BY <2>1, <2>3, <3>1 DEF Alone
  <2>5. CallsHold'
    BY <1>1, <2>1, <2>4, ExitKeepsCalls
  <2>6. ASSUME NEW s \in Singles
        PROVE  SingletonHolds(s)'
    <3>1. ~OnStack(s) => s # r /\ ~OnStack(s)'
      BY <2>3
    <3>2. SingletonHolds(s)
      BY <1>1
    <3>. QED
      BY <2>1, <3>1, <3>2 DEF SingletonHolds
  <2>7. ExitHolds'
    <3>1. ~OnStack(exit.s)'
      BY <2>1, <2>3
    <3>. QED
      BY <1>2, <2>1, <2>3, <3>1 DEF ExitHolds
  <2>8. SingletonTypes'
    BY <1>1, <2>1, <2>3 DEF SingletonTypes
  <2>. QED
    BY <2>5, <2>6, <2>7, <2>8 DEF SingletonInv
<1>6. ASSUME SN!Destroy
      PROVE  SingletonInv'
  <2> PICK r : r = exit.s
    OBVIOUS
  <2>1. exit.at = "calls" /\ UNCHANGED <<once, instance, stack, calls>> /\ r \in Singles /\ ~OnStack(r) /\ exit = [at |-> "calls", s |-> r]
    BY <1>1, <1>6 DEF SN!Destroy, ExitHolds
  <2>2. ASSUME instance[r]
        PROVE  SingletonInv'
    <3>1. built' = [built EXCEPT ![r] = "freed"] /\ exit' = [at |-> "clears", s |-> r]
      BY <1>6, <2>1, <2>2 DEF SN!Destroy
    <3>2. \A s \in Singles : s # r => built'[s] = built[s]
      BY <1>1, <3>1
    <3>3. \A s \in Singles : Alone(s)
      BY <2>1, <2>2, <3>1, <3>2 DEF Alone, OnStack
    <3>4. CallsHold'
      BY <1>1, <2>1, <3>3, ExitKeepsCalls
    <3>5. ASSUME NEW s \in Singles
          PROVE  SingletonHolds(s)'
      <4>1. SingletonHolds(s) /\ SingletonHolds(r) /\ built'[r] = "freed" /\ (OnStack(s)' <=> OnStack(s))
        BY <1>1, <2>1, <3>1 DEF OnStack
      <4>2. CASE s = r
        BY <2>1, <2>2, <3>1, <4>1, <4>2 DEF SingletonHolds
      <4>3. CASE s # r
        <5>1. built'[s] = built[s] /\ once'[s] = once[s] /\ instance'[s] = instance[s] /\ exit'.s # s /\ exit.s # s
              /\ exit'.at = "clears" /\ (instance[s] => built[s] = "built")
          BY <2>1, <3>1, <3>2, <4>1, <4>3 DEF SingletonHolds
        <5>. QED
          BY <4>1, <5>1 DEF SingletonHolds
      <4>. QED
        BY <4>2, <4>3
    <3>6. ExitHolds'
      BY <1>2, <2>1, <2>2, <3>1 DEF ExitHolds, OnStack
    <3>7. SingletonTypes'
      BY <1>1, <2>1, <3>1 DEF SingletonTypes
    <3>. QED
      BY <3>4, <3>5, <3>6, <3>7 DEF SingletonInv
  <2>3. ASSUME ~instance[r]
        PROVE  SingletonInv'
    <3>1. built' = built /\ exit' = [at |-> "loops", s |-> NULL]
      BY <1>6, <2>1, <2>3 DEF SN!Destroy
    <3>2. \A s \in Singles : Alone(s)
      BY <1>2, <2>1, <3>1 DEF Alone, OnStack
    <3>3. CallsHold'
      BY <1>1, <2>1, <3>1, <3>2, ExitKeepsCalls
    <3>4. ASSUME NEW s \in Singles
          PROVE  SingletonHolds(s)'
      <4>1. SingletonHolds(s) /\ (OnStack(s)' <=> OnStack(s)) /\ s # NULL
        BY <1>1, <1>2, <2>1 DEF OnStack
      <4>. QED
        BY <2>1, <3>1, <4>1 DEF SingletonHolds
    <3>5. ExitHolds'
      BY <3>1 DEF ExitHolds
    <3>6. SingletonTypes'
      BY <1>1, <2>1, <3>1 DEF SingletonTypes
    <3>. QED
      BY <3>3, <3>4, <3>5, <3>6 DEF SingletonInv
  <2>. QED
    BY <2>2, <2>3
<1>7. ASSUME SN!Clears
      PROVE  SingletonInv'
  <2> PICK r : r = exit.s
    OBVIOUS
  <2>1. /\ exit.at = "clears" /\ UNCHANGED <<once, built, stack, calls>> /\ r \in Singles /\ ~OnStack(r) /\ exit = [at |-> "clears", s |-> r]
        /\ instance' = [instance EXCEPT ![r] = FALSE] /\ exit' = [at |-> "loops", s |-> NULL] /\ instance[r]
    BY <1>1, <1>7 DEF SN!Clears, ExitHolds
  <2>2. ~instance'[r] /\ \A s \in Singles : s # r => instance'[s] = instance[s]
    BY <1>1, <2>1
  <2>3. \A s \in Singles : Alone(s)
    BY <1>2, <2>1, <2>2 DEF Alone, OnStack
  <2>4. CallsHold'
    BY <1>1, <2>1, <2>3, ExitKeepsCalls
  <2>5. ASSUME NEW s \in Singles
        PROVE  SingletonHolds(s)'
    <3>1. SingletonHolds(s) /\ (OnStack(s)' <=> OnStack(s)) /\ s # NULL
      BY <1>1, <1>2, <2>1 DEF OnStack
    <3>2. CASE s = r
      BY <2>1, <2>2, <3>1, <3>2 DEF SingletonHolds
    <3>3. CASE s # r
      BY <2>1, <2>2, <3>1, <3>3 DEF SingletonHolds
    <3>. QED
      BY <3>2, <3>3
  <2>6. ExitHolds'
    BY <2>1 DEF ExitHolds
  <2>7. SingletonTypes'
    BY <1>1, <2>1 DEF SingletonTypes
  <2>. QED
    BY <2>4, <2>5, <2>6, <2>7 DEF SingletonInv
<1>. QED
  BY <1>3, <1>4, <1>5, <1>6, <1>7

LEMMA SingletonStep ==
  ASSUME SingletonAssumption, SingletonInv, SN!Next \/ UNCHANGED SN!vars
  PROVE  SingletonInv'
<1>1. ASSUME UNCHANGED SN!vars
      PROVE  SingletonInv'
  <2>1. UNCHANGED <<once, built, instance, stack, calls, exit>>
    BY <1>1 DEF SN!vars
  <2>2. /\ CallsHold /\ ExitHolds /\ SingletonTypes /\ \A s \in Singles : SingletonHolds(s)
    BY DEF SingletonInv
  <2>3. \A s \in Singles : Unmoved(s)
    BY <2>1 DEF Unmoved, OnStack
  <2>4. \A s \in Singles : Alone(s) /\ SingletonHolds(s)'
    BY <2>2, <2>3, UnmovedIsAlone
  <2>5. CallsHold'
    BY <2>1, <2>2, <2>4, ExitKeepsCalls
  <2>6. ExitHolds'
    BY <2>1, <2>2 DEF ExitHolds, OnStack
  <2>7. SingletonTypes'
    BY <2>1, <2>2 DEF SingletonTypes
  <2>. QED
    BY <2>4, <2>5, <2>6, <2>7 DEF SingletonInv
<1>2. ASSUME NEW t \in Threads, NEW s \in Singles, SN!InstancePtr(t, s)
      PROVE  SingletonInv'
  BY <1>2, CallingKeeps
<1>3. ASSUME NEW t \in Threads, SN!EntersOnce(t) \/ SN!AddDestructor(t) \/ SN!Nests(t) \/ SN!Constructs(t)
                                \/ SN!Publishes(t) \/ SN!LeavesOnce(t) \/ SN!Returns(t)
      PROVE  SingletonInv'
  BY <1>3, EntersOnceKeeps, AddDestructorKeeps, ConstructsKeeps, PublishesKeeps, LeavesOnceKeeps, CallingKeeps, Zenon
<1>. QED
  BY <1>1, <1>2, <1>3, ExitKeepsSingletons DEF SN!Next, Singles

LEMMA SingletonInit ==
  ASSUME SN!Init, SingletonAssumption
  PROVE  SingletonInv
<1>1. /\ once = [s \in Singles |-> "new"] /\ built = [s \in Singles |-> "none"] /\ instance = [s \in Singles |-> FALSE]
      /\ stack = <<>> /\ calls = [t \in Threads |-> <<>>] /\ exit = [at |-> "no", s |-> NULL]
  BY DEF SN!Init, Singles
<1>2. SingletonTypes
  BY <1>1 DEF SingletonTypes, NoneTwice
<1>3. DOMAIN stack = {} /\ \A t \in Threads : DOMAIN calls[t] = {}
  BY <1>1
<1>4. CallsHold
  BY <1>3 DEF CallsHold
<1>5. ~\E s : OnStack(s)
  BY <1>3 DEF OnStack
<1>6. \A s \in Singles : SingletonHolds(s) /\ s # NULL
  BY <1>1, <1>5 DEF SingletonHolds, SingletonAssumption, Singles
<1>7. ExitHolds
  BY <1>1 DEF ExitHolds
<1>. QED
  BY <1>2, <1>4, <1>6, <1>7 DEF SingletonInv

LEMMA SingletonsAlive ==
  ASSUME SingletonAssumption, SingletonInv
  PROVE  SN!InstanceIsAlive
<1>1. \A s : s \in SN!ToSet(stack) <=> OnStack(s)
  BY DEF SN!ToSet, OnStack
<1>2. ASSUME NEW t \in Threads, NEW i \in DOMAIN calls[t], calls[t][i].at \in {"registers", "constructs", "built"}
      PROVE  built[calls[t][i].s] = "raw"
  <2> PICK s, at : s = calls[t][i].s /\ at = calls[t][i].at
    OBVIOUS
  <2>1. s \in Singles /\ at \in InOnce
    <3>1. calls[t] \in Seq(CallFrames)
      BY SingletonParts
    <3>2. calls[t][i] \in CallFrames
      BY <3>1
    <3>. QED
      BY <1>2, <3>2 DEF CallFrames, InOnce
  <2>2. CallHolds(s, at)
    BY <2>1, SingletonParts DEF CallsHold
  <2>. QED
    BY <1>2, <2>2 DEF CallHolds
<1>3. \A s \in Singles : SingletonHolds(s)
  BY DEF SingletonInv
<1>. QED
  BY <1>1, <1>2, <1>3 DEF SN!InstanceIsAlive, SingletonHolds, Singles

\* Singleton: what instance_ptr() gives is constructed and not destroyed, for
\* any threads.
THEOREM SingletonsLive == MCSpec => []InstanceIsAlive
<1>1. MCInit => SingletonInv
  BY SingletonInit, SingletonAssumption DEF MCInit
<1>2. [MCNext]_<<used, vars, pointers, uniqueVars, allocatingVars, stringVars, singletonVars, mspaceVars>> => (SN!Next \/ UNCHANGED SN!vars)
  BY DEF MCNext, singletonVars, SN!vars
<1>3. SingletonInv /\ (SN!Next \/ UNCHANGED SN!vars) => SingletonInv'
  BY SingletonStep, SingletonAssumption
<1>4. SingletonInv => InstanceIsAlive
  BY SingletonsAlive, SingletonAssumption DEF InstanceIsAlive
<1>. QED
  BY <1>1, <1>2, <1>3, <1>4, PTL DEF MCSpec

-----------------------------------------------------------------------------
-----------------------------------------------------------------------------
(* Strings: a node has the text its strings should have, with a terminator   *)
(* behind it, unless vprintf() has cut it short.                            *)

Texts == Seq(Nat \ {0})
StringPlaces == ST!Places
Nodes == ST!ScopedStringImpl

HasText(buf, t) == t # <<>> => Len(t) < Len(buf) /\ buf[Len(t) + 1] = 0 /\ \A i \in 1 .. Len(t) : buf[i] = t[i]
Carries(n, t) == n.cut \/ (n.len = Len(t) /\ HasText(n.buf, t))
NodeOK(n) == n \in Nodes /\ (n.where = "static" => Len(n.buf) = Inside)

\* What assign(), append() and vprintf() leave: the text t, or when they failed
\* the text e there was.
Leaves(r, e, t) == r[1] \in BOOLEAN /\ NodeOK(r[2]) /\ (r[1] => Carries(r[2], t)) /\ (~r[1] => Carries(r[2], e))

StringsOK ==
  /\ ptr \in [Strings -> StringPlaces \cup {NULL}]
  /\ node \in [StringPlaces -> Nodes \cup {NULL}]
  /\ expected \in [Strings -> Texts]
  /\ \A p \in StringPlaces : node[p] # NULL => \E h \in Strings : ptr[h] = p
  /\ \A h \in Strings : IF ptr[h] = NULL THEN expected[h] = <<>>
                        ELSE NodeOK(node[ptr[h]]) /\ Carries(node[ptr[h]], expected[h])

\* What is known of the parts of a node.
LEMMA NodeParts ==
  ASSUME NEW n \in Nodes
  PROVE  /\ n.where \in {"static", "dynamic", "null"} /\ n.buf \in Seq(Nat) /\ n.cap \in Nat
         /\ n.len \in Nat /\ n.cut \in BOOLEAN /\ Len(n.buf) \in Nat
<1>1. n.buf \in Seq(Nat)
  BY DEF Nodes, ST!ScopedStringImpl
<1>. QED
  BY <1>1 DEF Nodes, ST!ScopedStringImpl

LEMMA NewNode ==
  ASSUME NEW w \in {"static", "dynamic", "null"}, NEW b \in Seq(Nat), NEW c \in Nat, NEW l \in Nat, NEW u \in BOOLEAN
  PROVE  [where |-> w, buf |-> b, cap |-> c, len |-> l, cut |-> u] \in Nodes
BY DEF Nodes, ST!ScopedStringImpl

LEMMA FitIs ==
  ASSUME NEW b \in Seq(Nat), NEW size \in Nat
  PROVE  LET f == ST!Fit(b, size)
         IN  f \in Seq(Nat) /\ Len(f) = size /\ \A i \in 1 .. size : i <= Len(b) => f[i] = b[i]
<1> DEFINE f == ST!Fit(b, size)
<1>1. f = [i \in 1 .. size |-> IF i <= Len(b) THEN b[i] ELSE 0]
  BY DEF ST!Fit
<1>2. \A i \in 1 .. size : (IF i <= Len(b) THEN b[i] ELSE 0) \in Nat
  OBVIOUS
<1>. HIDE DEF f
<1>3. f \in [1 .. size -> Nat]
  BY <1>1, <1>2
<1>4. f \in Seq(Nat) /\ Len(f) = size
  BY <1>3
<1>. QED
  BY <1>1, <1>4 DEF f

\* t is written over b behind `at', with a terminator, as far as there is room.
Overwrites(o, b, at, t) ==
  /\ o \in Seq(Nat) /\ Len(o) = Len(b)
  /\ \A i \in 1 .. Len(b) : i <= at => o[i] = b[i]
  /\ \A i \in 1 .. Len(t) : at + i <= Len(b) => o[at + i] = t[i]
  /\ at + Len(t) + 1 <= Len(b) => o[at + Len(t) + 1] = 0

LEMMA OverwrittenIs ==
  ASSUME NEW b, b \in Seq(Nat), NEW at, at \in Nat, NEW t, t \in Seq(Nat)
  PROVE  Overwrites(ST!Overwritten(b, at, t), b, at, t)
<1> DEFINE o == ST!Overwritten(b, at, t)
           F(i) == IF i \in at + 1 .. at + Len(t) THEN t[i - at] ELSE IF i = at + Len(t) + 1 THEN 0 ELSE b[i]
<1>1. o = [i \in 1 .. Len(b) |-> F(i)]
  BY DEF ST!Overwritten
<1>2. Len(b) \in Nat /\ Len(t) \in Nat
  OBVIOUS
<1>3. ASSUME NEW i \in 1 .. Len(b)
      PROVE  F(i) \in Nat
  <2>1. CASE i \in at + 1 .. at + Len(t)
    <3>1. i - at \in 1 .. Len(t)
      BY <1>2, <2>1
    <3>. QED
      BY <2>1, <3>1
  <2>2. CASE i \notin at + 1 .. at + Len(t)
    BY <2>2
  <2>. QED
    BY <2>1, <2>2
<1>4. \A i \in 1 .. Len(t) : F(at + i) = t[i]
  BY <1>2
<1>5. F(at + Len(t) + 1) = 0 /\ \A i \in 1 .. Len(b) : i <= at => F(i) = b[i]
  BY <1>2
<1>6. \A i \in 1 .. Len(t) : at + i \in Int /\ at + i >= 1
  BY <1>2
<1>. HIDE DEF F, o
<1>7. o \in [1 .. Len(b) -> Nat]
  BY <1>1, <1>3
<1>8. o \in Seq(Nat) /\ Len(o) = Len(b)
  BY <1>2, <1>7
<1>9. \A i \in 1 .. Len(b) : o[i] = F(i)
  BY <1>1
<1>10. \A i \in 1 .. Len(t) : at + i <= Len(b) => o[at + i] = t[i]
  BY <1>2, <1>4, <1>6, <1>9
<1>11. at + Len(t) + 1 <= Len(b) => o[at + Len(t) + 1] = 0
  BY <1>2, <1>5, <1>9
<1>. QED
  BY <1>5, <1>8, <1>9, <1>10, <1>11 DEF Overwrites, o

\* A resize that succeeds makes the room and keeps what was there; one that
\* fails changes nothing but where m_data points.
LEMMA ResizesIs ==
  ASSUME Inside \in Nat, NEW n, NodeOK(n), NEW size \in Nat, NEW r \in ST!Resizes(n, size)
  PROVE  /\ r[1] \in BOOLEAN /\ NodeOK(r[2]) /\ r[2].len = n.len /\ r[2].cut = n.cut
         /\ r[1] => size <= Len(r[2].buf) /\ \A i \in 1 .. Len(n.buf) : i <= Len(r[2].buf) => r[2].buf[i] = n.buf[i]
         /\ ~r[1] => r[2].buf = n.buf
<1>1. /\ n \in Nodes /\ n.where \in {"static", "dynamic", "null"} /\ n.buf \in Seq(Nat) /\ n.cap \in Nat
      /\ n.len \in Nat /\ n.cut \in BOOLEAN /\ Len(n.buf) \in Nat
  BY NodeParts DEF NodeOK
<1>2. CASE r = <<TRUE, n>> /\ n.where = "static" /\ size <= Inside
  BY <1>1, <1>2 DEF NodeOK
<1>3. CASE r = <<TRUE, [n EXCEPT !.where = "dynamic", !.buf = ST!Fit(@, size), !.cap = IF size > @ THEN ST!Rounded(size) ELSE @]>>
  <2> DEFINE f == ST!Fit(n.buf, size)
             c == IF size > n.cap THEN ST!Rounded(size) ELSE n.cap
             m == [where |-> "dynamic", buf |-> f, cap |-> c, len |-> n.len, cut |-> n.cut]
  <2>1. f \in Seq(Nat) /\ Len(f) = size /\ \A i \in 1 .. size : i <= Len(n.buf) => f[i] = n.buf[i]
    BY <1>1, FitIs
  <2>2. c \in Nat
    BY <1>1 DEF ST!Rounded
  <2>3. r[1] = TRUE /\ r[2] = [n EXCEPT !.where = "dynamic", !.buf = f, !.cap = c]
    BY <1>3
  <2>. HIDE DEF f, c
  <2>4. r[2] = m
    BY <1>1, <2>3 DEF Nodes, ST!ScopedStringImpl
  <2>5. m \in Nodes
    BY <1>1, <2>1, <2>2, NewNode
  <2>6. m.where = "dynamic" /\ m.buf = f /\ m.len = n.len /\ m.cut = n.cut
    OBVIOUS
  <2>. HIDE DEF m
  <2>7. r[1] = TRUE /\ r[2].buf = f /\ r[2].len = n.len /\ r[2].cut = n.cut
    BY <2>3, <2>4, <2>6
  <2>8. NodeOK(r[2])
    BY <2>4, <2>5, <2>6 DEF NodeOK
  <2>9. size <= Len(f) /\ \A i \in 1 .. Len(n.buf) : i <= Len(f) => f[i] = n.buf[i]
    BY <1>1, <2>1
  <2>. QED
    BY <2>7, <2>8, <2>9
<1>4. CASE r = <<FALSE, IF n.where = "static" THEN n ELSE [n EXCEPT !.where = "null"]>>
  <2>1. CASE n.where = "static"
    BY <1>4, <2>1
  <2>2. CASE n.where # "static"
    <3> DEFINE m == [where |-> "null", buf |-> n.buf, cap |-> n.cap, len |-> n.len, cut |-> n.cut]
    <3>1. r[1] = FALSE /\ r[2] = m
      BY <1>1, <1>4, <2>2 DEF Nodes, ST!ScopedStringImpl
    <3>2. m \in Nodes
      BY <1>1, NewNode
    <3>3. m.where = "null" /\ m.buf = n.buf /\ m.len = n.len /\ m.cut = n.cut
      OBVIOUS
    <3>. HIDE DEF m
    <3>. QED
      BY <1>1, <3>1, <3>2, <3>3 DEF NodeOK
  <2>. QED
    BY <2>1, <2>2
<1>. QED
  <2>1. CASE n.where = "static" /\ size <= Inside
    BY <1>2, <2>1 DEF ST!Resizes
  <2>2. CASE ~(n.where = "static" /\ size <= Inside)
    BY <1>3, <1>4, <2>2 DEF ST!Resizes
  <2>. QED
    BY <2>1, <2>2


\* A node with another text.
LEMMA TextIsSet ==
  ASSUME Inside \in Nat, NEW n, NodeOK(n), NEW b \in Seq(Nat), Len(b) = Len(n.buf), NEW t \in Texts, HasText(b, t),
         NEW m, m = [n EXCEPT !.buf = b, !.len = Len(t), !.cut = FALSE]
  PROVE  NodeOK(m) /\ Carries(m, t)
<1> DEFINE l == Len(t)
           k == [where |-> n.where, buf |-> b, cap |-> n.cap, len |-> l, cut |-> FALSE]
<1>1. n \in Nodes /\ n.where \in {"static", "dynamic", "null"} /\ n.cap \in Nat
  BY NodeParts DEF NodeOK
<1>2. l \in Nat
  BY DEF Texts
<1>. HIDE DEF l
<1>3. m = [n EXCEPT !.buf = b, !.len = l, !.cut = FALSE]
  BY DEF l
<1>4. m = k
  BY <1>1, <1>3 DEF Nodes, ST!ScopedStringImpl
<1>5. k \in Nodes
  BY <1>1, <1>2, NewNode
<1>6. k.where = n.where /\ k.buf = b /\ k.len = l
  OBVIOUS
<1>. HIDE DEF k
<1>. QED
  BY <1>4, <1>5, <1>6 DEF NodeOK, Carries, l

\* What is written to the start of a buffer with room for it is its text.
LEMMA WrittenIsText ==
  ASSUME NEW b \in Seq(Nat), NEW t \in Texts, Len(t) + 1 <= Len(b)
  PROVE  LET o == ST!Overwritten(b, 0, t)
         IN  o \in Seq(Nat) /\ Len(o) = Len(b) /\ HasText(o, t)
<1> DEFINE o == ST!Overwritten(b, 0, t)
<1>1. t \in Seq(Nat) /\ Len(t) \in Nat /\ Len(b) \in Nat
  BY DEF Texts
<1>2. Overwrites(o, b, 0, t)
  <2>1. 0 \in Nat
    OBVIOUS
  <2>. QED
    BY <1>1, <2>1, OverwrittenIs, Zenon
<1>. HIDE DEF o
<1>3. \A i \in 1 .. Len(t) : o[i] = t[i]
  <2>1. TAKE i \in 1 .. Len(t)
  <2>2. 0 + i = i /\ i <= Len(b)
    BY <1>1
  <2>. QED
    BY <1>2, <2>2 DEF Overwrites
<1>4. o[Len(t) + 1] = 0
  BY <1>1, <1>2 DEF Overwrites
<1>5. o \in Seq(Nat) /\ Len(o) = Len(b)
  BY <1>2 DEF Overwrites
<1>. QED
  BY <1>1, <1>3, <1>4, <1>5 DEF HasText, o

LEMMA AssignsLeave ==
  ASSUME Inside \in Nat, NEW n, NodeOK(n), NEW e, Carries(n, e), NEW t \in Texts, NEW r \in ST!ImplAssigns(n, t)
  PROVE  Leaves(r, e, t)
<1>1. PICK q \in ST!Resizes(n, Len(t) + 1) :
        r = <<q[1], IF q[1] THEN [q[2] EXCEPT !.buf = ST!Overwritten(@, 0, t), !.len = Len(t), !.cut = FALSE] ELSE q[2]>>
  BY DEF ST!ImplAssigns
<1>2. Len(t) + 1 \in Nat
  BY DEF Texts
<1>3. /\ q[1] \in BOOLEAN /\ NodeOK(q[2]) /\ q[2].len = n.len /\ q[2].cut = n.cut
      /\ q[1] => Len(t) + 1 <= Len(q[2].buf)
      /\ ~q[1] => q[2].buf = n.buf
  BY <1>2, ResizesIs
<1>4. q[2].buf \in Seq(Nat)
  BY <1>3, NodeParts DEF NodeOK
<1>5. CASE q[1]
  <2> DEFINE o == ST!Overwritten(q[2].buf, 0, t)
  <2>1. r[1] = q[1] /\ r[2] = [q[2] EXCEPT !.buf = o, !.len = Len(t), !.cut = FALSE]
    BY <1>1, <1>5
  <2>2. o \in Seq(Nat) /\ Len(o) = Len(q[2].buf) /\ HasText(o, t)
    BY <1>3, <1>4, <1>5, WrittenIsText
  <2>. HIDE DEF o
  <2>3. NodeOK(r[2]) /\ Carries(r[2], t)
    BY <1>3, <2>1, <2>2, TextIsSet
  <2>. QED
    BY <1>3, <1>5, <2>1, <2>3 DEF Leaves
<1>6. CASE ~q[1]
  <2>1. r[1] = q[1] /\ r[2] = q[2]
    BY <1>1, <1>6
  <2>2. Carries(q[2], e)
    BY <1>3, <1>6 DEF Carries
  <2>. QED
    BY <1>3, <1>6, <2>1, <2>2 DEF Leaves
<1>. QED
  BY <1>3, <1>5, <1>6

LEMMA PrintfsLeave ==
  ASSUME Inside \in Nat, NEW n, NodeOK(n), NEW e, Carries(n, e), NEW t \in Texts, NEW r \in ST!ImplPrintfs(n, t)
  PROVE  Leaves(r, e, t)
<1>1. /\ n \in Nodes /\ n.where \in {"static", "dynamic", "null"} /\ n.buf \in Seq(Nat) /\ n.cap \in Nat
      /\ n.len \in Nat /\ Len(n.buf) \in Nat
  BY NodeParts DEF NodeOK
<1>2. t \in Seq(Nat) /\ Len(t) \in Nat
  BY DEF Texts
<1>3. ASSUME NEW m, NodeOK(m), Len(t) < Len(m.buf)
      PROVE  NodeOK(ST!Formatted(m, t)) /\ Carries(ST!Formatted(m, t), t)
  <2> DEFINE o == ST!Overwritten(m.buf, 0, t)
  <2>1. m.buf \in Seq(Nat) /\ Len(m.buf) \in Nat
    BY <1>3, NodeParts DEF NodeOK
  <2>2. Len(t) + 1 <= Len(m.buf)
    BY <1>2, <1>3, <2>1
  <2>3. o \in Seq(Nat) /\ Len(o) = Len(m.buf) /\ HasText(o, t)
    BY <2>1, <2>2, WrittenIsText
  <2>4. ST!Formatted(m, t) = [m EXCEPT !.buf = o, !.len = Len(t), !.cut = FALSE]
    BY DEF ST!Formatted
  <2>. HIDE DEF o
  <2>. QED
    BY <1>3, <2>3, <2>4, TextIsSet
<1>4. CASE n.where = "null"
  <2>1. r = <<FALSE, n>>
    BY <1>4 DEF ST!ImplPrintfs
  <2>. QED
    BY <2>1 DEF Leaves
<1>5. CASE n.where # "null" /\ Len(t) < Len(n.buf)
  <2>1. r = <<TRUE, ST!Formatted(n, t)>>
    BY <1>5 DEF ST!ImplPrintfs
  <2>2. NodeOK(ST!Formatted(n, t)) /\ Carries(ST!Formatted(n, t), t)
    BY <1>3, <1>5
  <2>. QED
    BY <2>1, <2>2 DEF Leaves
<1>6. CASE n.where # "null" /\ ~(Len(t) < Len(n.buf))
  <2> DEFINE s == SubSeq(t, 1, Len(n.buf) - 1)
             o == ST!Overwritten(n.buf, 0, s)
             m == [where |-> n.where, buf |-> o, cap |-> n.cap, len |-> n.len, cut |-> TRUE]
  <2>1. s \in Seq(Nat)
    BY <1>1, <1>2, <1>6
  <2>. HIDE DEF s
  <2>2. o \in Seq(Nat) /\ Len(o) = Len(n.buf)
    <3>1. 0 \in Nat /\ n.buf \in Seq(Nat)
      BY <1>1
    <3>2. Overwrites(o, n.buf, 0, s)
      BY <2>1, <3>1, OverwrittenIs, Zenon
    <3>. QED
      BY <3>2 DEF Overwrites
  <2>3. ST!Truncated(n, t) = m
    BY <1>1, <1>6 DEF ST!Truncated, Nodes, ST!ScopedStringImpl, s
  <2>. HIDE DEF o
  <2>4. m \in Nodes
    BY <1>1, <2>2, NewNode
  <2>5. m.where = n.where /\ m.buf = o /\ m.cut = TRUE
    OBVIOUS
  <2>. HIDE DEF m
  <2>6. NodeOK(m)
    BY <2>2, <2>4, <2>5 DEF NodeOK
  <2>7. PICK q \in ST!Resizes(m, Len(t) + 1) : r = <<q[1], IF q[1] THEN ST!Formatted(q[2], t) ELSE q[2]>>
    BY <1>6, <2>3 DEF ST!ImplPrintfs
  <2>8. /\ q[1] \in BOOLEAN /\ NodeOK(q[2]) /\ q[2].cut = m.cut
        /\ q[1] => Len(t) + 1 <= Len(q[2].buf)
    BY <1>2, <2>6, ResizesIs
  <2>9. CASE q[1]
    <3>1. r[1] = TRUE /\ r[2] = ST!Formatted(q[2], t)
      BY <2>7, <2>8, <2>9
    <3>2. Len(q[2].buf) \in Nat
      BY <2>8, NodeParts DEF NodeOK
    <3>3. Len(t) < Len(q[2].buf)
      BY <1>2, <2>8, <2>9, <3>2
    <3>. QED
      BY <1>3, <2>8, <3>1, <3>3 DEF Leaves
  <2>10. CASE ~q[1]
    <3>1. r[1] = FALSE /\ r[2] = q[2]
      BY <2>7, <2>8, <2>10
    <3>. QED
      BY <2>5, <2>8, <3>1 DEF Leaves, Carries
  <2>. QED
    BY <2>8, <2>9, <2>10
<1>. QED
  BY <1>4, <1>5, <1>6

LEMMA AppendsLeave ==
  ASSUME Inside \in Nat, NEW n, NodeOK(n), NEW e \in Texts, Carries(n, e), NEW t \in Texts, NEW r \in ST!ImplAppends(n, t)
  PROVE  Leaves(r, e, e \o t)
<1>1. /\ n \in Nodes /\ n.buf \in Seq(Nat) /\ n.len \in Nat /\ Len(n.buf) \in Nat
  BY NodeParts DEF NodeOK
<1>2. /\ t \in Seq(Nat) /\ e \in Seq(Nat) /\ Len(t) \in Nat /\ Len(e) \in Nat
      /\ e \o t \in Seq(Nat) /\ Len(e \o t) = Len(e) + Len(t)
      /\ \A i \in 1 .. Len(e) : (e \o t)[i] = e[i]
      /\ \A i \in 1 .. Len(t) : (e \o t)[Len(e) + i] = t[i]
  BY DEF Texts
<1>3. CASE t = <<>>
  <2>1. r = <<TRUE, n>>
    BY <1>3 DEF ST!ImplAppends
  <2>2. e \o t = e
    BY <1>3 DEF Texts
  <2>. QED
    BY <2>1, <2>2 DEF Leaves
<1>4. CASE t # <<>>
  <2>1. PICK q \in ST!Resizes(n, n.len + Len(t) + 1) :
          r = <<q[1], IF q[1] THEN [q[2] EXCEPT !.buf = ST!Overwritten(@, n.len, t), !.len = n.len + Len(t)] ELSE q[2]>>
    BY <1>4 DEF ST!ImplAppends
  <2>2. /\ q[1] \in BOOLEAN /\ NodeOK(q[2]) /\ q[2].len = n.len /\ q[2].cut = n.cut
        /\ q[1] => /\ n.len + Len(t) + 1 <= Len(q[2].buf)
                   /\ \A i \in 1 .. Len(n.buf) : i <= Len(q[2].buf) => q[2].buf[i] = n.buf[i]
        /\ ~q[1] => q[2].buf = n.buf
    <3>1. n.len + Len(t) + 1 \in Nat
      BY <1>1, <1>2
    <3>. QED
      BY <3>1, ResizesIs
  <2>3. CASE q[1]
    <3> DEFINE o == ST!Overwritten(q[2].buf, n.len, t)
               m == [where |-> q[2].where, buf |-> o, cap |-> q[2].cap, len |-> n.len + Len(t), cut |-> n.cut]
    <3>1. /\ q[2] \in Nodes /\ q[2].where \in {"static", "dynamic", "null"} /\ q[2].buf \in Seq(Nat) /\ q[2].cap \in Nat
          /\ Len(q[2].buf) \in Nat /\ n.cut \in BOOLEAN
      BY <1>1, <2>2, NodeParts DEF NodeOK
    <3>2. o = ST!Overwritten(q[2].buf, n.len, t) /\ r[1] = TRUE /\ r[2] = [q[2] EXCEPT !.buf = o, !.len = n.len + Len(t)]
      BY <2>1, <2>2, <2>3
    <3>. HIDE DEF o
    <3>3. /\ o \in Seq(Nat) /\ Len(o) = Len(q[2].buf)
          /\ \A i \in 1 .. Len(q[2].buf) : i <= n.len => o[i] = q[2].buf[i]
          /\ \A i \in 1 .. Len(t) : n.len + i <= Len(q[2].buf) => o[n.len + i] = t[i]
          /\ n.len + Len(t) + 1 <= Len(q[2].buf) => o[n.len + Len(t) + 1] = 0
      <4>1. q[2].buf \in Seq(Nat) /\ n.len \in Nat /\ t \in Seq(Nat)
        BY <1>1, <1>2, <3>1
      <4>2. Overwrites(o, q[2].buf, n.len, t)
        BY <3>2, <4>1, OverwrittenIs, Zenon
      <4>. QED
        BY <4>2 DEF Overwrites
    <3>4. r[2] = m
      BY <2>2, <3>1, <3>2 DEF Nodes, ST!ScopedStringImpl
    <3>5. m \in Nodes
      <4>1. n.len + Len(t) \in Nat
        BY <1>1, <1>2
      <4>. QED
        BY <3>1, <3>3, <4>1, NewNode
    <3>6. m.where = q[2].where /\ m.buf = o /\ m.len = n.len + Len(t) /\ m.cut = n.cut
      OBVIOUS
    <3>. HIDE DEF m
    <3>7. NodeOK(m)
      BY <2>2, <3>3, <3>5, <3>6 DEF NodeOK
    <3>8. ASSUME n.len = Len(e), HasText(n.buf, e)
          PROVE  HasText(o, e \o t)
      <4>1. Len(e) + Len(t) + 1 <= Len(o)
        BY <2>2, <2>3, <3>3, <3>8
      <4>2. ASSUME NEW i \in 1 .. Len(e)
            PROVE  o[i] = e[i]
        <5>1. e # <<>>
          BY <1>2
        <5>2. Len(e) < Len(n.buf) /\ n.buf[i] = e[i]
          BY <3>8, <5>1 DEF HasText
        <5>3. i \in 1 .. Len(n.buf) /\ i <= n.len
          BY <1>1, <1>2, <3>8, <5>2
        <5>4. i \in 1 .. Len(q[2].buf)
          BY <1>2, <3>1, <3>3, <4>1
        <5>. QED
          BY <2>2, <2>3, <3>3, <5>2, <5>3, <5>4
      <4>3. ASSUME NEW i \in 1 .. Len(t)
            PROVE  o[Len(e) + i] = t[i]
        <5>1. Len(e) + i <= Len(q[2].buf)
          BY <1>2, <3>1, <3>3, <4>1
        <5>. QED
          BY <3>3, <3>8, <5>1
      <4>4. o[Len(e) + Len(t) + 1] = 0
        BY <3>3, <3>8, <4>1
      <4>5. ASSUME NEW i \in 1 .. Len(e \o t)
            PROVE  o[i] = (e \o t)[i]
        <5>1. CASE i \in 1 .. Len(e)
          BY <1>2, <4>2, <5>1
        <5>2. CASE i \notin 1 .. Len(e)
          <6>1. i - Len(e) \in 1 .. Len(t) /\ Len(e) + (i - Len(e)) = i
            BY <1>2, <5>2
          <6>. QED
            BY <1>2, <4>3, <6>1
        <5>. QED
          BY <5>1, <5>2
      <4>6. Len(e \o t) < Len(o) /\ o[Len(e \o t) + 1] = 0
        BY <1>2, <3>1, <3>3, <4>1, <4>4
      <4>. QED
        BY <4>5, <4>6 DEF HasText
    <3>9. Carries(m, e \o t)
      BY <1>2, <3>6, <3>8 DEF Carries
    <3>. QED
      BY <3>2, <3>4, <3>7, <3>9 DEF Leaves
  <2>4. CASE ~q[1]
    <3>1. r[1] = FALSE /\ r[2] = q[2]
      BY <2>1, <2>2, <2>4
    <3>2. Carries(q[2], e)
      BY <2>2, <2>4 DEF Carries
    <3>. QED
      BY <2>2, <3>1, <3>2 DEF Leaves
  <2>. QED
    BY <2>2, <2>3, <2>4
<1>. QED
  BY <1>3, <1>4


\* c_str() of a node that is not cut is its text.
LEMMA TextIs ==
  ASSUME StringsAssumption, NEW n, NodeOK(n), NEW t \in Texts, Carries(n, t), ~n.cut
  PROVE  ST!Text(n) = t
<1>1. n # NULL /\ n.buf \in Seq(Nat) /\ Len(n.buf) \in Nat
  BY NodeParts DEF NodeOK, Nodes, StringsAssumption
<1>2. n.len = Len(t) /\ HasText(n.buf, t) /\ t \in Seq(Nat \ {0}) /\ Len(t) \in Nat
  BY DEF Carries, Texts
<1>3. CASE t = <<>>
  BY <1>2, <1>3 DEF ST!Text
<1>4. CASE t # <<>>
  <2> DEFINE b == n.buf
             I == {i \in 1 .. Len(b) : b[i] = 0}
             l == Len(t)
  <2>1. l < Len(b) /\ b[l + 1] = 0 /\ (\A i \in 1 .. l : b[i] = t[i]) /\ l > 0
    BY <1>2, <1>4 DEF HasText
  <2>2. \A i \in 1 .. l : t[i] # 0
    BY <1>2
  <2>3. l + 1 \in I /\ \A i \in I : l + 1 <= i
    <3>1. l + 1 \in I
      BY <1>1, <1>2, <2>1
    <3>2. ASSUME NEW i \in I
          PROVE  l + 1 <= i
      <4>1. i \in 1 .. Len(b) /\ b[i] = 0
        OBVIOUS
      <4>2. ~(i \in 1 .. l)
        BY <2>1, <2>2, <4>1
      <4>. QED
        BY <1>1, <1>2, <4>1, <4>2
    <3>. QED
      BY <3>1, <3>2
  <2>4. I \subseteq Nat
    BY <1>1
  <2>5. ST!UpTo0(b) = (IF I # {} THEN ST!Min(I) ELSE 0) - 1
    BY DEF ST!UpTo0, ST!SelectInSeq
  <2>. HIDE DEF I
  <2>6. ST!Min(I) = l + 1
    <3>1. ST!Min(I) \in I /\ \A i \in I : ST!Min(I) <= i
      BY <2>3 DEF ST!Min
    <3>2. l + 1 <= ST!Min(I) /\ ST!Min(I) <= l + 1 /\ ST!Min(I) \in Nat
      BY <2>3, <2>4, <3>1
    <3>. QED
      BY <1>2, <3>2
  <2>7. ST!UpTo0(b) = l
    BY <1>2, <2>3, <2>5, <2>6
  <2>8. ST!Text(n) = SubSeq(b, 1, l)
    BY <1>1, <1>2, <2>1, <2>7 DEF ST!Text
  <2>9. SubSeq(b, 1, l) = t
    <3>1. Len(SubSeq(b, 1, l)) = l /\ \A i \in 1 .. l : SubSeq(b, 1, l)[i] = t[i]
      BY <1>1, <1>2, <2>1
    <3>2. SubSeq(b, 1, l) \in Seq(Nat)
      BY <1>1, <1>2, <2>1
    <3>3. t \in Seq(Nat)
      BY DEF Texts
    <3>. QED
      BY <1>2, <3>1, <3>2, <3>3
  <2>. QED
    BY <2>8, <2>9
<1>. QED
  BY <1>3, <1>4

\* What a string that may be used shows is what is expected of it.
LEMMA ShowsExpected ==
  ASSUME StringsAssumption, StringsOK, NEW h \in Strings, ST!Usable(h)
  PROVE  ST!Text(ST!Now(h)) = expected[h] /\ expected[h] \in Texts
<1>1. expected[h] \in Texts
  BY DEF StringsOK
<1>2. CASE ptr[h] = NULL
  BY <1>2 DEF StringsOK, ST!Text, ST!Now
<1>3. CASE ptr[h] # NULL
  <2>1. ST!Now(h) = node[ptr[h]] /\ NodeOK(node[ptr[h]]) /\ Carries(node[ptr[h]], expected[h])
    BY <1>3 DEF StringsOK, ST!Now
  <2>2. node[ptr[h]] # NULL
    BY <2>1 DEF NodeOK, Nodes, StringsAssumption
  <2>3. ~node[ptr[h]].cut
    BY <2>1, <2>2 DEF ST!Usable
  <2>. QED
    BY <1>1, <2>1, <2>3, TextIs
<1>. QED
  BY <1>1, <1>2, <1>3

\* There is a place for a node that no string points to.
LEMMA FreeIs ==
  ASSUME StringsAssumption, StringsOK
  PROVE  ST!FreePlace \in StringPlaces /\ node[ST!FreePlace] = NULL
<1> DEFINE taken == {ptr[h] : h \in Strings}
<1>1. IsFiniteSet(Strings) /\ Cardinality(Strings) \in Nat
  BY FS_CardinalityType DEF StringsAssumption
<1>2. IsFiniteSet(taken) /\ Cardinality(taken) <= Cardinality(Strings)
  <2>1. ptr \in Surjection(Strings, taken)
    BY DEF Surjection, StringsOK
  <2>. HIDE DEF taken
  <2>. QED
    BY <1>1, <2>1, FS_Surjection
<1>3. StringPlaces = 0 .. Cardinality(Strings)
  <2>1. ST!Cardinality(Strings) = Cardinality(Strings)
    BY DEF Cardinality, ST!Cardinality
  <2>. QED
    BY <2>1 DEF StringPlaces, ST!Places
<1>4. IsFiniteSet(StringPlaces) /\ Cardinality(StringPlaces) = Cardinality(Strings) + 1
  <2>1. /\ IsFiniteSet(0 .. Cardinality(Strings))
        /\ Cardinality(0 .. Cardinality(Strings)) = IF 0 > Cardinality(Strings) THEN 0 ELSE Cardinality(Strings) - 0 + 1
    BY <1>1, FS_Interval
  <2>. QED
    BY <1>1, <1>3, <2>1
<1>5. \A p \in StringPlaces : node[p] # NULL => p \in taken
  BY DEF StringsOK
<1>6. Cardinality(taken) \in Nat
  BY <1>2, FS_CardinalityType
<1>. HIDE DEF taken
<1>7. ~(StringPlaces \subseteq taken)
  <2>1. ASSUME StringPlaces \subseteq taken
        PROVE  FALSE
    <3>1. Cardinality(StringPlaces) <= Cardinality(taken)
      BY <1>2, <2>1, FS_Subset
    <3>. QED
      BY <1>1, <1>2, <1>4, <1>6, <3>1
  <2>. QED
    BY <2>1
<1>8. \E p \in StringPlaces : node[p] = NULL
  BY <1>5, <1>7
<1>. QED
  BY <1>8 DEF ST!FreePlace, StringPlaces

\* A string points to another node, with the text that is expected of it now.
LEMMA PointsKeeps ==
  ASSUME StringsAssumption, StringsOK, NEW h \in Strings, NEW p, NEW n, NEW t \in Texts,
         ST!Points(h, p, n), ST!Expect(h, t),
         \/ p = NULL /\ t = <<>>
         \/ p \in StringPlaces /\ NodeOK(n) /\ Carries(n, t) /\ (node[p] = NULL \/ n = node[p])
  PROVE  StringsOK'
<1>1. /\ ptr' = [ptr EXCEPT ![h] = p] /\ expected' = [expected EXCEPT ![h] = t]
      /\ node' = [q \in StringPlaces |-> IF q = p THEN n ELSE IF \E g \in Strings : ptr'[g] = q THEN node[q] ELSE NULL]
  BY DEF ST!Points, ST!Expect, StringPlaces
<1>2. NULL \notin StringPlaces /\ NULL \notin Nodes
  BY FS_CardinalityType DEF StringPlaces, ST!Places, Nodes, StringsAssumption
<1>3. p \in StringPlaces \cup {NULL} /\ (p # NULL => n \in Nodes)
  BY DEF NodeOK
<1>4. /\ ptr \in [Strings -> StringPlaces \cup {NULL}] /\ node \in [StringPlaces -> Nodes \cup {NULL}]
      /\ expected \in [Strings -> Texts]
  BY DEF StringsOK
<1>5. ptr' \in [Strings -> StringPlaces \cup {NULL}] /\ expected' \in [Strings -> Texts]
  BY <1>1, <1>3, <1>4
<1>6. node' \in [StringPlaces -> Nodes \cup {NULL}]
  BY <1>1, <1>2, <1>3, <1>4
<1>7. ptr'[h] = p /\ expected'[h] = t /\ \A g \in Strings : g # h => ptr'[g] = ptr[g] /\ expected'[g] = expected[g]
  BY <1>1, <1>4
<1>8. \A q \in StringPlaces : node'[q] # NULL => \E g \in Strings : ptr'[g] = q
  BY <1>1, <1>7
<1>9. ASSUME NEW g \in Strings
      PROVE  IF ptr'[g] = NULL THEN expected'[g] = <<>>
             ELSE NodeOK(node'[ptr'[g]]) /\ Carries(node'[ptr'[g]], expected'[g])
  <2>1. CASE g = h
    BY <1>1, <1>2, <1>7, <2>1
  <2>2. CASE g # h /\ ptr[g] = NULL
    BY <1>7, <2>2 DEF StringsOK
  <2>3. CASE g # h /\ ptr[g] # NULL
    <3>1. ptr'[g] = ptr[g] /\ expected'[g] = expected[g] /\ ptr[g] \in StringPlaces
      BY <1>4, <1>7, <2>3
    <3>2. NodeOK(node[ptr[g]]) /\ Carries(node[ptr[g]], expected[g])
      BY <2>3 DEF StringsOK
    <3>3. node[ptr[g]] # NULL
      BY <1>2, <3>2 DEF NodeOK
    <3>4. node'[ptr[g]] = node[ptr[g]]
      BY <1>1, <1>2, <3>1, <3>3
    <3>. QED
      BY <2>3, <3>1, <3>2, <3>4
  <2>. QED
    BY <2>1, <2>2, <2>3
<1>. QED
  BY <1>5, <1>6, <1>8, <1>9 DEF StringsOK

\* The text is changed in place, for every string that shares it.
LEMMA ReferenceKeeps ==
  ASSUME StringsAssumption, StringsOK, NEW h \in Strings, ptr[h] # NULL, NEW t \in Texts, NEW results,
         ST!ThroughReference(h, results, t),
         \A r \in results : \A g \in Strings : ptr[g] = ptr[h] =>
            r[1] \in BOOLEAN /\ NodeOK(r[2]) /\ (r[1] => Carries(r[2], t)) /\ (~r[1] => Carries(r[2], expected[g]))
  PROVE  StringsOK'
<1>1. PICK r \in results :
        /\ node' = [node EXCEPT ![ptr[h]] = r[2]]
        /\ expected' = [g \in Strings |-> IF r[1] /\ ptr[g] = ptr[h] THEN t ELSE expected[g]]
        /\ ptr' = ptr
  BY DEF ST!ThroughReference
<1>2. NULL \notin StringPlaces /\ NULL \notin Nodes
  BY FS_CardinalityType DEF StringPlaces, ST!Places, Nodes, StringsAssumption
<1>3. /\ ptr \in [Strings -> StringPlaces \cup {NULL}] /\ node \in [StringPlaces -> Nodes \cup {NULL}]
      /\ expected \in [Strings -> Texts] /\ ptr[h] \in StringPlaces
  BY DEF StringsOK
<1>4. r[1] \in BOOLEAN /\ NodeOK(r[2]) /\ r[2] \in Nodes
  BY DEF NodeOK
<1>5. node' \in [StringPlaces -> Nodes \cup {NULL}] /\ expected' \in [Strings -> Texts]
  BY <1>1, <1>3, <1>4
<1>6. node'[ptr[h]] = r[2] /\ \A p \in StringPlaces : p # ptr[h] => node'[p] = node[p]
  BY <1>1, <1>3
<1>7. \A p \in StringPlaces : node'[p] # NULL => \E g \in Strings : ptr'[g] = p
  BY <1>1, <1>6 DEF StringsOK
<1>8. ASSUME NEW g \in Strings
      PROVE  IF ptr'[g] = NULL THEN expected'[g] = <<>>
             ELSE NodeOK(node'[ptr'[g]]) /\ Carries(node'[ptr'[g]], expected'[g])
  <2>1. CASE ptr[g] = ptr[h]
    <3>1. expected'[g] = (IF r[1] THEN t ELSE expected[g]) /\ ptr'[g] = ptr[h]
      BY <1>1, <2>1
    <3>2. (r[1] => Carries(r[2], t)) /\ (~r[1] => Carries(r[2], expected[g]))
      BY <2>1
    <3>. QED
      BY <1>4, <1>6, <3>1, <3>2
  <2>2. CASE ptr[g] # ptr[h]
    <3>1. expected'[g] = expected[g] /\ ptr'[g] = ptr[g]
      BY <1>1, <2>2
    <3>2. ptr[g] # NULL => ptr[g] \in StringPlaces /\ node'[ptr[g]] = node[ptr[g]]
      BY <1>3, <1>6, <2>2
    <3>3. IF ptr[g] = NULL THEN expected[g] = <<>> ELSE NodeOK(node[ptr[g]]) /\ Carries(node[ptr[g]], expected[g])
      BY DEF StringsOK
    <3>. QED
      BY <3>1, <3>2, <3>3
  <2>. QED
    BY <2>1, <2>2
<1>. QED
  BY <1>1, <1>3, <1>5, <1>7, <1>8 DEF StringsOK

LEMMA EmptyIs ==
  ASSUME StringsAssumption
  PROVE  NodeOK(ST!EmptyNode) /\ Carries(ST!EmptyNode, <<>>)
<1> DEFINE b == ST!Blank(Inside)
<1>1. Inside \in Nat
  BY DEF StringsAssumption
<1>2. b \in Seq(Nat) /\ Len(b) = Inside
  <2>1. b = [i \in 1 .. Inside |-> 0]
    BY DEF ST!Blank
  <2>. HIDE DEF b
  <2>2. b \in [1 .. Inside -> Nat]
    BY <2>1
  <2>. QED
    BY <1>1, <2>2
<1>3. ST!EmptyNode = [where |-> "static", buf |-> b, cap |-> 0, len |-> 0, cut |-> FALSE]
  BY DEF ST!EmptyNode
<1>. HIDE DEF b
<1>4. ST!EmptyNode \in Nodes
  BY <1>2, <1>3, NewNode
<1>. QED
  BY <1>2, <1>3, <1>4 DEF NodeOK, Carries, HasText

LEMMA GivenAreTexts == \A t \in Given \cup Pieces : t \in Texts
<1>1. <<1>> \in Texts
  BY DEF Texts
<1>2. <<2>> \in Texts
  BY DEF Texts
<1>3. <<2, 1, 2>> \in Texts
  BY DEF Texts
<1>. QED
  BY <1>1, <1>2, <1>3 DEF Given, Pieces

LEMMA StringsStutter ==
  ASSUME StringsOK, UNCHANGED ST!vars
  PROVE  StringsOK'
BY DEF ST!vars, StringsOK


\* A copy of what a string has carries the same text.
LEMMA CloneIs ==
  ASSUME StringsAssumption, StringsOK, NEW h \in Strings, ST!Usable(h),
         NEW c \in ST!ImplAssigns(ST!EmptyNode, ST!Text(ST!Now(h))), c[1]
  PROVE  NodeOK(c[2]) /\ Carries(c[2], expected[h]) /\ expected[h] \in Texts
<1>1. ST!Text(ST!Now(h)) = expected[h] /\ expected[h] \in Texts
  BY ShowsExpected
<1>2. NodeOK(ST!EmptyNode) /\ Carries(ST!EmptyNode, <<>>)
  BY EmptyIs
<1>3. Inside \in Nat
  BY DEF StringsAssumption
<1>4. Leaves(c, <<>>, expected[h])
  BY <1>1, <1>2, <1>3, AssignsLeave
<1>. QED
  BY <1>1, <1>4 DEF Leaves

\* A node of its own takes the place of the one the string had.
LEMMA ReplacesKeeps ==
  ASSUME StringsAssumption, StringsOK, NEW h \in Strings, NEW t \in Texts, NEW results,
         ST!Replaces(h, results, t), \A r \in results : r[1] => NodeOK(r[2]) /\ Carries(r[2], t)
  PROVE  StringsOK'
<1>1. CASE \E r \in results : r[1] /\ ST!Points(h, ST!FreePlace, r[2]) /\ ST!Expect(h, t)
  <2>1. PICK r \in results : r[1] /\ ST!Points(h, ST!FreePlace, r[2]) /\ ST!Expect(h, t)
    BY <1>1
  <2>2. NodeOK(r[2]) /\ Carries(r[2], t)
    BY <2>1
  <2>3. ST!FreePlace \in StringPlaces /\ node[ST!FreePlace] = NULL
    BY FreeIs
  <2>. QED
    BY <2>1, <2>2, <2>3, PointsKeeps
<1>2. CASE UNCHANGED ST!vars
  BY <1>2, StringsStutter
<1>. QED
  BY <1>1, <1>2 DEF ST!Replaces

\* The operations of String.
LEMMA StringStep ==
  ASSUME StringsAssumption, StringsOK, NEW h \in Strings,
         \/ ST!Clear(h) \/ ST!Access(h)
         \/ \E g \in Strings : ST!Usable(g) /\ ST!AssignCopy(h, g)
         \/ \E g \in Strings : ST!Usable(h) /\ ST!Usable(g) /\ ST!AppendString(h, g)
         \/ \E t \in Given : ST!Assign(h, t) \/ (ST!Usable(h) /\ ST!Printf(h, t))
         \/ \E t \in Pieces : ST!Usable(h) /\ ST!Append1(h, t)
  PROVE  StringsOK'
<1>1. Inside \in Nat /\ <<>> \in Texts /\ \A g \in Strings : expected[g] \in Texts
  BY DEF StringsAssumption, StringsOK, Texts
<1>2. \A t \in Given \cup Pieces : t \in Texts
  BY GivenAreTexts
<1>3. CASE ST!Clear(h)
  BY <1>1, <1>3, PointsKeeps DEF ST!Clear
<1>4. CASE ST!Access(h)
  <2>1. ptr[h] = NULL /\ ST!Points(h, ST!FreePlace, ST!EmptyNode) /\ expected' = expected
    BY <1>4 DEF ST!Access
  <2>2. ST!Expect(h, <<>>)
    <3>1. expected[h] = <<>> /\ expected \in [Strings -> Texts]
      BY <2>1 DEF StringsOK
    <3>. QED
      BY <2>1, <3>1 DEF ST!Expect
  <2>3. NodeOK(ST!EmptyNode) /\ Carries(ST!EmptyNode, <<>>)
    BY EmptyIs
  <2>4. ST!FreePlace \in StringPlaces /\ node[ST!FreePlace] = NULL
    BY FreeIs
  <2>. QED
    BY <1>1, <2>1, <2>2, <2>3, <2>4, PointsKeeps
<1>5. ASSUME NEW g \in Strings, ST!AssignCopy(h, g)
      PROVE  StringsOK'
  <2>1. ST!Expect(h, expected[g]) /\ expected[g] \in Texts
    BY <1>1, <1>5 DEF ST!AssignCopy
  <2>2. CASE ptr[g] = NULL
    <3>1. ST!Points(h, NULL, NULL) /\ expected[g] = <<>>
      BY <1>5, <2>2 DEF ST!AssignCopy, StringsOK
    <3>. QED
      BY <2>1, <3>1, PointsKeeps
  <2>3. CASE ptr[g] # NULL
    <3>1. ST!Points(h, ptr[g], node[ptr[g]])
      BY <1>5, <2>3 DEF ST!AssignCopy, ST!Now
    <3>2. ptr[g] \in StringPlaces /\ NodeOK(node[ptr[g]]) /\ Carries(node[ptr[g]], expected[g])
      BY <2>3 DEF StringsOK
    <3>. QED
      BY <2>1, <3>1, <3>2, PointsKeeps
  <2>. QED
    BY <2>2, <2>3
<1>6. ASSUME NEW t \in Texts, ST!Usable(h), ST!Append1(h, t)
      PROVE  StringsOK'
  <2> DEFINE results == ST!Cloned(h, LAMBDA n : ST!ImplAppends(n, t))
  <2>1. ST!Replaces(h, results, expected[h] \o t)
    BY <1>6 DEF ST!Append1
  <2>2. expected[h] \o t \in Texts
    BY <1>1 DEF Texts
  <2>3. ASSUME NEW r \in results, r[1]
        PROVE  NodeOK(r[2]) /\ Carries(r[2], expected[h] \o t)
    <3>1. PICK c \in ST!ImplAssigns(ST!EmptyNode, ST!Text(ST!Now(h))) : c[1] /\ r \in ST!ImplAppends(c[2], t)
      BY <2>3 DEF ST!Cloned
    <3>2. NodeOK(c[2]) /\ Carries(c[2], expected[h]) /\ expected[h] \in Texts
      BY <1>6, <3>1, CloneIs
    <3>3. Leaves(r, expected[h], expected[h] \o t)
      BY <1>1, <3>1, <3>2, AppendsLeave
    <3>. QED
      BY <2>3, <3>3 DEF Leaves
  <2>. HIDE DEF results
  <2>. QED
    BY <2>1, <2>2, <2>3, ReplacesKeeps
<1>7. ASSUME NEW g \in Strings, ST!Usable(h), ST!Usable(g), ST!AppendString(h, g)
      PROVE  StringsOK'
  <2>1. CASE ptr[h] = NULL
    <3>1. ST!AssignCopy(h, g)
      BY <1>7, <2>1 DEF ST!AppendString
    <3>. QED
      BY <1>5, <3>1
  <2>2. CASE ptr[h] # NULL
    <3>1. ST!Append1(h, ST!Text(ST!Now(g)))
      BY <1>7, <2>2 DEF ST!AppendString
    <3>2. ST!Text(ST!Now(g)) \in Texts
      BY <1>7, ShowsExpected
    <3>. QED
      BY <1>6, <1>7, <3>1, <3>2
  <2>. QED
    BY <2>1, <2>2
<1>8. ASSUME NEW t \in Texts, ST!Assign(h, t)
      PROVE  StringsOK'
  <2>1. ST!Replaces(h, ST!ImplAssigns(ST!EmptyNode, t), t)
    BY <1>8 DEF ST!Assign
  <2>2. NodeOK(ST!EmptyNode) /\ Carries(ST!EmptyNode, <<>>)
    BY EmptyIs
  <2>3. ASSUME NEW r \in ST!ImplAssigns(ST!EmptyNode, t), r[1]
        PROVE  NodeOK(r[2]) /\ Carries(r[2], t)
    <3>1. Leaves(r, <<>>, t)
      BY <1>1, <2>2, AssignsLeave
    <3>. QED
      BY <2>3, <3>1 DEF Leaves
  <2>. QED
    BY <2>1, <2>3, ReplacesKeeps
<1>9. ASSUME NEW t \in Texts, ST!Usable(h), ST!Printf(h, t)
      PROVE  StringsOK'
  <2> DEFINE results == ST!Cloned(h, LAMBDA n : ST!ImplPrintfs(n, t))
  <2>1. ST!Replaces(h, results, t)
    BY <1>9 DEF ST!Printf
  <2>2. ASSUME NEW r \in results, r[1]
        PROVE  NodeOK(r[2]) /\ Carries(r[2], t)
    <3>1. PICK c \in ST!ImplAssigns(ST!EmptyNode, ST!Text(ST!Now(h))) : c[1] /\ r \in ST!ImplPrintfs(c[2], t)
      BY <2>2 DEF ST!Cloned
    <3>2. NodeOK(c[2]) /\ Carries(c[2], expected[h])
      BY <1>9, <3>1, CloneIs
    <3>3. Leaves(r, expected[h], t)
      BY <1>1, <3>1, <3>2, PrintfsLeave
    <3>. QED
      BY <2>2, <3>3 DEF Leaves
  <2>. HIDE DEF results
  <2>. QED
    BY <2>1, <2>2, ReplacesKeeps
<1>. QED
  BY <1>2, <1>3, <1>4, <1>5, <1>6, <1>7, <1>8, <1>9

\* A set of naturals has a least member.
LEMMA LeastOf ==
  ASSUME NEW S, S \subseteq Nat, S # {}
  PROVE  \E m \in S : \A k \in S : m <= k
<1> DEFINE R == OpToRel(<, Nat)
<1>1. IsWellFoundedOn(R, Nat)
  BY NatLessThanWellFounded
<1>2. \A x, y \in Nat : x < y => <<x, y>> \in R
  BY DEF OpToRel
<1>. HIDE DEF R
<1>3. PICK m \in S : \A k \in S : ~ (<<k, m>> \in R)
  BY <1>1, WFMin
<1>4. ASSUME NEW k \in S
      PROVE  m <= k
  <2>1. ~ (k < m)
    BY <1>2, <1>3
  <2>. QED
    BY <2>1
<1>. QED
  BY <1>4


LEMMA ClearedIs ==
  ASSUME NEW n \in Nodes
  PROVE  LET m == [n EXCEPT !.len = 0, !.cut = FALSE]
         IN  m \in Nodes /\ m.where = n.where /\ m.buf = n.buf /\ m.len = 0
BY DEF Nodes, ST!ScopedStringImpl

\* The operations through the reference to a ScopedString.
LEMMA ImplStep ==
  ASSUME StringsAssumption, StringsOK, NEW h \in Strings,
         \/ ST!ImplClear(h)
         \/ \E t \in Given : ST!ImplAssign(h, t) \/ ST!ImplPrintf(h, t)
         \/ \E t \in Pieces : ST!ImplAppend(h, t)
  PROVE  StringsOK'
<1>1. Inside \in Nat /\ <<>> \in Texts /\ \A g \in Strings : expected[g] \in Texts
  BY DEF StringsAssumption, StringsOK, Texts
<1>2. \A t \in Given \cup Pieces : t \in Texts
  BY GivenAreTexts
<1>3. ptr[h] # NULL
  BY DEF ST!ImplClear, ST!ImplAssign, ST!ImplPrintf, ST!ImplAppend
<1>4. ST!Now(h) = node[ptr[h]] /\ \A g \in Strings : ptr[g] = ptr[h] => NodeOK(node[ptr[h]]) /\ Carries(node[ptr[h]], expected[g])
  BY <1>3 DEF ST!Now, StringsOK
<1> DEFINE n == ST!Now(h)
<1>5. NodeOK(n) /\ \A g \in Strings : ptr[g] = ptr[h] => Carries(n, expected[g])
  BY <1>4
<1>. HIDE DEF n
<1>6. ASSUME NEW results, NEW t \in Texts, ST!ThroughReference(h, results, t),
             \A g \in Strings, r \in results : ptr[g] = ptr[h] => Leaves(r, expected[g], t)
      PROVE  StringsOK'
  BY <1>3, <1>6, ReferenceKeeps DEF Leaves
<1>7. CASE ST!ImplClear(h)
  <2> DEFINE m == [n EXCEPT !.len = 0, !.cut = FALSE]
             results == {<<TRUE, m>>}
  <2>1. ST!ThroughReference(h, results, <<>>)
    BY <1>7 DEF ST!ImplClear, n
  <2>2. m \in Nodes /\ m.where = n.where /\ m.buf = n.buf /\ m.len = 0
    BY <1>5, ClearedIs DEF NodeOK
  <2>3. \A r \in results : r[1] = TRUE /\ r[2] = m
    <3>1. <<TRUE, m>>[1] = TRUE /\ <<TRUE, m>>[2] = m
      OBVIOUS
    <3>. HIDE DEF m
    <3>. QED
      BY <3>1
  <2>. HIDE DEF m, results
  <2>4. NodeOK(m) /\ Carries(m, <<>>)
    BY <1>5, <2>2 DEF NodeOK, Carries, HasText
  <2>5. \A g \in Strings, r \in results : ptr[g] = ptr[h] => Leaves(r, expected[g], <<>>)
    BY <2>3, <2>4 DEF Leaves
  <2>. QED
    BY <1>1, <1>6, <2>1, <2>5
<1>8. ASSUME NEW t \in Texts, ST!ImplAssign(h, t)
      PROVE  StringsOK'
  <2>1. ST!ThroughReference(h, ST!ImplAssigns(n, t), t)
    BY <1>8 DEF ST!ImplAssign, n
  <2>2. \A g \in Strings, r \in ST!ImplAssigns(n, t) : ptr[g] = ptr[h] => Leaves(r, expected[g], t)
    BY <1>1, <1>5, AssignsLeave
  <2>. QED
    BY <1>6, <2>1, <2>2
<1>9. ASSUME NEW t \in Texts, ST!ImplPrintf(h, t)
      PROVE  StringsOK'
  <2>1. ST!ThroughReference(h, ST!ImplPrintfs(n, t), t)
    BY <1>9 DEF ST!ImplPrintf, n
  <2>2. \A g \in Strings, r \in ST!ImplPrintfs(n, t) : ptr[g] = ptr[h] => Leaves(r, expected[g], t)
    BY <1>1, <1>5, PrintfsLeave
  <2>. QED
    BY <1>6, <2>1, <2>2
<1>10. ASSUME NEW t \in Texts, ST!ImplAppend(h, t)
       PROVE  StringsOK'
  <2>1. ST!ThroughReference(h, ST!ImplAppends(n, t), expected[h] \o t)
    BY <1>10 DEF ST!ImplAppend, n
  <2>2. ASSUME NEW g \in Strings, NEW r \in ST!ImplAppends(n, t), ptr[g] = ptr[h]
        PROVE  Leaves(r, expected[g], expected[h] \o t)
    <3>1. Leaves(r, expected[g], expected[g] \o t)
      BY <1>1, <1>5, <2>2, AppendsLeave
    <3>2. Leaves(r, expected[h], expected[h] \o t)
      BY <1>1, <1>5, AppendsLeave
    <3>. QED
      BY <3>1, <3>2 DEF Leaves
  <2>3. expected[h] \o t \in Texts
    BY <1>1 DEF Texts
  <2>. QED
    BY <1>6, <2>1, <2>2, <2>3
<1>. QED
  BY <1>2, <1>7, <1>8, <1>9, <1>10

LEMMA StringsStep ==
  ASSUME StringsAssumption, StringsOK, ST!Next \/ UNCHANGED ST!vars
  PROVE  StringsOK'
<1>1. ASSUME NEW h \in Strings,
             \/ ST!Clear(h) \/ ST!Access(h) \/ ST!ImplClear(h)
             \/ \E g \in Strings : ST!Usable(g) /\ ST!AssignCopy(h, g)
             \/ \E g \in Strings : ST!Usable(h) /\ ST!Usable(g) /\ ST!AppendString(h, g)
             \/ \E t \in Given : ST!Assign(h, t) \/ (ST!Usable(h) /\ ST!Printf(h, t)) \/ ST!ImplAssign(h, t) \/ ST!ImplPrintf(h, t)
             \/ \E t \in Pieces : (ST!Usable(h) /\ ST!Append1(h, t)) \/ ST!ImplAppend(h, t)
      PROVE  StringsOK'
  BY <1>1, StringStep, ImplStep
<1>2. CASE ST!Next
  BY <1>1, <1>2 DEF ST!Next
<1>. QED
  BY <1>2, StringsStutter

LEMMA StringsStart ==
  ASSUME StringsAssumption, ST!Init
  PROVE  StringsOK
<1>1. /\ node = [p \in StringPlaces |-> NULL] /\ ptr = [h \in Strings |-> NULL] /\ expected = [h \in Strings |-> <<>>]
  BY DEF ST!Init, StringPlaces
<1>2. <<>> \in Texts
  BY DEF Texts
<1>. QED
  BY <1>1, <1>2 DEF StringsOK

\* strcmp() finds the first difference, or none.
LEMMA FirstDifference ==
  ASSUME NEW s \in Seq(Nat), NEW t \in Seq(Nat)
  PROVE  \/ /\ Len(s) <= Len(t) /\ \A j \in 1 .. Len(s) : s[j] = t[j]
            /\ ST!Strcmp(s, t) = IF Len(s) < Len(t) THEN -1 ELSE 0
         \/ \E k \in 1 .. Len(s) :
              /\ k > Len(t) \/ s[k] # t[k]
              /\ \A j \in 1 .. k - 1 : j <= Len(t) /\ s[j] = t[j]
              /\ ST!Strcmp(s, t) = IF k > Len(t) \/ s[k] > t[k] THEN 1 ELSE -1
<1> DEFINE differ == {i \in 1 .. Len(s) : i > Len(t) \/ s[i] # t[i]}
           k == CHOOSE i \in differ : \A j \in differ : i <= j
<1>1. Len(s) \in Nat /\ Len(t) \in Nat
  OBVIOUS
<1>2. ST!Strcmp(s, t) = IF differ = {} THEN (IF Len(s) < Len(t) THEN -1 ELSE 0)
                        ELSE IF k > Len(t) \/ s[k] > t[k] THEN 1 ELSE -1
  BY DEF ST!Strcmp
<1>3. \A i : i \in differ <=> i \in 1 .. Len(s) /\ (i > Len(t) \/ s[i] # t[i])
  OBVIOUS
<1>. HIDE DEF differ
<1>4. CASE differ = {}
  <2>1. \A j \in 1 .. Len(s) : j <= Len(t) /\ s[j] = t[j]
    BY <1>1, <1>3, <1>4
  <2>2. Len(s) <= Len(t)
    BY <1>1, <2>1
  <2>. QED
    BY <1>2, <1>4, <2>1, <2>2
<1>5. CASE differ # {}
  <2>1. \E i \in differ : \A j \in differ : i <= j
    <3>1. differ \subseteq Nat
      BY <1>1, <1>3
    <3>. QED
      BY <1>5, <3>1, LeastOf
  <2>2. k \in differ /\ \A j \in differ : k <= j
    BY <2>1
  <2>3. ST!Strcmp(s, t) = IF k > Len(t) \/ s[k] > t[k] THEN 1 ELSE -1
    BY <1>2, <1>5
  <2>. HIDE DEF k
  <2>4. k \in 1 .. Len(s) /\ (k > Len(t) \/ s[k] # t[k])
    BY <1>3, <2>2
  <2>5. ASSUME NEW j \in 1 .. k - 1
        PROVE  j <= Len(t) /\ s[j] = t[j]
    <3>1. j \in 1 .. Len(s) /\ ~(k <= j)
      BY <1>1, <2>4
    <3>2. j \notin differ
      BY <2>2, <3>1
    <3>. QED
      BY <1>1, <1>3, <3>1, <3>2
  <2>. QED
    BY <2>3, <2>4, <2>5
<1>. QED
  BY <1>4, <1>5

\* strcmp() is 0 for equal texts only, and turns with its arguments.
LEMMA StrcmpIs ==
  ASSUME NEW s \in Seq(Nat), NEW t \in Seq(Nat)
  PROVE  /\ ST!Strcmp(s, t) = 0 <=> s = t
         /\ ST!Strcmp(s, t) \in {-1, 0, 1} /\ ST!Strcmp(s, t) = -ST!Strcmp(t, s)
<1> DEFINE m == Len(s)
           n == Len(t)
           x == ST!Strcmp(s, t)
           y == ST!Strcmp(t, s)
           Prefix(u, w, z) == Len(u) <= Len(w) /\ (\A j \in 1 .. Len(u) : u[j] = w[j]) /\ z = IF Len(u) < Len(w) THEN -1 ELSE 0
           Differ(u, w, z, k) == /\ k > Len(w) \/ u[k] # w[k]
                                 /\ \A j \in 1 .. k - 1 : j <= Len(w) /\ u[j] = w[j]
                                 /\ z = IF k > Len(w) \/ u[k] > w[k] THEN 1 ELSE -1
           Related == (x = 0 <=> s = t) /\ x \in {-1, 0, 1} /\ x = -y
<1>1. m \in Nat /\ n \in Nat /\ (\A j \in 1 .. m : s[j] \in Nat) /\ \A j \in 1 .. n : t[j] \in Nat
  OBVIOUS
<1>2. s = t <=> m = n /\ \A j \in 1 .. m : s[j] = t[j]
  OBVIOUS
<1>3. Prefix(s, t, x) \/ \E k \in 1 .. m : Differ(s, t, x, k)
  BY FirstDifference
<1>4. Prefix(t, s, y) \/ \E k \in 1 .. n : Differ(t, s, y, k)
  BY FirstDifference
<1>. HIDE DEF x, y
<1>5. ASSUME Prefix(s, t, x), Prefix(t, s, y)
      PROVE  Related
  <2>1. m = n
    BY <1>1, <1>5
  <2>2. x = 0 /\ y = 0
    BY <1>1, <1>5, <2>1
  <2>3. s = t
    BY <1>2, <1>5, <2>1
  <2>4. x \in {-1, 0, 1}
    BY <2>2
  <2>5. y \in Int
    BY <2>2
  <2>6. -y = 0
    <3>1. -y = 0 - y
      BY <2>5
    <3>2. 0 - y = 0
      BY <2>2
    <3>. QED
      BY <3>1, <3>2
  <2>. QED
    BY <2>2, <2>3, <2>4, <2>6
<1>6. ASSUME Prefix(s, t, x), NEW k \in 1 .. n, Differ(t, s, y, k)
      PROVE  Related
  <2>1. ~ (k <= m)
    BY <1>1, <1>6
  <2>2. m < n
    BY <1>1, <2>1
  <2>3. x = -1 /\ y = 1 /\ s # t
    BY <1>1, <1>6, <2>1, <2>2
  <2>4. x \in {-1, 0, 1} /\ x # 0
    BY <2>3
  <2>5. y \in Int /\ x \in Int
    BY <2>3
  <2>6. -y = x
    <3>1. -y = 0 - y
      BY <2>5
    <3>2. 0 - y = x
      BY <2>3
    <3>. QED
      BY <3>1, <3>2
  <2>. QED
    BY <2>3, <2>4, <2>6
<1>7. ASSUME Prefix(t, s, y), NEW k \in 1 .. m, Differ(s, t, x, k)
      PROVE  Related
  <2>1. ~ (k <= n)
    BY <1>1, <1>7
  <2>2. n < m
    BY <1>1, <2>1
  <2>3. y = -1 /\ x = 1 /\ s # t
    BY <1>1, <1>7, <2>1, <2>2
  <2>4. x \in {-1, 0, 1} /\ x # 0
    BY <2>3
  <2>5. y \in Int /\ x \in Int
    BY <2>3
  <2>6. -y = x
    <3>1. -y = 0 - y
      BY <2>5
    <3>2. 0 - y = x
      BY <2>3
    <3>. QED
      BY <3>1, <3>2
  <2>. QED
    BY <2>3, <2>4, <2>6
<1>8. ASSUME NEW k \in 1 .. m, Differ(s, t, x, k), NEW l \in 1 .. n, Differ(t, s, y, l)
      PROVE  Related
  <2>1. ~(k < l)
    <3>1. ASSUME k < l
          PROVE  FALSE
      <4>1. k \in 1 .. l - 1 /\ k <= n
        BY <1>1, <3>1
      <4>2. t[k] = s[k]
        BY <1>8, <4>1
      <4>. QED
        BY <1>1, <1>8, <4>1, <4>2
    <3>. QED
      BY <3>1
  <2>2. ~(l < k)
    <3>1. ASSUME l < k
          PROVE  FALSE
      <4>1. l \in 1 .. k - 1 /\ l <= m
        BY <1>1, <3>1
      <4>2. t[l] = s[l]
        BY <1>8, <4>1
      <4>. QED
        BY <1>1, <1>8, <4>1, <4>2
    <3>. QED
      BY <3>1
  <2>3. k = l /\ k <= m /\ k <= n /\ s[k] # t[k] /\ s[k] \in Nat /\ t[k] \in Nat
    BY <1>1, <1>8, <2>1, <2>2
  <2>4. x = (IF s[k] > t[k] THEN 1 ELSE -1) /\ y = (IF t[k] > s[k] THEN 1 ELSE -1)
    BY <1>1, <1>8, <2>3
  <2>5. s # t
    BY <2>3
  <2>. QED
    BY <2>3, <2>4, <2>5
<1>. HIDE DEF Prefix, Differ, Related
<1>9. Related
  BY <1>3, <1>4, <1>5, <1>6, <1>7, <1>8
<1>. QED
  BY <1>9 DEF Related, x, y

LEMMA StringsShow ==
  ASSUME StringsAssumption, StringsOK
  PROVE  ST!TextsAsGiven
<1> DEFINE good == {h \in Strings : ST!Usable(h)}
<1>1. \A h \in good : ST!Text(ST!Now(h)) = expected[h] /\ expected[h] \in Texts
  BY ShowsExpected
<1>2. ASSUME NEW h \in good, NEW g \in good, h # g
      PROVE  (ST!Compare(h, g) = 0 <=> expected[h] = expected[g]) /\ ST!Compare(h, g) = -ST!Compare(g, h)
  <2> DEFINE s == expected[h]
             t == expected[g]
  <2>1. ST!Text(ST!Now(h)) = s /\ ST!Text(ST!Now(g)) = t /\ s \in Seq(Nat) /\ t \in Seq(Nat)
    BY <1>1 DEF Texts
  <2>2. /\ ST!Compare(h, g) = IF s = <<>> THEN (IF t = <<>> THEN 0 ELSE -1) ELSE IF t = <<>> THEN 1 ELSE ST!Strcmp(s, t)
        /\ ST!Compare(g, h) = IF t = <<>> THEN (IF s = <<>> THEN 0 ELSE -1) ELSE IF s = <<>> THEN 1 ELSE ST!Strcmp(t, s)
    BY <1>2, <2>1 DEF ST!Compare
  <2>3. (ST!Strcmp(s, t) = 0 <=> s = t) /\ ST!Strcmp(s, t) \in {-1, 0, 1} /\ ST!Strcmp(s, t) = -ST!Strcmp(t, s)
    BY <2>1, StrcmpIs
  <2>. HIDE DEF s, t
  <2>4. (ST!Compare(h, g) = 0 <=> s = t) /\ ST!Compare(h, g) = -ST!Compare(g, h)
    BY <2>2, <2>3
  <2>. QED
    BY <2>4 DEF s, t
<1>. QED
  BY <1>1, <1>2 DEF ST!TextsAsGiven

\* A string has the text it was given, and comparing two of them is right,
\* whatever happens to their copies and however the memory under them fails;
\* for any strings and any number of characters in the object (String.h).
THEOREM TextsStay == MCSpec => []TextsAsGiven
<1>1. MCInit => StringsOK
  BY StringsAssumption, StringsStart DEF MCInit
<1>2. [MCNext]_<<used, vars, pointers, uniqueVars, allocatingVars, stringVars, singletonVars, mspaceVars>> => (ST!Next \/ UNCHANGED ST!vars)
  BY DEF MCNext, stringVars, ST!vars
<1>3. StringsOK /\ (ST!Next \/ UNCHANGED ST!vars) => StringsOK'
  BY StringsAssumption, StringsStep
<1>4. StringsOK => TextsAsGiven
  BY StringsAssumption, StringsShow DEF TextsAsGiven
<1>. QED
  BY <1>1, <1>2, <1>3, <1>4, PTL DEF MCSpec

-----------------------------------------------------------------------------
(* Allocating                                                               *)

AllocatingTypes ==
  /\ allocator = [o \in AL!Owners |-> allocator[o]]
  /\ holds \in [AL!Owners -> Blocks \cup {NULL}]
  /\ home = [b \in DOMAIN home |-> home[b]]
  /\ astray \in BOOLEAN /\ mixed \in BOOLEAN

\* A block is in use while an owner that has an allocator holds it.
AllocatingInv ==
  /\ AllocatingTypes
  /\ \A o \in AL!Owners : holds[o] # NULL => allocator[o] # NULL /\ holds[o] \in DOMAIN home
  /\ \A b \in DOMAIN home : \E o \in AL!Owners : holds[o] = b /\ b # NULL
  /\ \A o, q \in AL!Owners : o # q /\ holds[o] # NULL => holds[o] # holds[q]
  /\ ~mixed => ~astray /\ \A o \in AL!Owners : holds[o] # NULL => home[holds[o]] = allocator[o]

\* There is a block that nobody holds.
LEMMA SpareIsFree ==
  ASSUME AllocatingAssumption, AllocatingInv
  PROVE  AL!Spare \in Blocks /\ AL!Spare \notin DOMAIN home /\ AL!Spare # NULL
<1> DEFINE held == {holds[o] : o \in AL!Owners}
<1>1. IsFiniteSet(AL!Owners) /\ IsFiniteSet(Blocks) /\ Cardinality(AL!Owners) < Cardinality(Blocks) /\ NULL \notin Blocks
  BY DEF AllocatingAssumption, AL!Owners
<1>2. IsFiniteSet(held) /\ Cardinality(held) <= Cardinality(AL!Owners)
  <2>1. holds = [o \in AL!Owners |-> holds[o]]
    BY DEF AllocatingInv, AllocatingTypes
  <2>2. holds \in Surjection(AL!Owners, held)
    BY <2>1 DEF Surjection
  <2>. HIDE DEF held
  <2>. QED
    BY <1>1, <2>2, FS_Surjection
<1>3. DOMAIN home \subseteq held
  BY DEF AllocatingInv
<1>4. Cardinality(held) \in Nat /\ Cardinality(Blocks) \in Nat /\ Cardinality(AL!Owners) \in Nat
  BY <1>1, <1>2, FS_CardinalityType
<1>. HIDE DEF held
<1>5. ~(Blocks \subseteq DOMAIN home)
  <2>1. ASSUME Blocks \subseteq held
        PROVE  FALSE
    <3>1. Cardinality(Blocks) <= Cardinality(held)
      BY <1>2, <2>1, FS_Subset
    <3>. QED
      BY <1>1, <1>2, <1>4, <3>1
  <2>. QED
    BY <1>3, <2>1
<1>6. \E b \in Blocks : b \notin DOMAIN home
  BY <1>5
<1>. QED
  BY <1>1, <1>6 DEF AL!Spare

\* An allocation gives a spare block, which comes from a, or nothing.
LEMMA AllocatesSpare ==
  ASSUME AllocatingAssumption, AllocatingInv, NEW a, NEW m \in AL!Allocates(home, a)
  PROVE  \/ m.block = NULL /\ m.home = home
         \/ /\ m.block \in Blocks /\ m.block \notin DOMAIN home /\ m.block # NULL
            /\ m.home = [b \in DOMAIN m.home |-> m.home[b]]
            /\ DOMAIN m.home = DOMAIN home \cup {m.block}
            /\ m.home[m.block] = a /\ \A b \in DOMAIN home : m.home[b] = home[b]
<1>1. CASE m = [home |-> home, block |-> NULL]
  BY <1>1
<1>2. CASE m = [home |-> [b \in DOMAIN home \cup {AL!Spare} |-> IF b = AL!Spare THEN a ELSE home[b]], block |-> AL!Spare]
  <2> DEFINE s == AL!Spare
  <2>1. s \in Blocks /\ s \notin DOMAIN home /\ s # NULL
    BY SpareIsFree
  <2>. HIDE DEF s
  <2>2. m.block = s /\ m.home = [b \in DOMAIN home \cup {s} |-> IF b = s THEN a ELSE home[b]]
    BY <1>2 DEF s
  <2>. QED
    BY <2>1, <2>2
<1>. QED
  BY <1>1, <1>2 DEF AL!Allocates

\* An owner, c, frees the block it holds, if any, and is given another or none.
LEMMA BlockGiven ==
  ASSUME AllocatingAssumption, AllocatingInv, NEW c \in AL!Owners, NEW b, NEW a,
         holds' = [holds EXCEPT ![c] = b], allocator' = [allocator EXCEPT ![c] = a],
         b \in Blocks \cup {NULL}, b \notin DOMAIN home, b # NULL => a # NULL,
         home' = [x \in DOMAIN home' |-> home'[x]],
         DOMAIN home' = (DOMAIN home \cup ({b} \ {NULL})) \ {holds[c]},
         \A x \in DOMAIN home' \cap DOMAIN home : home'[x] = home[x],
         b # NULL /\ ~mixed' => home'[b] = a,
         astray' \in BOOLEAN, mixed' \in BOOLEAN, mixed => mixed', ~mixed' => ~astray'
  PROVE  AllocatingInv'
<1>1. /\ allocator = [o \in AL!Owners |-> allocator[o]] /\ holds \in [AL!Owners -> Blocks \cup {NULL}]
      /\ home = [x \in DOMAIN home |-> home[x]] /\ astray \in BOOLEAN /\ mixed \in BOOLEAN
  BY DEF AllocatingInv, AllocatingTypes
<1>2. /\ \A o \in AL!Owners : holds[o] # NULL => allocator[o] # NULL /\ holds[o] \in DOMAIN home
      /\ \A x \in DOMAIN home : \E o \in AL!Owners : holds[o] = x /\ x # NULL
      /\ \A o, q \in AL!Owners : o # q /\ holds[o] # NULL => holds[o] # holds[q]
      /\ ~mixed => ~astray /\ \A o \in AL!Owners : holds[o] # NULL => home[holds[o]] = allocator[o]
  BY DEF AllocatingInv
<1>3. /\ holds'[c] = b /\ allocator'[c] = a
      /\ \A o \in AL!Owners \ {c} : holds'[o] = holds[o] /\ allocator'[o] = allocator[o]
  BY <1>1
<1>4. AllocatingTypes'
  BY <1>1 DEF AllocatingTypes, AL!Owners
<1>5. ASSUME NEW o \in AL!Owners, holds'[o] # NULL
      PROVE  /\ allocator'[o] # NULL /\ holds'[o] \in DOMAIN home'
             /\ ~mixed' => home'[holds'[o]] = allocator'[o]
  <2>1. CASE o = c
    <3>1. b # NULL /\ b # holds[c]
      BY <1>2, <1>3, <1>5, <2>1
    <3>. QED
      BY <1>3, <2>1, <3>1
  <2>2. CASE o # c
    <3>1. holds[o] # holds[c] /\ holds[o] \in DOMAIN home /\ holds'[o] = holds[o] /\ allocator'[o] = allocator[o] /\ holds[o] # NULL
      BY <1>2, <1>3, <1>5, <2>2
    <3>2. holds[o] \in DOMAIN home'
      BY <3>1
    <3>3. allocator[o] # NULL /\ (~mixed' => home[holds[o]] = allocator[o])
      BY <1>2, <3>1
    <3>. QED
      BY <3>1, <3>2, <3>3
  <2>. QED
    BY <2>1, <2>2
<1>6. ASSUME NEW x \in DOMAIN home'
      PROVE  \E o \in AL!Owners : holds'[o] = x /\ x # NULL
  <2>1. CASE x = b
    BY <1>3, <2>1
  <2>2. CASE x # b
    <3>1. x \in DOMAIN home /\ x # holds[c]
      BY <2>2
    <3>2. PICK o \in AL!Owners : holds[o] = x /\ x # NULL
      BY <1>2, <3>1
    <3>. QED
      BY <1>3, <3>1, <3>2
  <2>. QED
    BY <2>1, <2>2
<1>7. ASSUME NEW o \in AL!Owners, NEW q \in AL!Owners, o # q, holds'[o] # NULL
      PROVE  holds'[o] # holds'[q]
  <2>1. CASE o = c
    BY <1>2, <1>3, <1>7, <2>1
  <2>2. CASE q = c
    BY <1>2, <1>3, <1>7, <2>2
  <2>3. CASE o # c /\ q # c
    BY <1>2, <1>3, <1>7, <2>3
  <2>. QED
    BY <2>1, <2>2, <2>3
<1>. QED
  BY <1>4, <1>5, <1>6, <1>7 DEF AllocatingInv, AL!Owners

LEMMA AllocatingParts ==
  ASSUME AllocatingInv
  PROVE  /\ allocator = [o \in AL!Owners |-> allocator[o]] /\ holds \in [AL!Owners -> Blocks \cup {NULL}]
         /\ home = [x \in DOMAIN home |-> home[x]] /\ astray \in BOOLEAN /\ mixed \in BOOLEAN
         /\ \A o \in AL!Owners : holds[o] # NULL => allocator[o] # NULL /\ holds[o] \in DOMAIN home
         /\ NULL \notin DOMAIN home
         /\ ~mixed => ~astray /\ \A o \in AL!Owners : holds[o] # NULL => home[holds[o]] = allocator[o]
BY DEF AllocatingInv, AllocatingTypes

\* An owner that holds no block gets an allocator, and a block of it or none.
LEMMA BlockAllocated ==
  ASSUME AllocatingAssumption, AllocatingInv, NEW c \in AL!Owners, holds[c] = NULL, NEW a, a # NULL, NEW m \in AL!Allocates(home, a),
         NEW kept, kept # a => m.block = NULL,
         home' = m.home, holds' = [holds EXCEPT ![c] = m.block], allocator' = [allocator EXCEPT ![c] = kept],
         UNCHANGED <<astray, mixed>>
  PROVE  AllocatingInv'
<1>1. NULL \notin DOMAIN home /\ home = [x \in DOMAIN home |-> home[x]] /\ astray \in BOOLEAN /\ mixed \in BOOLEAN /\ (~mixed => ~astray)
  BY AllocatingParts
<1>2. \/ m.block = NULL /\ m.home = home
      \/ /\ m.block \in Blocks /\ m.block \notin DOMAIN home /\ m.block # NULL
         /\ m.home = [b \in DOMAIN m.home |-> m.home[b]]
         /\ DOMAIN m.home = DOMAIN home \cup {m.block}
         /\ m.home[m.block] = a /\ \A b \in DOMAIN home : m.home[b] = home[b]
  BY AllocatesSpare
<1> DEFINE b == m.block
<1>3. /\ b \in Blocks \cup {NULL} /\ b \notin DOMAIN home /\ (b # NULL => kept # NULL)
      /\ home' = [x \in DOMAIN home' |-> home'[x]]
      /\ DOMAIN home' = (DOMAIN home \cup ({b} \ {NULL})) \ {holds[c]}
      /\ \A x \in DOMAIN home' \cap DOMAIN home : home'[x] = home[x]
      /\ b # NULL /\ ~mixed' => home'[b] = kept
  BY <1>1, <1>2
<1>. QED
  BY <1>1, <1>3, BlockGiven

\* A block is freed, and its owner has a allocator or none.
LEMMA BlockFreed ==
  ASSUME AllocatingAssumption, AllocatingInv, NEW c \in AL!Owners,
         AL!Frees(home, holds[c], allocator[c]),
         allocator' = [allocator EXCEPT ![c] = NULL], holds' = [holds EXCEPT ![c] = NULL], UNCHANGED mixed
  PROVE  AllocatingInv'
<1>1. /\ NULL \notin DOMAIN home /\ home = [x \in DOMAIN home |-> home[x]] /\ astray \in BOOLEAN /\ mixed \in BOOLEAN
      /\ holds[c] # NULL => allocator[c] # NULL /\ holds[c] \in DOMAIN home
      /\ ~mixed => ~astray /\ (holds[c] # NULL => home[holds[c]] = allocator[c])
  BY AllocatingParts
<1>2. /\ home' = [x \in DOMAIN home \ {holds[c]} |-> home[x]]
      /\ astray' = (astray \/ (holds[c] # NULL /\ (holds[c] \notin DOMAIN home \/ home[holds[c]] # allocator[c])))
  BY DEF AL!Frees
<1> DEFINE b == NULL
<1>3. /\ home' = [x \in DOMAIN home' |-> home'[x]]
      /\ DOMAIN home' = (DOMAIN home \cup ({b} \ {NULL})) \ {holds[c]}
      /\ \A x \in DOMAIN home' \cap DOMAIN home : home'[x] = home[x]
  BY <1>2
<1>4. astray' \in BOOLEAN /\ mixed' \in BOOLEAN /\ (mixed => mixed') /\ (~mixed' => ~astray')
  BY <1>1, <1>2
<1>. QED
  BY <1>1, <1>3, <1>4, BlockGiven

LEMMA AllocatingStep ==
  ASSUME AllocatingAssumption, AllocatingInv, AL!Next \/ UNCHANGED AL!vars
  PROVE  AllocatingInv'
<1>1. /\ allocator = [o \in AL!Owners |-> allocator[o]] /\ holds \in [AL!Owners -> Blocks \cup {NULL}]
      /\ home = [x \in DOMAIN home |-> home[x]] /\ astray \in BOOLEAN /\ mixed \in BOOLEAN
      /\ \A o \in AL!Owners : holds[o] # NULL => allocator[o] # NULL /\ holds[o] \in DOMAIN home
      /\ NULL \notin DOMAIN home
      /\ ~mixed => ~astray /\ \A o \in AL!Owners : holds[o] # NULL => home[holds[o]] = allocator[o]
  BY AllocatingParts
<1>2. Containers \subseteq AL!Owners /\ Items \subseteq AL!Owners /\ NULL \notin Allocators /\ Static # NULL
  BY DEF AL!Owners, AllocatingAssumption
<1>3. ASSUME NEW c \in Containers, NEW a \in Allocators, AL!Construct(c, a)
      PROVE  AllocatingInv'
  <2>1. /\ allocator[c] = NULL /\ allocator' = [allocator EXCEPT ![c] = a] /\ UNCHANGED <<holds, home, astray, mixed>>
    BY <1>3 DEF AL!Construct
  <2>2. c \in AL!Owners /\ holds[c] = NULL /\ a # NULL
    BY <1>1, <1>2, <2>1
  <2> DEFINE b == NULL
  <2>3. /\ holds' = [holds EXCEPT ![c] = b] /\ b \notin DOMAIN home /\ home' = [x \in DOMAIN home' |-> home'[x]]
        /\ DOMAIN home' = (DOMAIN home \cup ({b} \ {NULL})) \ {holds[c]}
        /\ \A x \in DOMAIN home' \cap DOMAIN home : home'[x] = home[x]
    BY <1>1, <2>1, <2>2
  <2>. QED
    BY <1>1, <2>1, <2>2, <2>3, BlockGiven
<1>4. ASSUME NEW c \in Containers, AL!Reserve(c)
      PROVE  AllocatingInv'
  <2>1. PICK m \in AL!Allocates(home, allocator[c]) : home' = m.home /\ holds' = [holds EXCEPT ![c] = m.block]
    BY <1>4 DEF AL!Reserve
  <2>2. allocator[c] # NULL /\ holds[c] = NULL /\ UNCHANGED <<allocator, astray, mixed>> /\ c \in AL!Owners
    BY <1>2, <1>4 DEF AL!Reserve
  <2>3. allocator' = [allocator EXCEPT ![c] = allocator[c]]
    BY <1>1, <2>2
  <2>. QED
    BY <2>1, <2>2, <2>3, BlockAllocated
<1>5. ASSUME NEW c \in Containers, AL!Destroy(c)
      PROVE  AllocatingInv'
  BY <1>2, <1>5, BlockFreed DEF AL!Destroy
<1>6. ASSUME NEW c \in Containers, NEW d \in Containers \ {c}, AL!ConstructCopy(c, d)
      PROVE  AllocatingInv'
  <2>1. PICK m \in AL!Copies(d) : home' = m.home /\ holds' = [holds EXCEPT ![c] = m.block]
    BY <1>6 DEF AL!ConstructCopy
  <2>2. /\ allocator[c] = NULL /\ allocator[d] # NULL /\ allocator' = [allocator EXCEPT ![c] = allocator[d]] /\ UNCHANGED <<astray, mixed>>
        /\ c \in AL!Owners
    BY <1>2, <1>6 DEF AL!ConstructCopy
  <2>3. m \in AL!Allocates(home, allocator[d])
    BY <2>1 DEF AL!Copies, AL!Allocates
  <2>4. holds[c] = NULL
    BY <1>1, <2>2
  <2>. QED
    BY <2>1, <2>2, <2>3, <2>4, BlockAllocated
<1>7. ASSUME NEW c \in Containers, NEW d \in Containers \ {c}, AL!Swap(c, d)
      PROVE  AllocatingInv'
  <2>1. /\ allocator[c] # NULL /\ allocator[d] # NULL /\ UNCHANGED <<allocator, home, astray>>
        /\ holds' = [holds EXCEPT ![c] = holds[d], ![d] = holds[c]] /\ mixed' = (mixed \/ allocator[c] # allocator[d])
        /\ c \in AL!Owners /\ d \in AL!Owners /\ c # d
    BY <1>2, <1>7 DEF AL!Swap
  <2>2. /\ holds'[c] = holds[d] /\ holds'[d] = holds[c] /\ \A o \in AL!Owners \ {c, d} : holds'[o] = holds[o]
        /\ holds' \in [AL!Owners -> Blocks \cup {NULL}]
    BY <1>1, <2>1
  <2>3. /\ \A b \in DOMAIN home : \E o \in AL!Owners : holds[o] = b /\ b # NULL
        /\ \A o, q \in AL!Owners : o # q /\ holds[o] # NULL => holds[o] # holds[q]
    BY DEF AllocatingInv
  <2>4. AllocatingTypes'
    BY <1>1, <2>1, <2>2 DEF AllocatingTypes, AL!Owners
  <2>5. \A o \in AL!Owners : holds'[o] # NULL => allocator[o] # NULL /\ holds'[o] \in DOMAIN home
    BY <1>1, <2>1, <2>2
  <2>6. \A b \in DOMAIN home : \E o \in AL!Owners : holds'[o] = b /\ b # NULL
    <3>1. TAKE b \in DOMAIN home
    <3>2. PICK o \in AL!Owners : holds[o] = b /\ b # NULL
      BY <2>3
    <3>. QED
      BY <2>1, <2>2, <3>2
  <2>7. \A o, q \in AL!Owners : o # q /\ holds'[o] # NULL => holds'[o] # holds'[q]
    BY <2>1, <2>2, <2>3
  <2>8. ~mixed' => ~astray /\ \A o \in AL!Owners : holds'[o] # NULL => home[holds'[o]] = allocator[o]
    BY <1>1, <2>1, <2>2
  <2>. QED
    BY <2>1, <2>4, <2>5, <2>6, <2>7, <2>8 DEF AllocatingInv, AL!Owners
<1>8. ASSUME NEW c \in Containers, NEW d \in Containers \ {c}, AL!AssignCopy(c, d)
      PROVE  AllocatingInv'
  <2>1. PICK m \in AL!Copies(d) : AL!Frees(m.home, holds[c], allocator[d]) /\ holds' = [holds EXCEPT ![c] = m.block]
    BY <1>8 DEF AL!AssignCopy
  <2>2. /\ allocator[c] # NULL /\ allocator[d] # NULL /\ UNCHANGED allocator /\ mixed' = (mixed \/ allocator[c] # allocator[d])
        /\ c \in AL!Owners /\ allocator' = [allocator EXCEPT ![c] = allocator[c]]
    BY <1>1, <1>2, <1>8 DEF AL!AssignCopy
  <2>3. m \in AL!Allocates(home, allocator[d])
    BY <2>1 DEF AL!Copies, AL!Allocates
  <2>4. \/ m.block = NULL /\ m.home = home
        \/ /\ m.block \in Blocks /\ m.block \notin DOMAIN home /\ m.block # NULL
           /\ m.home = [b \in DOMAIN m.home |-> m.home[b]]
           /\ DOMAIN m.home = DOMAIN home \cup {m.block}
           /\ m.home[m.block] = allocator[d] /\ \A b \in DOMAIN home : m.home[b] = home[b]
    BY <2>3, AllocatesSpare
  <2> DEFINE b == m.block
  <2>5. /\ home' = [x \in DOMAIN m.home \ {holds[c]} |-> m.home[x]]
        /\ astray' = (astray \/ (holds[c] # NULL /\ (holds[c] \notin DOMAIN m.home \/ m.home[holds[c]] # allocator[d])))
    BY <2>1 DEF AL!Frees
  <2>6. /\ b \in Blocks \cup {NULL} /\ b \notin DOMAIN home /\ b # NULL => allocator[c] # NULL
        /\ b # NULL => b # holds[c]
    BY <1>1, <2>2, <2>4
  <2>7. /\ home' = [x \in DOMAIN home' |-> home'[x]]
        /\ DOMAIN home' = (DOMAIN home \cup ({b} \ {NULL})) \ {holds[c]}
        /\ \A x \in DOMAIN home' \cap DOMAIN home : home'[x] = home[x]
    BY <2>4, <2>5
  <2>8. b # NULL /\ ~mixed' => home'[b] = allocator[c]
    BY <2>2, <2>4, <2>5, <2>6
  <2>9. astray' \in BOOLEAN /\ mixed' \in BOOLEAN /\ (mixed => mixed')
    BY <1>1, <2>2, <2>5
  <2>10. ~mixed' => ~astray'
    <3>1. ASSUME ~mixed', holds[c] # NULL
          PROVE  holds[c] \in DOMAIN m.home /\ m.home[holds[c]] = allocator[d]
      BY <1>1, <2>2, <2>4, <3>1
    <3>. QED
      BY <1>1, <2>2, <2>5, <3>1
  <2>. HIDE DEF b
  <2>11. holds' = [holds EXCEPT ![c] = b] /\ b \in Blocks \cup {NULL} /\ b \notin DOMAIN home
    BY <2>1, <2>6, <1>1, <2>4 DEF b
  <2>. QED
    BY <2>2, <2>7, <2>8, <2>9, <2>10, <2>11, BlockGiven
<1>9. ASSUME NEW o \in Items, NEW a, a # NULL, AL!AllocateNew(o, a)
      PROVE  AllocatingInv'
  <2>1. PICK m \in AL!Allocates(home, a) :
          /\ home' = m.home /\ holds' = [holds EXCEPT ![o] = m.block]
          /\ allocator' = [allocator EXCEPT ![o] = IF m.block = NULL THEN NULL ELSE a]
    BY <1>9 DEF AL!AllocateNew
  <2>2. holds[o] = NULL /\ UNCHANGED <<astray, mixed>> /\ o \in AL!Owners
    BY <1>2, <1>9 DEF AL!AllocateNew
  <2> DEFINE kept == IF m.block = NULL THEN NULL ELSE a
  <2>3. kept # a => m.block = NULL
    OBVIOUS
  <2>. HIDE DEF kept
  <2>4. allocator' = [allocator EXCEPT ![o] = kept]
    BY <2>1 DEF kept
  <2>. QED
    BY <1>9, <2>1, <2>2, <2>3, <2>4, BlockAllocated
<1>10. ASSUME NEW o \in Items, AL!DeleteThis(o)
       PROVE  AllocatingInv'
  BY <1>2, <1>10, BlockFreed DEF AL!DeleteThis
<1>11. ASSUME UNCHANGED AL!vars
       PROVE  AllocatingInv'
  BY <1>11 DEF AL!vars, AllocatingInv, AllocatingTypes, AL!Owners
<1>12. ASSUME NEW o \in Items, AL!AllocateNewStatic(o)
       PROVE  AllocatingInv'
  BY <1>2, <1>9, <1>12 DEF AL!AllocateNewStatic
<1>. QED
  BY <1>2, <1>3, <1>4, <1>5, <1>6, <1>7, <1>8, <1>9, <1>10, <1>11, <1>12 DEF AL!Next

LEMMA AllocatingInit == AL!Init => AllocatingInv
BY DEF AL!Init, AllocatingInv, AllocatingTypes

LEMMA BlocksAtHome == AllocatingInv => AL!BlocksGoHome
<1> SUFFICES ASSUME AllocatingInv
             PROVE  AL!BlocksGoHome
  OBVIOUS
<1>1. {holds[o] : o \in AL!Owners} \ {NULL} = DOMAIN home
  BY DEF AllocatingInv
<1>. QED
  BY <1>1 DEF AllocatingInv, AL!BlocksGoHome

-----------------------------------------------------------------------------
(* UniquePtr                                                                *)

\* Cardinality is the same operator wherever it is named.
LEMMA CountedAlike ==
  ASSUME NEW S
  PROVE  P!Cardinality(S) = Cardinality(S)
BY DEF Cardinality, P!Cardinality

\* The objects that the end of o takes with it, n members deep.
Deeper(B, m) == B \cup ({m[x] : x \in B} \ {NULL})
Belows(b, o, m, n) == b = [k \in 0 .. n |-> IF k = 0 THEN {o} \ {NULL} ELSE Deeper(b[k - 1], m)]

LEMMA BelowsExist ==
  ASSUME NEW o, NEW m, NEW n \in Nat
  PROVE  \E b : Belows(b, o, m, n)
<1> DEFINE Without == {i \in Nat : ~ \E b : Belows(b, o, m, i)}
<1>1. ASSUME Without # {}
      PROVE  FALSE
  <2>1. PICK i \in Without : \A k \in Without : i <= k
    BY <1>1, LeastOf
  <2>2. CASE i = 0
    <3> DEFINE f == [k \in 0 .. 0 |-> {o} \ {NULL}]
    <3>1. Belows(f, o, m, 0)
      BY DEF Belows
    <3>. QED
      BY <2>1, <2>2, <3>1
  <2>3. CASE i # 0
    <3>1. i \in Nat /\ i - 1 \in Nat /\ i - 1 \notin Without
      BY <2>1, <2>3
    <3>2. PICK f : Belows(f, o, m, i - 1)
      BY <3>1
    <3> DEFINE g == [k \in 0 .. i |-> IF k < i THEN f[k] ELSE Deeper(f[i - 1], m)]
    <3>3. ASSUME NEW k \in 0 .. i
          PROVE  g[k] = IF k = 0 THEN {o} \ {NULL} ELSE Deeper(g[k - 1], m)
      <4>1. CASE k = i
        BY <2>3, <3>1, <4>1
      <4>2. CASE k # i
        <5>1. k \in 0 .. i - 1 /\ (k = 0 \/ k - 1 \in 0 .. i - 1)
          BY <3>1, <4>2
        <5>2. f[k] = IF k = 0 THEN {o} \ {NULL} ELSE Deeper(f[k - 1], m)
          BY <3>2, <5>1 DEF Belows
        <5>3. g[k] = f[k] /\ (k = 0 \/ g[k - 1] = f[k - 1])
          BY <3>1, <5>1
        <5>. QED
          BY <5>2, <5>3
      <4>. QED
        BY <4>1, <4>2
    <3>4. g = [k \in 0 .. i |-> g[k]]
      OBVIOUS
    <3>. HIDE DEF g
    <3>5. Belows(g, o, m, i)
      BY <3>3, <3>4 DEF Belows
    <3>. QED
      BY <2>1, <3>5
  <2>. QED
    BY <2>2, <2>3
<1>. QED
  BY <1>1

\* No object is deeper than there are objects: Below() finds them all.
LEMMA BelowIsAll ==
  ASSUME PointersAssumption, NEW m, NEW o \in Objects \cup {NULL},
         \A x \in Objects : m[x] \in Objects \cup {NULL}
  PROVE  LET gone == P!Below(o, m)
         IN  /\ gone \subseteq Objects
             /\ o # NULL => o \in gone
             /\ \A x \in gone : m[x] # NULL => m[x] \in gone
             /\ \A x \in gone : x = o \/ \E y \in gone : m[y] = x
<1> DEFINE n == Cardinality(Objects)
           Closed(B) == \A x \in B : m[x] # NULL => m[x] \in B
           Shape(B) == B \subseteq Objects /\ (o # NULL => o \in B) /\ \A x \in B : x = o \/ \E y \in B : m[y] = x
           Good(B, k) == Shape(B) /\ (Closed(B) \/ Cardinality(B) >= k + 1)
           b == CHOOSE f : Belows(f, o, m, n)
<1>1. IsFiniteSet(Objects) /\ n \in Nat /\ NULL \notin Objects
  BY FS_CardinalityType DEF PointersAssumption
<1>2. Belows(b, o, m, n)
  BY <1>1, BelowsExist
<1>3. P!Below(o, m) = b[n]
  BY CountedAlike DEF P!Below, Belows, Deeper
<1>4. ASSUME NEW B, B \subseteq Objects
      PROVE  IsFiniteSet(B) /\ Cardinality(B) \in Nat /\ Cardinality(B) <= n
  BY <1>1, <1>4, FS_Subset, FS_CardinalityType
<1>. HIDE DEF n, b
<1> DEFINE Bad == {k \in 0 .. n : ~Good(b[k], k)}
<1>5. ASSUME Bad # {}
      PROVE  FALSE
  <2>. HIDE DEF Good
  <2>1. PICK k \in Bad : \A j \in Bad : k <= j
    <3>1. Bad \subseteq Nat
      BY <1>1
    <3>. QED
      BY <1>5, <3>1, LeastOf
  <2>2. k \in 0 .. n /\ ~Good(b[k], k)
    BY <2>1
  <2>3. CASE k = 0
    <3>1. b[k] = {o} \ {NULL}
      BY <1>2, <2>2, <2>3 DEF Belows
    <3>2. CASE o = NULL
      BY <2>2, <3>1, <3>2 DEF Good
    <3>3. CASE o # NULL
      <4>1. b[k] = {o}
        BY <3>1, <3>3
      <4>2. Cardinality(b[k]) >= k + 1
        BY <2>3, <4>1, FS_Singleton
      <4>3. Shape(b[k])
        BY <3>3, <4>1
      <4>. QED
        BY <2>2, <4>2, <4>3 DEF Good
    <3>. QED
      BY <3>2, <3>3
  <2>4. CASE k # 0
    <3> DEFINE B == b[k - 1]
               D == b[k]
    <3>1. k \in Nat /\ k - 1 \in 0 .. n /\ k - 1 \notin Bad
      BY <1>1, <2>1, <2>2, <2>4
    <3>2. Good(B, k - 1)
      BY <3>1
    <3>3. D = B \cup ({m[x] : x \in B} \ {NULL})
      BY <1>2, <2>2, <2>4 DEF Belows, Deeper
    <3>. HIDE DEF B, D
    <3>4. Shape(B) /\ (Closed(B) \/ Cardinality(B) >= (k - 1) + 1)
      BY <3>2 DEF Good
    <3>5. D \subseteq Objects /\ B \subseteq D
      BY <3>3, <3>4
    <3>6. Shape(D)
      BY <3>3, <3>4, <3>5
    <3>7. CASE B = D
      <4>1. Closed(D)
        BY <3>3, <3>7
      <4>. QED
        BY <2>2, <3>6, <4>1 DEF Good, D
    <3>8. CASE B # D /\ Closed(B)
      BY <3>3, <3>8
    <3>9. CASE B # D /\ ~Closed(B)
      <4>1. Cardinality(B) < Cardinality(D)
        <5>1. IsFiniteSet(D)
          BY <1>4, <3>5
        <5>2. Cardinality(B) <= Cardinality(D) /\ (Cardinality(B) = Cardinality(D) => B = D)
          BY <5>1, <3>5, FS_Subset
        <5>3. Cardinality(B) \in Nat /\ Cardinality(D) \in Nat
          BY <1>4, <3>4, <3>5
        <5>. QED
          BY <3>9, <5>2, <5>3
      <4>2. Cardinality(B) \in Nat /\ Cardinality(D) \in Nat
        BY <1>4, <3>4, <3>5
      <4>3. Cardinality(D) >= k + 1
        BY <3>1, <3>4, <3>9, <4>1, <4>2
      <4>. QED
        BY <2>2, <3>6, <4>3 DEF Good, D
    <3>. QED
      BY <3>7, <3>8, <3>9
  <2>. QED
    BY <2>3, <2>4
<1>6. Good(b[n], n)
  BY <1>1, <1>5
<1>7. Shape(b[n]) /\ Closed(b[n])
  <2>1. b[n] \subseteq Objects
    BY <1>6
  <2>2. Cardinality(b[n]) \in Nat /\ Cardinality(b[n]) <= n
    BY <1>4, <2>1
  <2>. QED
    BY <1>1, <1>6, <2>2
<1>. QED
  BY <1>3, <1>7
\* An object is loose, or has one owner, or has been freed.
UniqueInv ==
  /\ owns \in [Unique \cup Objects -> Objects \cup {NULL}]
  /\ loose \subseteq Objects
  /\ freed \in [Objects -> {0, 1}]
  /\ \A o \in Objects, u, v \in Unique \cup Objects : owns[u] = o /\ owns[v] = o => u = v
  /\ \A o \in Objects, u \in Unique \cup Objects : owns[u] = o => o \notin loose /\ freed[o] = 0
  /\ \A o \in loose : freed[o] = 0
  /\ \A o \in Objects : freed[o] = 0 /\ o \notin loose => \E u \in Unique \cup Objects : owns[u] = o

\* An object is owned by at most one pointer.
OneOwnerAtMost(m) == \A o \in Objects, u, v \in Unique \cup Objects : m[u] = o /\ m[v] = o => u = v

\* What one pointer owned goes, with what only that owned.
GoesWith(gone, old, m) ==
  /\ gone \subseteq Objects
  /\ old # NULL => old \in gone
  /\ \A x \in gone : m[x] # NULL => m[x] \in gone
  /\ \A x \in gone : x = old \/ \E y \in gone : m[y] = x

\* The pointers become m, to which some that were loose may have come, and what
\* u had goes.
Hands(u, m, gone, new) ==
  /\ m \in [Unique \cup Objects -> Objects \cup {NULL}] /\ OneOwnerAtMost(m)
  /\ new \subseteq loose /\ u \notin gone /\ GoesWith(gone, owns[u], m)
  /\ \A w \in Unique \cup Objects : m[w] # owns[u] \/ m[w] = NULL
  /\ \A x \in Objects : x \in new <=> x \in loose /\ \E w \in Unique \cup Objects : m[w] = x
  /\ \A w \in Unique \cup Objects, x \in Objects :
       /\ m[w] = x => x \in new \/ \E v \in Unique \cup Objects : owns[v] = x
       /\ owns[w] = x => w = u \/ \E v \in Unique \cup Objects : m[v] = x /\ (v = w \/ v = u)

LEMMA UniqueAfter ==
  ASSUME PointersAssumption, UniqueInv, NEW u \in Unique \cup Objects, NEW gone, NEW m, NEW new, Hands(u, m, gone, new),
         owns' = [v \in DOMAIN m |-> IF v \in gone THEN NULL ELSE m[v]],
         freed' = [x \in Objects |-> IF x \in gone THEN freed[x] + 1 ELSE freed[x]],
         loose' = loose \ new
  PROVE  UniqueInv'
<1>. USE DEF Hands
<1> DEFINE Places == Unique \cup Objects
<1>0. /\ NULL \notin Objects /\ owns \in [Places -> Objects \cup {NULL}] /\ freed \in [Objects -> {0, 1}]
      /\ loose \subseteq Objects
  BY DEF PointersAssumption, UniqueInv
<1>1. \A w \in Places : owns'[w] = IF w \in gone THEN NULL ELSE m[w]
  OBVIOUS
<1>2. owns' \in [Places -> Objects \cup {NULL}]
  OBVIOUS
<1>3. \A x \in gone : x \in Objects /\ freed[x] = 0 /\ \A w \in Places : owns'[w] # x
  <2>. SUFFICES ASSUME NEW x \in gone
                PROVE  x \in Objects /\ freed[x] = 0 /\ \A w \in Places : owns'[w] # x
    OBVIOUS
  <2>1. x \in Objects
    BY DEF GoesWith
  <2>2. CASE x = owns[u]
    <3>1. freed[x] = 0
      BY <2>1, <2>2 DEF UniqueInv
    <3>2. \A w \in Places : owns'[w] # x
      BY <1>0, <1>1, <2>1, <2>2
    <3>. QED
      BY <2>1, <3>1, <3>2
  <2>3. CASE \E y \in gone : m[y] = x
    <3>1. PICK y \in gone : m[y] = x
      BY <2>3
    <3>2. y \in Places
      BY <3>1 DEF GoesWith
    <3>3. freed[x] = 0
      BY <2>1, <3>1, <3>2 DEF UniqueInv
    <3>4. \A w \in Places : m[w] = x => w = y
      BY <2>1, <3>1, <3>2 DEF OneOwnerAtMost
    <3>5. \A w \in Places : owns'[w] # x
      BY <1>0, <1>1, <2>1, <3>1, <3>4
    <3>. QED
      BY <2>1, <3>3, <3>5
  <2>. QED
    BY <2>2, <2>3 DEF GoesWith
<1>4. freed' \in [Objects -> {0, 1}] /\ \A x \in Objects : freed'[x] = IF x \in gone THEN 1 ELSE freed[x]
  BY <1>0, <1>3
<1>5. ASSUME NEW x \in Objects, NEW v \in Places, NEW w \in Places, owns'[v] = x, owns'[w] = x
      PROVE  v = w
  <2>1. m[v] = x /\ m[w] = x
    BY <1>0, <1>1, <1>5
  <2>. QED
    BY <2>1 DEF OneOwnerAtMost
<1>6. ASSUME NEW x \in Objects, NEW v \in Places, owns'[v] = x
      PROVE  x \notin loose' /\ freed'[x] = 0
  <2>1. m[v] = x
    BY <1>0, <1>1, <1>6
  <2>2. x \notin gone
    BY <1>3, <1>6
  <2>3. x \in new \/ \E w \in Places : owns[w] = x
    BY <2>1
  <2>4. freed[x] = 0 /\ x \notin loose'
    BY <2>3 DEF UniqueInv
  <2>. QED
    BY <1>4, <2>2, <2>4
<1>7. ASSUME NEW x \in loose'
      PROVE  freed'[x] = 0
  <2>1. x \in loose /\ x \in Objects /\ freed[x] = 0 /\ x \notin new
    BY <1>0, <1>7 DEF UniqueInv
  <2>2. \A w \in Places : owns[w] # x /\ m[w] # x
    BY <2>1 DEF UniqueInv
  <2>3. x \notin gone
    <3>1. ASSUME x \in gone
          PROVE  FALSE
      <4>1. \E y \in gone : m[y] = x
        BY <2>2, <3>1 DEF GoesWith
      <4>. QED
        BY <2>2, <4>1 DEF GoesWith
    <3>. QED
      BY <3>1
  <2>. QED
    BY <1>4, <2>1, <2>3
<1>8. ASSUME NEW x \in Objects, freed'[x] = 0, x \notin loose'
      PROVE  \E v \in Places : owns'[v] = x
  <2>1. x \notin gone /\ freed[x] = 0
    BY <1>0, <1>4, <1>8
  <2>2. \E v \in Places : m[v] = x
    <3>1. CASE x \in new
      BY <3>1
    <3>2. CASE x \notin new
      <4>1. PICK w \in Places : owns[w] = x
        BY <1>8, <2>1, <3>2 DEF UniqueInv
      <4>2. w # u
        BY <1>0, <2>1, <4>1 DEF GoesWith
      <4>. QED
        BY <4>1, <4>2
    <3>. QED
      BY <3>1, <3>2
  <2>3. PICK v \in Places : m[v] = x
    BY <2>2
  <2>4. v \notin gone
    BY <1>0, <2>1, <2>3 DEF GoesWith
  <2>. QED
    BY <1>1, <2>3, <2>4
<1>9. loose' \subseteq Objects
  BY <1>0
<1>. QED
  BY <1>2, <1>4, <1>5, <1>6, <1>7, <1>8, <1>9 DEF UniqueInv

\* A pointer that the program names is not in what another pointer, or its own,
\* keeps alive.
LEMMA NamedStays ==
  ASSUME PointersAssumption, UniqueInv, NEW u \in P!NamedUnique, NEW gone, NEW m, GoesWith(gone, owns[u], m),
         \A y \in gone : m[y] = owns[y] \/ m[y] = NULL \/ m[y] # u
  PROVE  u \notin gone
<1>1. CASE u \in Unique
  BY <1>1 DEF PointersAssumption, GoesWith
<1>2. CASE u \notin Unique
  <2>1. PICK w \in Unique : owns[w] = u
    BY <1>2 DEF P!NamedUnique
  <2>2. u \in Objects /\ w \notin Objects /\ u # NULL
    BY <1>2, <2>1 DEF P!NamedUnique, UniqueInv, PointersAssumption
  <2>3. \A y \in Objects : owns[y] # u
    BY <2>1, <2>2 DEF UniqueInv
  <2>4. u # owns[u]
    BY <2>2, <2>3
  <2>5. ASSUME u \in gone
        PROVE  FALSE
    <3>1. PICK y \in gone : m[y] = u
      BY <2>4, <2>5 DEF GoesWith
    <3>2. y \in Objects /\ owns[y] = u
      BY <2>2, <3>1 DEF GoesWith
    <3>. QED
      BY <2>3, <3>2
  <2>. QED
    BY <2>5
<1>. QED
  BY <1>1, <1>2

LEMMA NamedIsPlace ==
  ASSUME UniqueInv, NEW u \in P!NamedUnique
  PROVE  u \in Unique \cup Objects
BY DEF P!NamedUnique, UniqueInv

\* reset(ptr)
LEMMA ResetKeeps ==
  ASSUME PointersAssumption, UniqueInv, NEW u \in P!NamedUnique, NEW o \in loose \cup {NULL}, P!ResetUnique(u, o)
  PROVE  UniqueInv'
<1> DEFINE Places == Unique \cup Objects
           m == [owns EXCEPT ![u] = o]
           gone == P!Below(owns[u], m)
           new == {o} \ {NULL}
<1>0. /\ u \in Places /\ NULL \notin Objects /\ owns \in [Places -> Objects \cup {NULL}] /\ loose \subseteq Objects
      /\ o \in Objects \cup {NULL}
  BY NamedIsPlace DEF PointersAssumption, UniqueInv
<1>1. CASE owns[u] = o
  <2>1. UNCHANGED P!uniqueVars
    BY <1>1 DEF P!ResetUnique
  <2>2. owns' = owns /\ loose' = loose /\ freed' = freed
    BY <2>1 DEF P!uniqueVars
  <2>. QED
    BY <2>2 DEF UniqueInv
<1>2. CASE owns[u] # o
  <2>1. /\ owns' = [v \in DOMAIN m |-> IF v \in gone THEN NULL ELSE m[v]]
        /\ freed' = [x \in Objects |-> IF x \in gone THEN freed[x] + 1 ELSE freed[x]]
        /\ loose' = loose \ {o}
    BY <1>2 DEF P!ResetUnique
  <2>2. loose' = loose \ new /\ new \subseteq loose
    BY <1>0, <2>1
  <2>3. m \in [Places -> Objects \cup {NULL}] /\ m[u] = o /\ \A w \in Places : w # u => m[w] = owns[w]
    BY <1>0
  <2>4. GoesWith(gone, owns[u], m)
    <3>1. owns[u] \in Objects \cup {NULL} /\ \A x \in Objects : m[x] \in Objects \cup {NULL}
      BY <1>0, <2>3
    <3>. HIDE DEF m
    <3>. QED
      BY <3>1, BelowIsAll DEF GoesWith
  <2>. HIDE DEF m, gone
  <2>5. \A x \in loose, w \in Places : owns[w] # x
    BY <1>0 DEF UniqueInv
  <2>6. u \notin gone
    <3>1. \A y \in gone : m[y] = owns[y] \/ m[y] = NULL \/ m[y] # u
      <4>1. gone \subseteq Objects
        BY <2>4 DEF GoesWith
      <4>2. u \in Objects => o # u
        <5>1. u \in Objects => \E w \in Unique : owns[w] = u
          BY DEF P!NamedUnique, PointersAssumption
        <5>. QED
          BY <1>0, <2>5, <5>1
      <4>. QED
        BY <2>3, <4>1, <4>2
    <3>. QED
      BY <2>4, <3>1, NamedStays
  <2>7. OneOwnerAtMost(m)
    BY <1>0, <2>3, <2>5 DEF OneOwnerAtMost, UniqueInv
  <2>8. \A w \in Places : m[w] # owns[u] \/ m[w] = NULL
    BY <1>0, <1>2, <2>3 DEF UniqueInv
  <2>9. \A x \in Objects : x \in new <=> x \in loose /\ \E w \in Places : m[w] = x
    BY <1>0, <2>3, <2>5
  <2>10. \A w \in Places, x \in Objects :
           /\ m[w] = x => x \in new \/ \E v \in Places : owns[v] = x
           /\ owns[w] = x => w = u \/ \E v \in Places : m[v] = x /\ (v = w \/ v = u)
    BY <1>0, <2>3
  <2>. HIDE DEF new
  <2>. QED
    <3>1. Hands(u, m, gone, new)
      BY <2>2, <2>3, <2>4, <2>6, <2>7, <2>8, <2>9, <2>10 DEF Hands
    <3>. QED
      BY <1>0, <2>1, <2>2, <3>1, UniqueAfter, Zenon
<1>. QED
  BY <1>1, <1>2

\* u.reset(v.release())
LEMMA TransferKeeps ==
  ASSUME PointersAssumption, UniqueInv, NEW u \in P!NamedUnique, NEW v \in P!NamedUnique,
         u \notin P!Below(owns[v], owns) \cup {v}, P!Transfer(u, v)
  PROVE  UniqueInv'
<1> DEFINE Places == Unique \cup Objects
           m == [owns EXCEPT ![v] = NULL, ![u] = owns[v]]
           gone == IF owns[u] \in {NULL, m[u]} THEN {} ELSE P!Below(owns[u], m)
<1>0. /\ u \in Places /\ v \in Places /\ u # v
      /\ NULL \notin Objects /\ owns \in [Places -> Objects \cup {NULL}] /\ loose \subseteq Objects
  BY NamedIsPlace DEF PointersAssumption, UniqueInv
<1>1. /\ owns' = [w \in DOMAIN m |-> IF w \in gone THEN NULL ELSE m[w]]
      /\ freed' = [x \in Objects |-> IF x \in gone THEN freed[x] + 1 ELSE freed[x]]
      /\ loose' = loose
  BY DEF P!Transfer
<1>2. loose' = loose \ {} /\ {} \subseteq loose
  BY <1>1
<1>3. /\ m \in [Places -> Objects \cup {NULL}] /\ m[u] = owns[v] /\ m[v] = NULL
      /\ \A w \in Places : w # u /\ w # v => m[w] = owns[w]
  BY <1>0
<1>4. owns[u] = NULL \/ m[u] # owns[u]
  BY <1>0, <1>3 DEF UniqueInv
<1>5. GoesWith(gone, owns[u], m)
  <2>1. owns[u] \in Objects \cup {NULL} /\ \A x \in Objects : m[x] \in Objects \cup {NULL}
    BY <1>0, <1>3
  <2>2. CASE owns[u] = NULL
    BY <2>2 DEF GoesWith
  <2>3. CASE owns[u] # NULL
    <3>1. gone = P!Below(owns[u], m)
      BY <1>4, <2>3
    <3>. HIDE DEF m, gone
    <3>. QED
      BY <2>1, <3>1, BelowIsAll DEF GoesWith
  <2>. QED
    BY <2>2, <2>3
<1>. HIDE DEF m, gone
<1>6. u # owns[v]
  <2>1. owns[v] \in Objects \cup {NULL} /\ \A x \in Objects : owns[x] \in Objects \cup {NULL}
    BY <1>0
  <2>2. owns[v] # NULL => owns[v] \in P!Below(owns[v], owns)
    BY <2>1, BelowIsAll
  <2>3. u # NULL
    BY <1>0 DEF PointersAssumption
  <2>. QED
    BY <2>2, <2>3
<1>7. u \notin gone
  <2>1. \A y \in gone : m[y] = owns[y] \/ m[y] = NULL \/ m[y] # u
    BY <1>3, <1>5, <1>6 DEF GoesWith
  <2>. QED
    BY <1>5, <2>1, NamedStays
<1>8. OneOwnerAtMost(m)
  <2>. SUFFICES ASSUME NEW x \in Objects, NEW w \in Places, NEW z \in Places, m[w] = x, m[z] = x
                PROVE  w = z
    BY DEF OneOwnerAtMost
  <2>1. w # v /\ z # v
    BY <1>0, <1>3
  <2>2. \A a, b \in Places : owns[a] = x /\ owns[b] = x => a = b
    BY DEF UniqueInv
  <2>3. (w # u => owns[w] = x) /\ (z # u => owns[z] = x)
    BY <1>3, <2>1
  <2>4. (w = u => owns[v] = x) /\ (z = u => owns[v] = x)
    BY <1>3
  <2>. QED
    BY <1>0, <2>1, <2>2, <2>3, <2>4
<1>9. \A w \in Places : m[w] # owns[u] \/ m[w] = NULL
  BY <1>0, <1>3, <1>4 DEF UniqueInv
<1>10. ASSUME NEW w \in Places, NEW x \in Objects
       PROVE  /\ m[w] = x => \E z \in Places : owns[z] = x
              /\ owns[w] = x => w = u \/ \E z \in Places : m[z] = x /\ (z = w \/ z = u)
  BY <1>0, <1>3
<1>11. \A x \in Objects : x \in {} <=> x \in loose /\ \E w \in Places : m[w] = x
  BY <1>10 DEF UniqueInv
<1>12. \A w \in Places, x \in Objects :
         /\ m[w] = x => x \in {} \/ \E z \in Places : owns[z] = x
         /\ owns[w] = x => w = u \/ \E z \in Places : m[z] = x /\ (z = w \/ z = u)
  BY <1>10
<1>. QED
  <2>1. Hands(u, m, gone, {})
    BY <1>2, <1>3, <1>5, <1>7, <1>8, <1>9, <1>11, <1>12 DEF Hands
  <2>. QED
    BY <1>0, <1>1, <1>2, <2>1, UniqueAfter, Zenon

LEMMA UniqueStep == PointersAssumption /\ UniqueInv /\ [P!UniqueNext]_P!uniqueVars => UniqueInv'
<1>. SUFFICES ASSUME PointersAssumption, UniqueInv, [P!UniqueNext]_P!uniqueVars
              PROVE  UniqueInv'
  OBVIOUS
<1>1. CASE UNCHANGED P!uniqueVars
  BY <1>1 DEF P!uniqueVars, UniqueInv
<1>2. ASSUME NEW u \in P!NamedUnique, P!ReleaseUnique(u)
      PROVE  UniqueInv'
  <2>1. u \in Unique \cup Objects /\ owns[u] \in Objects /\ owns[u] # NULL
    BY <1>2, NamedIsPlace DEF P!ReleaseUnique, UniqueInv
  <2>2. owns' = [owns EXCEPT ![u] = NULL] /\ loose' = loose \cup {owns[u]} /\ freed' = freed
    BY <1>2 DEF P!ReleaseUnique
  <2>3. NULL \notin Objects
    BY DEF PointersAssumption
  <2>4. owns' \in [Unique \cup Objects -> Objects \cup {NULL}] /\ loose' \subseteq Objects /\ freed' \in [Objects -> {0, 1}]
    BY <2>1, <2>2 DEF UniqueInv
  <2>5. \A w \in Unique \cup Objects : owns'[w] = IF w = u THEN NULL ELSE owns[w]
    BY <2>2 DEF UniqueInv
  <2>6. \A x \in Objects, v, w \in Unique \cup Objects : owns'[v] = x /\ owns'[w] = x => v = w
    BY <2>3, <2>5 DEF UniqueInv
  <2>7. \A x \in Objects, w \in Unique \cup Objects : owns'[w] = x => x \notin loose' /\ freed'[x] = 0
    BY <2>1, <2>2, <2>3, <2>5 DEF UniqueInv
  <2>8. \A x \in loose' : freed'[x] = 0
    BY <2>1, <2>2 DEF UniqueInv
  <2>9. \A x \in Objects : freed'[x] = 0 /\ x \notin loose' => \E w \in Unique \cup Objects : owns'[w] = x
    BY <2>1, <2>2, <2>5 DEF UniqueInv
  <2>. QED
    BY <2>4, <2>6, <2>7, <2>8, <2>9 DEF UniqueInv
<1>3. CASE P!UniqueNext
  <2>1. PICK u \in P!NamedUnique :
          \/ \E o \in loose \cup {NULL} : P!ResetUnique(u, o)
          \/ P!ReleaseUnique(u)
          \/ \E v \in P!NamedUnique : u \notin P!Below(owns[v], owns) \cup {v} /\ P!Transfer(u, v)
    BY <1>3 DEF P!UniqueNext
  <2>. QED
    BY <1>2, <2>1, ResetKeeps, TransferKeeps
<1>. QED
  BY <1>1, <1>3

LEMMA UniqueInit == PointersAssumption /\ P!UniqueInit => UniqueInv
BY DEF PointersAssumption, P!UniqueInit, UniqueInv

\* Each object has one of the three, as the property counts them.
LEMMA OwnedOnceThen == PointersAssumption /\ UniqueInv => P!OwnedOnce
<1>. SUFFICES ASSUME PointersAssumption, UniqueInv, NEW o \in Objects
              PROVE  freed[o] + Cardinality({u \in DOMAIN owns : owns[u] = o}) + Cardinality({o} \cap loose) = 1
  BY CountedAlike DEF P!OwnedOnce
<1> DEFINE owners == {u \in DOMAIN owns : owns[u] = o}
<1>1. DOMAIN owns = Unique \cup Objects /\ freed[o] \in {0, 1}
  BY DEF UniqueInv
<1>2. \A S : S = {} \/ (\E x : S = {x}) => Cardinality(S) = IF S = {} THEN 0 ELSE 1
  BY FS_EmptySet, FS_Singleton
<1>3. owners = {} \/ \E x : owners = {x}
  <2>1. \A u, v \in owners : u = v
    BY <1>1 DEF UniqueInv
  <2>. QED
    BY <2>1, Zenon
<1>4. Cardinality(owners) = IF owners = {} THEN 0 ELSE 1
  BY <1>2, <1>3
<1>5. Cardinality({o} \cap loose) = IF o \in loose THEN 1 ELSE 0
  <2>1. {o} \cap loose = (IF o \in loose THEN {o} ELSE {})
    OBVIOUS
  <2>. QED
    BY <2>1, FS_EmptySet, FS_Singleton
<1>6. CASE o \in loose
  <2>1. owners = {} /\ freed[o] = 0
    BY <1>1, <1>6 DEF UniqueInv
  <2>. QED
    BY <1>4, <1>5, <1>6, <2>1
<1>7. CASE o \notin loose /\ freed[o] = 0
  <2>1. owners # {}
    BY <1>1, <1>7 DEF UniqueInv
  <2>. QED
    BY <1>4, <1>5, <1>7, <2>1
<1>8. CASE o \notin loose /\ freed[o] = 1
  <2>1. owners = {}
    BY <1>1, <1>8 DEF UniqueInv
  <2>. QED
    BY <1>4, <1>5, <1>8, <2>1
<1>. QED
  BY <1>1, <1>6, <1>7, <1>8

-----------------------------------------------------------------------------
(* SharedPtr and WeakPtr                                                    *)

SPlaces == Shared \cup Objects
WPlaces == Weak \cup Objects
AnObject == Objects \cup {NULL}
Calls == {"release", "weak_release"} \X AnObject

HeapTypes == [live : SUBSET Objects, block : SUBSET Objects, ref : [Objects -> Nat], weak : [Objects -> Nat],
              shared : [SPlaces -> [ptr : AnObject, sc : AnObject]],
              weakly : [WPlaces -> [ptr : AnObject, wc : AnObject]]]

\* The SharedPtrs and WeakPtrs to x, and the releases of x that are to come.
Holds(s, x) == {p \in SPlaces : s.shared[p].sc = x}
Watches(s, x) == {w \in WPlaces : s.weakly[w].wc = x}
Held(s, x) == Cardinality(Holds(s, x))
Watched(s, x) == Cardinality(Watches(s, x))
Coming(todo, c) == {i \in 1 .. Len(todo) : todo[i] = c}
Pending(todo, c) == Cardinality(Coming(todo, c))

Same(a, b) == IF a = b THEN 1 ELSE 0
Alive(s, x) == IF s.ref[x] > 0 THEN 1 ELSE 0

ObjectHolds(s, x) ==
  /\ x \in s.live <=> s.ref[x] > 0
  /\ x \in s.block <=> s.weak[x] > 0
  /\ s.weakly[x] = IF x \in s.live THEN [ptr |-> x, wc |-> x] ELSE P!NoWeak

\* Between two releases of a cascade: the counts are the pointers, the releases
\* to come, and the references that the function running has.
Counted(s, todo, e) ==
  /\ s \in HeapTypes /\ todo \in Seq(Calls) /\ e \in [Objects -> Nat]
  /\ \A x \in Objects :
       /\ s.ref[x] = Held(s, x) + Pending(todo, <<"release", x>>) + e[x]
       /\ s.weak[x] = Watched(s, x) + Pending(todo, <<"weak_release", x>>) + Alive(s, x)
       /\ ObjectHolds(s, x)
  /\ \A p \in SPlaces : s.shared[p].ptr = s.shared[p].sc
  /\ \A w \in WPlaces : s.weakly[w].wc # NULL => s.ref[s.weakly[w].wc] = 0 \/ s.weakly[w].ptr = s.weakly[w].wc

LEMMA SameIs ==
  \A a, b : /\ Same(a, b) \in {0, 1} /\ (Same(a, b) = 1 <=> a = b)
            /\ (a = b => Same(a, b) = 1) /\ (a # b => Same(a, b) = 0)
BY DEF Same

LEMMA AliveIs ==
  \A s, x : /\ Alive(s, x) \in {0, 1}
            /\ (s.ref[x] > 0 => Alive(s, x) = 1)
            /\ (~(s.ref[x] > 0) => Alive(s, x) = 0)
BY DEF Alive

\* One place may have come to or left a set.
LEMMA OnePlace ==
  ASSUME NEW D, IsFiniteSet(D), NEW p \in D, NEW A \in SUBSET D, NEW B \in SUBSET D,
         \A q \in D : q # p => (q \in A <=> q \in B)
  PROVE  /\ Cardinality(A) \in Nat /\ Cardinality(B) \in Nat
         /\ Cardinality(B) + (IF p \in A THEN 1 ELSE 0) = Cardinality(A) + (IF p \in B THEN 1 ELSE 0)
<1>1. IsFiniteSet(A) /\ IsFiniteSet(B) /\ Cardinality(A) \in Nat /\ Cardinality(B) \in Nat
  BY FS_Subset, FS_CardinalityType
<1>2. CASE p \in A <=> p \in B
  <2>1. A = B
    BY <1>2
  <2>. QED
    BY <1>1, <2>1
<1>3. CASE p \in A /\ p \notin B
  <2>1. A = B \cup {p}
    BY <1>3
  <2>2. Cardinality(A) = Cardinality(B) + 1
    BY <1>1, <1>3, <2>1, FS_AddElement
  <2>. QED
    BY <1>1, <1>3, <2>2
<1>4. CASE p \notin A /\ p \in B
  <2>1. B = A \cup {p}
    BY <1>4
  <2>2. Cardinality(B) = Cardinality(A) + 1
    BY <1>1, <1>4, <2>1, FS_AddElement
  <2>. QED
    BY <1>1, <1>4, <2>2
<1>. QED
  BY <1>2, <1>3, <1>4

LEMMA PlacesCount ==
  ASSUME PointersAssumption, NEW s \in HeapTypes
  PROVE  /\ IsFiniteSet(SPlaces) /\ IsFiniteSet(WPlaces) /\ IsFiniteSet(Objects) /\ NULL \notin Objects
         /\ \A x : /\ Held(s, x) \in Nat /\ (Held(s, x) > 0 <=> \E p \in SPlaces : s.shared[p].sc = x)
                   /\ Watched(s, x) \in Nat /\ (Watched(s, x) > 0 <=> \E w \in WPlaces : s.weakly[w].wc = x)
<1>1. IsFiniteSet(SPlaces) /\ IsFiniteSet(WPlaces) /\ IsFiniteSet(Objects) /\ NULL \notin Objects
  BY FS_Union DEF PointersAssumption, SPlaces, WPlaces
<1>2. \A S : IsFiniteSet(S) => Cardinality(S) \in Nat /\ (Cardinality(S) > 0 <=> S # {})
  BY FS_CardinalityType, FS_EmptySet
<1>3. \A x : IsFiniteSet(Holds(s, x)) /\ IsFiniteSet(Watches(s, x))
  BY <1>1, FS_Subset DEF Holds, Watches
<1>. QED
  BY <1>1, <1>2, <1>3 DEF Held, Watched, Holds, Watches

\* Another pointer is put into a place.
LEMMA SharedMoves ==
  ASSUME PointersAssumption, NEW s \in HeapTypes, NEW t \in HeapTypes, NEW p \in SPlaces, NEW x,
         \A q \in SPlaces : q # p => t.shared[q] = s.shared[q]
  PROVE  Held(t, x) + Same(s.shared[p].sc, x) = Held(s, x) + Same(t.shared[p].sc, x)
<1>1. IsFiniteSet(SPlaces)
  BY PlacesCount
<1>2. \A q \in SPlaces : q # p => (q \in Holds(s, x) <=> q \in Holds(t, x))
  BY DEF Holds
<1>3. Holds(s, x) \in SUBSET SPlaces /\ Holds(t, x) \in SUBSET SPlaces
  BY DEF Holds
<1>4. Held(t, x) + (IF p \in Holds(s, x) THEN 1 ELSE 0) = Held(s, x) + (IF p \in Holds(t, x) THEN 1 ELSE 0)
  BY <1>1, <1>2, <1>3, OnePlace DEF Held
<1>. QED
  BY <1>4 DEF Holds, Same

LEMMA WeaklyMoves ==
  ASSUME PointersAssumption, NEW s \in HeapTypes, NEW t \in HeapTypes, NEW p \in WPlaces, NEW x,
         \A q \in WPlaces : q # p => t.weakly[q] = s.weakly[q]
  PROVE  Watched(t, x) + Same(s.weakly[p].wc, x) = Watched(s, x) + Same(t.weakly[p].wc, x)
<1>1. IsFiniteSet(WPlaces)
  BY PlacesCount
<1>2. \A q \in WPlaces : q # p => (q \in Watches(s, x) <=> q \in Watches(t, x))
  BY DEF Watches
<1>3. Watches(s, x) \in SUBSET WPlaces /\ Watches(t, x) \in SUBSET WPlaces
  BY DEF Watches
<1>4. Watched(t, x) + (IF p \in Watches(s, x) THEN 1 ELSE 0) = Watched(s, x) + (IF p \in Watches(t, x) THEN 1 ELSE 0)
  BY <1>1, <1>2, <1>3, OnePlace DEF Watched
<1>. QED
  BY <1>4 DEF Watches, Same

\* Numbers moved up by one are as many.
LEMMA MovedUp ==
  ASSUME NEW S \in SUBSET Nat, IsFiniteSet(S)
  PROVE  IsFiniteSet({i + 1 : i \in S}) /\ Cardinality({i + 1 : i \in S}) = Cardinality(S)
<1> DEFINE U == {i + 1 : i \in S}
           f == [i \in S |-> i + 1]
<1>1. f \in Bijection(S, U)
  <2>1. f \in [S -> U]
    BY Zenon
  <2>2. \A a, b \in S : f[a] = f[b] => a = b
    BY SMT
  <2>3. \A u \in U : \E i \in S : f[i] = u
    BY Zenon
  <2>. QED
    BY <2>1, <2>2, <2>3, Zenon DEF Bijection, Injection, Surjection, IsInjective
<1>2. ExistsBijection(S, U)
  BY <1>1 DEF ExistsBijection
<1>. QED
  BY <1>2, FS_Bijection

\* A call put in front of others is counted with them.
LEMMA OneMoreComing ==
  ASSUME NEW q \in Seq(Calls), NEW c \in Calls, NEW d
  PROVE  /\ Pending(q, d) \in Nat
         /\ Pending(<<c>> \o q, d) = Pending(q, d) + Same(c, d)
<1> DEFINE n == <<c>> \o q
           S == Coming(q, d)
           U == {i + 1 : i \in S}
<1>1. Len(q) \in Nat /\ n \in Seq(Calls) /\ Len(n) = Len(q) + 1 /\ n[1] = c /\ \A i \in 1 .. Len(q) : n[i + 1] = q[i]
  OBVIOUS
<1>. HIDE DEF n
<1>2. S \in SUBSET Nat /\ IsFiniteSet(S)
  <2>1. S \subseteq 1 .. Len(q) /\ IsFiniteSet(1 .. Len(q))
    BY <1>1, FS_Interval DEF Coming
  <2>. QED
    BY <1>1, <2>1, FS_Subset
<1>3. Cardinality(S) \in Nat /\ IsFiniteSet(U) /\ Cardinality(U) = Cardinality(S)
  BY <1>2, MovedUp, FS_CardinalityType
<1>4. \A j \in 1 .. Len(n) : j = 1 \/ j - 1 \in 1 .. Len(q)
  BY <1>1
<1>5. Coming(n, d) = U \cup (IF c = d THEN {1} ELSE {})
  <2>1. ASSUME NEW j \in Coming(n, d)
        PROVE  j \in U \cup (IF c = d THEN {1} ELSE {})
    <3>1. j \in 1 .. Len(n) /\ n[j] = d
      BY DEF Coming
    <3>2. CASE j = 1
      BY <1>1, <3>1, <3>2
    <3>3. CASE j # 1
      <4>1. j - 1 \in 1 .. Len(q) /\ j = (j - 1) + 1
        BY <1>1, <1>4, <3>1, <3>3
      <4>2. j - 1 \in S
        BY <1>1, <3>1, <4>1 DEF Coming
      <4>. QED
        BY <4>1, <4>2
    <3>. QED
      BY <3>2, <3>3
  <2>2. ASSUME NEW j \in U \cup (IF c = d THEN {1} ELSE {})
        PROVE  j \in Coming(n, d)
    <3>1. CASE j \in U
      <4>1. PICK i \in S : j = i + 1
        BY <3>1
      <4>. QED
        BY <1>1, <4>1 DEF Coming
    <3>2. CASE j \notin U
      BY <1>1, <3>2 DEF Coming
    <3>. QED
      BY <3>1, <3>2
  <2>. QED
    BY <2>1, <2>2
<1>6. 1 \notin U
  BY DEF Coming
<1>7. Cardinality(U \cup {1}) = Cardinality(U) + 1
  BY <1>3, <1>6, FS_AddElement
<1>. HIDE DEF U, S
<1>8. Pending(n, d) = Cardinality(S) + Same(c, d)
  <2>1. CASE c = d
    BY <1>3, <1>5, <1>7, <2>1, SameIs DEF Pending
  <2>2. CASE c # d
    <3>1. Coming(n, d) = U
      BY <1>5, <2>2
    <3>. QED
      BY <1>3, <2>2, <3>1, SameIs DEF Pending
  <2>. QED
    BY <2>1, <2>2
<1>. QED
  BY <1>3, <1>8 DEF n, S, Pending

LEMMA NoneComing == \A d : Pending(<<>>, d) = 0
<1>1. \A d : Coming(<<>>, d) = {}
  BY DEF Coming
<1>. QED
  BY <1>1, FS_EmptySet DEF Pending

LEMMA OneComing ==
  ASSUME NEW c \in Calls
  PROVE  \A d : Pending(<<c>>, d) = Same(c, d)
<1>1. <<>> \in Seq(Calls) /\ <<c>> \o <<>> = <<c>>
  OBVIOUS
<1>2. \A d : Pending(<<c>> \o <<>>, d) = Pending(<<>>, d) + Same(c, d)
  BY <1>1, OneMoreComing
<1>. QED
  BY <1>1, <1>2, NoneComing, SameIs

\* A heap has six fields.
LEMMA HeapFields ==
  ASSUME NEW s \in HeapTypes
  PROVE  /\ s.live \in SUBSET Objects /\ s.block \in SUBSET Objects
         /\ s.ref \in [Objects -> Nat] /\ s.weak \in [Objects -> Nat]
         /\ s.shared \in [SPlaces -> [ptr : AnObject, sc : AnObject]]
         /\ s.weakly \in [WPlaces -> [ptr : AnObject, wc : AnObject]]
BY DEF HeapTypes

ReleasedAs(t, s, r, l, sp, wp) == t = [s EXCEPT !.ref = r, !.live = l, !.shared = sp, !.weakly = wp]
WeakReleasedAs(t, s, w, b) == t = [s EXCEPT !.weak = w, !.block = b]

LEMMA HeapChanges ==
  ASSUME NEW s \in HeapTypes, NEW l \in SUBSET Objects, NEW r \in [Objects -> Nat],
         NEW sp \in [SPlaces -> [ptr : AnObject, sc : AnObject]], NEW wp \in [WPlaces -> [ptr : AnObject, wc : AnObject]],
         NEW t, ReleasedAs(t, s, r, l, sp, wp)
  PROVE  /\ t \in HeapTypes
         /\ t.live = l /\ t.block = s.block /\ t.ref = r /\ t.weak = s.weak /\ t.shared = sp /\ t.weakly = wp
<1> DEFINE SP == [SPlaces -> [ptr : AnObject, sc : AnObject]]
           WP == [WPlaces -> [ptr : AnObject, wc : AnObject]]
           CO == [Objects -> Nat]
           O == SUBSET Objects
<1>1. s \in [live : O, block : O, ref : CO, weak : CO, shared : SP, weakly : WP]
  BY DEF HeapTypes
<1>2. HeapTypes = [live : O, block : O, ref : CO, weak : CO, shared : SP, weakly : WP]
  BY DEF HeapTypes
<1>3. l \in O /\ r \in CO /\ sp \in SP /\ wp \in WP
  OBVIOUS
<1>. HIDE DEF SP, WP, CO, O
<1>. QED
  BY <1>1, <1>2, <1>3 DEF ReleasedAs, WeakReleasedAs

LEMMA HeapWeakChanges ==
  ASSUME NEW s \in HeapTypes, NEW b \in SUBSET Objects, NEW w \in [Objects -> Nat],
         NEW t, WeakReleasedAs(t, s, w, b)
  PROVE  /\ t \in HeapTypes
         /\ t.live = s.live /\ t.block = b /\ t.ref = s.ref /\ t.weak = w /\ t.shared = s.shared /\ t.weakly = s.weakly
<1> DEFINE SP == [SPlaces -> [ptr : AnObject, sc : AnObject]]
           WP == [WPlaces -> [ptr : AnObject, wc : AnObject]]
           CO == [Objects -> Nat]
           O == SUBSET Objects
<1>1. s \in [live : O, block : O, ref : CO, weak : CO, shared : SP, weakly : WP]
  BY DEF HeapTypes
<1>2. HeapTypes = [live : O, block : O, ref : CO, weak : CO, shared : SP, weakly : WP]
  BY DEF HeapTypes
<1>3. b \in O /\ w \in CO
  OBVIOUS
<1>. HIDE DEF SP, WP, CO, O
<1>. QED
  BY <1>1, <1>2, <1>3 DEF ReleasedAs, WeakReleasedAs

\* One release of a reference: of the last, or not ...
ReleaseMakes(s, o, t, todo) ==
  /\ t \in HeapTypes /\ t.block = s.block /\ t.weak = s.weak
  /\ \A x \in Objects : t.ref[x] = IF x = o THEN s.ref[o] - 1 ELSE s.ref[x]
  /\ s.ref[o] = 1 =>
       /\ todo = <<<<"release", s.shared[o].sc>>, <<"weak_release", s.weakly[o].wc>>, <<"weak_release", o>>>>
       /\ t.live = s.live \ {o}
       /\ \A p \in SPlaces : t.shared[p] = IF p = o THEN P!NoPtr ELSE s.shared[p]
       /\ \A w \in WPlaces : t.weakly[w] = IF w = o THEN P!NoWeak ELSE s.weakly[w]
  /\ s.ref[o] # 1 =>
       /\ todo = <<>>
       /\ t.live = s.live
       /\ \A p \in SPlaces : t.shared[p] = s.shared[p]
       /\ \A w \in WPlaces : t.weakly[w] = s.weakly[w]

LEMMA ReleaseIs ==
  ASSUME NEW s \in HeapTypes, NEW o \in Objects, s.ref[o] > 0
  PROVE  ReleaseMakes(s, o, P!Release(s, o).s, P!Release(s, o).todo)
<1> DEFINE t == P!Release(s, o).s
           last == s.ref[o] = 1
           l == IF last THEN s.live \ {o} ELSE s.live
           r == [s.ref EXCEPT ![o] = s.ref[o] - 1]
           sp == [s.shared EXCEPT ![o] = IF last THEN P!NoPtr ELSE s.shared[o]]
           wp == [s.weakly EXCEPT ![o] = IF last THEN P!NoWeak ELSE s.weakly[o]]
<1>1. ReleasedAs(t, s, r, l, sp, wp)
  BY DEF P!Release, HeapTypes, ReleasedAs
<1>2. P!NoPtr \in [ptr : AnObject, sc : AnObject] /\ P!NoWeak \in [ptr : AnObject, wc : AnObject]
  BY DEF P!NoPtr, P!NoWeak, AnObject
<1>3. o \in SPlaces /\ o \in WPlaces
  BY DEF SPlaces, WPlaces
<1>4. l \in SUBSET Objects /\ \A x \in Objects : r[x] = IF x = o THEN s.ref[o] - 1 ELSE s.ref[x]
  BY HeapFields
<1>5. r \in [Objects -> Nat]
  BY HeapFields
<1>6. sp \in [SPlaces -> [ptr : AnObject, sc : AnObject]] /\ \A p \in SPlaces : sp[p] = IF last /\ p = o THEN P!NoPtr ELSE s.shared[p]
  BY <1>2, <1>3, HeapFields
<1>7. wp \in [WPlaces -> [ptr : AnObject, wc : AnObject]] /\ \A w \in WPlaces : wp[w] = IF last /\ w = o THEN P!NoWeak ELSE s.weakly[w]
  BY <1>2, <1>3, HeapFields
<1>8. P!Release(s, o).todo =
        IF last THEN <<<<"release", s.shared[o].sc>>, <<"weak_release", s.weakly[o].wc>>, <<"weak_release", o>>>> ELSE <<>>
  BY DEF P!Release
<1>. HIDE DEF t, l, r, sp, wp
<1>9. /\ t \in HeapTypes
      /\ t.live = l /\ t.block = s.block /\ t.ref = r /\ t.weak = s.weak /\ t.shared = sp /\ t.weakly = wp
  BY <1>1, <1>4, <1>5, <1>6, <1>7, HeapChanges
<1>. QED
  <2>1. t \in HeapTypes /\ t.block = s.block /\ t.weak = s.weak /\ \A x \in Objects : t.ref[x] = IF x = o THEN s.ref[o] - 1 ELSE s.ref[x]
    BY <1>4, <1>9
  <2>2. CASE s.ref[o] = 1
    <3>1. t.live = s.live \ {o}
      BY <1>9, <2>2 DEF l
    <3>2. \A p \in SPlaces : t.shared[p] = IF p = o THEN P!NoPtr ELSE s.shared[p]
      BY <1>6, <1>9, <2>2
    <3>3. \A w \in WPlaces : t.weakly[w] = IF w = o THEN P!NoWeak ELSE s.weakly[w]
      BY <1>7, <1>9, <2>2
    <3>4. P!Release(s, o).todo = <<<<"release", s.shared[o].sc>>, <<"weak_release", s.weakly[o].wc>>, <<"weak_release", o>>>>
      BY <1>8, <2>2
    <3>. QED
      BY <2>1, <2>2, <3>1, <3>2, <3>3, <3>4, Zenon DEF t, ReleaseMakes
  <2>3. CASE s.ref[o] # 1
    <3>1. t.live = s.live
      BY <1>9, <2>3 DEF l
    <3>2. \A p \in SPlaces : t.shared[p] = s.shared[p]
      BY <1>6, <1>9, <2>3
    <3>3. \A w \in WPlaces : t.weakly[w] = s.weakly[w]
      BY <1>7, <1>9, <2>3
    <3>4. P!Release(s, o).todo = <<>>
      BY <1>8, <2>3
    <3>. QED
      BY <2>1, <2>3, <3>1, <3>2, <3>3, <3>4, Zenon DEF t, ReleaseMakes
  <2>. QED
    BY <2>2, <2>3

\* ... and one of a block.
LEMMA WeakReleaseIs ==
  ASSUME NEW s \in HeapTypes, NEW o \in Objects, s.weak[o] > 0
  PROVE  LET t == P!WeakRelease(s, o).s
         IN  /\ P!WeakRelease(s, o).todo = <<>> /\ t \in HeapTypes
             /\ t.live = s.live /\ t.ref = s.ref /\ t.shared = s.shared /\ t.weakly = s.weakly
             /\ t.block = IF s.weak[o] = 1 THEN s.block \ {o} ELSE s.block
             /\ \A x \in Objects : t.weak[x] = IF x = o THEN s.weak[o] - 1 ELSE s.weak[x]
<1> DEFINE t == P!WeakRelease(s, o).s
           b == IF s.weak[o] = 1 THEN s.block \ {o} ELSE s.block
           w == [s.weak EXCEPT ![o] = s.weak[o] - 1]
<1>1. WeakReleasedAs(t, s, w, b) /\ P!WeakRelease(s, o).todo = <<>>
  BY DEF P!WeakRelease, HeapTypes, WeakReleasedAs
<1>2. b \in SUBSET Objects /\ \A x \in Objects : w[x] = IF x = o THEN s.weak[o] - 1 ELSE s.weak[x]
  BY HeapFields
<1>3. w \in [Objects -> Nat]
  BY HeapFields
<1>. HIDE DEF t, b, w
<1>4. /\ t \in HeapTypes
      /\ t.live = s.live /\ t.block = b /\ t.ref = s.ref /\ t.weak = w /\ t.shared = s.shared /\ t.weakly = s.weakly
  BY <1>1, <1>2, <1>3, HeapWeakChanges
<1>. QED
  BY <1>1, <1>2, <1>4 DEF t, b

\* Three calls in front of others.
LEMMA ThreeMoreComing ==
  ASSUME NEW q \in Seq(Calls), NEW a \in Calls, NEW b \in Calls, NEW c \in Calls, NEW d
  PROVE  Pending(<<a, b, c>> \o q, d) =
           Pending(q, d) + Same(a, d) + Same(b, d) + Same(c, d)
<1> DEFINE q1 == <<c>> \o q
           q2 == <<b>> \o q1
           q3 == <<a>> \o q2
<1>1. q1 \in Seq(Calls)
  OBVIOUS
<1>2. q2 \in Seq(Calls)
  BY <1>1
<1>3. <<a, b, c>> \o q = q3
  <2> DEFINE L == <<a, b, c>> \o q
  <2>1. Len(q) \in Nat /\ L \in Seq(Calls) /\ Len(L) = Len(q) + 3
    OBVIOUS
  <2>2. L[1] = a /\ L[2] = b /\ L[3] = c /\ \A i \in 1 .. Len(q) : L[i + 3] = q[i]
    OBVIOUS
  <2>3. Len(q1) = Len(q) + 1 /\ q1[1] = c /\ \A i \in 1 .. Len(q) : q1[i + 1] = q[i]
    OBVIOUS
  <2>. HIDE DEF L, q1
  <2>4. Len(q2) = Len(q1) + 1 /\ q2[1] = b /\ \A i \in 1 .. Len(q1) : q2[i + 1] = q1[i]
    BY <1>1
  <2>. HIDE DEF q2
  <2>5. q3 \in Seq(Calls) /\ Len(q3) = Len(q2) + 1 /\ q3[1] = a /\ \A i \in 1 .. Len(q2) : q3[i + 1] = q2[i]
    BY <1>2
  <2>. HIDE DEF q3
  <2>6. ASSUME NEW i \in 1 .. Len(L)
        PROVE  L[i] = q3[i]
    <3>1. i \in {1, 2, 3} \/ i - 3 \in 1 .. Len(q)
      BY <2>1
    <3>2. q3[1] = a /\ q3[2] = b /\ q3[3] = c
      <4>1. 1 \in 1 .. Len(q2) /\ 2 \in 1 .. Len(q2) /\ 1 \in 1 .. Len(q1)
        BY <2>1, <2>3, <2>4
      <4>2. q3[1 + 1] = q2[1] /\ q3[2 + 1] = q2[2] /\ q2[1 + 1] = q1[1]
        BY <2>4, <2>5, <4>1
      <4>. QED
        BY <2>3, <2>4, <2>5, <4>2
    <3>3. ASSUME i - 3 \in 1 .. Len(q)
          PROVE  q3[i] = q[i - 3] /\ L[i] = q[i - 3]
      <4>1. i - 2 \in 1 .. Len(q1) /\ i - 1 \in 1 .. Len(q2) /\ (i - 3) + 1 = i - 2 /\ (i - 2) + 1 = i - 1 /\ (i - 1) + 1 = i /\ (i - 3) + 3 = i
        BY <2>1, <2>3, <2>4, <3>3
      <4>2. q1[(i - 3) + 1] = q[i - 3] /\ q2[(i - 2) + 1] = q1[i - 2] /\ q3[(i - 1) + 1] = q2[i - 1] /\ L[(i - 3) + 3] = q[i - 3]
        BY <2>2, <2>3, <2>4, <2>5, <3>3, <4>1
      <4>. QED
        BY <4>1, <4>2
    <3>. QED
      BY <2>2, <3>1, <3>2, <3>3
  <2>7. Len(L) = Len(q3)
    BY <2>1, <2>3, <2>4, <2>5
  <2>8. L = q3
    BY <2>1, <2>5, <2>6, <2>7
  <2>. QED
    BY <2>8 DEF L
<1>4. Pending(q, d) \in Nat /\ Pending(q1, d) = Pending(q, d) + Same(c, d)
  BY OneMoreComing
<1>5. Pending(q2, d) = Pending(q1, d) + Same(b, d)
  BY <1>1, OneMoreComing
<1>6. Pending(q3, d) = Pending(q2, d) + Same(a, d)
  BY <1>2, OneMoreComing
<1>. HIDE DEF q1, q2, q3
<1>7. Same(a, d) \in Nat /\ Same(b, d) \in Nat /\ Same(c, d) \in Nat
  BY SameIs
<1>8. Pending(q3, d) = Pending(q, d) + Same(a, d) + Same(b, d) + Same(c, d)
  BY <1>4, <1>5, <1>6, <1>7
<1>. QED
  BY <1>3, <1>8

LEMMA NamedCalls ==
  /\ \A x \in AnObject : <<"release", x>> \in Calls /\ <<"weak_release", x>> \in Calls
  /\ \A x, y : <<"release", x>> # <<"weak_release", y>>
  /\ \A x, y : /\ <<"release", x>> = <<"release", y>> <=> x = y
               /\ <<"weak_release", x>> = <<"weak_release", y>> <=> x = y
BY DEF Calls

\* The counts of one object.
CountsOf(s, todo, e, x) ==
  /\ s.ref[x] \in Nat /\ s.weak[x] \in Nat /\ e[x] \in Nat /\ Held(s, x) \in Nat /\ Watched(s, x) \in Nat
  /\ s.ref[x] = Held(s, x) + Pending(todo, <<"release", x>>) + e[x]
  /\ s.weak[x] = Watched(s, x) + Pending(todo, <<"weak_release", x>>) + Alive(s, x)
  /\ ObjectHolds(s, x)

LEMMA CountedObject ==
  ASSUME PointersAssumption, NEW s, NEW todo, NEW e, Counted(s, todo, e), NEW x \in Objects
  PROVE  CountsOf(s, todo, e, x)
<1>1. s \in HeapTypes /\ e \in [Objects -> Nat]
  BY DEF Counted
<1>2. s.ref[x] \in Nat /\ s.weak[x] \in Nat /\ e[x] \in Nat
  BY <1>1, HeapFields
<1>3. Held(s, x) \in Nat /\ Watched(s, x) \in Nat
  BY <1>1, PlacesCount
<1>. QED
  BY <1>2, <1>3 DEF Counted, CountsOf

LEMMA CallComes ==
  ASSUME NEW rest \in Seq(Calls), NEW o \in Objects, NEW x \in Objects
  PROVE  /\ Pending(rest, <<"release", x>>) \in Nat /\ Pending(rest, <<"weak_release", x>>) \in Nat
         /\ Pending(<<<<"release", o>>>> \o rest, <<"release", x>>) = Pending(rest, <<"release", x>>) + Same(o, x)
         /\ Pending(<<<<"release", o>>>> \o rest, <<"weak_release", x>>) = Pending(rest, <<"weak_release", x>>)
         /\ Pending(<<<<"weak_release", o>>>> \o rest, <<"release", x>>) = Pending(rest, <<"release", x>>)
         /\ Pending(<<<<"weak_release", o>>>> \o rest, <<"weak_release", x>>) = Pending(rest, <<"weak_release", x>>) + Same(o, x)
<1> DEFINE a == <<"release", o>>
           b == <<"weak_release", o>>
           c == <<"release", x>>
           d == <<"weak_release", x>>
<1>1. a \in Calls /\ b \in Calls
  BY NamedCalls DEF AnObject
<1>2. Same(a, c) = Same(o, x) /\ Same(a, d) = 0 /\ Same(b, c) = 0 /\ Same(b, d) = Same(o, x)
  BY NamedCalls DEF Same
<1>. HIDE DEF a, b, c, d
<1>3. Pending(rest, c) \in Nat /\ Pending(rest, d) \in Nat
  BY <1>1, OneMoreComing
<1>4. /\ Pending(<<a>> \o rest, c) = Pending(rest, c) + Same(a, c) /\ Pending(<<a>> \o rest, d) = Pending(rest, d) + Same(a, d)
      /\ Pending(<<b>> \o rest, c) = Pending(rest, c) + Same(b, c) /\ Pending(<<b>> \o rest, d) = Pending(rest, d) + Same(b, d)
  BY <1>1, OneMoreComing
<1>. QED
  BY <1>2, <1>3, <1>4 DEF a, b, c, d

\* What is counted of an object before a release of o, the releases after it,
\* and o's share.
CountedBefore(s, o, rest, e, x) ==
  /\ s.ref[x] = Held(s, x) + Pending(rest, <<"release", x>>) + Same(o, x) + e[x]
  /\ s.weak[x] = Watched(s, x) + Pending(rest, <<"weak_release", x>>) + Alive(s, x)
  /\ s.ref[x] \in Nat /\ s.weak[x] \in Nat /\ e[x] \in Nat /\ Held(s, x) \in Nat /\ Watched(s, x) \in Nat
  /\ Pending(rest, <<"release", x>>) \in Nat /\ Pending(rest, <<"weak_release", x>>) \in Nat
  /\ Same(o, x) \in Nat /\ Alive(s, x) \in {0, 1}
  /\ ObjectHolds(s, x)
  /\ x = o => s.ref[x] > 0 /\ s.ref[x] = Held(s, x) + Pending(rest, <<"release", x>>) + 1 + e[x]

LEMMA BeforeRelease ==
  ASSUME PointersAssumption, NEW s, NEW o \in Objects, NEW rest \in Seq(Calls), NEW e, NEW x \in Objects,
         Counted(s, <<<<"release", o>>>> \o rest, e)
  PROVE  CountedBefore(s, o, rest, e, x)
<1> DEFINE h == Held(s, x)
           w == Watched(s, x)
           P1 == Pending(rest, <<"release", x>>)
           P2 == Pending(rest, <<"weak_release", x>>)
           todo == <<<<"release", o>>>> \o rest
<1>1. /\ s.ref[x] \in Nat /\ s.weak[x] \in Nat /\ e[x] \in Nat /\ h \in Nat /\ w \in Nat
      /\ s.ref[x] = h + Pending(todo, <<"release", x>>) + e[x]
      /\ s.weak[x] = w + Pending(todo, <<"weak_release", x>>) + Alive(s, x)
      /\ ObjectHolds(s, x)
  BY CountedObject DEF CountsOf
<1>2. P1 \in Nat /\ P2 \in Nat /\ Pending(todo, <<"release", x>>) = P1 + Same(o, x) /\ Pending(todo, <<"weak_release", x>>) = P2
  BY CallComes
<1>3. Same(o, x) \in Nat /\ Alive(s, x) \in {0, 1} /\ (x = o => Same(o, x) = 1)
  BY DEF Same, Alive
<1>. HIDE DEF h, w, P1, P2, todo
<1>4. s.ref[x] = h + P1 + Same(o, x) + e[x] /\ s.weak[x] = w + P2 + Alive(s, x)
  BY <1>1, <1>2, <1>3
<1>5. x = o => s.ref[x] > 0 /\ s.ref[x] = h + P1 + 1 + e[x]
  BY <1>1, <1>2, <1>3, <1>4
<1>. QED
  BY <1>1, <1>2, <1>3, <1>4, <1>5 DEF h, w, P1, P2, CountedBefore

\* Weak pointers still name the object that lives, if what they named did.
LEMMA WeaksAfter ==
  ASSUME NEW s \in HeapTypes, NEW t \in HeapTypes,
         \A w \in WPlaces : s.weakly[w].wc # NULL => s.ref[s.weakly[w].wc] = 0 \/ s.weakly[w].ptr = s.weakly[w].wc,
         \A w \in WPlaces : t.weakly[w] = s.weakly[w] \/ t.weakly[w] = P!NoWeak,
         \A x \in Objects : s.ref[x] = 0 => t.ref[x] = 0
  PROVE  \A w \in WPlaces : t.weakly[w].wc # NULL => t.ref[t.weakly[w].wc] = 0 \/ t.weakly[w].ptr = t.weakly[w].wc
<1>. SUFFICES ASSUME NEW w \in WPlaces, t.weakly[w].wc # NULL, t.weakly[w].ptr # t.weakly[w].wc
              PROVE  t.ref[t.weakly[w].wc] = 0
  OBVIOUS
<1>1. P!NoWeak.wc = NULL
  BY DEF P!NoWeak
<1>2. t.weakly[w] = s.weakly[w]
  BY <1>1
<1>3. s.weakly[w].wc \in Objects
  <2>1. s.weakly[w].wc \in AnObject
    BY HeapFields
  <2>. QED
    BY <1>2, <2>1 DEF AnObject
<1>. QED
  BY <1>2, <1>3

\* A release of one reference among others keeps the counts ...
LEMMA ReleaseOneKeeps ==
  ASSUME PointersAssumption, NEW s, NEW o \in Objects, NEW rest \in Seq(Calls), NEW e,
         Counted(s, <<<<"release", o>>>> \o rest, e), s.ref[o] # 1
  PROVE  LET n == P!Release(s, o)
         IN  n.todo = <<>> /\ n.s.live = s.live /\ Counted(n.s, rest, e)
<1> DEFINE t == P!Release(s, o).s
<1>0. s \in HeapTypes /\ e \in [Objects -> Nat] /\ NULL \notin Objects /\ o \in SPlaces /\ o \in WPlaces
  BY DEF Counted, PointersAssumption, AnObject, SPlaces, WPlaces
<1>1. s.ref[o] > 0 /\ s.ref[o] \in Nat
  BY BeforeRelease DEF CountedBefore
<1>2. /\ t \in HeapTypes /\ t.block = s.block /\ t.weak = s.weak /\ t.live = s.live
      /\ P!Release(s, o).todo = <<>>
      /\ \A x \in Objects : t.ref[x] = IF x = o THEN s.ref[o] - 1 ELSE s.ref[x]
      /\ \A p \in SPlaces : t.shared[p] = s.shared[p]
      /\ \A w \in WPlaces : t.weakly[w] = s.weakly[w]
  <2>1. ReleaseMakes(s, o, t, P!Release(s, o).todo)
    BY <1>0, <1>1, ReleaseIs
  <2>. QED
    BY <2>1 DEF ReleaseMakes
<1>. HIDE DEF t
<1>3. \A p \in SPlaces : t.shared[p].ptr = t.shared[p].sc
  BY <1>2 DEF Counted
<1>4. \A x \in Objects : s.ref[x] = 0 => t.ref[x] = 0
  BY <1>1, <1>2
<1>5. \A w \in WPlaces : t.weakly[w].wc # NULL => t.ref[t.weakly[w].wc] = 0 \/ t.weakly[w].ptr = t.weakly[w].wc
  <2>1. \A w \in WPlaces : s.weakly[w].wc # NULL => s.ref[s.weakly[w].wc] = 0 \/ s.weakly[w].ptr = s.weakly[w].wc
    BY DEF Counted
  <2>. QED
    BY <1>0, <1>2, <1>4, <2>1, WeaksAfter
<1>6. ASSUME NEW x \in Objects
      PROVE  /\ t.ref[x] = Held(t, x) + Pending(rest, <<"release", x>>) + e[x]
             /\ t.weak[x] = Watched(t, x) + Pending(rest, <<"weak_release", x>>) + Alive(t, x)
             /\ ObjectHolds(t, x)
  <2>1. Holds(t, x) = Holds(s, x) /\ Watches(t, x) = Watches(s, x)
    BY <1>2 DEF Holds, Watches
  <2>2. Held(t, x) = Held(s, x) /\ Watched(t, x) = Watched(s, x)
    BY <2>1 DEF Held, Watched
  <2>3. /\ s.ref[x] = Held(s, x) + Pending(rest, <<"release", x>>) + Same(o, x) + e[x]
        /\ s.weak[x] = Watched(s, x) + Pending(rest, <<"weak_release", x>>) + Alive(s, x)
        /\ s.ref[x] \in Nat /\ s.weak[x] \in Nat /\ e[x] \in Nat /\ Held(s, x) \in Nat /\ Watched(s, x) \in Nat
        /\ Pending(rest, <<"release", x>>) \in Nat /\ Pending(rest, <<"weak_release", x>>) \in Nat
        /\ Alive(s, x) \in {0, 1} /\ ObjectHolds(s, x)
    <3>1. CountedBefore(s, o, rest, e, x)
      BY BeforeRelease
    <3>. QED
      BY <3>1 DEF CountedBefore
  <2>4. (x = o => Same(o, x) = 1) /\ (x # o => Same(o, x) = 0)
    BY SameIs
  <2>5. t.ref[x] = s.ref[x] - Same(o, x) /\ (t.ref[x] > 0 <=> s.ref[x] > 0)
    <3>1. CASE x = o
      <4>1. t.ref[x] = s.ref[x] - 1 /\ Same(o, x) = 1 /\ s.ref[x] \in Nat /\ s.ref[x] > 1
        BY <1>1, <1>2, <2>4, <3>1
      <4>. QED
        BY <4>1
    <3>2. CASE x # o
      <4>1. t.ref[x] = s.ref[x] /\ Same(o, x) = 0 /\ s.ref[x] \in Nat
        BY <1>2, <2>3, <2>4, <3>2
      <4>. QED
        BY <4>1
    <3>. QED
      BY <3>1, <3>2
  <2>6. t.ref[x] = Held(t, x) + Pending(rest, <<"release", x>>) + e[x]
    BY <2>2, <2>3, <2>4, <2>5
  <2>7. Alive(t, x) = Alive(s, x)
    BY <2>5 DEF Alive
  <2>8. x \in WPlaces /\ t.weakly[x] = s.weakly[x]
    BY <1>2 DEF WPlaces
  <2>9. ObjectHolds(t, x)
    BY <1>2, <2>3, <2>5, <2>8 DEF ObjectHolds
  <2>. QED
    BY <1>2, <2>2, <2>3, <2>6, <2>7, <2>9
<1>7. Counted(t, rest, e)
  BY <1>0, <1>2, <1>3, <1>5, <1>6 DEF Counted
<1>. QED
  BY <1>2, <1>7 DEF t

\* ... and that of the last one, with the three that it gives rise to.
LEMMA ReleaseLastKeeps ==
  ASSUME PointersAssumption, NEW s, NEW o \in Objects, NEW rest \in Seq(Calls), NEW e,
         Counted(s, <<<<"release", o>>>> \o rest, e), s.ref[o] = 1
  PROVE  LET n == P!Release(s, o)
         IN  /\ Len(n.todo) = 3 /\ o \in s.live /\ n.s.live = s.live \ {o}
             /\ n.todo \in Seq(Calls) /\ Counted(n.s, n.todo \o rest, e)
<1> DEFINE t == P!Release(s, o).s
           a == <<"release", s.shared[o].sc>>
           b == <<"weak_release", s.weakly[o].wc>>
           c == <<"weak_release", o>>
           todo == <<a, b, c>> \o rest
<1>0. s \in HeapTypes /\ e \in [Objects -> Nat] /\ NULL \notin Objects /\ o \in SPlaces /\ o \in WPlaces /\ o \in AnObject
  BY DEF Counted, PointersAssumption, AnObject, SPlaces, WPlaces
<1>01. s.ref[o] > 0
  BY BeforeRelease DEF CountedBefore
<1>1. /\ t \in HeapTypes /\ t.block = s.block /\ t.weak = s.weak /\ t.live = s.live \ {o}
      /\ P!Release(s, o).todo = <<a, b, c>>
      /\ \A x \in Objects : t.ref[x] = IF x = o THEN 0 ELSE s.ref[x]
      /\ \A p \in SPlaces : t.shared[p] = IF p = o THEN P!NoPtr ELSE s.shared[p]
      /\ \A w \in WPlaces : t.weakly[w] = IF w = o THEN P!NoWeak ELSE s.weakly[w]
  <2>1. ReleaseMakes(s, o, t, P!Release(s, o).todo)
    BY <1>0, <1>01, ReleaseIs
  <2>. QED
    BY <2>1 DEF ReleaseMakes, a, b, c
<1>2. P!NoPtr.ptr = NULL /\ P!NoPtr.sc = NULL /\ P!NoWeak.ptr = NULL /\ P!NoWeak.wc = NULL
  BY DEF P!NoPtr, P!NoWeak
<1>3. o \in s.live /\ s.weakly[o].wc = o
  <2>1. ObjectHolds(s, o)
    BY BeforeRelease DEF CountedBefore
  <2>2. o \in s.live
    BY <2>1 DEF ObjectHolds
  <2>3. s.weakly[o] = [ptr |-> o, wc |-> o]
    BY <2>1, <2>2 DEF ObjectHolds
  <2>. QED
    BY <2>2, <2>3
<1>4. a \in Calls /\ b \in Calls /\ c \in Calls /\ s.shared[o].sc \in AnObject
  <2>1. s.shared[o].sc \in AnObject
    BY <1>0, HeapFields
  <2>. QED
    BY <1>0, <1>3, <2>1, NamedCalls
<1>. HIDE DEF t, a, b, c
<1>5. todo \in Seq(Calls) /\ <<a, b, c>> \in Seq(Calls) /\ Len(<<a, b, c>>) = 3
  BY <1>4
<1>. HIDE DEF todo
<1>6. \A p \in SPlaces : t.shared[p].ptr = t.shared[p].sc
  <2>1. \A p \in SPlaces : s.shared[p].ptr = s.shared[p].sc
    BY DEF Counted
  <2>. QED
    BY <1>1, <1>2, <2>1
<1>7. \A w \in WPlaces : t.weakly[w].wc # NULL => t.ref[t.weakly[w].wc] = 0 \/ t.weakly[w].ptr = t.weakly[w].wc
  <2>1. \A w \in WPlaces : s.weakly[w].wc # NULL => s.ref[s.weakly[w].wc] = 0 \/ s.weakly[w].ptr = s.weakly[w].wc
    BY DEF Counted
  <2>2. \A w \in WPlaces : t.weakly[w] = s.weakly[w] \/ t.weakly[w] = P!NoWeak
    BY <1>1
  <2>3. \A x \in Objects : s.ref[x] = 0 => t.ref[x] = 0
    BY <1>1
  <2>. QED
    BY <1>0, <1>1, <2>1, <2>2, <2>3, WeaksAfter
<1>8. ASSUME NEW x \in Objects
      PROVE  /\ Pending(todo, <<"release", x>>) = Pending(rest, <<"release", x>>) + Same(s.shared[o].sc, x)
             /\ Pending(todo, <<"weak_release", x>>) = Pending(rest, <<"weak_release", x>>) + Same(o, x) + Same(o, x)
  <2> DEFINE d == <<"release", x>>
             f == <<"weak_release", x>>
  <2>1. Pending(todo, d) = Pending(rest, d) + Same(a, d) + Same(b, d) + Same(c, d)
    BY <1>4, ThreeMoreComing DEF todo
  <2>2. Pending(todo, f) = Pending(rest, f) + Same(a, f) + Same(b, f) + Same(c, f)
    BY <1>4, ThreeMoreComing DEF todo
  <2>3. Same(a, d) = Same(s.shared[o].sc, x) /\ Same(b, d) = 0 /\ Same(c, d) = 0
    BY NamedCalls DEF a, b, c, Same
  <2>4. Same(a, f) = 0 /\ Same(b, f) = Same(o, x) /\ Same(c, f) = Same(o, x)
    BY <1>3, NamedCalls DEF a, b, c, Same
  <2>5. Same(s.shared[o].sc, x) \in Nat /\ Same(o, x) \in Nat
    BY SameIs
  <2>6. Pending(rest, d) \in Nat /\ Pending(rest, f) \in Nat
    BY CallComes
  <2>. HIDE DEF d, f
  <2>7. Pending(todo, d) = Pending(rest, d) + Same(s.shared[o].sc, x)
    BY <2>1, <2>3, <2>5, <2>6
  <2>8. Pending(todo, f) = Pending(rest, f) + Same(o, x) + Same(o, x)
    BY <2>2, <2>4, <2>5, <2>6
  <2>. QED
    BY <2>7, <2>8 DEF d, f
<1>9. ASSUME NEW x \in Objects
      PROVE  /\ t.ref[x] = Held(t, x) + Pending(todo, <<"release", x>>) + e[x]
             /\ t.weak[x] = Watched(t, x) + Pending(todo, <<"weak_release", x>>) + Alive(t, x)
             /\ ObjectHolds(t, x)
  <2> DEFINE P1 == Pending(rest, <<"release", x>>)
             P2 == Pending(rest, <<"weak_release", x>>)
             Q1 == Pending(todo, <<"release", x>>)
             Q2 == Pending(todo, <<"weak_release", x>>)
             sc == s.shared[o].sc
  <2>1. /\ s.ref[x] = Held(s, x) + P1 + Same(o, x) + e[x]
        /\ s.weak[x] = Watched(s, x) + P2 + Alive(s, x)
        /\ s.ref[x] \in Nat /\ s.weak[x] \in Nat /\ e[x] \in Nat /\ Held(s, x) \in Nat /\ Watched(s, x) \in Nat
        /\ P1 \in Nat /\ P2 \in Nat
        /\ Same(o, x) \in Nat /\ Alive(s, x) \in {0, 1} /\ ObjectHolds(s, x)
    <3>1. CountedBefore(s, o, rest, e, x)
      BY BeforeRelease
    <3>. QED
      BY <3>1 DEF CountedBefore
  <2>2. (x = o => Same(o, x) = 1) /\ (x # o => Same(o, x) = 0) /\ Same(NULL, x) = 0
        /\ Same(sc, x) \in {0, 1} /\ (sc = x => Same(sc, x) = 1)
    BY <1>0, SameIs
  <2>3. Held(t, x) \in Nat /\ Watched(t, x) \in Nat
    BY <1>1, PlacesCount
  <2>4. Held(t, x) + Same(sc, x) = Held(s, x) + Same(NULL, x)
    <3>1. t.shared[o].sc = NULL /\ \A q \in SPlaces : q # o => t.shared[q] = s.shared[q]
      BY <1>0, <1>1, <1>2
    <3>2. Held(t, x) + Same(s.shared[o].sc, x) = Held(s, x) + Same(t.shared[o].sc, x)
      BY <1>0, <1>1, <3>1, SharedMoves
    <3>. QED
      BY <3>1, <3>2
  <2>5. Watched(t, x) + Same(o, x) = Watched(s, x) + Same(NULL, x)
    <3>1. t.weakly[o].wc = NULL /\ \A q \in WPlaces : q # o => t.weakly[q] = s.weakly[q]
      BY <1>0, <1>1, <1>2
    <3>2. Watched(t, x) + Same(s.weakly[o].wc, x) = Watched(s, x) + Same(t.weakly[o].wc, x)
      BY <1>0, <1>1, <3>1, WeaklyMoves
    <3>. QED
      BY <1>3, <3>1, <3>2
  <2>6. Q1 = P1 + Same(sc, x) /\ Q2 = P2 + Same(o, x) + Same(o, x)
    BY <1>8
  <2>7. t.ref[x] = (IF x = o THEN 0 ELSE s.ref[x]) /\ t.weak[x] = s.weak[x]
    BY <1>1
  <2>8. (s.ref[x] > 0 => Alive(s, x) = 1) /\ (x = o => Alive(t, x) = 0) /\ (x # o => Alive(t, x) = Alive(s, x))
    BY <2>7 DEF Alive
  <2>9. x \in WPlaces /\ t.weakly[x] = IF x = o THEN P!NoWeak ELSE s.weakly[x]
    BY <1>1 DEF WPlaces
  <2>. HIDE DEF P1, P2, Q1, Q2, sc
  <2>10. t.ref[x] = Held(t, x) + Q1 + e[x]
    <3>1. CASE x = o
      <4>1. s.ref[x] = 1 /\ t.ref[x] = 0 /\ Same(o, x) = 1
        BY <2>2, <2>7, <3>1
      <4>2. Held(s, x) = 0 /\ P1 = 0 /\ e[x] = 0
        BY <2>1, <4>1
      <4>3. Held(t, x) = 0 /\ Same(sc, x) = 0
        BY <2>2, <2>3, <2>4, <4>2
      <4>. QED
        BY <2>6, <4>1, <4>2, <4>3
    <3>2. CASE x # o
      BY <2>1, <2>2, <2>3, <2>4, <2>6, <2>7, <3>2
    <3>. QED
      BY <3>1, <3>2
  <2>11. t.weak[x] = Watched(t, x) + Q2 + Alive(t, x)
    <3>1. CASE x = o
      <4>1. Alive(s, x) = 1 /\ Alive(t, x) = 0 /\ Same(o, x) = 1
        BY <2>2, <2>8, <3>1
      <4>. QED
        BY <2>1, <2>2, <2>3, <2>5, <2>6, <2>7, <4>1
    <3>2. CASE x # o
      <4>1. Alive(t, x) = Alive(s, x) /\ Same(o, x) = 0
        BY <2>2, <2>8, <3>2
      <4>. QED
        BY <2>1, <2>2, <2>3, <2>5, <2>6, <2>7, <4>1
    <3>. QED
      BY <3>1, <3>2
  <2>12. ObjectHolds(t, x)
    <3>1. x \in t.live <=> x \in s.live /\ x # o
      BY <1>1
    <3>2. t.block = s.block
      BY <1>1
    <3>3. CASE x = o
      <4>1. x \notin t.live /\ ~(t.ref[x] > 0) /\ t.weakly[x] = P!NoWeak
        BY <2>7, <2>9, <3>1, <3>3
      <4>2. x \in t.block <=> t.weak[x] > 0
        BY <2>1, <2>7, <3>2 DEF ObjectHolds
      <4>. QED
        BY <4>1, <4>2 DEF ObjectHolds
    <3>4. CASE x # o
      BY <2>1, <2>7, <2>9, <3>1, <3>2, <3>4 DEF ObjectHolds
    <3>. QED
      BY <3>3, <3>4
  <2>. QED
    BY <2>10, <2>11, <2>12 DEF Q1, Q2
<1>10. Counted(t, todo, e)
  BY <1>0, <1>1, <1>5, <1>6, <1>7, <1>9 DEF Counted
<1>. QED
  BY <1>1, <1>3, <1>5, <1>10 DEF t, todo

\* A release of a block keeps the counts ...
LEMMA WeakReleaseKeeps ==
  ASSUME PointersAssumption, NEW s, NEW o \in Objects, NEW rest \in Seq(Calls), NEW e,
         Counted(s, <<<<"weak_release", o>>>> \o rest, e)
  PROVE  LET n == P!WeakRelease(s, o)
         IN  n.todo = <<>> /\ n.s.live = s.live /\ Counted(n.s, rest, e)
<1> DEFINE t == P!WeakRelease(s, o).s
           todo == <<<<"weak_release", o>>>> \o rest
<1>0. s \in HeapTypes /\ e \in [Objects -> Nat]
  BY DEF Counted
<1>1. ASSUME NEW x \in Objects
      PROVE  /\ s.ref[x] = Held(s, x) + Pending(rest, <<"release", x>>) + e[x]
             /\ s.weak[x] \in Nat /\ Watched(s, x) \in Nat /\ Pending(rest, <<"weak_release", x>>) \in Nat /\ Alive(s, x) \in Nat
             /\ s.weak[x] = Watched(s, x) + (Pending(rest, <<"weak_release", x>>) + Same(o, x)) + Alive(s, x)
             /\ ObjectHolds(s, x)
  <2>1. /\ s.weak[x] \in Nat /\ Watched(s, x) \in Nat
        /\ s.ref[x] = Held(s, x) + Pending(todo, <<"release", x>>) + e[x]
        /\ s.weak[x] = Watched(s, x) + Pending(todo, <<"weak_release", x>>) + Alive(s, x)
        /\ ObjectHolds(s, x)
    <3>1. CountsOf(s, todo, e, x)
      BY CountedObject
    <3>. QED
      BY <3>1 DEF CountsOf
  <2>2. /\ Pending(todo, <<"release", x>>) = Pending(rest, <<"release", x>>)
        /\ Pending(todo, <<"weak_release", x>>) = Pending(rest, <<"weak_release", x>>) + Same(o, x)
        /\ Pending(rest, <<"weak_release", x>>) \in Nat
    BY CallComes
  <2>3. Alive(s, x) \in Nat
    BY DEF Alive
  <2>. HIDE DEF todo
  <2>. QED
    BY <2>1, <2>2, <2>3
<1>2. s.weak[o] > 0
  <2> DEFINE W == Watched(s, o)
             Q == Pending(rest, <<"weak_release", o>>)
             A == Alive(s, o)
  <2>1. Same(o, o) = 1
    BY SameIs
  <2>2. s.weak[o] \in Nat /\ W \in Nat /\ Q \in Nat /\ A \in Nat /\ s.weak[o] = W + (Q + Same(o, o)) + A
    BY <1>1
  <2>. HIDE DEF W, Q, A
  <2>. QED
    BY <2>1, <2>2
<1>3. /\ P!WeakRelease(s, o).todo = <<>> /\ t \in HeapTypes
      /\ t.live = s.live /\ t.ref = s.ref /\ t.shared = s.shared /\ t.weakly = s.weakly
      /\ t.block = IF s.weak[o] = 1 THEN s.block \ {o} ELSE s.block
      /\ \A x \in Objects : t.weak[x] = IF x = o THEN s.weak[o] - 1 ELSE s.weak[x]
  BY <1>0, <1>2, WeakReleaseIs
<1>. HIDE DEF t
<1>4. ASSUME NEW x \in Objects
      PROVE  /\ t.ref[x] = Held(t, x) + Pending(rest, <<"release", x>>) + e[x]
             /\ t.weak[x] = Watched(t, x) + Pending(rest, <<"weak_release", x>>) + Alive(t, x)
             /\ ObjectHolds(t, x)
  <2>1. Held(t, x) = Held(s, x) /\ Watched(t, x) = Watched(s, x) /\ Alive(t, x) = Alive(s, x)
    BY <1>3 DEF Held, Watched, Holds, Watches, Alive
  <2>2. t.weak[x] = Watched(t, x) + Pending(rest, <<"weak_release", x>>) + Alive(t, x)
    <3> DEFINE W == Watched(s, x)
               Q == Pending(rest, <<"weak_release", x>>)
               A == Alive(s, x)
    <3>0. /\ s.weak[x] \in Nat /\ W \in Nat /\ Q \in Nat /\ A \in Nat /\ s.weak[x] = W + (Q + Same(o, x)) + A
          /\ Watched(t, x) = W /\ Alive(t, x) = A
      BY <1>1, <2>1
    <3>. HIDE DEF W, Q, A
    <3>1. CASE x = o
      <4>1. Same(o, x) = 1 /\ t.weak[x] = s.weak[x] - 1
        BY <1>3, <3>1, SameIs
      <4>2. t.weak[x] = W + Q + A
        BY <3>0, <4>1
      <4>. QED
        BY <3>0, <4>2 DEF Q
    <3>2. CASE x # o
      <4>1. Same(o, x) = 0 /\ t.weak[x] = s.weak[x]
        BY <1>3, <3>2, SameIs
      <4>2. t.weak[x] = W + Q + A
        BY <3>0, <4>1
      <4>. QED
        BY <3>0, <4>2 DEF Q
    <3>. QED
      BY <3>1, <3>2
  <2>3. x \in t.block <=> t.weak[x] > 0
    <3>1. x \in s.block <=> s.weak[x] > 0
      BY <1>1 DEF ObjectHolds
    <3>2. CASE x = o
      <4>1. t.weak[x] = s.weak[x] - 1 /\ s.weak[x] \in Nat /\ x \in s.block /\ s.weak[x] > 0
        BY <1>1, <1>2, <1>3, <3>1, <3>2
      <4>2. x \in t.block <=> s.weak[x] # 1
        BY <1>3, <3>2, <4>1
      <4>. QED
        BY <4>1, <4>2
    <3>3. CASE x # o
      BY <1>3, <3>1, <3>3
    <3>. QED
      BY <3>2, <3>3
  <2>4. ObjectHolds(t, x)
    BY <1>1, <1>3, <2>3 DEF ObjectHolds
  <2>. QED
    BY <1>1, <1>3, <2>1, <2>2, <2>4
<1>5. Counted(t, rest, e)
  BY <1>0, <1>3, <1>4 DEF Counted
<1>. QED
  BY <1>3, <1>5 DEF t

\* ... as does one of nothing.
LEMMA NothingKeeps ==
  ASSUME PointersAssumption, NEW s, NEW k, NEW rest \in Seq(Calls), NEW e, <<k, NULL>> \in Calls,
         Counted(s, <<<<k, NULL>>>> \o rest, e)
  PROVE  Counted(s, rest, e)
<1> DEFINE c == <<k, NULL>>
           todo == <<c>> \o rest
<1>1. ASSUME NEW x \in Objects
      PROVE  /\ Pending(todo, <<"release", x>>) = Pending(rest, <<"release", x>>)
             /\ Pending(todo, <<"weak_release", x>>) = Pending(rest, <<"weak_release", x>>)
  <2> DEFINE d == <<"release", x>>
             f == <<"weak_release", x>>
  <2>1. Same(c, d) = 0 /\ Same(c, f) = 0
    BY DEF Same, PointersAssumption
  <2>. HIDE DEF c, d, f
  <2>2. /\ Pending(rest, d) \in Nat /\ Pending(<<c>> \o rest, d) = Pending(rest, d) + Same(c, d)
        /\ Pending(rest, f) \in Nat /\ Pending(<<c>> \o rest, f) = Pending(rest, f) + Same(c, f)
    BY OneMoreComing DEF c
  <2>. QED
    BY <2>1, <2>2 DEF d, f
<1>. QED
  BY <1>1 DEF Counted

\* What is still to be done.
Steps(t) == 3 * Cardinality(t.s.live) + Len(t.todo)

LEMMA StepKeeps ==
  ASSUME PointersAssumption, NEW t, NEW e, Counted(t.s, t.todo, e)
  PROVE  LET u == P!ReleasedOne(t)
         IN  /\ Counted(u.s, u.todo, e)
             /\ Steps(t) \in Nat /\ Steps(u) \in Nat
             /\ t.todo = <<>> => u = t
             /\ t.todo # <<>> => Steps(u) < Steps(t)
<1> DEFINE u == P!ReleasedOne(t)
           s == t.s
           todo == t.todo
           c == Head(todo)
           rest == Tail(todo)
           next == IF c[2] = NULL THEN [s |-> s, todo |-> <<>>]
                   ELSE IF c[1] = "release" THEN P!Release(s, c[2]) ELSE P!WeakRelease(s, c[2])
<1>0. \A v : Counted(v.s, v.todo, e) => IsFiniteSet(v.s.live) /\ Cardinality(v.s.live) \in Nat /\ Len(v.todo) \in Nat /\ Steps(v) \in Nat
  <2>. SUFFICES ASSUME NEW v, Counted(v.s, v.todo, e)
                PROVE  IsFiniteSet(v.s.live) /\ Cardinality(v.s.live) \in Nat /\ Len(v.todo) \in Nat /\ Steps(v) \in Nat
    OBVIOUS
  <2>1. v.s.live \in SUBSET Objects /\ Len(v.todo) \in Nat
    BY HeapFields DEF Counted
  <2>2. IsFiniteSet(v.s.live) /\ Cardinality(v.s.live) \in Nat
    BY <2>1, FS_Subset, FS_CardinalityType DEF PointersAssumption
  <2>. QED
    BY <2>1, <2>2 DEF Steps
<1>1. todo \in Seq(Calls)
  BY DEF Counted
<1>2. CASE todo = <<>>
  <2>1. u = t
    BY <1>2 DEF P!ReleasedOne
  <2>. QED
    BY <1>0, <1>2, <2>1
<1>3. CASE todo # <<>>
  <2>1. c \in Calls /\ rest \in Seq(Calls) /\ todo = <<c>> \o rest /\ Len(todo) = Len(rest) + 1 /\ Len(rest) \in Nat
    BY <1>1, <1>3
  <2>0. u = [s |-> next.s, todo |-> next.todo \o rest]
    BY <1>3 DEF P!ReleasedOne
  <2>. HIDE DEF c, rest, s, next, u
  <2>2. Counted(s, <<c>> \o rest, e)
    BY <2>1 DEF s
  <2>3. PICK k \in {"release", "weak_release"}, x \in AnObject : c = <<k, x>>
    BY <2>1 DEF Calls
  <2>8. c[1] = k /\ c[2] = x
    BY <2>3
  <2>9. x \in Objects => next = IF k = "release" THEN P!Release(s, x) ELSE P!WeakRelease(s, x)
    BY <2>8 DEF next, PointersAssumption
  <2>4. CASE x = NULL
    <3>1. next.s = s /\ next.todo = <<>>
      BY <2>4, <2>8 DEF next
    <3>2. u.s = s /\ u.todo = rest
      BY <2>0, <2>1, <3>1
    <3>3. Counted(s, rest, e)
      BY <2>1, <2>2, <2>3, <2>4, NothingKeeps
    <3>4. Steps(u) < Steps(t)
      <4>1. Cardinality(s.live) \in Nat
        BY <1>0 DEF s
      <4>. QED
        BY <2>1, <3>2, <4>1 DEF Steps, s
    <3>. QED
      BY <1>0, <1>3, <3>2, <3>3, <3>4 DEF u
  <2>5. CASE x \in Objects /\ k = "release" /\ s.ref[x] # 1
    <3>1. next = P!Release(s, x)
      BY <2>5, <2>9
    <3>2. P!Release(s, x).todo = <<>> /\ P!Release(s, x).s.live = s.live /\ Counted(P!Release(s, x).s, rest, e)
      BY <2>1, <2>2, <2>3, <2>5, ReleaseOneKeeps
    <3>3. u.s = P!Release(s, x).s /\ u.todo = rest
      BY <2>0, <2>1, <3>1, <3>2
    <3>4. Steps(u) < Steps(t)
      <4>1. Cardinality(s.live) \in Nat
        BY <1>0 DEF s
      <4>. QED
        BY <2>1, <3>2, <3>3, <4>1 DEF Steps, s
    <3>. QED
      BY <1>0, <1>3, <3>2, <3>3, <3>4 DEF u
  <2>6. CASE x \in Objects /\ k = "release" /\ s.ref[x] = 1
    <3> DEFINE n == P!Release(s, x)
    <3>1. next = n
      BY <2>6, <2>9
    <3>2. /\ Len(n.todo) = 3 /\ x \in s.live /\ n.s.live = s.live \ {x}
          /\ n.todo \in Seq(Calls) /\ Counted(n.s, n.todo \o rest, e)
      BY <2>1, <2>2, <2>3, <2>6, ReleaseLastKeeps
    <3>. HIDE DEF n
    <3>3. u.s = n.s /\ u.todo = n.todo \o rest
      BY <2>0, <3>1
    <3>4. Len(u.todo) = Len(rest) + 3
      <4>1. rest \in Seq(Calls) /\ n.todo \in Seq(Calls) /\ Len(n.todo) = 3
        BY <2>1, <3>2
      <4>2. \A a, b \in Seq(Calls) : Len(a \o b) = Len(a) + Len(b)
        OBVIOUS
      <4>. QED
        <5>1. Len(n.todo \o rest) = Len(n.todo) + Len(rest)
          BY <4>1, <4>2, Zenon
        <5>2. Len(u.todo) = Len(n.todo) + Len(rest)
          BY <3>3, <5>1, Zenon
        <5>3. Len(rest) \in Nat /\ Len(n.todo) = 3
          BY <2>1, <4>1
        <5>. QED
          BY <5>2, <5>3
    <3>5. IsFiniteSet(s.live) /\ Cardinality(s.live) \in Nat
      BY <1>0 DEF s
    <3>6. Cardinality(u.s.live) = Cardinality(s.live) - 1
      <4>1. Cardinality(s.live \ {x}) = Cardinality(s.live) - 1
        BY <3>2, <3>5, FS_RemoveElement
      <4>. QED
        BY <3>2, <3>3, <4>1
    <3>7. Steps(u) < Steps(t)
      BY <2>1, <3>4, <3>5, <3>6 DEF Steps, s
    <3>. QED
      BY <1>0, <1>3, <3>2, <3>3, <3>7 DEF u
  <2>7. CASE x \in Objects /\ k = "weak_release"
    <3>1. next = P!WeakRelease(s, x)
      BY <2>7, <2>9
    <3>2. P!WeakRelease(s, x).todo = <<>> /\ P!WeakRelease(s, x).s.live = s.live /\ Counted(P!WeakRelease(s, x).s, rest, e)
      BY <2>1, <2>2, <2>3, <2>7, WeakReleaseKeeps
    <3>3. u.s = P!WeakRelease(s, x).s /\ u.todo = rest
      BY <2>0, <2>1, <3>1, <3>2
    <3>4. Steps(u) < Steps(t)
      <4>1. Cardinality(s.live) \in Nat
        BY <1>0 DEF s
      <4>. QED
        BY <2>1, <3>2, <3>3, <4>1 DEF Steps, s
    <3>. QED
      BY <1>0, <1>3, <3>2, <3>3, <3>4 DEF u
  <2>. QED
    BY <2>3, <2>4, <2>5, <2>6, <2>7 DEF AnObject, u
<1>. QED
  BY <1>2, <1>3

\* The heaps that a cascade goes through.
Cascade(f, s, todo, n) ==
  f = [k \in 0 .. n |-> IF k = 0 THEN [s |-> s, todo |-> todo] ELSE P!ReleasedOne(f[k - 1])]

LEMMA CascadeExists ==
  ASSUME NEW s, NEW todo, NEW n \in Nat
  PROVE  \E f : Cascade(f, s, todo, n)
<1> DEFINE Without == {i \in Nat : ~ \E f : Cascade(f, s, todo, i)}
<1>1. ASSUME Without # {}
      PROVE  FALSE
  <2>1. PICK i \in Without : \A k \in Without : i <= k
    BY <1>1, LeastOf
  <2>2. CASE i = 0
    <3> DEFINE f == [k \in 0 .. 0 |-> [s |-> s, todo |-> todo]]
    <3>1. Cascade(f, s, todo, 0)
      BY DEF Cascade
    <3>. QED
      BY <2>1, <2>2, <3>1
  <2>3. CASE i # 0
    <3>1. i \in Nat /\ i - 1 \in Nat /\ i - 1 \notin Without
      BY <2>1, <2>3
    <3>2. PICK f : Cascade(f, s, todo, i - 1)
      BY <3>1
    <3> DEFINE g == [k \in 0 .. i |-> IF k < i THEN f[k] ELSE P!ReleasedOne(f[i - 1])]
    <3>3. ASSUME NEW k \in 0 .. i
          PROVE  g[k] = IF k = 0 THEN [s |-> s, todo |-> todo] ELSE P!ReleasedOne(g[k - 1])
      <4>1. CASE k = i
        BY <2>3, <3>1, <4>1
      <4>2. CASE k # i
        <5>1. k \in 0 .. i - 1 /\ (k = 0 \/ k - 1 \in 0 .. i - 1)
          BY <3>1, <4>2
        <5>2. f[k] = IF k = 0 THEN [s |-> s, todo |-> todo] ELSE P!ReleasedOne(f[k - 1])
          BY <3>2, <5>1 DEF Cascade
        <5>3. g[k] = f[k] /\ (k = 0 \/ g[k - 1] = f[k - 1])
          BY <3>1, <5>1
        <5>. QED
          BY <5>2, <5>3
      <4>. QED
        BY <4>1, <4>2
    <3>4. g = [k \in 0 .. i |-> g[k]]
      OBVIOUS
    <3>. HIDE DEF g
    <3>5. Cascade(g, s, todo, i)
      BY <3>3, <3>4 DEF Cascade
    <3>. QED
      BY <2>1, <3>5
  <2>. QED
    BY <2>2, <2>3
<1>. QED
  BY <1>1

\* A cascade comes to an end, and the counts are right then.
LEMMA ReleasedKeeps ==
  ASSUME PointersAssumption, NEW s, NEW todo, NEW e, Counted(s, todo, e)
  PROVE  Counted(P!Released(s, todo), <<>>, e)
<1> DEFINE n == 4 * Cardinality(Objects) + Len(todo)
           f == CHOOSE g : Cascade(g, s, todo, n)
           first == [s |-> s, todo |-> todo]
           Good(t, k) == Counted(t.s, t.todo, e) /\ (t.todo = <<>> \/ Steps(t) + k <= Steps(first))
<1>1. Cardinality(Objects) \in Nat /\ Len(todo) \in Nat /\ Cardinality(s.live) \in Nat /\ Cardinality(s.live) <= Cardinality(Objects)
  <2>1. IsFiniteSet(Objects) /\ s.live \in SUBSET Objects /\ Len(todo) \in Nat
    BY HeapFields DEF PointersAssumption, Counted
  <2>. QED
    BY <2>1, FS_Subset, FS_CardinalityType
<1>2. n \in Nat
  BY <1>1
<1>3. Cascade(f, s, todo, n)
  BY <1>2, CascadeExists
<1>4. P!Released(s, todo) = f[n].s
  BY CountedAlike DEF P!Released, Cascade
<1>5. first.s = s /\ first.todo = todo
  OBVIOUS
<1>. HIDE DEF n, f, first
<1> DEFINE Bad == {k \in 0 .. n : ~Good(f[k], k)}
<1>6. ASSUME Bad # {}
      PROVE  FALSE
  <2>. HIDE DEF Good
  <2>1. PICK k \in Bad : \A j \in Bad : k <= j
    <3>1. Bad \subseteq Nat
      BY <1>2
    <3>. QED
      BY <1>6, <3>1, LeastOf
  <2>2. k \in 0 .. n /\ ~Good(f[k], k)
    BY <2>1
  <2>3. CASE k = 0
    <3>1. f[k] = first
      BY <1>3, <2>2, <2>3 DEF Cascade, first
    <3>2. Steps(first) \in Nat
      BY <1>5, StepKeeps
    <3>3. Steps(first) + k <= Steps(first)
      BY <2>3, <3>2
    <3>. QED
      BY <1>5, <2>2, <3>1, <3>3 DEF Good
  <2>4. CASE k # 0
    <3> DEFINE t == f[k - 1]
               u == f[k]
    <3>1. k \in Nat /\ k - 1 \in 0 .. n /\ k - 1 \notin Bad
      BY <1>2, <2>1, <2>2, <2>4
    <3>2. Good(t, k - 1)
      BY <3>1
    <3>3. u = P!ReleasedOne(t)
      BY <1>3, <2>2, <2>4 DEF Cascade
    <3>. HIDE DEF t, u
    <3>4. Counted(t.s, t.todo, e) /\ (t.todo = <<>> \/ Steps(t) + (k - 1) <= Steps(first))
      BY <3>2 DEF Good
    <3>5. /\ Counted(u.s, u.todo, e) /\ Steps(t) \in Nat /\ Steps(u) \in Nat
          /\ t.todo = <<>> => u = t
          /\ t.todo # <<>> => Steps(u) < Steps(t)
      BY <3>3, <3>4, StepKeeps
    <3>6. Steps(first) \in Nat
      BY <1>5, StepKeeps
    <3>7. u.todo = <<>> \/ Steps(u) + k <= Steps(first)
      BY <3>1, <3>4, <3>5, <3>6
    <3>8. Good(u, k)
      BY <3>5, <3>7 DEF Good
    <3>. QED
      BY <2>2, <3>8 DEF u
  <2>. QED
    BY <2>3, <2>4
<1>7. Good(f[n], n)
  BY <1>2, <1>6
<1>8. f[n].todo = <<>>
  <2>1. Counted(f[n].s, f[n].todo, e)
    BY <1>7
  <2>2. /\ Steps(f[n]) \in Nat /\ Steps(f[n]) >= Len(f[n].todo) /\ Len(f[n].todo) \in Nat
        /\ f[n].todo # <<>> => Len(f[n].todo) > 0
    <3>1. f[n].todo \in Seq(Calls) /\ f[n].s.live \in SUBSET Objects
      BY <2>1, HeapFields DEF Counted
    <3>2. Cardinality(f[n].s.live) \in Nat
      BY <3>1, FS_Subset, FS_CardinalityType DEF PointersAssumption
    <3>3. \A q \in Seq(Calls) : Len(q) \in Nat /\ (q # <<>> => Len(q) > 0)
      OBVIOUS
    <3>. QED
      BY <3>1, <3>2, <3>3 DEF Steps
  <2>3. Steps(first) <= 3 * Cardinality(Objects) + Len(todo)
    BY <1>1, <1>5 DEF Steps
  <2>4. Steps(first) \in Nat
    BY <1>5, StepKeeps
  <2>5. n = 4 * Cardinality(Objects) + Len(todo)
    BY DEF n
  <2>6. ~(Steps(f[n]) > 0 /\ Steps(f[n]) + n <= Steps(first))
    BY <1>1, <2>2, <2>3, <2>4, <2>5
  <2>. QED
    BY <1>7, <2>2, <2>6
<1>. QED
  BY <1>4, <1>7, <1>8

-----------------------------------------------------------------------------
(* The operations on SharedPtr and WeakPtr                                  *)

\* One more reference that a function has.
Plus(e, o) == [x \in Objects |-> e[x] + Same(o, x)]

\* The counts of a heap without releases to come ...
Balanced(s, e) ==
  /\ s \in HeapTypes /\ e \in [Objects -> Nat]
  /\ \A x \in Objects : /\ s.ref[x] = Held(s, x) + e[x]
                        /\ s.weak[x] = Watched(s, x) + Alive(s, x)
                        /\ x \in s.live <=> s.ref[x] > 0
                        /\ x \in s.block <=> s.weak[x] > 0
  /\ \A p \in SPlaces : s.shared[p].ptr = s.shared[p].sc
  /\ \A w \in WPlaces : s.weakly[w].wc # NULL => s.ref[s.weakly[w].wc] = 0 \/ s.weakly[w].ptr = s.weakly[w].wc

\* ... where each object knows its owner.
Told(s) == \A x \in Objects : s.weakly[x] = IF x \in s.live THEN [ptr |-> x, wc |-> x] ELSE P!NoWeak

LEMMA CountedIs == 
  ASSUME PointersAssumption, NEW s, NEW e
  PROVE  Counted(s, <<>>, e) <=> Balanced(s, e) /\ Told(s)
<1>1. ASSUME Balanced(s, e), Told(s)
      PROVE  Counted(s, <<>>, e)
  <2>1. ASSUME NEW x \in Objects
        PROVE  /\ s.ref[x] = Held(s, x) + Pending(<<>>, <<"release", x>>) + e[x]
               /\ s.weak[x] = Watched(s, x) + Pending(<<>>, <<"weak_release", x>>) + Alive(s, x)
               /\ ObjectHolds(s, x)
    <3> DEFINE h == Held(s, x)
               w == Watched(s, x)
               a == Alive(s, x)
    <3>1. h \in Nat /\ w \in Nat /\ a \in Nat /\ e[x] \in Nat
      BY <1>1, PlacesCount DEF Balanced, Alive
    <3>2. s.ref[x] = h + e[x] /\ s.weak[x] = w + a /\ ObjectHolds(s, x)
      BY <1>1 DEF Balanced, Told, ObjectHolds
    <3>3. Pending(<<>>, <<"release", x>>) = 0 /\ Pending(<<>>, <<"weak_release", x>>) = 0
      BY NoneComing
    <3>. HIDE DEF h, w, a
    <3>4. s.ref[x] = h + 0 + e[x] /\ s.weak[x] = w + 0 + a
      BY <3>1, <3>2
    <3>. QED
      BY <3>2, <3>3, <3>4 DEF h, w, a
  <2>2. <<>> \in Seq(Calls)
    OBVIOUS
  <2>. QED
    BY <1>1, <2>1, <2>2 DEF Counted, Balanced
<1>2. ASSUME Counted(s, <<>>, e)
      PROVE  Balanced(s, e) /\ Told(s)
  <2>1. ASSUME NEW x \in Objects
        PROVE  s.ref[x] = Held(s, x) + e[x] /\ s.weak[x] = Watched(s, x) + Alive(s, x) /\ ObjectHolds(s, x)
    <3> DEFINE h == Held(s, x)
               w == Watched(s, x)
               a == Alive(s, x)
    <3>1. CountsOf(s, <<>>, e, x)
      BY <1>2, CountedObject
    <3>2. h \in Nat /\ w \in Nat /\ a \in Nat /\ e[x] \in Nat
      BY <3>1 DEF CountsOf, Alive
    <3>3. Pending(<<>>, <<"release", x>>) = 0 /\ Pending(<<>>, <<"weak_release", x>>) = 0
      BY NoneComing
    <3>4. s.ref[x] = h + 0 + e[x] /\ s.weak[x] = w + 0 + a /\ ObjectHolds(s, x)
      BY <3>1, <3>3 DEF CountsOf
    <3>. HIDE DEF h, w, a
    <3>5. s.ref[x] = h + e[x] /\ s.weak[x] = w + a
      BY <3>2, <3>4
    <3>. QED
      BY <3>4, <3>5 DEF h, w, a
  <2>. QED
    BY <1>2, <2>1 DEF Counted, Balanced, Told, ObjectHolds
<1>. QED
  BY <1>1, <1>2

LEMMA BalancedObject ==
  ASSUME PointersAssumption, NEW s, NEW e, Balanced(s, e), NEW x \in Objects
  PROVE  /\ s.ref[x] \in Nat /\ s.weak[x] \in Nat /\ e[x] \in Nat /\ Held(s, x) \in Nat /\ Watched(s, x) \in Nat
         /\ Alive(s, x) \in {0, 1}
         /\ s.ref[x] = Held(s, x) + e[x] /\ s.weak[x] = Watched(s, x) + Alive(s, x)
BY PlacesCount, HeapFields DEF Balanced, Alive

\* Fields of a heap that change.
RefBy(t, s, r) == t = [s EXCEPT !.ref = r]
SharedBy(t, s, sp) == t = [s EXCEPT !.shared = sp]
WeaklyBy(t, s, w, wp) == t = [s EXCEPT !.weak = w, !.weakly = wp]
BornBy(t, s, l, b, r, w) == t = [s EXCEPT !.live = l, !.block = b, !.ref = r, !.weak = w]

SameBut(t, s, fields) == t \in HeapTypes /\ \A f \in {"live", "block", "ref", "weak", "shared", "weakly"} \ fields : t[f] = s[f]

LEMMA FieldChanges ==
  ASSUME NEW s \in HeapTypes, NEW t
  PROVE  /\ \A r \in [Objects -> Nat] : RefBy(t, s, r) => SameBut(t, s, {"ref"}) /\ t.ref = r
         /\ \A sp \in [SPlaces -> [ptr : AnObject, sc : AnObject]] :
              SharedBy(t, s, sp) => SameBut(t, s, {"shared"}) /\ t.shared = sp
         /\ \A w \in [Objects -> Nat], wp \in [WPlaces -> [ptr : AnObject, wc : AnObject]] :
              WeaklyBy(t, s, w, wp) => SameBut(t, s, {"weak", "weakly"}) /\ t.weak = w /\ t.weakly = wp
         /\ \A l, b \in SUBSET Objects, r, w \in [Objects -> Nat] :
              BornBy(t, s, l, b, r, w) =>
                SameBut(t, s, {"live", "block", "ref", "weak"}) /\ t.live = l /\ t.block = b /\ t.ref = r /\ t.weak = w
<1> DEFINE SP == [SPlaces -> [ptr : AnObject, sc : AnObject]]
           WP == [WPlaces -> [ptr : AnObject, wc : AnObject]]
           CO == [Objects -> Nat]
           O == SUBSET Objects
<1>1. s \in [live : O, block : O, ref : CO, weak : CO, shared : SP, weakly : WP]
  BY DEF HeapTypes
<1>2. HeapTypes = [live : O, block : O, ref : CO, weak : CO, shared : SP, weakly : WP]
  BY DEF HeapTypes
<1>. HIDE DEF SP, WP, CO, O
<1>3. \A r \in CO : RefBy(t, s, r) => SameBut(t, s, {"ref"}) /\ t.ref = r
  BY <1>1, <1>2 DEF RefBy, SameBut
<1>4. \A sp \in SP : SharedBy(t, s, sp) => SameBut(t, s, {"shared"}) /\ t.shared = sp
  BY <1>1, <1>2 DEF SharedBy, SameBut
<1>5. \A w \in CO, wp \in WP : WeaklyBy(t, s, w, wp) => SameBut(t, s, {"weak", "weakly"}) /\ t.weak = w /\ t.weakly = wp
  BY <1>1, <1>2 DEF WeaklyBy, SameBut
<1>6. \A l, b \in O, r, w \in CO :
        BornBy(t, s, l, b, r, w) =>
          SameBut(t, s, {"live", "block", "ref", "weak"}) /\ t.live = l /\ t.block = b /\ t.ref = r /\ t.weak = w
  BY <1>1, <1>2 DEF BornBy, SameBut
<1>. QED
  BY <1>3, <1>4, <1>5, <1>6 DEF SP, WP, CO, O

\* addref(): a function has one more reference.
LEMMA AddRefKeeps ==
  ASSUME PointersAssumption, NEW s, NEW e, Balanced(s, e), NEW z \in AnObject, z # NULL => s.ref[z] > 0
  PROVE  LET t == P!AddRef(s, z)
         IN  Balanced(t, Plus(e, z)) /\ t.live = s.live /\ t.weakly = s.weakly /\ t.shared = s.shared
<1> DEFINE t == P!AddRef(s, z)
           r == [x \in Objects |-> s.ref[x] + Same(z, x)]
<1>0. s \in HeapTypes /\ e \in [Objects -> Nat] /\ NULL \notin Objects
  BY DEF Balanced, PointersAssumption
<1>1. \A x \in Objects : s.ref[x] \in Nat /\ Same(z, x) \in Nat /\ e[x] \in Nat
  BY <1>0, HeapFields, SameIs
<1>2. r \in [Objects -> Nat] /\ Plus(e, z) \in [Objects -> Nat] /\ \A x \in Objects : Plus(e, z)[x] = e[x] + Same(z, x)
  BY <1>1 DEF Plus
<1>3. t \in HeapTypes /\ t.live = s.live /\ t.block = s.block /\ t.weak = s.weak /\ t.shared = s.shared /\ t.weakly = s.weakly
      /\ \A x \in Objects : t.ref[x] = s.ref[x] + Same(z, x)
  <2>1. CASE z = NULL
    <3>1. t = s
      BY <2>1 DEF P!AddRef
    <3>2. \A x \in Objects : Same(z, x) = 0
      BY <1>0, <2>1, SameIs
    <3>. QED
      BY <1>0, <1>1, <3>1, <3>2
  <2>2. CASE z # NULL
    <3>1. z \in Objects
      BY <2>2 DEF AnObject
    <3> DEFINE r2 == [s.ref EXCEPT ![z] = s.ref[z] + 1]
    <3>2. RefBy(t, s, r2)
      BY <1>0, <2>2 DEF P!AddRef, RefBy, HeapTypes
    <3>3. s.ref \in [Objects -> Nat]
      BY <1>0, HeapFields
    <3>4. r2 \in [Objects -> Nat] /\ \A x \in Objects : r2[x] = IF x = z THEN s.ref[x] + 1 ELSE s.ref[x]
      BY <3>1, <3>3
    <3>5. \A x \in Objects : r2[x] = s.ref[x] + Same(z, x)
      <4>. SUFFICES ASSUME NEW x \in Objects
                    PROVE  r2[x] = s.ref[x] + Same(z, x)
        OBVIOUS
      <4>1. (x = z => Same(z, x) = 1) /\ (x # z => Same(z, x) = 0)
        BY SameIs
      <4>. QED
        BY <1>1, <3>4, <4>1
    <3>. HIDE DEF r2, t
    <3>6. t \in HeapTypes /\ t.live = s.live /\ t.block = s.block /\ t.weak = s.weak /\ t.shared = s.shared /\ t.weakly = s.weakly /\ t.ref = r2
      <4>1. SameBut(t, s, {"ref"}) /\ t.ref = r2
        BY <1>0, <3>2, <3>4, FieldChanges
      <4>. QED
        BY <4>1 DEF SameBut
    <3>. QED
      BY <3>5, <3>6
  <2>. QED
    BY <2>1, <2>2
<1>. HIDE DEF t
<1>4. ASSUME NEW x \in Objects
      PROVE  /\ t.ref[x] = Held(t, x) + Plus(e, z)[x]
             /\ t.weak[x] = Watched(t, x) + Alive(t, x)
             /\ x \in t.live <=> t.ref[x] > 0
             /\ x \in t.block <=> t.weak[x] > 0
             /\ s.ref[x] = 0 => t.ref[x] = 0
  <2> DEFINE h == Held(s, x)
  <2>1. Held(t, x) = h /\ Watched(t, x) = Watched(s, x)
    BY <1>3 DEF Held, Watched, Holds, Watches
  <2>2. h \in Nat /\ s.ref[x] = h + e[x] /\ s.weak[x] = Watched(s, x) + Alive(s, x)
        /\ (x \in s.live <=> s.ref[x] > 0) /\ (x \in s.block <=> s.weak[x] > 0)
    BY <1>0, PlacesCount DEF Balanced
  <2>. HIDE DEF h
  <2>3. t.ref[x] = h + Plus(e, z)[x]
    BY <1>1, <1>2, <1>3, <2>2
  <2>4. t.ref[x] > 0 <=> s.ref[x] > 0
    <3>1. x = z => s.ref[x] > 0
      BY <1>0
    <3>2. x # z => Same(z, x) = 0
      BY SameIs
    <3>. QED
      BY <1>1, <1>3, <3>1, <3>2
  <2>5. Alive(t, x) = Alive(s, x)
    BY <2>4 DEF Alive
  <2>6. s.ref[x] = 0 => t.ref[x] = 0
    <3>1. t.ref[x] \in Nat
      BY <1>1, <1>3
    <3>. QED
      BY <2>4, <3>1
  <2>. QED
    BY <1>3, <2>1, <2>2, <2>3, <2>4, <2>5, <2>6
<1>5. \A w \in WPlaces : t.weakly[w].wc # NULL => t.ref[t.weakly[w].wc] = 0 \/ t.weakly[w].ptr = t.weakly[w].wc
  <2>1. \A w \in WPlaces : s.weakly[w].wc # NULL => s.ref[s.weakly[w].wc] = 0 \/ s.weakly[w].ptr = s.weakly[w].wc
    BY DEF Balanced
  <2>. QED
    BY <1>0, <1>3, <1>4, <2>1, WeaksAfter
<1>6. \A p \in SPlaces : t.shared[p].ptr = t.shared[p].sc
  BY <1>3 DEF Balanced
<1>7. Balanced(t, Plus(e, z))
  BY <1>2, <1>3, <1>4, <1>5, <1>6 DEF Balanced
<1>. QED
  BY <1>3, <1>7 DEF t

LEMMA PlusIs ==
  ASSUME NEW e \in [Objects -> Nat], NEW o
  PROVE  Plus(e, o) \in [Objects -> Nat] /\ \A x \in Objects : Plus(e, o)[x] = e[x] + Same(o, x)
<1>1. \A x \in Objects : e[x] + Same(o, x) \in Nat
  BY SameIs
<1>. QED
  BY <1>1 DEF Plus

\* A function lets go of its reference: a release is to come.
LEMMA ReferenceEnds ==
  ASSUME PointersAssumption, NEW s, NEW e \in [Objects -> Nat], NEW o \in Objects, Balanced(s, Plus(e, o)), Told(s)
  PROVE  Counted(s, <<<<"release", o>>>>, e)
<1> DEFINE c == <<"release", o>>
<1>1. c \in Calls /\ <<c>> \in Seq(Calls)
  <2>1. c \in Calls
    BY NamedCalls DEF AnObject
  <2>. QED
    BY <2>1
<1>2. ASSUME NEW x \in Objects
      PROVE  /\ s.ref[x] = Held(s, x) + Pending(<<c>>, <<"release", x>>) + e[x]
             /\ s.weak[x] = Watched(s, x) + Pending(<<c>>, <<"weak_release", x>>) + Alive(s, x)
             /\ ObjectHolds(s, x)
  <2> DEFINE h == Held(s, x)
             w == Watched(s, x)
             a == Alive(s, x)
  <2>1. /\ Plus(e, o)[x] = e[x] + Same(o, x) /\ s.ref[x] = h + Plus(e, o)[x] /\ s.weak[x] = w + a
        /\ h \in Nat /\ w \in Nat /\ a \in {0, 1} /\ e[x] \in Nat
    BY PlusIs, BalancedObject
  <2>2. Same(c, <<"release", x>>) = Same(o, x) /\ Same(c, <<"weak_release", x>>) = 0 /\ Same(o, x) \in {0, 1}
    BY NamedCalls, SameIs DEF Same
  <2>3. Pending(<<c>>, <<"release", x>>) = Same(o, x) /\ Pending(<<c>>, <<"weak_release", x>>) = 0
    BY <1>1, <2>2, OneComing
  <2>. HIDE DEF h, w, a, c
  <2>4. s.ref[x] = h + Same(o, x) + e[x] /\ s.weak[x] = w + 0 + a
    BY <2>1, <2>2
  <2>5. ObjectHolds(s, x)
    BY DEF Balanced, Told, ObjectHolds
  <2>. QED
    BY <2>3, <2>4, <2>5 DEF h, w, a
<1>. HIDE DEF c
<1>3. Counted(s, <<c>>, e)
  BY <1>1, <1>2 DEF Counted, Balanced
<1>. QED
  BY <1>3 DEF c

\* A function's reference is put into p, and what was there is to be released.
LEMMA PlacedKeeps ==
  ASSUME PointersAssumption, NEW s, NEW e \in [Objects -> Nat], NEW p \in SPlaces,
         NEW x \in [ptr : AnObject, sc : AnObject], x.ptr = x.sc, Balanced(s, Plus(e, x.sc)), Told(s)
  PROVE  Counted([s EXCEPT !.shared[p] = x], <<<<"release", s.shared[p].sc>>>>, e)
<1> DEFINE t == [s EXCEPT !.shared[p] = x]
           old == s.shared[p].sc
           c == <<"release", old>>
           sp == [s.shared EXCEPT ![p] = x]
<1>0. s \in HeapTypes /\ NULL \notin Objects
  BY DEF Balanced, PointersAssumption
<1>1. sp \in [SPlaces -> [ptr : AnObject, sc : AnObject]] /\ old \in AnObject
      /\ \A q \in SPlaces : sp[q] = IF q = p THEN x ELSE s.shared[q]
  BY <1>0, HeapFields
<1>2. SharedBy(t, s, sp)
  BY <1>0 DEF SharedBy, HeapTypes
<1>3. c \in Calls /\ <<c>> \in Seq(Calls)
  <2>1. c \in Calls
    BY <1>1, NamedCalls
  <2>. QED
    BY <2>1
<1>. HIDE DEF t, sp, c
<1>4. t \in HeapTypes /\ t.live = s.live /\ t.block = s.block /\ t.ref = s.ref /\ t.weak = s.weak /\ t.weakly = s.weakly /\ t.shared = sp
  <2>1. SameBut(t, s, {"shared"}) /\ t.shared = sp
    BY <1>0, <1>1, <1>2, FieldChanges
  <2>. QED
    BY <2>1 DEF SameBut
<1>5. ASSUME NEW y \in Objects
      PROVE  /\ t.ref[y] = Held(t, y) + Pending(<<c>>, <<"release", y>>) + e[y]
             /\ t.weak[y] = Watched(t, y) + Pending(<<c>>, <<"weak_release", y>>) + Alive(t, y)
             /\ ObjectHolds(t, y)
  <2> DEFINE h == Held(s, y)
             g == Held(t, y)
             w == Watched(s, y)
             a == Alive(s, y)
  <2>1. /\ Plus(e, x.sc)[y] = e[y] + Same(x.sc, y) /\ s.ref[y] = h + Plus(e, x.sc)[y] /\ s.weak[y] = w + a
        /\ h \in Nat /\ w \in Nat /\ a \in {0, 1} /\ e[y] \in Nat
    BY PlusIs, BalancedObject
  <2>2. /\ Same(c, <<"release", y>>) = Same(old, y) /\ Same(c, <<"weak_release", y>>) = 0
        /\ Same(old, y) \in {0, 1} /\ Same(x.sc, y) \in {0, 1}
    BY NamedCalls, SameIs DEF Same, c
  <2>3. Pending(<<c>>, <<"release", y>>) = Same(old, y) /\ Pending(<<c>>, <<"weak_release", y>>) = 0
    BY <1>3, <2>2, OneComing
  <2>4. g + Same(old, y) = h + Same(x.sc, y) /\ g \in Nat
    <3>1. t.shared[p].sc = x.sc /\ \A q \in SPlaces : q # p => t.shared[q] = s.shared[q]
      BY <1>1, <1>4
    <3>2. Held(t, y) + Same(s.shared[p].sc, y) = Held(s, y) + Same(t.shared[p].sc, y)
      BY <1>0, <1>4, <3>1, SharedMoves
    <3>3. g \in Nat
      BY <1>4, PlacesCount
    <3>. QED
      BY <3>1, <3>2, <3>3
  <2>5. Watched(t, y) = w /\ Alive(t, y) = a
    BY <1>4 DEF Watched, Watches, Alive
  <2>6. ObjectHolds(t, y)
    BY <1>4 DEF Balanced, Told, ObjectHolds
  <2>. HIDE DEF h, g, w, a, old
  <2>7. s.ref[y] = g + Same(old, y) + e[y] /\ s.weak[y] = w + 0 + a
    BY <2>1, <2>2, <2>4
  <2>. QED
    BY <1>4, <2>3, <2>5, <2>6, <2>7 DEF g
<1>6. \A q \in SPlaces : t.shared[q].ptr = t.shared[q].sc
  BY <1>1, <1>4 DEF Balanced
<1>7. \A w \in WPlaces : t.weakly[w].wc # NULL => t.ref[t.weakly[w].wc] = 0 \/ t.weakly[w].ptr = t.weakly[w].wc
  BY <1>4 DEF Balanced
<1>8. Counted(t, <<c>>, e)
  BY <1>3, <1>4, <1>5, <1>6, <1>7 DEF Counted
<1>. QED
  BY <1>8 DEF t, c, old

\* What a SharedPtr can be set to: nothing, or an object that lives.
Living(s, x) == x \in [ptr : AnObject, sc : AnObject] /\ x.ptr = x.sc /\ (x.sc # NULL => s.ref[x.sc] > 0)

\* operator = and reset()
LEMMA SetSharedKeeps ==
  ASSUME PointersAssumption, NEW s, NEW e, Counted(s, <<>>, e), NEW p \in SPlaces, NEW x, Living(s, x)
  PROVE  Counted(P!SetShared(s, p, x), <<>>, e)
<1> DEFINE r == P!AddRef(s, x.sc)
           t == [r EXCEPT !.shared[p] = x]
           todo == <<<<"release", r.shared[p].sc>>>>
<1>1. Balanced(s, e) /\ Told(s) /\ x.sc \in AnObject /\ e \in [Objects -> Nat]
  BY CountedIs DEF Living, Balanced
<1>2. Balanced(r, Plus(e, x.sc)) /\ r.live = s.live /\ r.weakly = s.weakly /\ r.shared = s.shared
  BY <1>1, AddRefKeeps DEF Living
<1>. HIDE DEF r
<1>3. Told(r)
  BY <1>1, <1>2 DEF Told
<1>4. Counted(t, todo, e)
  BY <1>1, <1>2, <1>3, PlacedKeeps DEF Living
<1>. HIDE DEF t, todo
<1>5. Counted(P!Released(t, todo), <<>>, e)
  BY <1>4, ReleasedKeeps
<1>6. P!SetShared(s, p, x) = P!Released(t, todo)
  BY <1>2 DEF P!SetShared, r, t, todo
<1>. QED
  BY <1>5, <1>6

\* swap()
LEMMA SwapKeeps ==
  ASSUME PointersAssumption, NEW s, NEW e, Counted(s, <<>>, e), NEW p \in SPlaces, NEW q \in SPlaces
  PROVE  Counted([s EXCEPT !.shared[p] = s.shared[q], !.shared[q] = s.shared[p]], <<>>, e)
<1> DEFINE sp1 == [s.shared EXCEPT ![p] = s.shared[q]]
           sp == [sp1 EXCEPT ![q] = s.shared[p]]
           m == [s EXCEPT !.shared = sp1]
           t == [s EXCEPT !.shared[p] = s.shared[q], !.shared[q] = s.shared[p]]
<1>0. s \in HeapTypes /\ Balanced(s, e) /\ Told(s)
  BY CountedIs DEF Balanced
<1>1. /\ sp1 \in [SPlaces -> [ptr : AnObject, sc : AnObject]] /\ sp \in [SPlaces -> [ptr : AnObject, sc : AnObject]]
      /\ \A z \in SPlaces : sp1[z] = IF z = p THEN s.shared[q] ELSE s.shared[z]
      /\ \A z \in SPlaces : sp[z] = IF z = q THEN s.shared[p] ELSE sp1[z]
  BY <1>0, HeapFields
<1>2. SharedBy(t, s, sp) /\ SharedBy(m, s, sp1)
  BY <1>0 DEF SharedBy, HeapTypes
<1>. HIDE DEF t, m, sp, sp1
<1>3. t \in HeapTypes /\ t.live = s.live /\ t.block = s.block /\ t.ref = s.ref /\ t.weak = s.weak /\ t.weakly = s.weakly /\ t.shared = sp
  <2>1. SameBut(t, s, {"shared"}) /\ t.shared = sp
    BY <1>0, <1>1, <1>2, FieldChanges
  <2>. QED
    BY <2>1 DEF SameBut
<1>4. m \in HeapTypes /\ m.shared = sp1
  <2>1. SameBut(m, s, {"shared"}) /\ m.shared = sp1
    BY <1>0, <1>1, <1>2, FieldChanges
  <2>. QED
    BY <2>1 DEF SameBut
<1>5. ASSUME NEW y \in Objects
      PROVE  Held(t, y) = Held(s, y)
  <2> DEFINE a == Same(s.shared[p].sc, y)
             b == Same(s.shared[q].sc, y)
             h == Held(s, y)
             i == Held(m, y)
             j == Held(t, y)
  <2>1. a \in {0, 1} /\ b \in {0, 1} /\ h \in Nat /\ i \in Nat /\ j \in Nat
    BY <1>0, <1>3, <1>4, SameIs, PlacesCount
  <2>2. i + a = h + b
    <3>1. m.shared[p] = s.shared[q] /\ \A z \in SPlaces : z # p => m.shared[z] = s.shared[z]
      BY <1>1, <1>4
    <3>2. Held(m, y) + Same(s.shared[p].sc, y) = Held(s, y) + Same(m.shared[p].sc, y)
      BY <1>0, <1>4, <3>1, SharedMoves
    <3>. QED
      BY <3>1, <3>2
  <2>3. j + b = i + a
    <3>1. t.shared[q] = s.shared[p] /\ m.shared[q] = s.shared[q] /\ \A z \in SPlaces : z # q => t.shared[z] = m.shared[z]
      BY <1>1, <1>3, <1>4
    <3>2. Held(t, y) + Same(m.shared[q].sc, y) = Held(m, y) + Same(t.shared[q].sc, y)
      BY <1>3, <1>4, <3>1, SharedMoves
    <3>. QED
      BY <3>1, <3>2
  <2>. HIDE DEF a, b, h, i, j
  <2>4. j = h
    BY <2>1, <2>2, <2>3
  <2>. QED
    BY <2>4 DEF h, j
<1>6. Balanced(t, e)
  <2>1. \A y \in Objects : Watched(t, y) = Watched(s, y) /\ Alive(t, y) = Alive(s, y)
    BY <1>3 DEF Watched, Watches, Alive
  <2>2. \A z \in SPlaces : t.shared[z].ptr = t.shared[z].sc
    <3>1. \A z \in SPlaces : s.shared[z].ptr = s.shared[z].sc
      BY <1>0 DEF Balanced
    <3>2. \A z \in SPlaces : t.shared[z] \in {s.shared[p], s.shared[q], s.shared[z]}
      BY <1>1, <1>3
    <3>. QED
      BY <3>1, <3>2, Zenon
  <2>. QED
    BY <1>0, <1>3, <1>5, <2>1, <2>2 DEF Balanced
<1>7. Told(t)
  BY <1>0, <1>3 DEF Told
<1>8. Counted(t, <<>>, e)
  BY <1>6, <1>7, CountedIs
<1>. QED
  BY <1>8 DEF t

\* What a WeakPtr can be set to: a block, with its object if that lives.
Blocked(s, x) ==
  /\ x \in [ptr : AnObject, wc : AnObject]
  /\ x.wc # NULL => s.weak[x.wc] > 0 /\ (s.ref[x.wc] = 0 \/ x.ptr = x.wc)

LEMMA WeakComing ==
  ASSUME NEW old \in AnObject, NEW y \in Objects
  PROVE  /\ <<<<"weak_release", old>>>> \in Seq(Calls)
         /\ Pending(<<<<"weak_release", old>>>>, <<"release", y>>) = 0
         /\ Pending(<<<<"weak_release", old>>>>, <<"weak_release", y>>) = Same(old, y)
<1> DEFINE c == <<"weak_release", old>>
<1>1. c \in Calls
  BY NamedCalls
<1>2. Same(c, <<"release", y>>) = 0 /\ Same(c, <<"weak_release", y>>) = Same(old, y)
  BY NamedCalls DEF Same
<1>. HIDE DEF c
<1>3. Pending(<<c>>, <<"release", y>>) = 0 /\ Pending(<<c>>, <<"weak_release", y>>) = Same(old, y)
  BY <1>1, <1>2, OneComing
<1>. QED
  BY <1>1, <1>3 DEF c

\* A WeakPtr is put into w, and what was there is to be released.
LEMMA SetWeakKeeps ==
  ASSUME PointersAssumption, NEW s, NEW e, Balanced(s, e), NEW w \in WPlaces, NEW x, Blocked(s, x),
         \A y \in Objects : (IF y = w THEN x ELSE s.weakly[y]) = IF y \in s.live THEN [ptr |-> y, wc |-> y] ELSE P!NoWeak
  PROVE  Counted(P!SetWeak(s, w, x), <<>>, e)
<1> DEFINE t == [P!WeakAddRef(s, x.wc) EXCEPT !.weakly[w] = x]
           old == s.weakly[w].wc
           todo == <<<<"weak_release", old>>>>
           wp == [s.weakly EXCEPT ![w] = x]
           wk == [y \in Objects |-> s.weak[y] + Same(x.wc, y)]
<1>0. s \in HeapTypes /\ e \in [Objects -> Nat] /\ NULL \notin Objects
      /\ x \in [ptr : AnObject, wc : AnObject] /\ x.wc \in AnObject
  BY DEF Balanced, PointersAssumption, Blocked
<1>1. /\ wp \in [WPlaces -> [ptr : AnObject, wc : AnObject]] /\ old \in AnObject
      /\ \A v \in WPlaces : wp[v] = IF v = w THEN x ELSE s.weakly[v]
  BY <1>0, HeapFields
<1>2. \A y \in Objects : s.weak[y] \in Nat /\ Same(x.wc, y) \in Nat
  BY <1>0, HeapFields, SameIs
<1>3. wk \in [Objects -> Nat]
  BY <1>2
<1>4. WeaklyBy(t, s, wk, wp)
  <2>1. CASE x.wc = NULL
    <3>1. \A y \in Objects : Same(x.wc, y) = 0
      BY <1>0, <2>1, SameIs
    <3>2. s.weak \in [Objects -> Nat]
      BY <1>0, HeapFields
    <3>3. \A y \in Objects : wk[y] = s.weak[y]
      BY <1>2, <3>1
    <3>4. wk = s.weak
      BY <1>3, <3>2, <3>3
    <3>5. t = [s EXCEPT !.weakly = wp]
      BY <1>0, <2>1 DEF P!WeakAddRef, HeapTypes
    <3>. HIDE DEF wk, wp, t
    <3>6. [s EXCEPT !.weakly = wp] = [s EXCEPT !.weak = s.weak, !.weakly = wp]
      BY <1>0 DEF HeapTypes
    <3>. QED
      BY <3>4, <3>5, <3>6 DEF WeaklyBy
  <2>2. CASE x.wc # NULL
    <3> DEFINE z == x.wc
               w2 == [s.weak EXCEPT ![z] = s.weak[z] + 1]
    <3>1. z \in Objects
      BY <1>0, <2>2 DEF AnObject
    <3>2. s.weak \in [Objects -> Nat]
      BY <1>0, HeapFields
    <3>3. w2 \in [Objects -> Nat] /\ \A y \in Objects : w2[y] = IF y = z THEN s.weak[y] + 1 ELSE s.weak[y]
      BY <3>1, <3>2
    <3>4. \A y \in Objects : w2[y] = wk[y]
      <4>. SUFFICES ASSUME NEW y \in Objects
                    PROVE  w2[y] = s.weak[y] + Same(z, y)
        OBVIOUS
      <4>1. (y = z => Same(z, y) = 1) /\ (y # z => Same(z, y) = 0)
        BY SameIs
      <4>. QED
        BY <1>2, <3>3, <4>1
    <3>. HIDE DEF wk
    <3>5. w2 = wk
      BY <1>3, <3>3, <3>4
    <3>6. WeaklyBy(t, s, w2, wp)
      BY <1>0, <2>2 DEF P!WeakAddRef, WeaklyBy, HeapTypes
    <3>. QED
      BY <3>5, <3>6
  <2>. QED
    BY <2>1, <2>2
<1>5. \A y \in Objects : wk[y] = s.weak[y] + Same(x.wc, y)
  OBVIOUS
<1>. HIDE DEF t, wp, wk
<1>6. t \in HeapTypes /\ t.live = s.live /\ t.block = s.block /\ t.ref = s.ref /\ t.shared = s.shared /\ t.weak = wk /\ t.weakly = wp
  <2>1. SameBut(t, s, {"weak", "weakly"}) /\ t.weak = wk /\ t.weakly = wp
    BY <1>0, <1>1, <1>3, <1>4, FieldChanges
  <2>. QED
    BY <2>1 DEF SameBut
<1>7. ASSUME NEW y \in Objects
      PROVE  /\ t.ref[y] = Held(t, y) + Pending(todo, <<"release", y>>) + e[y]
             /\ t.weak[y] = Watched(t, y) + Pending(todo, <<"weak_release", y>>) + Alive(t, y)
             /\ ObjectHolds(t, y)
  <2> DEFINE h == Held(s, y)
             g == Watched(t, y)
             u == Watched(s, y)
             a == Alive(s, y)
  <2>1. /\ s.ref[y] = h + e[y] /\ s.weak[y] = u + a
        /\ h \in Nat /\ u \in Nat /\ a \in {0, 1} /\ e[y] \in Nat
    BY BalancedObject
  <2>2. Same(old, y) \in {0, 1} /\ Same(x.wc, y) \in {0, 1}
    BY SameIs
  <2>3. Pending(todo, <<"release", y>>) = 0 /\ Pending(todo, <<"weak_release", y>>) = Same(old, y)
    BY <1>1, WeakComing
  <2>4. g + Same(old, y) = u + Same(x.wc, y) /\ g \in Nat
    <3>1. t.weakly[w].wc = x.wc /\ \A v \in WPlaces : v # w => t.weakly[v] = s.weakly[v]
      BY <1>1, <1>6
    <3>2. Watched(t, y) + Same(s.weakly[w].wc, y) = Watched(s, y) + Same(t.weakly[w].wc, y)
      BY <1>0, <1>6, <3>1, WeaklyMoves
    <3>3. g \in Nat
      BY <1>6, PlacesCount
    <3>. QED
      BY <3>1, <3>2, <3>3
  <2>5. Held(t, y) = h /\ Alive(t, y) = a
    BY <1>6 DEF Held, Holds, Alive
  <2>6. ObjectHolds(t, y)
    <3>1. (y \in s.live <=> s.ref[y] > 0) /\ (y \in s.block <=> s.weak[y] > 0)
      BY DEF Balanced
    <3>2. y \in WPlaces /\ t.weakly[y] = IF y = w THEN x ELSE s.weakly[y]
      BY <1>1, <1>6 DEF WPlaces
    <3>3. t.weakly[y] = IF y \in s.live THEN [ptr |-> y, wc |-> y] ELSE P!NoWeak
      BY <3>2
    <3>4. x.wc = y => s.weak[y] > 0
      BY <1>0 DEF Blocked
    <3>5. t.weak[y] > 0 <=> s.weak[y] > 0
      <4>1. x.wc # y => Same(x.wc, y) = 0
        BY SameIs
      <4>. QED
        BY <1>2, <1>5, <1>6, <3>4, <4>1
    <3>. QED
      BY <1>6, <3>1, <3>3, <3>5 DEF ObjectHolds
  <2>. HIDE DEF h, g, u, a, old, todo
  <2>7. s.ref[y] = h + 0 + e[y] /\ s.weak[y] + Same(x.wc, y) = g + Same(old, y) + a
    BY <2>1, <2>2, <2>4
  <2>. QED
    BY <1>5, <1>6, <2>3, <2>5, <2>6, <2>7 DEF g
<1>8. \A q \in SPlaces : t.shared[q].ptr = t.shared[q].sc
  BY <1>6 DEF Balanced
<1>9. \A v \in WPlaces : t.weakly[v].wc # NULL => t.ref[t.weakly[v].wc] = 0 \/ t.weakly[v].ptr = t.weakly[v].wc
  <2>. SUFFICES ASSUME NEW v \in WPlaces
                PROVE  t.weakly[v].wc # NULL => t.ref[t.weakly[v].wc] = 0 \/ t.weakly[v].ptr = t.weakly[v].wc
    OBVIOUS
  <2>1. CASE v = w
    BY <1>1, <1>6, <2>1 DEF Blocked
  <2>2. CASE v # w
    BY <1>1, <1>6, <2>2 DEF Balanced
  <2>. QED
    BY <2>1, <2>2
<1>10. todo \in Seq(Calls)
  <2>1. old \in AnObject
    BY <1>1
  <2>2. <<"weak_release", old>> \in Calls
    BY <2>1, NamedCalls
  <2>. QED
    BY <2>2
<1>. HIDE DEF todo
<1>11. Counted(t, todo, e)
  BY <1>0, <1>6, <1>7, <1>8, <1>9, <1>10 DEF Counted
<1>12. Counted(P!Released(t, todo), <<>>, e)
  BY <1>11, ReleasedKeeps
<1>13. P!SetWeak(s, w, x) = P!Released(t, todo)
  BY DEF P!SetWeak, t, todo
<1>. QED
  BY <1>12, <1>13

\* A WeakPtr of the program is set.
LEMMA ProgramSetsWeak ==
  ASSUME PointersAssumption, NEW s, NEW e, Counted(s, <<>>, e), NEW w \in Weak, NEW x, Blocked(s, x)
  PROVE  Counted(P!SetWeak(s, w, x), <<>>, e)
<1>1. Balanced(s, e) /\ Told(s)
  BY CountedIs
<1>2. w \in WPlaces /\ w \notin Objects
  BY DEF WPlaces, PointersAssumption
<1>3. \A y \in Objects : (IF y = w THEN x ELSE s.weakly[y]) = IF y \in s.live THEN [ptr |-> y, wc |-> y] ELSE P!NoWeak
  BY <1>1, <1>2 DEF Told
<1>. QED
  BY <1>1, <1>2, <1>3, SetWeakKeeps

LEMMA ProgramSetsWeakFromShared ==
  ASSUME PointersAssumption, NEW s, NEW e, Counted(s, <<>>, e), NEW w \in Weak, NEW x, Living(s, x)
  PROVE  Counted(P!SetWeakFromShared(s, w, x), <<>>, e)
<1>0. Balanced(s, e) /\ Told(s) /\ s \in HeapTypes /\ NULL \notin Objects /\ w \in WPlaces /\ w \notin Objects
  BY CountedIs DEF Balanced, WPlaces, PointersAssumption
<1>1. CASE x.sc = s.weakly[w].wc
  <2> DEFINE t == [s EXCEPT !.weakly[w].ptr = x.ptr]
             wp == [s.weakly EXCEPT ![w] = [ptr |-> x.ptr, wc |-> x.sc]]
  <2>1. s.weakly[w] \in [ptr : AnObject, wc : AnObject]
    BY <1>0, HeapFields
  <2>2. [s.weakly[w] EXCEPT !.ptr = x.ptr] = [ptr |-> x.ptr, wc |-> x.sc]
    BY <1>1, <2>1
  <2>3. t = [s EXCEPT !.weakly = [s.weakly EXCEPT ![w] = [s.weakly[w] EXCEPT !.ptr = x.ptr]]]
    BY <1>0 DEF HeapTypes
  <2>4. t = [s EXCEPT !.weakly = wp]
    BY <2>2, <2>3
  <2>5. [s EXCEPT !.weakly = wp] = [s EXCEPT !.weak = s.weak, !.weakly = wp]
    BY <1>0 DEF HeapTypes
  <2>6. WeaklyBy(t, s, s.weak, wp)
    BY <2>4, <2>5 DEF WeaklyBy
  <2>7. /\ wp \in [WPlaces -> [ptr : AnObject, wc : AnObject]] /\ s.weak \in [Objects -> Nat]
        /\ \A v \in WPlaces : wp[v] = IF v = w THEN [ptr |-> x.ptr, wc |-> x.sc] ELSE s.weakly[v]
    <3>1. x.ptr \in AnObject /\ x.sc \in AnObject
      BY DEF Living
    <3>. QED
      BY <1>0, <3>1, HeapFields
  <2>8. P!SetWeakFromShared(s, w, x) = t
    BY <1>1 DEF P!SetWeakFromShared
  <2>. HIDE DEF t, wp
  <2>9. t \in HeapTypes /\ t.live = s.live /\ t.block = s.block /\ t.ref = s.ref /\ t.shared = s.shared /\ t.weak = s.weak /\ t.weakly = wp
    <3>1. SameBut(t, s, {"weak", "weakly"}) /\ t.weak = s.weak /\ t.weakly = wp
      BY <1>0, <2>6, <2>7, FieldChanges
    <3>. QED
      BY <3>1 DEF SameBut
  <2>10. \A v \in WPlaces : t.weakly[v].wc = s.weakly[v].wc
    BY <1>1, <2>7, <2>9
  <2>11. \A y \in Objects : Held(t, y) = Held(s, y) /\ Watched(t, y) = Watched(s, y) /\ Alive(t, y) = Alive(s, y)
    BY <2>9, <2>10 DEF Held, Holds, Watched, Watches, Alive
  <2>12. \A v \in WPlaces : t.weakly[v].wc # NULL => t.ref[t.weakly[v].wc] = 0 \/ t.weakly[v].ptr = t.weakly[v].wc
    BY <1>0, <2>7, <2>9 DEF Balanced, Living
  <2>13. Balanced(t, e)
    BY <1>0, <2>9, <2>11, <2>12 DEF Balanced
  <2>14. Told(t)
    BY <1>0, <2>7, <2>9 DEF Told, WPlaces
  <2>. QED
    BY <2>8, <2>13, <2>14, CountedIs
<1>2. CASE x.sc # s.weakly[w].wc
  <2>1. P!SetWeakFromShared(s, w, x) = P!SetWeak(s, w, [ptr |-> x.ptr, wc |-> x.sc])
    BY <1>2 DEF P!SetWeakFromShared
  <2>2. x.sc # NULL => s.weak[x.sc] > 0
    <3>. SUFFICES ASSUME x.sc # NULL
                  PROVE  s.weak[x.sc] > 0
      OBVIOUS
    <3>1. x.sc \in Objects /\ s.ref[x.sc] > 0
      BY DEF Living, AnObject
    <3> DEFINE z == x.sc
    <3>2. z \in Objects /\ s.ref[z] > 0
      BY <3>1
    <3>. HIDE DEF z
    <3>3. s.weak[z] \in Nat /\ Watched(s, z) \in Nat /\ s.weak[z] = Watched(s, z) + Alive(s, z)
      BY <1>0, <3>2, BalancedObject
    <3>4. Alive(s, z) = 1
      BY <3>2 DEF Alive
    <3>5. s.weak[z] > 0
      BY <3>3, <3>4
    <3>. QED
      BY <3>5 DEF z
  <2>3. Blocked(s, [ptr |-> x.ptr, wc |-> x.sc])
    BY <2>2 DEF Blocked, Living
  <2>. QED
    BY <2>1, <2>3, ProgramSetsWeak
<1>. QED
  BY <1>1, <1>2

\* make_shared() of a new object makes its block, with one reference.
LEMMA OwnedKeeps ==
  ASSUME PointersAssumption, NEW s, NEW e, Counted(s, <<>>, e), NEW o \in Objects, o \notin s.live \cup s.block
  PROVE  LET t == P!Owned(s, o)
         IN  Balanced(t, Plus(e, o)) /\ t.live = s.live \cup {o} /\ t.weakly = s.weakly /\ t.shared = s.shared
<1> DEFINE t == P!Owned(s, o)
           l == s.live \cup {o}
           b == s.block \cup {o}
           r == [s.ref EXCEPT ![o] = 1]
           wk == [s.weak EXCEPT ![o] = 1]
<1>0. Balanced(s, e) /\ Told(s) /\ s \in HeapTypes /\ e \in [Objects -> Nat] /\ NULL \notin Objects
  BY CountedIs DEF Balanced, PointersAssumption
<1>1. /\ l \in SUBSET Objects /\ b \in SUBSET Objects /\ r \in [Objects -> Nat] /\ wk \in [Objects -> Nat]
      /\ r[o] = 1 /\ wk[o] = 1 /\ \A y \in Objects : y # o => r[y] = s.ref[y] /\ wk[y] = s.weak[y]
  BY <1>0, HeapFields
<1>2. BornBy(t, s, l, b, r, wk)
  BY <1>0 DEF P!Owned, BornBy, HeapTypes
<1>. HIDE DEF t, l, b, r, wk
<1>3. /\ t \in HeapTypes /\ t.shared = s.shared /\ t.weakly = s.weakly
      /\ t.live = l /\ t.block = b /\ t.ref = r /\ t.weak = wk
  <2>1. SameBut(t, s, {"live", "block", "ref", "weak"}) /\ t.live = l /\ t.block = b /\ t.ref = r /\ t.weak = wk
    <3>1. l \in SUBSET Objects /\ b \in SUBSET Objects /\ r \in [Objects -> Nat] /\ wk \in [Objects -> Nat]
      BY <1>1
    <3>2. \A l1, b1 \in SUBSET Objects, r1, w1 \in [Objects -> Nat] :
            BornBy(t, s, l1, b1, r1, w1) =>
              SameBut(t, s, {"live", "block", "ref", "weak"}) /\ t.live = l1 /\ t.block = b1 /\ t.ref = r1 /\ t.weak = w1
      BY <1>0, FieldChanges
    <3>. QED
      BY <1>2, <3>1, <3>2
  <2>. QED
    BY <2>1 DEF SameBut
<1>4. \A y \in Objects : Held(t, y) = Held(s, y) /\ Watched(t, y) = Watched(s, y)
  BY <1>3 DEF Held, Holds, Watched, Watches
<1>5. Held(s, o) = 0 /\ e[o] = 0 /\ Watched(s, o) = 0
  <2>1. ~(s.ref[o] > 0) /\ ~(s.weak[o] > 0)
    BY <1>0 DEF Balanced
  <2>2. /\ s.ref[o] \in Nat /\ s.weak[o] \in Nat /\ e[o] \in Nat /\ Held(s, o) \in Nat /\ Watched(s, o) \in Nat
        /\ Alive(s, o) \in {0, 1}
        /\ s.ref[o] = Held(s, o) + e[o] /\ s.weak[o] = Watched(s, o) + Alive(s, o)
    BY <1>0, BalancedObject
  <2>. QED
    BY <2>1, <2>2
<1>6. ASSUME NEW y \in Objects
      PROVE  /\ t.ref[y] = Held(t, y) + Plus(e, o)[y]
             /\ t.weak[y] = Watched(t, y) + Alive(t, y)
             /\ y \in t.live <=> t.ref[y] > 0
             /\ y \in t.block <=> t.weak[y] > 0
  <2>1. Plus(e, o)[y] = e[y] + Same(o, y)
    BY <1>0, PlusIs
  <2>2. CASE y = o
    <3>1. Same(o, y) = 1 /\ Alive(t, y) = 1 /\ t.ref[y] = 1 /\ t.weak[y] = 1 /\ y \in t.live /\ y \in t.block
      BY <1>1, <1>3, <2>2, SameIs DEF Alive, l, b
    <3>. QED
      BY <1>4, <1>5, <2>1, <2>2, <3>1
  <2>3. CASE y # o
    <3>1. Same(o, y) = 0 /\ t.ref[y] = s.ref[y] /\ t.weak[y] = s.weak[y]
      BY <1>1, <1>3, <2>3, SameIs
    <3>2. Alive(t, y) = Alive(s, y)
      BY <3>1 DEF Alive
    <3>3. y \in t.live <=> y \in s.live
      BY <1>3, <2>3 DEF l
    <3>4. y \in t.block <=> y \in s.block
      BY <1>3, <2>3 DEF b
    <3>5. e[y] \in Nat
      BY <1>0
    <3>6. Plus(e, o)[y] = e[y]
      BY <2>1, <3>1, <3>5
    <3>. QED
      BY <1>0, <1>4, <3>1, <3>2, <3>3, <3>4, <3>6 DEF Balanced
  <2>. QED
    BY <2>2, <2>3
<1>7. \A p \in SPlaces : t.shared[p].ptr = t.shared[p].sc
  BY <1>0, <1>3 DEF Balanced
<1>8. ASSUME NEW w \in WPlaces, t.weakly[w].wc # NULL
      PROVE  t.ref[t.weakly[w].wc] = 0 \/ t.weakly[w].ptr = t.weakly[w].wc
  <2> DEFINE z == s.weakly[w].wc
  <2>1. z \in Objects
    BY <1>0, <1>3, <1>8, HeapFields DEF AnObject
  <2>2. z # o
    BY <1>0, <1>5, PlacesCount
  <2>3. t.ref[z] = s.ref[z]
    BY <1>1, <1>3, <2>1, <2>2
  <2>4. s.ref[z] = 0 \/ s.weakly[w].ptr = z
    BY <1>0, <1>3, <1>8 DEF Balanced
  <2>. QED
    BY <1>3, <2>3, <2>4
<1>9. Plus(e, o) \in [Objects -> Nat]
  BY <1>0, PlusIs
<1>10. Balanced(t, Plus(e, o))
  BY <1>3, <1>6, <1>7, <1>8, <1>9 DEF Balanced
<1>. QED
  BY <1>3, <1>10 DEF t, l

\* EnableSharedFromThis is told the owner.
LEMMA AcceptedKeeps ==
  ASSUME PointersAssumption, NEW s, NEW e, Counted(s, <<>>, e), NEW o \in Objects, o \notin s.live \cup s.block
  PROVE  Counted(P!Accepted(P!Owned(s, o), o), <<>>, Plus(e, o))
<1> DEFINE t == P!Owned(s, o)
           e1 == Plus(e, o)
           r == P!AddRef(t, o)
           x == [ptr |-> o, wc |-> o]
           m == P!SetWeak(r, o, x)
<1>0. Told(s) /\ e \in [Objects -> Nat] /\ NULL \notin Objects /\ o \in WPlaces /\ o \in AnObject
  BY CountedIs DEF Balanced, PointersAssumption, WPlaces, AnObject
<1>1. Balanced(t, e1) /\ t.live = s.live \cup {o} /\ t.weakly = s.weakly /\ t.shared = s.shared
  BY OwnedKeeps
<1>2. e1 \in [Objects -> Nat] /\ e1[o] = e[o] + 1
  BY <1>0, PlusIs, SameIs
<1>. HIDE DEF t, e1
<1>3. t.weakly[o].wc = NULL
  <2>1. o \notin s.live
    OBVIOUS
  <2>2. s.weakly[o] = P!NoWeak
    BY <1>0, <2>1 DEF Told
  <2>. QED
    BY <1>1, <2>2 DEF P!NoWeak
<1>4. t.ref[o] > 0
  BY <1>1 DEF Balanced
<1>5. Balanced(r, Plus(e1, o)) /\ r.live = t.live /\ r.weakly = t.weakly
  BY <1>0, <1>1, <1>4, AddRefKeeps
<1>6. P!SetWeakFromShared(r, o, [ptr |-> o, sc |-> o]) = m
  BY <1>0, <1>3, <1>5 DEF P!SetWeakFromShared
<1>7. P!Accepted(t, o) = P!Released(m, <<<<"release", o>>>>)
  BY <1>3, <1>6 DEF P!Accepted
<1>. HIDE DEF r
<1>8. Blocked(r, x)
  <2>1. r.ref[o] > 0
    BY <1>1, <1>5 DEF Balanced
  <2>2. Alive(r, o) = 1
    BY <2>1 DEF Alive
  <2>3. r.weak[o] = Watched(r, o) + Alive(r, o) /\ Watched(r, o) \in Nat
    BY <1>5, BalancedObject
  <2>4. r.weak[o] > 0
    BY <2>2, <2>3
  <2>. QED
    BY <1>0, <2>4 DEF Blocked
<1>9. \A y \in Objects : (IF y = o THEN x ELSE r.weakly[y]) = IF y \in r.live THEN [ptr |-> y, wc |-> y] ELSE P!NoWeak
  BY <1>0, <1>1, <1>5 DEF Told
<1>. HIDE DEF x
<1>10. Counted(m, <<>>, Plus(e1, o))
  BY <1>0, <1>5, <1>8, <1>9, SetWeakKeeps
<1>. HIDE DEF m
<1>11. Counted(m, <<<<"release", o>>>>, e1)
  BY <1>2, <1>10, CountedIs, ReferenceEnds
<1>12. Counted(P!Released(m, <<<<"release", o>>>>), <<>>, e1)
  BY <1>11, ReleasedKeeps
<1>. QED
  BY <1>7, <1>12 DEF t, e1

Zero == [x \in Objects |-> 0]

\* The inductive invariant of SharedPtr and WeakPtr.
HeapInv == Counted(pointers, <<>>, Zero)

LEMMA AllocateKeeps ==
  ASSUME PointersAssumption, HeapInv, NEW o \in Objects, NEW p \in SPlaces, P!Allocate(p, o)
  PROVE  Counted(pointers', <<>>, Zero)
<1> DEFINE s == P!Accepted(P!Owned(pointers, o), o)
           x == [ptr |-> o, sc |-> o]
           t == [s EXCEPT !.shared[p] = x]
           todo == <<<<"release", s.shared[p].sc>>>>
<1>1. o \notin pointers.live \cup pointers.block /\ pointers' = P!Released(t, todo)
  BY DEF P!Allocate
<1>2. Counted(s, <<>>, Plus(Zero, o))
  BY <1>1, AcceptedKeeps DEF HeapInv
<1>. HIDE DEF s
<1>3. Balanced(s, Plus(Zero, o)) /\ Told(s) /\ Zero \in [Objects -> Nat]
  BY <1>2, CountedIs DEF Zero
<1>4. x \in [ptr : AnObject, sc : AnObject] /\ x.ptr = x.sc /\ x.sc = o
  BY DEF AnObject
<1>. HIDE DEF x
<1>5. Counted(t, todo, Zero)
  BY <1>3, <1>4, PlacedKeeps
<1>. HIDE DEF t, todo
<1>6. Counted(P!Released(t, todo), <<>>, Zero)
  BY <1>5, ReleasedKeeps
<1>. QED
  BY <1>1, <1>6

\* What the program may assign from.
LEMMA Sources ==
  ASSUME PointersAssumption, HeapInv
  PROVE  /\ P!Named \subseteq SPlaces
         /\ Living(pointers, P!NoPtr) /\ Blocked(pointers, P!NoWeak)
         /\ \A q \in SPlaces : Living(pointers, pointers.shared[q])
         /\ \A w \in WPlaces : Living(pointers, P!Locked(pointers, w))
         /\ \A v \in WPlaces : Blocked(pointers, pointers.weakly[v])
         /\ \A v \in WPlaces : Blocked(pointers, [ptr |-> P!Locked(pointers, v).ptr, wc |-> pointers.weakly[v].wc])
<1> DEFINE s == pointers
<1>1. Balanced(s, Zero) /\ s \in HeapTypes /\ NULL \notin Objects
  BY CountedIs DEF HeapInv, Balanced, PointersAssumption
<1>2. NULL \in AnObject /\ \A z \in AnObject : z # NULL => z \in Objects
  BY DEF AnObject
<1>3. \A q \in SPlaces : s.shared[q] \in [ptr : AnObject, sc : AnObject] /\ s.shared[q].ptr = s.shared[q].sc
  BY <1>1, HeapFields DEF Balanced
<1>4. \A v \in WPlaces : s.weakly[v] \in [ptr : AnObject, wc : AnObject]
  BY <1>1, HeapFields
<1>5. ASSUME NEW z \in Objects
      PROVE  /\ (\E q \in SPlaces : s.shared[q].sc = z) => s.ref[z] > 0
             /\ (\E v \in WPlaces : s.weakly[v].wc = z) => s.weak[z] > 0
  <2>1. /\ s.ref[z] = Held(s, z) + Zero[z] /\ Zero[z] = 0 /\ Held(s, z) \in Nat
        /\ s.weak[z] = Watched(s, z) + Alive(s, z) /\ Watched(s, z) \in Nat /\ Alive(s, z) \in {0, 1}
    BY <1>1, BalancedObject DEF Zero
  <2>2. /\ Held(s, z) > 0 <=> \E q \in SPlaces : s.shared[q].sc = z
        /\ Watched(s, z) > 0 <=> \E v \in WPlaces : s.weakly[v].wc = z
    BY <1>1, PlacesCount
  <2>3. Held(s, z) > 0 => s.ref[z] > 0
    BY <2>1
  <2>4. Watched(s, z) > 0 => s.weak[z] > 0
    BY <2>1
  <2>. QED
    BY <2>2, <2>3, <2>4
<1>6. P!Named \subseteq SPlaces
  <2>1. \A q \in Shared : q \in SPlaces /\ s.shared[q].ptr \in AnObject
    BY <1>3 DEF SPlaces
  <2>. QED
    BY <1>2, <2>1 DEF P!Named, SPlaces
<1>7. Living(s, P!NoPtr) /\ Blocked(s, P!NoWeak)
  BY <1>2 DEF Living, Blocked, P!NoPtr, P!NoWeak
<1>8. \A q \in SPlaces : Living(s, s.shared[q])
  BY <1>2, <1>3, <1>5 DEF Living
<1>9. ASSUME NEW w \in WPlaces
      PROVE  Living(s, P!Locked(s, w))
  <2>1. CASE s.weakly[w].wc # NULL /\ s.ref[s.weakly[w].wc] > 0
    <3>1. P!Locked(s, w) = [ptr |-> s.weakly[w].ptr, sc |-> s.weakly[w].wc]
      BY <2>1 DEF P!Locked
    <3>2. s.weakly[w].ptr = s.weakly[w].wc
      BY <1>1, <2>1 DEF Balanced
    <3>. QED
      BY <1>4, <2>1, <3>1, <3>2 DEF Living
  <2>2. CASE ~(s.weakly[w].wc # NULL /\ s.ref[s.weakly[w].wc] > 0)
    <3>1. P!Locked(s, w) = P!NoPtr
      BY <2>2 DEF P!Locked
    <3>. QED
      BY <1>7, <3>1
  <2>. QED
    BY <2>1, <2>2
<1>10. \A v \in WPlaces : Blocked(s, s.weakly[v])
  BY <1>1, <1>2, <1>4, <1>5 DEF Blocked, Balanced
<1>11. ASSUME NEW v \in WPlaces
       PROVE  Blocked(s, [ptr |-> P!Locked(s, v).ptr, wc |-> s.weakly[v].wc])
  <2> DEFINE z == s.weakly[v].wc
             y == P!Locked(s, v).ptr
  <2>1. y \in AnObject /\ z \in AnObject
    BY <1>4, <1>9 DEF Living
  <2>2. z # NULL => s.weak[z] > 0
    BY <1>10 DEF Blocked
  <2>3. z # NULL => s.ref[z] = 0 \/ y = z
    <3>. SUFFICES ASSUME z # NULL, s.ref[z] # 0
                  PROVE  y = z
      OBVIOUS
    <3>1. s.ref[z] \in Nat
      BY <1>1, <1>2, <2>1, HeapFields
    <3>2. s.weakly[v].ptr = z
      BY <1>1 DEF Balanced
    <3>. QED
      BY <3>1, <3>2 DEF P!Locked
  <2>. HIDE DEF z, y
  <2>4. Blocked(s, [ptr |-> y, wc |-> z])
    BY <2>1, <2>2, <2>3 DEF Blocked
  <2>. QED
    BY <2>4 DEF z, y
<1>. QED
  BY <1>6, <1>7, <1>8, <1>9, <1>10, <1>11

LEMMA HeapStep ==
  ASSUME PointersAssumption, HeapInv, [P!SharedNext]_P!sharedVars
  PROVE  HeapInv'
<1>. SUFFICES Counted(pointers', <<>>, Zero)
  BY DEF HeapInv, Counted, HeapTypes, ObjectHolds, Held, Watched, Holds, Watches, Pending, Coming, Alive, SPlaces, WPlaces, AnObject, Calls, Zero, P!NoWeak
<1>0. Counted(pointers, <<>>, Zero) /\ \A w \in Weak : w \in WPlaces
  BY DEF HeapInv, WPlaces
<1>1. ASSUME NEW p \in P!Named, NEW o \in Objects, P!Allocate(p, o)
      PROVE  Counted(pointers', <<>>, Zero)
  BY <1>1, Sources, AllocateKeeps
<1>2. ASSUME NEW p \in P!Named, NEW q \in P!Named, P!Assign(p, q)
      PROVE  Counted(pointers', <<>>, Zero)
  <2>1. p \in SPlaces /\ Living(pointers, pointers.shared[q])
    BY Sources
  <2>. QED
    BY <1>0, <1>2, <2>1, SetSharedKeeps DEF P!Assign
<1>3. ASSUME NEW p \in P!Named, NEW q \in P!Named, P!Swap(p, q)
      PROVE  Counted(pointers', <<>>, Zero)
  <2>1. p \in SPlaces /\ q \in SPlaces
    BY Sources
  <2>2. Counted([pointers EXCEPT !.shared[p] = pointers.shared[q], !.shared[q] = pointers.shared[p]], <<>>, Zero)
    BY <1>0, <2>1, SwapKeeps
  <2>. QED
    BY <1>3, <2>2 DEF P!Swap
<1>4. ASSUME NEW p \in P!Named, NEW w \in Weak, P!Lock(p, w)
      PROVE  Counted(pointers', <<>>, Zero)
  <2>1. p \in SPlaces /\ Living(pointers, P!Locked(pointers, w))
    BY <1>0, Sources
  <2>. QED
    BY <1>0, <1>4, <2>1, SetSharedKeeps DEF P!Lock
<1>5. ASSUME NEW p \in P!Named, NEW w \in Weak, P!WeakFromShared(w, p)
      PROVE  Counted(pointers', <<>>, Zero)
  <2>1. Living(pointers, pointers.shared[p])
    BY Sources
  <2>. QED
    BY <1>0, <1>5, <2>1, ProgramSetsWeakFromShared DEF P!WeakFromShared
<1>6. ASSUME NEW p \in P!Named, NEW o \in P!Named \cap Objects, P!SharedFromThis(p, o)
      PROVE  Counted(pointers', <<>>, Zero)
  <2>1. o \in WPlaces
    BY DEF WPlaces
  <2>2. p \in SPlaces /\ Living(pointers, P!Locked(pointers, o))
    BY <2>1, Sources
  <2>. QED
    BY <1>0, <1>6, <2>2, SetSharedKeeps DEF P!SharedFromThis
<1>7. ASSUME NEW p \in P!Named, P!Reset(p)
      PROVE  Counted(pointers', <<>>, Zero)
  <2>1. p \in SPlaces /\ Living(pointers, P!NoPtr)
    BY Sources
  <2>. QED
    BY <1>0, <1>7, <2>1, SetSharedKeeps DEF P!Reset
<1>8. ASSUME NEW w \in Weak, NEW v \in Weak, P!AssignWeak(w, v)
      PROVE  Counted(pointers', <<>>, Zero)
  <2>1. Blocked(pointers, pointers.weakly[v])
    BY <1>0, Sources
  <2>. QED
    BY <1>0, <1>8, <2>1, ProgramSetsWeak DEF P!AssignWeak
<1>9. ASSUME NEW w \in Weak, NEW v \in Weak, P!ConvertWeak(w, v)
      PROVE  Counted(pointers', <<>>, Zero)
  <2>1. Blocked(pointers, [ptr |-> P!Locked(pointers, v).ptr, wc |-> pointers.weakly[v].wc])
    BY <1>0, Sources
  <2>. QED
    BY <1>0, <1>9, <2>1, ProgramSetsWeak DEF P!ConvertWeak
<1>10. ASSUME NEW w \in Weak, P!ResetWeak(w)
       PROVE  Counted(pointers', <<>>, Zero)
  <2>1. Blocked(pointers, P!NoWeak)
    BY Sources
  <2>. QED
    BY <1>0, <1>10, <2>1, ProgramSetsWeak DEF P!ResetWeak
<1>11. CASE UNCHANGED P!sharedVars
  <2>1. pointers' = pointers
    BY <1>11 DEF P!sharedVars
  <2>. QED
    BY <1>0, <2>1
<1>12. CASE P!SharedNext
  BY <1>1, <1>2, <1>3, <1>4, <1>5, <1>6, <1>7, <1>8, <1>9, <1>10, <1>12 DEF P!SharedNext
<1>. QED
  BY <1>11, <1>12

LEMMA HeapInit ==
  ASSUME PointersAssumption, P!SharedInit
  PROVE  HeapInv
<1> DEFINE s == pointers
<1>0. NULL \notin Objects /\ NULL \in AnObject
  BY DEF PointersAssumption, AnObject
<1>1. /\ s \in HeapTypes /\ s.live = {} /\ s.block = {}
      /\ s.ref = [o \in Objects |-> 0] /\ s.weak = [o \in Objects |-> 0]
      /\ \A p \in SPlaces : s.shared[p] = P!NoPtr
      /\ \A w \in WPlaces : s.weakly[w] = P!NoWeak
  BY <1>0 DEF P!SharedInit, HeapTypes, P!NoPtr, P!NoWeak, SPlaces, WPlaces
<1>2. ASSUME NEW x \in Objects
      PROVE  Held(s, x) = 0 /\ Watched(s, x) = 0 /\ s.ref[x] = 0 /\ s.weak[x] = 0 /\ Alive(s, x) = 0
  <2>1. Held(s, x) \in Nat /\ ~(Held(s, x) > 0) /\ Watched(s, x) \in Nat /\ ~(Watched(s, x) > 0)
    BY <1>0, <1>1, PlacesCount DEF P!NoPtr, P!NoWeak
  <2>2. s.ref[x] = 0 /\ s.weak[x] = 0
    BY <1>1
  <2>. QED
    BY <2>1, <2>2 DEF Alive
<1>3. Zero \in [Objects -> Nat] /\ \A x \in Objects : Zero[x] = 0
  BY DEF Zero
<1>4. Balanced(s, Zero)
  BY <1>1, <1>2, <1>3 DEF Balanced, P!NoPtr, P!NoWeak
<1>5. Told(s)
  BY <1>1 DEF Told, WPlaces
<1>. QED
  BY <1>4, <1>5, CountedIs DEF HeapInv

LEMMA PointersHoldThen ==
  ASSUME PointersAssumption, HeapInv
  PROVE  P!PointersHold
<1> DEFINE s == pointers
           places(o) == {p \in DOMAIN pointers.shared : pointers.shared[p].sc = o}
           weaks(o) == {w \in DOMAIN pointers.weakly : pointers.weakly[w].wc = o}
<1>1. Balanced(s, Zero) /\ Told(s) /\ s \in HeapTypes /\ NULL \notin Objects
  BY CountedIs DEF HeapInv, Balanced, PointersAssumption
<1>2. DOMAIN s.shared = SPlaces /\ DOMAIN s.weakly = WPlaces
  BY <1>1, HeapFields
<1>3. ASSUME NEW o \in Objects
      PROVE  /\ places(o) = Holds(s, o) /\ weaks(o) = Watches(s, o)
             /\ P!Cardinality(places(o)) = Held(s, o) /\ P!Cardinality(weaks(o)) = Watched(s, o)
  BY <1>2, CountedAlike DEF Holds, Watches, Held, Watched
<1>4. ASSUME NEW o \in Objects
      PROVE  /\ s.ref[o] = P!Cardinality(places(o))
             /\ s.weak[o] = P!Cardinality(weaks(o)) + (IF s.ref[o] > 0 THEN 1 ELSE 0)
             /\ o \in s.live <=> places(o) # {}
             /\ o \in s.block <=> places(o) # {} \/ weaks(o) # {}
             /\ o \in s.live => P!WeakGet(o) = o
  <2>1. /\ s.ref[o] = Held(s, o) + Zero[o] /\ Zero[o] = 0 /\ Held(s, o) \in Nat
        /\ s.weak[o] = Watched(s, o) + Alive(s, o) /\ Watched(s, o) \in Nat
        /\ o \in s.live <=> s.ref[o] > 0
        /\ o \in s.block <=> s.weak[o] > 0
    BY <1>1, BalancedObject DEF Zero, Balanced
  <2>2. /\ Held(s, o) > 0 <=> places(o) # {}
        /\ Watched(s, o) > 0 <=> weaks(o) # {}
    <3>1. /\ Held(s, o) > 0 <=> \E p \in SPlaces : s.shared[p].sc = o
          /\ Watched(s, o) > 0 <=> \E w \in WPlaces : s.weakly[w].wc = o
      BY <1>1, PlacesCount
    <3>. QED
      BY <1>2, <3>1
  <2>3. s.ref[o] = Held(s, o)
    BY <2>1
  <2>4. o \in s.block <=> Held(s, o) > 0 \/ Watched(s, o) > 0
    <3>1. Held(s, o) \in Nat /\ Watched(s, o) \in Nat /\ s.weak[o] = Watched(s, o) + Alive(s, o)
      BY <2>1
    <3>2. Held(s, o) > 0 => Alive(s, o) = 1
      BY <2>3 DEF Alive
    <3>3. ~(Held(s, o) > 0) => Alive(s, o) = 0
      BY <2>3 DEF Alive
    <3>. QED
      BY <2>1, <3>1, <3>2, <3>3
  <2>5. o \in s.live => P!WeakGet(o) = o
    <3>. SUFFICES ASSUME o \in s.live
                  PROVE  P!WeakGet(o) = o
      OBVIOUS
    <3>1. s.weakly[o] = [ptr |-> o, wc |-> o] /\ s.ref[o] > 0
      BY <1>1, <2>1 DEF Told
    <3>. QED
      BY <1>1, <3>1 DEF P!WeakGet, P!Locked
  <2>. QED
    BY <1>3, <2>1, <2>2, <2>3, <2>4, <2>5 DEF Alive
<1>5. \A p \in DOMAIN s.shared : P!SharedGet(p) = s.shared[p].sc
  BY <1>1, <1>2 DEF P!SharedGet, Balanced
<1>6. ASSUME NEW w \in DOMAIN s.weakly
      PROVE  P!WeakGet(w) \in s.live \cup {NULL}
  <2>1. Living(s, P!Locked(s, w))
    BY <1>2, Sources
  <2>2. P!Locked(s, w).ptr \in Objects => s.ref[P!Locked(s, w).ptr] > 0
    BY <1>1, <2>1 DEF Living
  <2>3. P!Locked(s, w).ptr \in Objects \cup {NULL}
    BY <2>1 DEF Living, AnObject
  <2>. QED
    BY <1>1, <2>2, <2>3 DEF P!WeakGet, Balanced
<1>. QED
  BY <1>4, <1>5, <1>6 DEF P!PointersHold

-----------------------------------------------------------------------------
(* The owners together                                                      *)

OwningInv == HeapInv /\ UniqueInv /\ AllocatingInv

\* What has an owner lives, what has none is freed, once, and by the allocator
\* that it came from: for any numbers of objects, pointers, containers and
\* allocators, and however deep the objects own each other.
THEOREM OwnersAlwaysHold == MCSpec => []OwnersHold
<1>1. MCInit => OwningInv
  BY HeapInit, UniqueInit, AllocatingInit, PointersAssumption DEF MCInit, OwningInv
<1>2. OwningInv /\ [MCNext]_<<used, vars, pointers, uniqueVars, allocatingVars, stringVars, singletonVars, mspaceVars>> => OwningInv'
  <2>. SUFFICES ASSUME OwningInv,
                       [MCNext]_<<used, vars, pointers, uniqueVars, allocatingVars, stringVars, singletonVars, mspaceVars>>
                PROVE  OwningInv'
    OBVIOUS
  <2>1. [P!SharedNext]_P!sharedVars
    BY DEF MCNext, P!sharedVars
  <2>2. [P!UniqueNext]_P!uniqueVars
    BY DEF MCNext, uniqueVars, P!uniqueVars
  <2>3. AL!Next \/ UNCHANGED AL!vars
    BY DEF MCNext, allocatingVars, AL!vars
  <2>4. HeapInv'
    BY <2>1, HeapStep, PointersAssumption DEF OwningInv
  <2>5. UniqueInv'
    BY <2>2, UniqueStep, PointersAssumption DEF OwningInv
  <2>6. AllocatingInv'
    BY <2>3, AllocatingStep, AllocatingAssumption DEF OwningInv
  <2>. QED
    BY <2>4, <2>5, <2>6 DEF OwningInv
<1>3. OwningInv => OwnersHold
  <2>. SUFFICES ASSUME OwningInv
                PROVE  OwnersHold
    OBVIOUS
  <2>1. P!PointersHold
    BY PointersHoldThen, PointersAssumption DEF OwningInv
  <2>2. P!OwnedOnce
    BY OwnedOnceThen, PointersAssumption DEF OwningInv
  <2>3. AL!BlocksGoHome
    BY BlocksAtHome DEF OwningInv
  <2>. QED
    BY <2>1, <2>2, <2>3 DEF OwnersHold
<1>. QED
  BY <1>1, <1>2, <1>3, PTL DEF MCSpec
=============================================================================
