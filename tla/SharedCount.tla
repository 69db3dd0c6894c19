------------------------------ MODULE SharedCount ------------------------------
(***************************************************************************)
(* OOBase::detail::SharedCountBase (include/OOBase/SharedPtr.h): the two   *)
(* atomic counts behind SharedPtr and WeakPtr.                             *)
(*                                                                         *)
(* A handle is a SharedPtr or a WeakPtr of the program, with the thread    *)
(* that is working on it: different handles may be used by different       *)
(* threads at once, one handle by one thread at a time, and one that is    *)
(* being copied from is not dropped meanwhile.  Each access to a count is  *)
(* an atomic instruction and a step of its own.                            *)
(***************************************************************************)
EXTENDS Naturals, FiniteSets

CONSTANTS
  Handles,   \* the SharedPtrs and WeakPtrs of the program
  MaxRefs    \* bound: promotions stop at this count once it has gone wrong

ASSUME SharedCountAssumption == IsFiniteSet(Handles) /\ MaxRefs \in Nat

VARIABLES
  promoteAlone,  \* callers keep addref_lock() apart from other uses of the counts
  block,      \* the SharedCountBase is allocated
  object,     \* the object it counts has not been disposed of
  ref,        \* m_ref_count
  weak,       \* m_weak_count
  handle,     \* state of each handle
  seen,       \* addref_lock()'s local t
  source      \* the WeakPtr a promotion reads

vars == <<promoteAlone, block, object, ref, weak, handle, seen, source>>

\* Inside addref_lock(): a CompareAndSwap may have won or lost.
Promoting == {"swaps", "won", "lost", "rereads"}
\* Inside release(), after the last reference went, and inside destroy().
Ending == {"disposes", "unshares"}
States == {"empty", "strong", "weak", "destroys"} \cup Promoting \cup Ending

Are(states) == {h \in Handles : handle[h] \in states}

Init ==
  /\ promoteAlone \in BOOLEAN
  /\ block = FALSE
  /\ object = FALSE
  /\ ref = 0
  /\ weak = 0
  /\ handle = [h \in Handles |-> "empty"]
  /\ seen = [h \in Handles |-> 0]
  /\ source = [h \in Handles |-> h]

Goes(h, from, to) == handle[h] = from /\ handle' = [handle EXCEPT ![h] = to]

\* No promotion of another handle is under way, if the callers see to that.
Apart(h) == promoteAlone => Are(Promoting) \subseteq {h}

\* Nobody is promoting the WeakPtr h.
Unread(h) == \A g \in Are(Promoting) : source[g] # h

\* A SharedPtr of a new object, when the old one is gone.
Create(h) ==
  /\ ~block
  /\ Goes(h, "empty", "strong")
  /\ block' = TRUE
  /\ object' = TRUE
  /\ ref' = 1
  /\ weak' = 1
  /\ UNCHANGED <<promoteAlone, seen, source>>

\* addref(): h becomes a copy of the SharedPtr g.
AddRef(g, h) ==
  /\ Apart(h)
  /\ handle[g] = "strong"
  /\ Goes(h, "empty", "strong")
  /\ ref' = ref + 1
  /\ UNCHANGED <<promoteAlone, block, object, weak, seen, source>>

\* release(): the last one goes on to dispose() and weak_release().  What a
\* release of no reference does is not followed.
Release(h) ==
  /\ Apart(h)
  /\ ref > 0
  /\ ref' = ref - 1
  /\ Goes(h, "strong", IF ref' = 0 THEN "disposes" ELSE "empty")
  /\ UNCHANGED <<promoteAlone, block, object, weak, seen, source>>

DisposeOnly(h) ==
  /\ Goes(h, "disposes", "empty")
  /\ object' = FALSE
  /\ UNCHANGED <<promoteAlone, block, ref, weak, seen, source>>

Dispose(h) ==
  /\ Goes(h, "disposes", "unshares")
  /\ object' = FALSE
  /\ UNCHANGED <<promoteAlone, block, ref, weak, seen, source>>

\* weak_addref(): h becomes a WeakPtr to what g refers to.
WeakAddRef(g, h) ==
  /\ handle[g] \in {"strong", "weak"}
  /\ Goes(h, "empty", "weak")
  /\ weak' = weak + 1
  /\ UNCHANGED <<promoteAlone, block, object, ref, seen, source>>

WeakReleaseEarly(h) ==
  /\ Unread(h)
  /\ weak > 0
  /\ weak' = weak - 1
  /\ LET next == IF weak' <= 1 THEN "destroys" ELSE "empty"
     IN  Goes(h, "weak", next) \/ Goes(h, "unshares", next)
  /\ UNCHANGED <<promoteAlone, block, object, ref, seen, source>>

\* weak_release(), of a WeakPtr or from release(); below 0 it is not followed.
WeakRelease(h) ==
  /\ Unread(h)
  /\ weak > 0
  /\ weak' = weak - 1
  /\ LET next == IF weak' = 0 THEN "destroys" ELSE "empty"
     IN  Goes(h, "weak", next) \/ Goes(h, "unshares", next)
  /\ UNCHANGED <<promoteAlone, block, object, ref, seen, source>>

Destroy(h) ==
  /\ Goes(h, "destroys", "empty")
  /\ block' = FALSE
  /\ UNCHANGED <<promoteAlone, object, ref, weak, seen, source>>

-----------------------------------------------------------------------------
(* addref_lock(): h is constructed from the WeakPtr g.                      *)

\* The call's locals end with it.
Ends(h, state) ==
  /\ handle' = [handle EXCEPT ![h] = state]
  /\ seen' = [seen EXCEPT ![h] = 0]
  /\ source' = [source EXCEPT ![h] = h]

\* The top of the loop: give up at 0, else remember the count.
ReadOf(h, g) ==
  /\ Apart(h)
  /\ IF ref = 0
       THEN Ends(h, "empty")
       ELSE /\ handle' = [handle EXCEPT ![h] = "swaps"]
            /\ seen' = [seen EXCEPT ![h] = ref]
            /\ source' = [source EXCEPT ![h] = g]
  /\ UNCHANGED <<promoteAlone, block, object, ref, weak>>

Lock(g, h) ==
  /\ handle[g] = "weak"
  /\ handle[h] = "empty"
  /\ ReadOf(h, g)

LockAgain(h) ==
  /\ handle[h] = "rereads"
  /\ ReadOf(h, source[h])

LockSwapsForgetful(h) ==
  /\ Goes(h, "swaps", IF ref = seen[h] THEN "won" ELSE "lost")
  /\ seen' = [seen EXCEPT ![h] = ref - 1]
  /\ UNCHANGED <<promoteAlone, block, object, ref, weak, source>>

\* CompareAndSwap(t, t + 1); its result is not looked at.
LockSwaps(h) ==
  /\ ref < MaxRefs \/ promoteAlone
  /\ Goes(h, "swaps", IF ref = seen[h] THEN "won" ELSE "lost")
  /\ ref' = IF ref = seen[h] THEN seen[h] + 1 ELSE ref
  /\ UNCHANGED <<promoteAlone, block, object, weak, seen, source>>

\* if (m_ref_count == t + 1) return true, and round the loop otherwise.
LockChecks(h) ==
  /\ handle[h] \in {"won", "lost"}
  /\ IF ref = seen[h] + 1
       THEN Ends(h, "strong")
       ELSE /\ handle' = [handle EXCEPT ![h] = "rereads"]
            /\ UNCHANGED <<seen, source>>
  /\ UNCHANGED <<promoteAlone, block, object, ref, weak>>

-----------------------------------------------------------------------------
Next ==
  \E h \in Handles :
    \/ Create(h)
    \/ \E g \in Handles : AddRef(g, h) \/ WeakAddRef(g, h) \/ Lock(g, h)
    \/ Release(h) \/ Dispose(h) \/ WeakRelease(h) \/ Destroy(h)
    \/ LockSwaps(h) \/ LockChecks(h) \/ LockAgain(h)

Spec == Init /\ [][Next]_vars

\* A thread inside an operation takes its next step.  Nobody is obliged to
\* drop a handle.
Fairness ==
  \A h \in Handles :
    /\ WF_vars(Dispose(h)) /\ WF_vars(Destroy(h))
    /\ WF_vars(handle[h] = "unshares" /\ WeakRelease(h))
    /\ WF_vars(LockSwaps(h)) /\ WF_vars(LockChecks(h)) /\ WF_vars(LockAgain(h))

FairSpec == Spec /\ Fairness

-----------------------------------------------------------------------------
(* Properties                                                               *)

\* The counts never go below zero and the handles keep their states.
TypeOK ==
  /\ block \in BOOLEAN /\ object \in BOOLEAN
  /\ ref \in Nat /\ weak \in Nat
  /\ handle \in [Handles -> States]
  /\ seen \in [Handles -> Nat]
  /\ source \in [Handles -> Handles]

\* m_ref_count is the number of hard references, counting one whose swap has
\* been made but not yet noticed.
CountIsHard == ref = Cardinality(Are({"strong", "won"}))

\* m_weak_count is the number of weak references, and one more until the
\* last release() has disposed of the object.
CountIsWeak ==
  weak = Cardinality(Are({"weak"})) + (IF ref > 0 \/ Are(Ending) # {} THEN 1 ELSE 0)

\* If promotions are kept apart, both counts are right.
CountsMatch == promoteAlone => CountIsHard /\ CountIsWeak

\* If promotions are kept apart, nobody holds a SharedPtr to an object that
\* has been disposed of, and one thread only disposes of it.
NoUseAfterDispose ==
  promoteAlone =>
    /\ Are({"strong"}) # {} => object
    /\ Cardinality(Are(Ending)) <= 1
    /\ Are({"disposes"}) # {} => object

\* If promotions are kept apart, no handle refers to counts that have been
\* freed, nor will they be freed twice, nor before the object they count.
NoUseAfterDestroy ==
  promoteAlone =>
    /\ (Are(States \ {"empty"}) # {} \/ object) => block
    /\ Cardinality(Are({"destroys"})) <= 1
    /\ Are({"destroys"}) # {} => Are(States \ {"empty", "destroys"}) = {}

\* However handles are copied, dropped and promoted, nothing that has been freed
\* is used or freed again, provided that promotions are kept apart.
NoUseAfterFree == NoUseAfterDispose /\ NoUseAfterDestroy

\* If promotions are kept apart, once every handle is empty or on its way out
\* the object goes and then the counts go: neither leaks.
NothingLeaks ==
  (promoteAlone /\ block /\ Are({"strong", "weak"} \cup Promoting) = {}) ~> ~block
=============================================================================
