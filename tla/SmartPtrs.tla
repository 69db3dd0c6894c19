------------------------------- MODULE SmartPtrs -------------------------------
(***************************************************************************)
(* The pointers that own, as one thread uses them.                         *)
(*                                                                         *)
(* SharedPtr, WeakPtr and EnableSharedFromThis (include/OOBase/SharedPtr.h)*)
(* are what a pointer holds next to its count, and what the end of an      *)
(* object does to the pointers inside it.  Each object has a SharedPtr     *)
(* member, and the m_weak_this of EnableSharedFromThis.  SharedCount has   *)
(* the counts as several threads change them.                              *)
(*                                                                         *)
(* UniquePtr (include/OOBase/UniquePtr.h) is the program's own, or one     *)
(* that is a member of each object.  A program uses one kind or the other. *)
(***************************************************************************)
EXTENDS Integers, Sequences, SequencesExt, FiniteSets

CONSTANTS
  Objects,
  Shared, Weak,   \* the program's own SharedPtrs and WeakPtrs
  Unique,         \* and its UniquePtrs
  NULL

VARIABLES
  heap,
\* live     objects that are constructed and not yet destroyed
\* block    objects whose SharedCountBase is allocated
\* ref      m_ref_count of each block
\* weak     m_weak_count
\* shared   [the program's and, by its object, each member -> [ptr, sc]]
\* weakly   [the program's and, by its object, each m_weak_this -> [ptr, wc]]
  owns,     \* [Unique \cup Objects -> m_ptr]
  loose,    \* objects that are allocated and that only a plain pointer has
  freed     \* history: how often each object has been freed

sharedVars == heap
uniqueVars == <<owns, loose, freed>>

-----------------------------------------------------------------------------
(* SharedPtr                                                                *)

NoPtr == [ptr |-> NULL, sc |-> NULL]
NoWeak == [ptr |-> NULL, wc |-> NULL]

SharedInit == heap = [live |-> {}, block |-> {}, ref |-> [o \in Objects |-> 0], weak |-> [o \in Objects |-> 0],
                      shared |-> [p \in Shared \cup Objects |-> NoPtr], weakly |-> [w \in Weak \cup Objects |-> NoWeak]]

\* One release at a time, each with those that it gives rise to: release(),
\* in which the last reference destroys the object, its members and then its
\* share of the block; and weak_release().
Release(s, o) ==
  LET last == s.ref[o] = 1
  IN  [s |-> [s EXCEPT !.ref[o] = @ - 1, !.live = IF last THEN @ \ {o} ELSE @,
                       !.shared[o] = IF last THEN NoPtr ELSE @, !.weakly[o] = IF last THEN NoWeak ELSE @],
       todo |-> IF last THEN <<<<"release", s.shared[o].sc>>, <<"weak_release", s.weakly[o].wc>>, <<"weak_release", o>>>>
                ELSE <<>>]

WeakRelease(s, o) ==
  [s |-> [s EXCEPT !.weak[o] = @ - 1, !.block = IF s.weak[o] = 1 THEN @ \ {o} ELSE @], todo |-> <<>>]

ReleasedOne(t) ==
  IF t.todo = <<>> THEN t
  ELSE LET call == Head(t.todo)
           next == IF call[2] = NULL THEN [s |-> t.s, todo |-> <<>>]
                   ELSE IF call[1] = "release" THEN Release(t.s, call[2]) ELSE WeakRelease(t.s, call[2])
       IN  [s |-> next.s, todo |-> next.todo \o Tail(t.todo)]

\* An object gives rise to three more: they all come to an end.
Released(s, todo) ==
  LET all == 4 * Cardinality(Objects) + Len(todo)
      run[n \in 0 .. all] == IF n = 0 THEN [s |-> s, todo |-> todo] ELSE ReleasedOne(run[n - 1])
  IN  run[all].s

AddRef(s, o) == IF o = NULL THEN s ELSE [s EXCEPT !.ref[o] = @ + 1]
WeakAddRef(s, o) == IF o = NULL THEN s ELSE [s EXCEPT !.weak[o] = @ + 1]

\* operator = and reset(): the copy is made, swapped in, and destroyed with
\* what was there before.
SetShared(s, p, x) == Released([AddRef(s, x.sc) EXCEPT !.shared[p] = x], <<<<"release", s.shared[p].sc>>>>)

\* SharedPtr(const WeakPtr&), and lock().
Locked(s, w) ==
  IF s.weakly[w].wc # NULL /\ s.ref[s.weakly[w].wc] > 0 THEN [ptr |-> s.weakly[w].ptr, sc |-> s.weakly[w].wc] ELSE NoPtr

\* WeakCount::operator = from a SharedCount does nothing if the block is the same;
\* from a WeakCount it copies and swaps.
SetWeak(s, w, x) == Released([WeakAddRef(s, x.wc) EXCEPT !.weakly[w] = x], <<<<"weak_release", s.weakly[w].wc>>>>)
SetWeakFromShared(s, w, x) ==
  IF x.sc = s.weakly[w].wc THEN [s EXCEPT !.weakly[w].ptr = x.ptr]
  ELSE SetWeak(s, w, [ptr |-> x.ptr, wc |-> x.sc])

\* make_shared(): a block with one reference, and the object is told its owner,
\* unless it has one.
Owned(s, o) == [s EXCEPT !.live = @ \cup {o}, !.block = @ \cup {o}, !.ref[o] = 1, !.weak[o] = 1]
Accepted(s, o) ==
  IF s.weakly[o].wc # NULL /\ s.ref[s.weakly[o].wc] > 0 THEN s
  ELSE Released(SetWeakFromShared(AddRef(s, o), o, [ptr |-> o, sc |-> o]), <<<<"release", o>>>>)

\* p = allocate_shared<T>(), which gives no pointer if there is no memory.
Allocate(p, o) ==
  LET s == Accepted(Owned(heap, o), o)
  IN  /\ o \notin heap.live \cup heap.block
      /\ heap' = Released([s EXCEPT !.shared[p] = [ptr |-> o, sc |-> o]], <<<<"release", s.shared[p].sc>>>>)

\* Places the program may name: its own, and the member of an object it points to.
Named == Shared \cup ({heap.shared[p].ptr : p \in Shared} \ {NULL})

Assign(p, q) == heap' = SetShared(heap, p, heap.shared[q])
Reset(p) == heap' = SetShared(heap, p, NoPtr)
Swap(p, q) == heap' = [heap EXCEPT !.shared[p] = heap.shared[q], !.shared[q] = heap.shared[p]]
Lock(p, w) == heap' = SetShared(heap, p, Locked(heap, w))
SharedFromThis(p, o) == heap' = SetShared(heap, p, Locked(heap, o))

AssignWeak(w, v) == heap' = SetWeak(heap, w, heap.weakly[v])
ConvertWeak(w, v) == heap' = SetWeak(heap, w, [ptr |-> Locked(heap, v).ptr, wc |-> heap.weakly[v].wc])
WeakFromShared(w, p) == heap' = SetWeakFromShared(heap, w, heap.shared[p])
ResetWeak(w) == heap' = SetWeak(heap, w, NoWeak)

SharedNext ==
  \/ \E p \in Named :
       \/ \E o \in Objects : Allocate(p, o)
       \/ \E q \in Named : Assign(p, q) \/ Swap(p, q)
       \/ \E w \in Weak : Lock(p, w) \/ WeakFromShared(w, p)
       \/ \E o \in Named \cap Objects : SharedFromThis(p, o)
       \/ Reset(p)
  \/ \E w, v \in Weak : AssignWeak(w, v) \/ ConvertWeak(w, v)
  \/ \E w \in Weak : ResetWeak(w)

-----------------------------------------------------------------------------
(* UniquePtr                                                                *)

UniqueInit == owns = [u \in Unique \cup Objects |-> NULL] /\ loose = Objects /\ freed = [o \in Objects |-> 0]

\* delete_free(o) runs the destructor of the member, which frees in turn.
Below(o, m) ==
  LET below[k \in 0 .. Cardinality(Objects)] ==
        IF k = 0 THEN {o} \ {NULL} ELSE below[k - 1] \cup ({m[x] : x \in below[k - 1]} \ {NULL})
  IN  below[Cardinality(Objects)]

\* reset(ptr): the old object is freed when m_ptr is the new one already.
ResetUnique(u, o) ==
  IF owns[u] = o THEN UNCHANGED uniqueVars
  ELSE LET m    == [owns EXCEPT ![u] = o]
           gone == Below(owns[u], m)
       IN  /\ owns' = [v \in DOMAIN m |-> IF v \in gone THEN NULL ELSE m[v]]
           /\ freed' = [x \in Objects |-> IF x \in gone THEN freed[x] + 1 ELSE freed[x]]
           /\ loose' = loose \ {o}

ReleaseUnique(u) == owns[u] # NULL /\ owns' = [owns EXCEPT ![u] = NULL] /\ loose' = loose \cup {owns[u]} /\ UNCHANGED freed

\* u.reset(v.release()), where u is not inside the object that v owns.
Transfer(u, v) ==
  LET m    == [owns EXCEPT ![v] = NULL, ![u] = owns[v]]
      gone == IF owns[u] \in {NULL, m[u]} THEN {} ELSE Below(owns[u], m)
  IN  /\ owns' = [w \in DOMAIN m |-> IF w \in gone THEN NULL ELSE m[w]]
      /\ freed' = [x \in Objects |-> IF x \in gone THEN freed[x] + 1 ELSE freed[x]]
      /\ UNCHANGED loose

\* The program names its own pointers and the members of objects that these own.
NamedUnique == Unique \cup ({owns[u] : u \in Unique} \ {NULL})

UniqueNext ==
  \E u \in NamedUnique :
    \/ \E o \in loose \cup {NULL} : ResetUnique(u, o)
    \/ ReleaseUnique(u)
    \/ \E v \in NamedUnique : u \notin Below(owns[v], owns) \cup {v} /\ Transfer(u, v)

-----------------------------------------------------------------------------
\* What the comparison operators compare.
SharedGet(p) == heap.shared[p].ptr
WeakGet(w) == Locked(heap, w).ptr

\* Through any assignments, also of a pointer from inside the object that it
\* was keeping alive, each count is the number of pointers; an object lives
\* while there is one, a block while there is either kind; whoever has a
\* pointer has it to the object that lives, and the object itself too.
PointersHold ==
  LET places(o) == {p \in DOMAIN heap.shared : heap.shared[p].sc = o}
      weaks(o)  == {w \in DOMAIN heap.weakly : heap.weakly[w].wc = o}
  IN  /\ \A o \in Objects :
           /\ heap.ref[o] = Cardinality(places(o))
           /\ heap.weak[o] = Cardinality(weaks(o)) + (IF heap.ref[o] > 0 THEN 1 ELSE 0)
           /\ o \in heap.live <=> places(o) # {}
           /\ o \in heap.block <=> places(o) # {} \/ weaks(o) # {}
           /\ o \in heap.live => WeakGet(o) = o
      /\ \A p \in DOMAIN heap.shared : SharedGet(p) = heap.shared[p].sc
      /\ \A w \in DOMAIN heap.weakly : WeakGet(w) \in heap.live \cup {NULL}

\* Every object has one owner and is freed once, when that goes: none is both
\* freed and owned, owned twice, or forgotten.
OwnedOnce ==
  \A o \in Objects : freed[o] + Cardinality({u \in DOMAIN owns : owns[u] = o}) + Cardinality({o} \cap loose) = 1
=============================================================================
