---------------------------------- MODULE TLS ----------------------------------
(***************************************************************************)
(* Thread-local values and the thread-local allocator (src/TLS.cpp, POSIX):*)
(* one thread, its TLSGlobal, and what happens to it when the thread ends  *)
(* or, for the main thread, the process.  TLSSingleton                     *)
(* (include/OOBase/TLSSingleton.h) keeps its object as a value, in memory  *)
(* of that allocator.                                                      *)
(***************************************************************************)
EXTENDS Integers, Sequences, SequencesExt, FiniteSets

CONSTANTS
  Keys,
  Vals,          \* values; each is set once
  MaxBlocks,     \* bound on the blocks a TLSGlobal has allocated at once
  Rounds,        \* TLSGlobals of one thread: POSIX calls a destructor that often
  NULL

VARIABLES
  global,        \* [1 .. Rounds -> TLSGlobal, or NULL]
  slot,          \* the thread's value of s_key: the TLSGlobal in use, or NULL
  phase,         \* "runs", "destructs" (thread_destruct), "exits" (term), "over"
  dying,         \* the TLSGlobal whose destructor runs, or NULL
  ended,         \* history: how often the destructor of each value was called
  owed,          \* history: values that were set with a destructor, and not replaced
  fault          \* history: "zero" a block was reallocated to 0 bytes, "half" a
                 \* Set() failed half way, "late" one gave a destructor to a key
                 \* that had none, "nested" a destructor used the allocator

vars == <<global, slot, phase, dying, ended, owed, fault>>

\* refs m_refcount, vals m_mapVals, dtors the keys in m_listDestructors,
\* blocks those that m_allocator has given out.
TLSGlobal == [refs : Nat, vals : UNION {[K -> Vals] : K \in SUBSET Keys}, dtors : Seq(Keys), blocks : Nat]
NewGlobal == [refs |-> 1, vals |-> <<>>, dtors |-> <<>>, blocks |-> 0]

Init ==
  /\ global = [i \in 1 .. Rounds |-> NULL] /\ slot = NULL
  /\ phase = "runs" /\ dying = NULL
  /\ ended = [v \in Vals |-> 0] /\ owed = {} /\ fault = {}

In(g) == {g.vals[k] : k \in DOMAIN g.vals}
Unused == {v \in Vals : ended[v] = 0} \ UNION {In(global[i]) : i \in {j \in 1 .. Rounds : global[j] # NULL}}

\* TLSGlobal::instance(true), which makes one if there is none.
Fresh == CHOOSE i \in 1 .. Rounds + 1 : (i = Rounds + 1 \/ global[i] = NULL) /\ \A j \in 1 .. i - 1 : global[j] # NULL
Instance == IF slot # NULL THEN slot ELSE Fresh
Has == IF slot # NULL THEN global[slot] ELSE NewGlobal
Becomes(g) == slot' = Instance /\ global' = [global EXCEPT ![Instance] = g]

\* Mutant: a key is listed again each time it is set.
SetGlobalAgain(g, k, v, destructor) ==
  [g EXCEPT !.vals = [x \in DOMAIN @ \cup {k} |-> IF x = k THEN v ELSE @[x]],
            !.dtors = IF destructor THEN Append(@, k) ELSE @]

\* Set(key, val, destructor).  Of a key that has a value a destructor only
\* replaces another; and a list entry stays when the table has no room.
SetGlobal(g, k, v, destructor) ==
  [g EXCEPT !.vals = [x \in DOMAIN @ \cup {k} |-> IF x = k THEN v ELSE @[x]],
            !.dtors = IF k \notin DOMAIN g.vals /\ destructor THEN Append(@, k) ELSE @]

Set(k, v, destructor) ==
  /\ Becomes(SetGlobal(Has, k, v, destructor))
  /\ owed' = (owed \cup IF destructor THEN {v} ELSE {}) \ (In(Has) \ In(global'[Instance]))
  /\ fault' = IF destructor /\ k \in DOMAIN Has.vals \ ToSet(Has.dtors) THEN fault \cup {"late"} ELSE fault
  /\ UNCHANGED <<phase, dying, ended>>

SetFails(k) ==
  /\ k \notin DOMAIN Has.vals /\ Len(Has.dtors) <= Cardinality(Keys)
  /\ Becomes([Has EXCEPT !.dtors = Append(@, k)])
  /\ fault' = fault \cup {"half"}
  /\ UNCHANGED <<phase, dying, ended, owed>>

\* ThreadLocalAllocator::allocate(), free(), and reallocate() to 0 bytes, for
\* which the arena keeps a block.
Allocate ==
  /\ Has.blocks < MaxBlocks
  /\ Becomes([Has EXCEPT !.blocks = @ + 1, !.refs = @ + 1])
  /\ UNCHANGED <<phase, dying, ended, owed, fault>>

\* release() of a TLSGlobal that is no longer referred to destroys it.
Release(g) == [g EXCEPT !.refs = @ - 1]
Gives(g) ==
  /\ global' = [global EXCEPT ![slot] = g]
  /\ dying' = IF g.refs = 0 THEN slot ELSE dying
  /\ UNCHANGED <<slot, phase, ended, owed>>

Free == slot # NULL /\ Has.blocks > 0 /\ Gives(Release([Has EXCEPT !.blocks = @ - 1])) /\ UNCHANGED fault
ReallocateToZero == slot # NULL /\ Has.blocks > 0 /\ Gives(Release(Has)) /\ fault' = fault \cup {"zero"}

\* TLSSingleton::init(): memory of the allocator, set with its destructor.
InitSingleton(k, v) ==
  /\ k \notin DOMAIN Has.vals
  /\ Has.blocks < MaxBlocks
  /\ Becomes(SetGlobal([Has EXCEPT !.blocks = @ + 1, !.refs = @ + 1], k, v, TRUE))
  /\ owed' = owed \cup {v}
  /\ UNCHANGED <<phase, dying, ended, fault>>

\* thread_destruct(), for which the slot is empty already, and term().
ReleasesOne(i, s, ph) ==
  /\ global' = [global EXCEPT ![i] = Release(@)]
  /\ dying' = IF global[i].refs = 1 THEN i ELSE NULL
  /\ slot' = IF ph = "exits" /\ dying' = NULL THEN NULL ELSE s
  /\ phase' = IF dying' = NULL /\ slot' = NULL THEN "over" ELSE ph
  /\ UNCHANGED <<ended, owed, fault>>

ThreadDestruct == phase \in {"runs", "destructs"} /\ dying = NULL /\ slot # NULL /\ ReleasesOne(slot, NULL, "destructs")
Term == phase = "runs" /\ dying = NULL /\ slot # NULL /\ ReleasesOne(slot, slot, "exits")

\* ~TLSGlobal(): the last destructor of the list is called with the value, if
\* there is one, and may set a value of its own or allocate and free.
Dying == global[dying]
Popped == [Dying EXCEPT !.dtors = Front(@)]
Calls == phase # "runs" /\ dying # NULL /\ Dying.dtors # <<>> /\ Last(Dying.dtors) \in DOMAIN Dying.vals
Ends == ended' = [ended EXCEPT ![Dying.vals[Last(Dying.dtors)]] = @ + 1]

CallsNothing == Calls /\ Ends /\ global' = [global EXCEPT ![dying] = Popped] /\ UNCHANGED <<slot, phase, dying, owed, fault>>
CallsSet(k, v) ==
  /\ Calls /\ Ends /\ k \notin DOMAIN Has.vals /\ owed' = owed \cup {v}
  /\ IF slot = dying
     THEN global' = [global EXCEPT ![dying] = SetGlobal(Popped, k, v, TRUE)] /\ UNCHANGED slot
     ELSE /\ Instance <= Rounds
          /\ slot' = Instance
          /\ global' = [global EXCEPT ![dying] = Popped, ![Instance] = SetGlobal(Has, k, v, TRUE)]
  /\ UNCHANGED <<phase, dying, fault>>
\* Where the slot is still set the count goes from 0 to 1 and back, and the
\* TLSGlobal is deleted inside its destructor.
CallsAllocator ==
  /\ Calls /\ Ends
  /\ IF slot = dying THEN fault' = fault \cup {"nested"} /\ UNCHANGED <<global, slot>>
     ELSE /\ Instance <= Rounds
          /\ slot' = Instance /\ global' = [global EXCEPT ![dying] = Popped, ![Instance] = Has]
          /\ UNCHANGED fault
  /\ UNCHANGED <<phase, dying, owed>>
SkipsKey ==
  /\ phase # "runs" /\ dying # NULL /\ Dying.dtors # <<>> /\ Last(Dying.dtors) \notin DOMAIN Dying.vals
  /\ global' = [global EXCEPT ![dying] = Popped]
  /\ UNCHANGED <<slot, phase, dying, ended, owed, fault>>
Deleted ==
  /\ phase # "runs" /\ dying # NULL /\ Dying.dtors = <<>>
  /\ dying' = NULL
  /\ slot' = IF slot = dying THEN NULL ELSE slot
  /\ phase' = IF slot' = NULL THEN "over" ELSE phase
  /\ UNCHANGED <<global, ended, owed, fault>>

Next ==
  /\ "nested" \notin fault
  /\ \/ /\ phase = "runs" /\ dying = NULL
        /\ \/ \E k \in Keys, v \in Unused, destructor \in BOOLEAN : Set(k, v, destructor)
           \/ \E k \in Keys : SetFails(k)
           \/ \E k \in Keys, v \in Unused : InitSingleton(k, v)
           \/ Allocate \/ Free \/ ReallocateToZero
     \/ ThreadDestruct \/ Term
     \/ CallsNothing \/ CallsAllocator \/ SkipsKey \/ Deleted
     \/ \E k \in Keys, v \in Unused : CallsSet(k, v)

-----------------------------------------------------------------------------
\* A TLSGlobal lives as long as its thread or a block of its memory, so that no
\* destructor is called while there is memory of it in use.  None is called
\* twice; and when the thread is over that of every value set with one has been,
\* also of those that destructors have set, except where memory is left: that of
\* a TLSSingleton always is.
EndsValuesOnce ==
  fault = {} =>
    /\ \A i \in {j \in 1 .. Rounds : global[j] # NULL} :
         /\ global[i].refs = global[i].blocks + (IF slot = i /\ phase # "exits" THEN 1 ELSE 0)
         /\ phase = "over" /\ global[i].blocks = 0 => \A v \in owed \cap In(global[i]) : ended[v] = 1
    /\ \A v \in Vals : ended[v] <= 1
    /\ dying # NULL => Dying.blocks = 0
=============================================================================
