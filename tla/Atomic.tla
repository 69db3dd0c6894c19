--------------------------------- MODULE Atomic ---------------------------------
(***************************************************************************)
(* OOBase::Atomic<T> (include/OOBase/Atomic.h) over the primitives that    *)
(* src/Builtins.cpp finds: a build has instructions for some operations    *)
(* and makes the others from a loop of compare-and-swap.                   *)
(***************************************************************************)
EXTENDS Integers

CONSTANTS
  Threads,
  Words      \* values are 0 .. Words-1, modulo Words

VARIABLES
  build,     \* "sync" (gcc), "interlocked" (Windows), or "cas": 64 bits on
             \* 32-bit Windows, which has no other instruction
  val,       \* m_val
  op,        \* [Threads -> the operation a thread is in]
  pc,        \* [Threads -> "idle", "called", "again" or "swap"]
  oldVal, newVal,   \* [Threads -> the locals of the loops]
  ret,       \* [Threads -> the value the last operation returned]
  apart      \* history: [Threads -> its loop's two reads found different values]

vars == <<build, val, op, pc, oldVal, newVal, ret, apart>>

T == 0 .. Words - 1
Operations ==
  [kind : {"add", "sub", "exchange"}, arg : T \ {0}]
    \cup [kind : {"inc", "dec"}, arg : {1}] \cup [kind : {"cas"}, arg : T, old : T]
None == [kind |-> "none"]

Init ==
  /\ build \in {"sync", "interlocked", "cas"}
  /\ val = 0
  /\ op = [t \in Threads |-> None]
  /\ pc = [t \in Threads |-> "idle"]
  /\ oldVal = [t \in Threads |-> 0] /\ newVal = oldVal /\ ret = oldVal
  /\ apart = [t \in Threads |-> FALSE]

\* atomic_inc(), atomic_sub() and atomic_dec() are atomic_add() of this.
Amount(o) == IF o.kind \in {"sub", "dec"} THEN -o.arg ELSE o.arg

IsInstruction(o) ==
  CASE o.kind = "cas" -> TRUE
    [] o.kind = "exchange" -> build = "interlocked"
    [] OTHER -> build # "cas"

Effect(o, v) ==
  CASE o.kind = "cas" -> IF v = o.old THEN o.arg ELSE v
    [] o.kind = "exchange" -> o.arg
    [] OTHER -> (v + Amount(o)) % Words

\* InterlockedExchangeAdd() returns the old value where __sync_add_and_fetch()
\* and the loop return the new one.
Returned(o, v) ==
  IF o.kind \in {"cas", "exchange"} \/ (build = "interlocked" /\ o.kind \in {"add", "sub"})
  THEN v ELSE Effect(o, v)

\* An operation returns, and its locals are gone.
Return(t, v) ==
  /\ pc' = [pc EXCEPT ![t] = "idle"] /\ ret' = [ret EXCEPT ![t] = v]
  /\ op' = [op EXCEPT ![t] = None]
  /\ oldVal' = [oldVal EXCEPT ![t] = 0] /\ newVal' = [newVal EXCEPT ![t] = 0]
  /\ apart' = [apart EXCEPT ![t] = FALSE]

Call(t) ==
  /\ pc[t] = "idle"
  /\ \E o \in Operations : op' = [op EXCEPT ![t] = o]
  /\ pc' = [pc EXCEPT ![t] = "called"] /\ ret' = [ret EXCEPT ![t] = 0]
  /\ UNCHANGED <<build, val, oldVal, newVal, apart>>

Instruction(t) ==
  /\ pc[t] = "called" /\ IsInstruction(op[t])
  /\ val' = Effect(op[t], val)
  /\ Return(t, Returned(op[t], val))
  /\ UNCHANGED build

\* The loops read m_val ...
Read(t) ==
  /\ pc[t] = "called" /\ ~IsInstruction(op[t])
  /\ oldVal' = [oldVal EXCEPT ![t] = val]
  /\ newVal' = [newVal EXCEPT ![t] = op[t].arg]
  /\ apart' = [apart EXCEPT ![t] = FALSE]
  /\ pc' = [pc EXCEPT ![t] = IF op[t].kind = "exchange" THEN "swap" ELSE "again"]
  /\ UNCHANGED <<build, val, op, ret>>

\* ... atomic_add() once more for the sum ...
ReadAgain(t) ==
  /\ pc[t] = "again"
  /\ newVal' = [newVal EXCEPT ![t] = Effect(op[t], val)]
  /\ apart' = [apart EXCEPT ![t] = val # oldVal[t]]
  /\ pc' = [pc EXCEPT ![t] = "swap"]
  /\ UNCHANGED <<build, val, op, oldVal, ret>>

\* Mutant: the value is stored, whatever m_val is.
PlainStore(t) == TRUE

\* ... and store the new value if m_val is still what was read, or start again.
Unchanged(t) == val = oldVal[t]

Swap(t) ==
  /\ pc[t] = "swap"
  /\ IF Unchanged(t)
     THEN /\ val' = newVal[t]
          /\ Return(t, IF op[t].kind = "exchange" THEN oldVal[t] ELSE newVal[t])
     ELSE /\ pc' = [pc EXCEPT ![t] = "called"]
          /\ UNCHANGED <<val, op, oldVal, newVal, ret, apart>>
  /\ UNCHANGED build

Next == \E t \in Threads : Call(t) \/ Instruction(t) \/ Read(t) \/ ReadAgain(t) \/ Swap(t)

-----------------------------------------------------------------------------
\* The faulty step: m_val was another at the second read of the loop of an add()
\* than at the first, and is now what it was then, so that the swap stores a sum
\* that does not belong to it.
SumOfAnother(t) == pc[t] = "swap" /\ apart[t]

\* Whatever instructions a build has, m_val changes only when an operation
\* returns, which then acts on it as it is at that instant, also where others
\* have changed it and changed it back since it was read, and returns what belongs
\* to it; but for the faulty step.
ActsAtOneInstant ==
  [][/\ \A t \in Threads :
           pc[t] # "idle" /\ pc'[t] = "idle" /\ ~SumOfAnother(t) =>
             val' = Effect(op[t], val) /\ ret'[t] = Returned(op[t], val)
     /\ val' # val => \E t \in Threads : pc[t] # "idle" /\ pc'[t] = "idle"]_vars
=============================================================================
