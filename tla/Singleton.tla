------------------------------- MODULE Singleton -------------------------------
(***************************************************************************)
(* Singletons (include/OOBase/Singleton.h) and the DLLDestructor           *)
(* (include/OOBase/Destructor.h) that destroys them when the process ends, *)
(* while other threads may still ask for them.  Each singleton's           *)
(* constructor may ask for another one.                                    *)
(***************************************************************************)
EXTENDS Naturals, Sequences, SequencesExt

CONSTANTS
  Threads,       \* that ask for singletons
  Singletons,
  Uses,          \* [Singletons -> what its constructor asks for, or NULL]
  NULL

VARIABLES
  once,          \* [Singletons -> the thread in its Once::Run, "new" or "done"]
  object,        \* [Singletons -> "none", "raw", "built" or "freed"]
  instance,      \* s_instance: set
  stack,         \* m_stack: the singletons whose destroy() will be called
  calls,         \* [Threads -> the calls of instance_ptr() it is in, innermost first]
  exit           \* the ending process, [at |-> "no", "loops", "calls", "clears" or
                 \* "over", s |-> the singleton that it popped]

vars == <<once, object, instance, stack, calls, exit>>

Init ==
  /\ once = [s \in Singletons |-> "new"]
  /\ object = [s \in Singletons |-> "none"]
  /\ instance = [s \in Singletons |-> FALSE]
  /\ stack = <<>>
  /\ calls = [t \in Threads |-> <<>>]
  /\ exit = [at |-> "no", s |-> NULL]

\* A call: the singleton, and what is done next for it.
Call(s, at) == <<[s |-> s, at |-> at]>>
Top(t, at) == calls[t] # <<>> /\ Head(calls[t]).at = at
This(t) == Head(calls[t]).s
Goes(t, at) == calls' = [calls EXCEPT ![t] = Call(This(t), at) \o Tail(@)]

\* instance_ptr(): Once::Run lets one thread in and the others wait.
InstancePtr(t, s) ==
  /\ calls[t] = <<>>
  /\ calls' = [calls EXCEPT ![t] = Call(s, "once")]
  /\ UNCHANGED <<once, object, instance, stack, exit>>

\* Mutant: Once lets a thread in until another has come out.
EntersOnceTogether(t) ==
  /\ Top(t, "once") /\ once[This(t)] # "done"
  /\ once' = [once EXCEPT ![This(t)] = t]
  /\ object' = [object EXCEPT ![This(t)] = "raw"]
  /\ Goes(t, "registers")
  /\ UNCHANGED <<instance, stack, exit>>

EntersOnce(t) ==
  /\ Top(t, "once") /\ once[This(t)] = "new"
  /\ once' = [once EXCEPT ![This(t)] = t]
  /\ object' = [object EXCEPT ![This(t)] = "raw"]
  /\ Goes(t, "registers")
  /\ UNCHANGED <<instance, stack, exit>>

\* add_destructor(), before the constructor, under the lock.
AddDestructor(t) ==
  /\ Top(t, "registers")
  /\ stack' = Append(stack, This(t))
  /\ Goes(t, "constructs")
  /\ UNCHANGED <<once, object, instance, exit>>

\* The constructor, which may ask for another singleton first.
Nests(t) ==
  /\ Top(t, "constructs") /\ Uses[This(t)] # NULL
  /\ calls' = [calls EXCEPT ![t] = Call(Uses[This(t)], "once") \o Call(This(t), "built") \o Tail(@)]
  /\ UNCHANGED <<once, object, instance, stack, exit>>

Constructs(t) ==
  /\ \/ Top(t, "constructs") /\ Uses[This(t)] = NULL
     \/ Top(t, "built")
  /\ object' = [object EXCEPT ![This(t)] = "built"]
  /\ Goes(t, "publishes")
  /\ UNCHANGED <<once, instance, stack, exit>>

\* s_instance is set, and the others are let through.
Publishes(t) ==
  /\ Top(t, "publishes")
  /\ instance' = [instance EXCEPT ![This(t)] = TRUE]
  /\ Goes(t, "leaves")
  /\ UNCHANGED <<once, object, stack, exit>>

LeavesOnce(t) ==
  /\ Top(t, "leaves")
  /\ once' = [once EXCEPT ![This(t)] = "done"]
  /\ Goes(t, "once")
  /\ UNCHANGED <<object, instance, stack, exit>>

\* It returns s_instance, NULL once the object has been destroyed.
Returns(t) ==
  /\ Top(t, "once") /\ once[This(t)] = "done"
  /\ calls' = [calls EXCEPT ![t] = Tail(@)]
  /\ UNCHANGED <<once, object, instance, stack, exit>>

\* ~DLLDestructor() pops under the lock and calls without it.
Exits ==
  /\ exit.at = "no" /\ exit' = [exit EXCEPT !.at = "loops"]
  /\ UNCHANGED <<once, object, instance, stack, calls>>

Pops ==
  /\ exit.at = "loops"
  /\ IF stack = <<>> THEN exit' = [at |-> "over", s |-> NULL] /\ UNCHANGED stack
     ELSE exit' = [at |-> "calls", s |-> Last(stack)] /\ stack' = Front(stack)
  /\ UNCHANGED <<once, object, instance, calls>>

\* destroy(), which does nothing for one that is not set yet; s_instance is
\* cleared after the object is freed.
Destroy ==
  /\ exit.at = "calls"
  /\ IF instance[exit.s]
     THEN object' = [object EXCEPT ![exit.s] = "freed"] /\ exit' = [exit EXCEPT !.at = "clears"]
     ELSE exit' = [at |-> "loops", s |-> NULL] /\ UNCHANGED object
  /\ UNCHANGED <<once, instance, stack, calls>>

Clears ==
  /\ exit.at = "clears"
  /\ instance' = [instance EXCEPT ![exit.s] = FALSE]
  /\ exit' = [at |-> "loops", s |-> NULL]
  /\ UNCHANGED <<once, object, stack, calls>>

Next ==
  \/ \E t \in Threads :
       \/ \E s \in Singletons : InstancePtr(t, s)
       \/ EntersOnce(t) \/ AddDestructor(t) \/ Nests(t) \/ Constructs(t)
       \/ Publishes(t) \/ LeavesOnce(t) \/ Returns(t)
  \/ Exits \/ Pops \/ Destroy \/ Clears

-----------------------------------------------------------------------------
\* Whenever threads ask and whenever the process ends, s_instance points only to
\* an object that is constructed and not destroyed, but for the moment in which
\* it is; no object is destroyed while it is being constructed, nor twice; and
\* until the process ends each that anybody was given will be.
InstanceIsAlive ==
  /\ \A s \in Singletons : instance[s] => object[s] = "built" \/ exit = [at |-> "clears", s |-> s]
  /\ \A t \in Threads : \A i \in DOMAIN calls[t] :
       calls[t][i].at \in {"registers", "constructs", "built"} => object[calls[t][i].s] = "raw"
  /\ \A s \in Singletons : object[s] = "freed" => s \notin ToSet(stack) /\ ~(exit.at = "calls" /\ exit.s = s)
  /\ exit.at = "no" => \A s \in Singletons : instance[s] => s \in ToSet(stack)
=============================================================================
