------------------------------ MODULE AtomicEvent ------------------------------
(***************************************************************************)
(* What OOBase::Event promises: set(), reset(), is_set() and wait() act on *)
(* one flag, each at one instant; an auto-reset event lets one caller past *)
(* each time it is set.                                                    *)
(***************************************************************************)
CONSTANT Threads

VARIABLES
  autoReset,  \* the event is an auto-reset one
  set,        \* it is signalled
  call        \* "wait" while a thread is blocked, or how its last call ended

eventVars == <<autoReset, set, call>>

Init == autoReset \in BOOLEAN /\ set \in BOOLEAN /\ call = [t \in Threads |-> "idle"]

Ends(t, r) == call' = [call EXCEPT ![t] = r]

Set(t) == call[t] # "wait" /\ set' = TRUE /\ Ends(t, "idle")
Reset(t) == call[t] # "wait" /\ set' = FALSE /\ Ends(t, "idle")

\* A call that finds the event set passes, and resets an auto-reset event.
Pass(t) == set /\ set' = ~autoReset /\ Ends(t, "true")

\* is_set() of an event that is not set.
Miss(t) == call[t] # "wait" /\ ~set /\ UNCHANGED set /\ Ends(t, "false")

Block(t) == call[t] # "wait" /\ ~set /\ UNCHANGED set /\ Ends(t, "wait")

TimeOut(t) == call[t] = "wait" /\ UNCHANGED set /\ Ends(t, "false")

Next ==
  /\ \E t \in Threads :
       Set(t) \/ Reset(t) \/ Pass(t) \/ Miss(t) \/ Block(t) \/ TimeOut(t)
  /\ UNCHANGED autoReset

Spec == Init /\ [][Next]_eventVars
=============================================================================
