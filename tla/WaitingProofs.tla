----------------------------- MODULE WaitingProofs -----------------------------
(***************************************************************************)
(* Theorems about Event and Future, for any number of threads, finite or   *)
(* not.  No sleeper is forgotten: for Event the invariant needs no         *)
(* strengthening but the types, for Future it must say which waits reset.  *)
(* Event implements AtomicEvent, and Future hands out the latest value.    *)
(***************************************************************************)
EXTENDS MCWaiting, TLAPS

-----------------------------------------------------------------------------
(* Event                                                                    *)

States == Resting \cup WaitStates

TypeOK ==
  /\ autoReset \in BOOLEAN
  /\ bSet \in BOOLEAN
  /\ pc \in [Threads -> States]
  /\ finite \in [Threads -> BOOLEAN]

IInv == TypeOK /\ NoSleeperForgotten

-----------------------------------------------------------------------------
\* Signalling moves sleepers only, and leaves none asleep without having
\* woken one.
LEMMA SignalWakesOne ==
  ASSUME NEW p \in [Threads -> States], NEW q \in Signal(p, "asleep", "woken")
  PROVE  /\ q \in [Threads -> States]
         /\ \A u \in Threads : q[u] = p[u] \/ (p[u] = "asleep" /\ q[u] = "woken")
         /\ Where(q, {"asleep"}) # {} => Where(q, {"woken"}) # {}
  <1>1. CASE Where(p, {"asleep"}) = {}
    <2>1. q = p
      BY <1>1 DEF Signal
    <2>. QED
      BY <1>1, <2>1
  <1>2. CASE Where(p, {"asleep"}) # {}
    <2>1. PICK t \in Where(p, {"asleep"}) : q = [p EXCEPT ![t] = "woken"]
      BY <1>2 DEF Signal
    <2>2. t \in Threads /\ p[t] = "asleep"
      BY <2>1 DEF Where
    <2>3. t \in Where(q, {"woken"})
      BY <2>1, <2>2 DEF Where
    <2>. QED
      BY <2>1, <2>2, <2>3 DEF States, WaitStates
  <1>. QED
    BY <1>1, <1>2

\* What Set does to the program counters.
LEMMA SetMoves ==
  ASSUME IInv, NEW t \in Threads, Set(t)
  PROVE  /\ bSet' = TRUE /\ autoReset' = autoReset
         /\ pc' \in [Threads -> States]
         /\ pc[t] \in Resting /\ pc'[t] = "idle"
         /\ \A u \in Threads \ {t} : pc'[u] = pc[u] \/ (pc[u] = "asleep" /\ pc'[u] = "woken")
         /\ Where(pc', {"asleep"}) # {} => autoReset /\ Where(pc', {"woken"}) # {}
  <1>. DEFINE p == [pc EXCEPT ![t] = "idle"]
  <1>1. p \in [Threads -> States] /\ p[t] = "idle" /\ pc[t] \in Resting
    BY DEF IInv, TypeOK, Set, States, Resting
  <1>2. \A P \in {{"asleep"}, {"woken"}} : Where(p, P) = Where(pc, P)
    BY <1>1 DEF IInv, TypeOK, Where, Resting
  <1>3. CASE bSet /\ pc' = p
    BY <1>1, <1>2, <1>3 DEF IInv, TypeOK, NoSleeperForgotten, Set
  <1>4. CASE ~bSet /\ autoReset /\ pc' \in Signal(p, "asleep", "woken")
    <2>1. /\ pc' \in [Threads -> States]
          /\ \A u \in Threads : pc'[u] = p[u] \/ (p[u] = "asleep" /\ pc'[u] = "woken")
          /\ Where(pc', {"asleep"}) # {} => Where(pc', {"woken"}) # {}
      BY <1>1, <1>4, SignalWakesOne
    <2>2. pc'[t] = "idle"
      BY <1>1, <2>1
    <2>3. \A u \in Threads \ {t} : p[u] = pc[u]
      BY DEF IInv, TypeOK
    <2>. QED
      BY <1>1, <1>4, <2>1, <2>2, <2>3 DEF Set
  <1>5. CASE ~bSet /\ ~autoReset /\ pc' = Broadcast(p, "asleep", "woken")
    <2>1. /\ pc' \in [Threads -> States]
          /\ \A u \in Threads : pc'[u] = p[u] \/ (p[u] = "asleep" /\ pc'[u] = "woken")
          /\ Where(pc', {"asleep"}) = {}
      BY <1>1, <1>5 DEF Broadcast, Where, States, WaitStates
    <2>2. pc'[t] = "idle"
      BY <1>1, <2>1
    <2>3. \A u \in Threads \ {t} : p[u] = pc[u]
      BY DEF IInv, TypeOK
    <2>. QED
      BY <1>1, <2>1, <2>2, <2>3 DEF Set
  <1>. QED
    BY <1>3, <1>4, <1>5 DEF Set

-----------------------------------------------------------------------------
(* The invariant                                                            *)

LEMMA InitInv == Init => IInv
  BY DEF Init, IInv, TypeOK, NoSleeperForgotten, Where, States, Resting

\* A step of one thread t to the state s, by a call or a wait that ends or
\* begins.
LEMMA OneMoves ==
  ASSUME IInv, NEW t \in Threads, NEW s \in States,
         pc' = [pc EXCEPT ![t] = s],
         autoReset' = autoReset, bSet' \in BOOLEAN, bSet' => bSet,
         finite' \in [Threads -> BOOLEAN],
         s = "asleep" => ~bSet',
         pc[t] = "woken" => (autoReset => ~bSet')
  PROVE  IInv'
  <1>1. pc' \in [Threads -> States]
    BY DEF IInv, TypeOK
  <1>2. CASE bSet'
    <2>1. Where(pc', {"asleep"}) \subseteq Where(pc, {"asleep"})
      BY <1>2 DEF IInv, TypeOK, Where
    <2>2. pc[t] # "woken" => Where(pc, {"woken"}) \subseteq Where(pc', {"woken"})
      BY DEF IInv, TypeOK, Where
    <2>. QED
      BY <1>1, <1>2, <2>1, <2>2 DEF IInv, TypeOK, NoSleeperForgotten
  <1>. QED
    BY <1>1, <1>2 DEF IInv, TypeOK, NoSleeperForgotten

LEMMA WaitLoopKeepsInv ==
  ASSUME IInv, NEW t \in Threads, NEW f \in BOOLEAN, WaitLoop(t, f)
  PROVE  IInv'
  <1>1. CASE bSet
    BY <1>1, OneMoves
    DEF WaitLoop, CallEnds, IInv, TypeOK, NoSleeperForgotten, States, Resting
  <1>2. CASE ~bSet
    BY <1>2, OneMoves DEF WaitLoop, IInv, TypeOK, States, WaitStates
  <1>. QED
    BY <1>1, <1>2 DEF IInv, TypeOK

LEMMA NextInv == IInv /\ [Next]_vars => IInv'
  <1>. SUFFICES ASSUME IInv, [Next]_vars PROVE IInv'
    OBVIOUS
  <1>1. ASSUME NEW t \in Threads, IsSet(t) PROVE IInv'
    BY <1>1, OneMoves DEF IsSet, IInv, TypeOK, States, Resting
  <1>2. ASSUME NEW t \in Threads, Set(t) PROVE IInv'
    BY <1>2, SetMoves DEF IInv, TypeOK, NoSleeperForgotten, Set
  <1>3. ASSUME NEW t \in Threads, Reset(t) PROVE IInv'
    BY <1>3, OneMoves DEF Reset, IInv, TypeOK, States, Resting
  <1>4. ASSUME NEW t \in Threads, NEW f \in BOOLEAN, Wait(t, f) PROVE IInv'
    BY <1>4, WaitLoopKeepsInv DEF Wait
  <1>5. ASSUME NEW t \in Threads, WaitWakes(t) PROVE IInv'
    BY <1>5, WaitLoopKeepsInv DEF WaitWakes, IInv, TypeOK
  <1>6. ASSUME NEW t \in Threads, WaitTimesOut(t) PROVE IInv'
    BY <1>6, OneMoves DEF WaitTimesOut, CallEnds, IInv, TypeOK, States, Resting
  <1>7. ASSUME NEW t \in Threads, WakeSpuriously(t) PROVE IInv'
    BY <1>7, OneMoves DEF WakeSpuriously, IInv, TypeOK, States, WaitStates
  <1>8. ASSUME NEW t \in Threads, DeadlinePasses(t) PROVE IInv'
    BY <1>8, OneMoves DEF DeadlinePasses, IInv, TypeOK, States, WaitStates
  <1>9. CASE UNCHANGED vars
    BY <1>9 DEF vars, IInv, TypeOK, NoSleeperForgotten, Where
  <1>. QED
    BY <1>1, <1>2, <1>3, <1>4, <1>5, <1>6, <1>7, <1>8, <1>9 DEF Next

THEOREM Invariance == Spec => []IInv
  BY InitInv, NextInv, PTL DEF Spec

\* No lost wake-up: nobody sleeps on a set event, unless it is an auto-reset
\* one that a woken thread is about to take.
THEOREM NobodyForgotten == Spec => []NoSleeperForgotten
  BY Invariance, PTL DEF IInv

-----------------------------------------------------------------------------
(* The refinement of AtomicEvent: a thread that sleeps, has been woken or   *)
(* has timed out is blocked in the abstract wait.                           *)

calls == [t \in Threads |-> BlockedIn(t)]

\* The step of t to a state s, the others moving at most within their waits.
LEMMA CallsBecome ==
  ASSUME pc \in [Threads -> States], pc' \in [Threads -> States], NEW t \in Threads,
         \A u \in Threads \ {t} :
           pc'[u] = pc[u] \/ (pc[u] \in WaitStates /\ pc'[u] \in WaitStates)
  PROVE  /\ pc'[t] \in Resting => calls' = [calls EXCEPT ![t] = pc'[t]]
         /\ pc'[t] \in WaitStates => calls' = [calls EXCEPT ![t] = "wait"]
         /\ pc[t] \in Resting => calls[t] # "wait"
         /\ pc[t] \in WaitStates => calls[t] = "wait"
  <1>1. \A u \in Threads \ {t} : BlockedIn(u)' = BlockedIn(u)
    BY DEF BlockedIn
  <1>. QED
    BY <1>1 DEF calls, BlockedIn, States, Resting, WaitStates

LEMMA WaitLoopRefines ==
  ASSUME IInv, IInv', NEW t \in Threads, NEW f, WaitLoop(t, f),
         pc[t] \in Resting \/ pc[t] = "woken"
  PROVE  Abstract!Next \/ UNCHANGED Abstract!eventVars
  <1>. pc \in [Threads -> States] /\ pc' \in [Threads -> States]
    BY DEF IInv, TypeOK
  <1>. autoReset' = autoReset
    BY DEF WaitLoop
  <1>1. CASE bSet
    <2>1. pc' = [pc EXCEPT ![t] = "true"] /\ bSet' = ~autoReset
      BY <1>1 DEF WaitLoop
    <2>2. calls' = [calls EXCEPT ![t] = "true"]
      BY <2>1, CallsBecome DEF Resting
    <2>3. Abstract!Pass(t)
      BY <1>1, <2>1, <2>2 DEF Abstract!Pass, Abstract!Ends, calls
    <2>. QED
      BY <2>3 DEF Abstract!Next
  <1>2. CASE ~bSet
    <2>1. pc' = [pc EXCEPT ![t] = "asleep"] /\ bSet' = bSet
      BY <1>2 DEF WaitLoop
    <2>2. calls' = [calls EXCEPT ![t] = "wait"]
      BY <2>1, CallsBecome DEF WaitStates
    <2>3. CASE pc[t] \in Resting
      <3>1. calls[t] # "wait"
        BY <2>3, <2>1, CallsBecome
      <3>2. Abstract!Block(t)
        BY <1>2, <2>1, <2>2, <3>1 DEF Abstract!Block, Abstract!Ends, calls
      <3>. QED
        BY <3>2 DEF Abstract!Next
    <2>4. CASE pc[t] = "woken"
      <3>1. calls' = calls
        BY <2>1, <2>2, <2>4, CallsBecome DEF WaitStates, calls
      <3>. QED
        BY <2>1, <3>1 DEF Abstract!eventVars, calls
    <2>. QED
      BY <2>3, <2>4
  <1>. QED
    BY <1>1, <1>2

\* A thread that sleeps is woken, or its deadline passes: a stutter.
LEMMA WaitMovesStutter ==
  ASSUME IInv, IInv', NEW t \in Threads, WakeSpuriously(t) \/ DeadlinePasses(t)
  PROVE  UNCHANGED Abstract!eventVars
  <1>1. /\ pc \in [Threads -> States] /\ pc' \in [Threads -> States]
        /\ pc[t] \in WaitStates /\ pc'[t] \in WaitStates
        /\ \A u \in Threads \ {t} : pc'[u] = pc[u]
        /\ bSet' = bSet /\ autoReset' = autoReset
    BY DEF IInv, TypeOK, WakeSpuriously, DeadlinePasses, WaitStates
  <1>2. calls' = calls
    BY <1>1, CallsBecome DEF calls
  <1>. QED
    BY <1>1, <1>2 DEF Abstract!eventVars, calls

LEMMA NextRefines ==
  ASSUME IInv, IInv', [Next]_vars
  PROVE  [Abstract!Next]_(Abstract!eventVars)
  <1>. pc \in [Threads -> States] /\ pc' \in [Threads -> States]
    BY DEF IInv, TypeOK
  <1>. autoReset' = autoReset
    BY DEF Next, vars, IsSet, Set, Reset, Wait, WaitLoop, WaitWakes, WaitTimesOut,
           WakeSpuriously, DeadlinePasses
  <1>1. ASSUME NEW t \in Threads, IsSet(t) PROVE Abstract!Next
    <2>1. CASE bSet
      <3>1. pc' = [pc EXCEPT ![t] = "true"] /\ bSet' = ~autoReset
        BY <1>1, <2>1 DEF IsSet
      <3>2. calls' = [calls EXCEPT ![t] = "true"]
        BY <3>1, CallsBecome DEF Resting
      <3>3. Abstract!Pass(t)
        BY <2>1, <3>1, <3>2 DEF Abstract!Pass, Abstract!Ends, calls
      <3>. QED
        BY <3>3 DEF Abstract!Next
    <2>2. CASE ~bSet
      <3>1. pc' = [pc EXCEPT ![t] = "false"] /\ bSet' = bSet /\ pc[t] \in Resting
        BY <1>1, <2>2 DEF IsSet, IInv, TypeOK
      <3>2. calls' = [calls EXCEPT ![t] = "false"] /\ calls[t] # "wait"
        BY <3>1, CallsBecome DEF Resting
      <3>3. Abstract!Miss(t)
        BY <2>2, <3>1, <3>2 DEF Abstract!Miss, Abstract!Ends, calls
      <3>. QED
        BY <3>3 DEF Abstract!Next
    <2>. QED
      BY <2>1, <2>2
  <1>2. ASSUME NEW t \in Threads, Set(t) PROVE Abstract!Next
    <2>1. calls' = [calls EXCEPT ![t] = "idle"] /\ calls[t] # "wait" /\ bSet' = TRUE
      BY <1>2, SetMoves, CallsBecome DEF WaitStates, Resting
    <2>2. Abstract!Set(t)
      BY <2>1 DEF Abstract!Set, Abstract!Ends, calls
    <2>. QED
      BY <2>2 DEF Abstract!Next
  <1>3. ASSUME NEW t \in Threads, Reset(t) PROVE Abstract!Next
    <2>1. pc' = [pc EXCEPT ![t] = "idle"] /\ bSet' = FALSE /\ pc[t] \in Resting
      BY <1>3 DEF Reset
    <2>2. calls' = [calls EXCEPT ![t] = "idle"] /\ calls[t] # "wait"
      BY <2>1, CallsBecome DEF Resting
    <2>3. Abstract!Reset(t)
      BY <2>1, <2>2 DEF Abstract!Reset, Abstract!Ends, calls
    <2>. QED
      BY <2>3 DEF Abstract!Next
  <1>4. ASSUME NEW t \in Threads, WaitTimesOut(t) PROVE Abstract!Next
    <2>1. pc' = [pc EXCEPT ![t] = "false"] /\ bSet' = bSet /\ pc[t] \in WaitStates
      BY <1>4 DEF WaitTimesOut, WaitStates
    <2>2. calls' = [calls EXCEPT ![t] = "false"] /\ calls[t] = "wait"
      BY <2>1, CallsBecome DEF Resting
    <2>3. Abstract!TimeOut(t)
      BY <2>1, <2>2 DEF Abstract!TimeOut, Abstract!Ends, calls
    <2>. QED
      BY <2>3 DEF Abstract!Next
  <1>5. ASSUME NEW t \in Threads, NEW f \in BOOLEAN, Wait(t, f)
        PROVE  Abstract!Next \/ UNCHANGED Abstract!eventVars
    BY <1>5, WaitLoopRefines DEF Wait
  <1>6. ASSUME NEW t \in Threads, WaitWakes(t)
        PROVE  Abstract!Next \/ UNCHANGED Abstract!eventVars
    BY <1>6, WaitLoopRefines DEF WaitWakes
  <1>7. ASSUME NEW t \in Threads, WakeSpuriously(t) \/ DeadlinePasses(t)
        PROVE  UNCHANGED Abstract!eventVars
    BY <1>7, WaitMovesStutter
  <1>8. CASE UNCHANGED vars
    BY <1>8 DEF vars, Abstract!eventVars, BlockedIn
  <1>. QED
    BY <1>1, <1>2, <1>3, <1>4, <1>5, <1>6, <1>7, <1>8 DEF Next

LEMMA InitRefines == Init => Abstract!Init
  BY DEF Init, Abstract!Init, BlockedIn, WaitStates

\* The event, with its mutex, condition and early return in set(), implements
\* one flag on which every call acts at one instant.
THEOREM Refinement == Spec => ImplementsAtomicEvent
  <1>1. IInv /\ IInv' /\ [Next]_vars => [Abstract!Next]_(Abstract!eventVars)
    BY NextRefines
  <1>. QED
    BY <1>1, InitRefines, Invariance, PTL DEF Spec, ImplementsAtomicEvent, Abstract!Spec

-----------------------------------------------------------------------------
(* Future                                                                   *)

FutureStates == F!Resting \cup F!WaitStates \cup {"reads"}

FutureTypes ==
  /\ signalsOne \in BOOLEAN
  /\ complete \in BOOLEAN
  /\ futurePc \in [Threads -> FutureStates]
  /\ resets \in [Threads -> BOOLEAN]
  /\ taken \in [Threads -> Values \cup {NoValue}]
  /\ value \in Values
  /\ futureFinite \in [Threads -> BOOLEAN]
  /\ refers \in [Threads -> BOOLEAN]
  /\ late \in [Threads -> BOOLEAN]

\* resets is of a wait that has not returned, and where signal() is used every
\* wait resets.
WhoResets ==
  \A t \in Threads :
    /\ futurePc[t] \notin F!WaitStates => ~resets[t]
    /\ futurePc[t] \in F!WaitStates /\ signalsOne => resets[t]

\* A reference leads to the value it was returned for, until the future is
\* completed again.
RefersToIt ==
  \A t \in Threads : futurePc[t] = "reads" /\ ~late[t] => taken[t] = value

FutureInv == FutureTypes /\ WhoResets /\ RefersToIt /\ F!NoSleeperForgotten

\* signal() wakes one sleeper if there is any, broadcast() leaves none.
LEMMA SignalsWake ==
  ASSUME FutureInv, NEW t \in Threads, NEW v \in Values, F!CallSignal(t, v) \/ F!CallBroadcast(t, v)
  PROVE  /\ complete' = TRUE /\ value' = v
         /\ futurePc'[t] = "idle" /\ futurePc[t] \in F!Resting
         /\ futurePc' \in [Threads -> FutureStates]
         /\ \A u \in Threads \ {t} :
              futurePc'[u] = futurePc[u] \/ (futurePc[u] = "asleep" /\ futurePc'[u] = "woken")
         /\ F!Where(futurePc', {"asleep"}) # {} =>
              signalsOne /\ \E u \in Threads \ {t} : futurePc'[u] = "woken"
         /\ taken' = [taken EXCEPT ![t] = NoValue]
         /\ late' = [u \in Threads |-> late[u] \/ futurePc[u] = "reads"]
         /\ UNCHANGED <<signalsOne, resets, futureFinite, refers>>
  <1> DEFINE p == [futurePc EXCEPT ![t] = "idle"]
  <1>1. /\ futurePc[t] \in F!Resting /\ complete' = TRUE /\ value' = v
        /\ taken' = [taken EXCEPT ![t] = NoValue]
        /\ late' = [u \in Threads |-> late[u] \/ futurePc[u] = "reads"]
        /\ UNCHANGED <<signalsOne, resets, futureFinite, refers>>
    BY DEF F!CallSignal, F!CallBroadcast, F!Completes
  <1>2. /\ p \in [Threads -> FutureStates] /\ p[t] = "idle"
        /\ \A u \in Threads \ {t} : p[u] = futurePc[u]
    BY DEF FutureInv, FutureTypes, FutureStates, F!Resting
  <1> HIDE DEF p
  <1>3. CASE futurePc' = F!Broadcast(p, "asleep", "woken")
    <2>1. /\ futurePc' \in [Threads -> FutureStates]
          /\ \A u \in Threads : futurePc'[u] = IF p[u] = "asleep" THEN "woken" ELSE p[u]
      BY <1>2, <1>3 DEF F!Broadcast, FutureStates, F!WaitStates
    <2>2. F!Where(futurePc', {"asleep"}) = {}
      BY <2>1 DEF F!Where
    <2> QED
      BY <1>1, <1>2, <2>1, <2>2
  <1>4. CASE signalsOne /\ futurePc' \in F!Signal(p, "asleep", "woken")
    <2>1. CASE F!Where(p, {"asleep"}) = {}
      <3>1. futurePc' = p
        BY <1>4, <2>1 DEF F!Signal
      <3> QED
        BY <1>1, <1>2, <2>1, <3>1
    <2>2. CASE F!Where(p, {"asleep"}) # {}
      <3>1. PICK w \in F!Where(p, {"asleep"}) : futurePc' = [p EXCEPT ![w] = "woken"]
        BY <1>4, <2>2 DEF F!Signal
      <3>2. w \in Threads \ {t} /\ p[w] = "asleep"
        BY <1>2, <3>1 DEF F!Where
      <3>3. /\ futurePc' \in [Threads -> FutureStates]
            /\ futurePc'[w] = "woken" /\ \A u \in Threads \ {w} : futurePc'[u] = p[u]
        BY <1>2, <3>1, <3>2 DEF FutureStates, F!WaitStates
      <3> QED
        BY <1>1, <1>2, <1>4, <3>2, <3>3
    <2> QED
      BY <2>1, <2>2
  <1> QED
    BY <1>3, <1>4 DEF F!CallSignal, F!CallBroadcast, p

LEMMA FutureInit == F!Init => FutureInv
  <1> SUFFICES ASSUME F!Init PROVE FutureInv
    OBVIOUS
  <1>1. /\ futurePc \in [Threads -> FutureStates]
        /\ taken \in [Threads -> Values \cup {NoValue}]
    BY DEF F!Init, F!Resting, FutureStates
  <1>2. /\ resets \in [Threads -> BOOLEAN]
        /\ futureFinite \in [Threads -> BOOLEAN]
        /\ refers \in [Threads -> BOOLEAN]
        /\ late \in [Threads -> BOOLEAN]
    BY DEF F!Init
  <1>3. FutureTypes
    BY <1>1, <1>2, Zenon DEF F!Init, FutureTypes
  <1>4. WhoResets /\ RefersToIt
    BY DEF F!Init, WhoResets, RefersToIt, F!WaitStates
  <1>5. F!NoSleeperForgotten
    BY DEF F!Init, F!NoSleeperForgotten
  <1> QED
    BY <1>3, <1>4, <1>5 DEF FutureInv

\* One thread's step within its wait, or out of it.
LEMMA WaitKeepsFuture ==
  ASSUME FutureInv, NEW t \in Threads, NEW s \in FutureStates, NEW r \in BOOLEAN,
         futurePc' = [futurePc EXCEPT ![t] = s],
         resets' = [resets EXCEPT ![t] = r],
         signalsOne' = signalsOne,
         s \notin F!WaitStates => ~r,
         s \in F!WaitStates /\ signalsOne => r,
         complete' => complete,
         complete' /\ s = "asleep" => FALSE,
         complete' /\ futurePc[t] = "woken" /\ resets[t] => FALSE,
         FutureTypes', RefersToIt'
  PROVE  FutureInv'
  <1>1. /\ futurePc'[t] = s /\ resets'[t] = r
        /\ \A u \in Threads \ {t} : futurePc'[u] = futurePc[u] /\ resets'[u] = resets[u]
    BY DEF FutureInv, FutureTypes
  <1>2. WhoResets'
    BY <1>1 DEF FutureInv, WhoResets
  <1>3. ASSUME complete', NEW u \in Threads, futurePc'[u] = "asleep"
        PROVE  \E w \in Threads : futurePc'[w] = "woken" /\ resets'[w]
    <2>1. complete /\ futurePc[u] = "asleep"
      BY <1>1, <1>3
    <2>2. PICK w \in Threads : futurePc[w] = "woken" /\ resets[w]
      BY <2>1 DEF FutureInv, F!NoSleeperForgotten, F!Where
    <2>3. w # t
      BY <2>2, <1>3
    <2> QED
      BY <1>1, <2>2, <2>3
  <1>4. F!NoSleeperForgotten'
    BY <1>3 DEF F!NoSleeperForgotten, F!Where
  <1> QED
    BY <1>2, <1>4 DEF FutureInv

LEMMA LoopKeepsFuture ==
  ASSUME FutureInv, NEW t \in Threads,
         NEW r \in BOOLEAN, NEW f \in BOOLEAN, NEW ref \in BOOLEAN,
         signalsOne => r,
         futurePc[t] = "woken" /\ resets[t] => r,
         F!WaitLoop(t, r, f, ref)
  PROVE  FutureInv'
  <1>1. CASE complete
    <2>1. /\ complete' = ~r
          /\ taken' = [taken EXCEPT ![t] = value]
          /\ futurePc' = [futurePc EXCEPT ![t] = IF ref THEN "reads" ELSE "true"]
          /\ resets' = [resets EXCEPT ![t] = FALSE]
          /\ futureFinite' = [futureFinite EXCEPT ![t] = FALSE]
          /\ refers' = [refers EXCEPT ![t] = FALSE]
          /\ UNCHANGED <<signalsOne, value, late>>
      BY <1>1 DEF F!WaitLoop, F!CallEnds
    <2>2. FutureTypes' /\ RefersToIt'
      BY <2>1 DEF FutureInv, FutureTypes, FutureStates, RefersToIt, F!Resting
    <2> QED
      BY <1>1, <2>1, <2>2, WaitKeepsFuture DEF FutureStates, F!Resting, F!WaitStates
  <1>2. CASE ~complete
    <2>1. /\ complete' = complete
          /\ futurePc' = [futurePc EXCEPT ![t] = "asleep"]
          /\ resets' = [resets EXCEPT ![t] = r]
          /\ taken' = [taken EXCEPT ![t] = NoValue]
          /\ futureFinite' = [futureFinite EXCEPT ![t] = f]
          /\ refers' = [refers EXCEPT ![t] = ref]
          /\ UNCHANGED <<signalsOne, value, late>>
      BY <1>2 DEF F!WaitLoop
    <2>2. FutureTypes' /\ RefersToIt'
      BY <2>1 DEF FutureInv, FutureTypes, FutureStates, RefersToIt, F!WaitStates
    <2> QED
      BY <1>2, <2>1, <2>2, WaitKeepsFuture DEF FutureStates, F!WaitStates
  <1> QED
    BY <1>1, <1>2

LEMMA FutureStep == FutureInv /\ [F!Next]_(F!vars) => FutureInv'
  <1> SUFFICES ASSUME FutureInv, [F!Next]_(F!vars) PROVE FutureInv'
    OBVIOUS
  <1>1. ASSUME NEW t \in Threads, NEW v \in Values, F!CallSignal(t, v) \/ F!CallBroadcast(t, v)
        PROVE  FutureInv'
    <2>0. /\ complete' = TRUE /\ value' = v
          /\ futurePc'[t] = "idle"
          /\ futurePc' \in [Threads -> FutureStates]
          /\ \A u \in Threads \ {t} :
               futurePc'[u] = futurePc[u] \/ (futurePc[u] = "asleep" /\ futurePc'[u] = "woken")
          /\ taken' = [taken EXCEPT ![t] = NoValue]
          /\ late' = [u \in Threads |-> late[u] \/ futurePc[u] = "reads"]
          /\ UNCHANGED <<signalsOne, resets, futureFinite, refers>>
          /\ futurePc[t] \in F!Resting
      BY <1>1, SignalsWake
    <2>5. late' \in [Threads -> BOOLEAN]
      BY <2>0
    <2>1. FutureTypes'
      BY <2>0, <2>5 DEF FutureInv, FutureTypes
    <2>2. WhoResets'
      BY <2>0 DEF FutureInv, FutureTypes, WhoResets, F!Resting, F!WaitStates
    <2>4. RefersToIt'
      <3>1. ASSUME NEW u \in Threads, futurePc'[u] = "reads" PROVE late'[u]
        BY <2>0, <3>1
      <3> QED
        BY <3>1 DEF RefersToIt
    <2>3. F!NoSleeperForgotten'
      <3>1. ASSUME F!Where(futurePc', {"asleep"}) # {}
            PROVE  \E u \in Threads : futurePc'[u] = "woken" /\ resets'[u]
        <4>1. /\ signalsOne /\ signalsOne' = signalsOne
              /\ \E u \in Threads \ {t} : futurePc'[u] = "woken"
          BY <1>1, <3>1, SignalsWake
        <4> QED
          BY <4>1, <2>2 DEF WhoResets, F!WaitStates
      <3> QED
        BY <3>1 DEF F!NoSleeperForgotten, F!Where
    <2> QED
      BY <2>1, <2>2, <2>3, <2>4 DEF FutureInv
  <1>2. ASSUME NEW t \in Threads, NEW r \in BOOLEAN, NEW f \in BOOLEAN, NEW ref \in BOOLEAN,
               F!Wait(t, r, f, ref)
        PROVE  FutureInv'
    <2>1. /\ futurePc[t] # "woken"
          /\ signalsOne => r
          /\ F!WaitLoop(t, r, f, ref)
      BY <1>2 DEF F!Wait, F!Resting
    <2> QED
      BY <2>1, LoopKeepsFuture
  <1>3. ASSUME NEW t \in Threads, F!WaitWakes(t)
        PROVE  FutureInv'
    <2>1. /\ F!WaitLoop(t, resets[t], futureFinite[t], refers[t])
          /\ resets[t] \in BOOLEAN /\ futureFinite[t] \in BOOLEAN /\ refers[t] \in BOOLEAN
          /\ signalsOne => resets[t]
      BY <1>3 DEF F!WaitWakes, FutureInv, FutureTypes, WhoResets, F!WaitStates
    <2> QED
      BY <2>1, LoopKeepsFuture
  <1>4. ASSUME NEW t \in Threads, F!WaitTimesOut(t)
        PROVE  FutureInv'
    <2>1. FutureTypes' /\ RefersToIt'
      BY <1>4 DEF F!WaitTimesOut, F!CallEnds, FutureInv, FutureTypes, FutureStates, RefersToIt,
         F!Resting
    <2> QED
      BY <1>4, <2>1, WaitKeepsFuture
      DEF F!WaitTimesOut, F!CallEnds, FutureStates, F!Resting, F!WaitStates
  <1>5. ASSUME NEW t \in Threads, F!WakeSpuriously(t) \/ F!DeadlinePasses(t)
        PROVE  FutureInv'
    <2>1. PICK s \in {"woken", "expired"} : F!WaitEnds(t, s)
      BY <1>5 DEF F!WakeSpuriously, F!DeadlinePasses
    <2>4. FutureTypes' /\ RefersToIt'
      BY <2>1 DEF F!WaitEnds, FutureInv, FutureTypes, FutureStates, RefersToIt, F!WaitStates
    <2>2. resets' = [resets EXCEPT ![t] = resets[t]] /\ resets[t] \in BOOLEAN
      BY <2>1 DEF F!WaitEnds, FutureInv, FutureTypes
    <2>3. signalsOne => resets[t]
      BY <2>1 DEF F!WaitEnds, FutureInv, WhoResets, F!WaitStates
    <2> QED
      BY <2>1, <2>2, <2>3, <2>4, WaitKeepsFuture DEF F!WaitEnds, FutureStates, F!WaitStates
  <1>7. ASSUME NEW t \in Threads, F!Reads(t)
        PROVE  FutureInv'
    <2>1. FutureTypes' /\ RefersToIt'
      BY <1>7 DEF F!Reads, FutureInv, FutureTypes, FutureStates, RefersToIt, F!Resting
    <2>2. resets' = [resets EXCEPT ![t] = FALSE]
      BY <1>7 DEF F!Reads, FutureInv, FutureTypes, WhoResets, F!WaitStates
    <2> QED
      BY <1>7, <2>1, <2>2, WaitKeepsFuture DEF F!Reads, FutureStates, F!Resting, F!WaitStates
  <1>6. CASE UNCHANGED F!vars
    BY <1>6 DEF F!vars, FutureInv, FutureTypes, WhoResets, RefersToIt, F!NoSleeperForgotten, F!Where
  <1> QED
    BY <1>1, <1>2, <1>3, <1>4, <1>5, <1>6, <1>7 DEF F!Next

\* Future: nobody sleeps on a complete future, except behind a woken thread that
\* will reset it, although signal() wakes one waiter only.
THEOREM FutureWakes == F!Spec => []FutureForgetsNoSleeper
  <1>1. FutureInv => FutureForgetsNoSleeper
    BY DEF FutureInv, FutureForgetsNoSleeper
  <1> QED
    BY <1>1, FutureInit, FutureStep, PTL DEF F!Spec

\* What TakesTheLatest says of one thread and one step.
Returns(u) ==
  futurePc[u] \notin {"true", "reads"} /\ futurePc'[u] \in {"true", "reads"} =>
    complete /\ taken'[u] = value /\ (resets[u] => ~complete')

ReadsIt(u) ==
  futurePc[u] = "reads" /\ futurePc'[u] = "true" /\ ~late[u] => taken'[u] = taken[u]

\* Future: a wait returns the value given last, and two that reset never share a
\* completion; what a caller reads by the reference it was returned is that
\* value, as long as the future has not been completed again.
THEOREM FutureGives == F!Spec => FutureGivesTheLatest
  <1>1. ASSUME FutureInv, F!Next, NEW u \in Threads
        PROVE  Returns(u) /\ ReadsIt(u)
    <2>1. PICK t \in Threads :
            \/ \E v \in Values : F!CallSignal(t, v) \/ F!CallBroadcast(t, v)
            \/ \E r, f, ref \in BOOLEAN : F!Wait(t, r, f, ref)
            \/ F!WaitWakes(t) \/ F!WaitTimesOut(t) \/ F!WakeSpuriously(t) \/ F!DeadlinePasses(t)
            \/ F!Reads(t)
      BY <1>1 DEF F!Next
    <2>2. ASSUME NEW r, NEW f, NEW ref, F!WaitLoop(t, r, f, ref), resets[t] => r,
                 futurePc[t] # "reads"
          PROVE  Returns(u) /\ ReadsIt(u)
      BY <1>1, <2>2 DEF F!WaitLoop, F!CallEnds, FutureInv, FutureTypes, Returns, ReadsIt
    <2>3. CASE \E v \in Values : F!CallSignal(t, v) \/ F!CallBroadcast(t, v)
      BY <1>1, <2>3, SignalsWake DEF FutureInv, FutureTypes, F!Resting, Returns, ReadsIt
    <2>4. CASE \E r, f, ref \in BOOLEAN : F!Wait(t, r, f, ref)
      BY <1>1, <2>4, <2>2 DEF F!Wait, F!Resting, F!WaitStates, FutureInv, WhoResets
    <2>5. CASE F!WaitWakes(t)
      BY <2>5, <2>2 DEF F!WaitWakes
    <2>6. CASE F!WaitTimesOut(t) \/ F!WakeSpuriously(t) \/ F!DeadlinePasses(t)
      BY <1>1, <2>6 DEF F!WaitTimesOut, F!CallEnds, F!WakeSpuriously, F!DeadlinePasses,
         F!WaitEnds, FutureInv, FutureTypes, Returns, ReadsIt
    <2>7. CASE F!Reads(t)
      BY <1>1, <2>7 DEF F!Reads, FutureInv, FutureTypes, RefersToIt, Returns, ReadsIt
    <2> QED
      BY <2>1, <2>3, <2>4, <2>5, <2>6, <2>7
  <1>2. FutureInv /\ [F!Next]_(F!vars) => [\A u \in Threads : Returns(u) /\ ReadsIt(u)]_(F!vars)
    BY <1>1
  <1>3. F!Spec => [][\A u \in Threads : Returns(u) /\ ReadsIt(u)]_(F!vars)
    BY <1>2, FutureInit, FutureStep, PTL DEF F!Spec
  <1>4. [\A u \in Threads : Returns(u) /\ ReadsIt(u)]_(F!vars) =>
          [\A t \in Threads :
             /\ futurePc[t] \notin {"true", "reads"} /\ futurePc'[t] \in {"true", "reads"} =>
                  /\ complete /\ taken'[t] = value
                  /\ resets[t] => ~complete'
             /\ futurePc[t] = "reads" /\ futurePc'[t] = "true" /\ ~late[t] =>
                  taken'[t] = taken[t]]_(F!vars)
    BY DEF Returns, ReadsIt
  <1> QED
    BY <1>3, <1>4, PTL DEF FutureGivesTheLatest, F!TakesTheLatest
=============================================================================
