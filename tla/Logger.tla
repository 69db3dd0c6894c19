--------------------------------- MODULE Logger ---------------------------------
(***************************************************************************)
(* The Logger (src/Logger.cpp): log() calls one output after the other,    *)
(* under a recursive Mutex, and an output may itself connect, disconnect   *)
(* and log.                                                                *)
(***************************************************************************)
EXTENDS Integers, Sequences, SequencesExt

CONSTANTS Threads, Outputs, MaxDepth, NULL   \* log() nests up to MaxDepth

VARIABLES
  owner, depth,   \* m_lock
  outputs,        \* m_vecOutputs; each is connected once
  loop            \* [Threads -> its calls of log(), the innermost first]
                  \* [pos of the iterator, inside a callback; and for the history
                  \*  heard, all there from the start, and whether one was taken
                  \*  away behind or at pos]

vars == <<owner, depth, outputs, loop>>

Init == owner = NULL /\ depth = 0 /\ outputs = <<>> /\ loop = [t \in Threads |-> <<>>]

MayLock(t) == owner \in {NULL, t}
InCallback(t) == loop[t] # <<>> /\ Head(loop[t]).inside
Acts(t) == loop[t] = <<>> \/ InCallback(t)

\* connect() and disconnect(), each with a Guard of its own.
Connect(t, o) ==
  /\ Acts(t) /\ MayLock(t) /\ o \notin ToSet(outputs)
  /\ outputs' = Append(outputs, o)
  /\ UNCHANGED <<owner, depth, loop>>

Disconnect(t, o) ==
  /\ Acts(t) /\ MayLock(t)
  /\ \E place \in {i \in DOMAIN outputs : outputs[i] = o} :
       /\ outputs' = RemoveAt(outputs, place)
       /\ loop' = [loop EXCEPT ![t] =
            [i \in DOMAIN loop[t] |-> [loop[t][i] EXCEPT !.all = @ \ {o}, !.shifted = @ \/ place <= loop[t][i].pos]]]
  /\ UNCHANGED <<owner, depth>>

\* log() acquires; the iterator is a position, 0 for end().
Log(t) ==
  /\ Acts(t) /\ MayLock(t) /\ Len(loop[t]) < MaxDepth
  /\ owner' = t /\ depth' = depth + 1
  /\ loop' = [loop EXCEPT ![t] =
       <<[pos |-> IF outputs = <<>> THEN 0 ELSE 1, inside |-> FALSE,
          heard |-> <<>>, all |-> ToSet(outputs), shifted |-> FALSE]>> \o @]
  /\ UNCHANGED outputs

Frame(t) == Head(loop[t])
Moves(t, f) == loop' = [loop EXCEPT ![t] = <<f>> \o Tail(@)]

Calls(t) ==
  /\ loop[t] # <<>> /\ ~Frame(t).inside /\ Frame(t).pos # 0
  /\ Moves(t, [Frame(t) EXCEPT !.inside = TRUE, !.heard = Append(@, outputs[Frame(t).pos])])
  /\ UNCHANGED <<owner, depth, outputs>>

\* Mutant: the last output is left out.
ReturnsEarly(t) ==
  /\ InCallback(t)
  /\ Moves(t, [Frame(t) EXCEPT !.inside = FALSE, !.pos = IF @ + 1 < Len(outputs) THEN @ + 1 ELSE 0])
  /\ UNCHANGED <<owner, depth, outputs>>

\* The output returns, and ++i moves to the next place that there is now.
Returns(t) ==
  /\ InCallback(t)
  /\ Moves(t, [Frame(t) EXCEPT !.inside = FALSE, !.pos = IF @ < Len(outputs) THEN @ + 1 ELSE 0])
  /\ UNCHANGED <<owner, depth, outputs>>

EndsLog(t) ==
  /\ loop[t] # <<>> /\ ~Frame(t).inside /\ Frame(t).pos = 0
  /\ depth' = depth - 1 /\ owner' = IF depth = 1 THEN NULL ELSE owner
  /\ loop' = [loop EXCEPT ![t] = Tail(@)]
  /\ UNCHANGED outputs

Next ==
  \E t \in Threads :
    \/ \E o \in Outputs : Connect(t, o) \/ Disconnect(t, o)
    \/ Log(t) \/ Calls(t) \/ Returns(t) \/ EndsLog(t)

-----------------------------------------------------------------------------
\* A message reaches all that were connected when it was logged and still are,
\* each once, whatever the outputs and other threads do meanwhile; unless an
\* output was disconnected by one that it had reached: then the next is left
\* out.  No two threads' messages are between the outputs at once.
EveryOutputHears ==
  /\ \A t \in Threads : \A i \in DOMAIN loop[t] :
       LET f == loop[t][i] IN
         ~f.shifted => /\ f.pos = 0 => f.all \subseteq ToSet(f.heard)
                       /\ Cardinality(ToSet(f.heard)) = Len(f.heard)
  /\ \A t, u \in Threads : loop[t] # <<>> /\ loop[u] # <<>> => t = u
=============================================================================
