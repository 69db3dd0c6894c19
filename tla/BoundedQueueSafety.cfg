SPECIFICATION MCSpec
CONSTANTS
  Threads = {t1, t2, t3}
  Values = {v1, v2}
  NoValue = NoValue
  Bound = 2
  FirstCapacity = 2
  Items = {1, 2}
  Raw = Raw
  RingCapacity = 3
  MaxCapacity = 6
  Users = {u1, u2}
  NULL = NULL
  MaxScopes = 2
  Blocks = {1, 2, 3}
  BufferRoom = 1
  Outputs = {o1, o2, o3}
  MaxDepth = 2
  Words = 3
  Keys = {k1, k2}
  Vals = {a1, a2}
  MaxBlocks = 2
  Rounds = 2
SYMMETRY Symmetric
INVARIANTS
  NothingForgotten
  LocksAreKept
  EveryOutputHears
  EndsValuesOnce
PROPERTIES
  ImplementsClosableFifo
  RingActsAsFifo
  AtomicActsAtOneInstant
\* Everybody may be asleep with nobody left to make a call.
CHECK_DEADLOCK FALSE
