SPECIFICATION MCSpec
CONSTANTS
  Threads = {t1, t2, t3}
  Values = {v1, v2}
  NoValue = NoValue
  Bound = 1
  FirstCapacity = 2
INVARIANTS
  NoSleeperForgotten
  FutureForgetsNoSleeper
PROPERTIES
  ImplementsAtomicEvent
  FutureGivesTheLatest
  QueueCallsReturn
