SPECIFICATION PoolSpec
CONSTANTS
  Objects = {o1, p1, p2}
  Clients = {c1, c2, u1, u2}
  Users = {u1, u2}
  Pooled = {p1, p2}
  Pool = Pool
  Owners = {c1, c2, u1, u2, Pool}
  NoObject = NoObject
  Nobody = Nobody
INVARIANTS
  NothingOutlived
  FinishedMeansOver
PROPERTIES
  RunForgetsOnlyFinished
  CallsReturn
\* All the threads may have been run and have ended.
CHECK_DEADLOCK FALSE
