SPECIFICATION Spec
CONSTANTS
  Second = 12
  Milli = 4
  Micro = 2
  LastSecond = 2
  SinceEpoch = 1
INVARIANT TimedAcquireWaits
\* The clock stops.
CHECK_DEADLOCK FALSE
