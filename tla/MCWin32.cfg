SPECIFICATION MCSpec
CONSTANTS
  Threads = {t1, t2, t3}
  Nobody = Nobody
  MayFail = TRUE
  Readers = {t1, t2, t3}
  TryReaders = {t1, t2}
  Writers = {t3, t4}
  MaxTokens = 3
  MaxDepth = 2
INVARIANTS
  OnceAndForAll
  LocksExclude
  OneBroadcastAtATime
PROPERTIES
  EveryCallReturns
  EverybodyGetsIn
  ConditionCallsReturn
\* A try_acquire_read() that fails can strand the lock, and a thread that owns
\* hMutex twice blocks all the others.
CHECK_DEADLOCK FALSE
