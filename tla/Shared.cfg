SPECIFICATION MCSpec
CONSTANTS
  Handles = {h1, h2, h3, h4}
  MaxRefs = 2
  NULL = NULL
  Objects = {o1, o2, o3}
  Shared = {p1, p2}
  Weak = {w1}
  Unique = {u1, u2}
  Allocators = {a1, a2}
  Static = Static
  Containers = {c1, c2}
  Items = {i1}
  Blocks = {1, 2, 3, 4}
  Strings = {s1, s2}
  MaxText = 3
  Inside = 2
  Threads = {t1, t2}
  inner = inner
  outer = outer
  Requests = {2, 6, 12}
  Alignments = {4}
  MaxBlocks = 2
  MinLarge = 5
  StateSize = 2
  Granularity = 16
  MmapThreshold = 12
  TrimThreshold = 10
  ReleaseRate = 1
  RemapsAligned = FALSE
  Slots = 3
INVARIANTS
  CountsMatch
  NoUseAfterFree
  OwnersHold
  TextsAsGiven
  InstanceIsAlive
  HeapInOrder
PROPERTY NothingLeaks
\* A count gone wrong, where promotions are not kept apart, may leak the block;
\* singletons and a space end with the process.
CHECK_DEADLOCK FALSE
