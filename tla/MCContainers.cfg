SPECIFICATION MCSpec
CONSTANTS
  Units = 16
  Skew = 1
  Requests = {1, 3, 4, 6}
  Alignments = {1, 4}
  Null = Null
  Values = {1, 2}
  Keys = {0, 1, 4}
  NoItem = NoItem
  FirstSize = 4
  Part = 3
  MaxSize = 8
  TreeKeys = {1, 2, 3, 4, 5, 6, 7, 8, 9, 10}
  TreeValues = {1}
  Orders = {3, 4}
  MaxAllocs = 3
  Raw = Raw
  FirstCapacity = 2
  MaxCapacity = 4
  MaxLen = 3
  Zero = 0
  Count = 2
  TableKeys = {1, 2}
  Nodes = {n1, n2, n3, n4}
  CharIsSigned = TRUE
  MaxLines = 3
  MaxItems = 3
  MaxPieces = 3
  MaxStrings = 3
  Flips = 1
  Second = 12
  Milli = 4
  Micro = 2
  LastSecond = 1
  SinceEpoch = 0
  Files = {"f1"}
  Descriptors = {0, 1}
  PageSize = 2
  Pages = 2
  MaxFile = 3
INVARIANTS
  BufferInOrder
  LookupAndWalk
  TreeHolds
  BothWaysInOrder
  ComesBack
  TimeLeftAgrees
  FilesHold
PROPERTIES
  ActsAsMap
  OneEntryAtATime
  KeepsItems
  FindsTheNewest
\* An insertion that goes round and round makes no progress, BTree's program
\* ends where an array is used beyond its end, and a text comes to its end.
CHECK_DEADLOCK FALSE
