SPECIFICATION Spec
CONSTANTS
  Keys = {0, 1, 4}
  Values = {1}
  NoItem = NoItem
  FirstSize = 4
  Part = 4
  MaxSize = 4
INVARIANT LookupFinds
CHECK_DEADLOCK FALSE
