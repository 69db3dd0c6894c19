SPECIFICATION Spec
CONSTANTS
  Keys = {1, 2, 3, 4, 5, 6}
  Values = {1}
  Orders = {3, 4}
  MaxAllocs = 3
  Null = Null
INVARIANT StaysInside
\* The program ends where an array is used beyond its end.
CHECK_DEADLOCK FALSE
