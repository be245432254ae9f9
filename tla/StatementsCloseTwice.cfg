SPECIFICATION WithoutCallbacks
CONSTANTS
  Null = Null
  Queries = {q1, q2}
  Ptrs = {p1, p2}
  MaxRows = 1
  MaxDepth = 1
INVARIANT
  CloseTwiceIsSafe
CHECK_DEADLOCK FALSE
