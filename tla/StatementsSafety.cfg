SPECIFICATION Spec
CONSTANTS
  Null = Null
  Queries = {q1, q2}
  Ptrs = {p1, p2}
  MaxRows = 2
  MaxDepth = 2
INVARIANTS
  TypeOK
  Tracked
  Owned
  NoUseAfterFree
  ClosedIsIdle
  CursorInSync
  Inductive
PROPERTIES
  ForcedCloseCloses
  CallsReturn
CHECK_DEADLOCK FALSE
