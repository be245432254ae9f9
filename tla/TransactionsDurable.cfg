SPECIFICATION Spec

CONSTANTS
  Data = {d1, d2}
  FaultSets = {{"writer"}}
  MaxDepth = 3
  d1 = d1
  d2 = d2

PROPERTY ReturnedIsDurable

CHECK_DEADLOCK FALSE
