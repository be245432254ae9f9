SPECIFICATION Spec

CONSTANTS
  Data = {d1, d2, d3}
  FaultSets = {{}, {"writer", "commit", "own"}}
  MaxDepth = 5
  d1 = d1
  d2 = d2
  d3 = d3

INVARIANTS
  TypeOK
  NamesFresh
  OutermostIsCommitted
  NothingPending
  NeverFailsAlone
PROPERTIES
  OlderSavepointsKept
  NestedSpec

CHECK_DEADLOCK FALSE
