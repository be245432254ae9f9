SPECIFICATION Spec

CONSTANTS
  Conns = {c1, c2, c3}
  Together = {c1, c2}
  IsWindows = FALSE
  MaxVersion = 3
  MaxCrashes = 2
  c1 = c1
  c2 = c2
  c3 = c3

INVARIANTS
  TypeOK
  WritersExclude
  SnapshotHolds
  Recoverable
  NoCircularWait

PROPERTY
  AtomicSpec

CHECK_DEADLOCK FALSE
