SPECIFICATION Spec

CONSTANTS
  MinGrow = 2
  MaxGrow = 2
  Calls = {c1}
  NoCall = NoCall
  NoFile = NoFile
  MaxVersion = 3
  MaxPages = 2
  MaxReloads = 0
  MaxFails = 0
  c1 = c1

INVARIANT AlwaysSound

CHECK_DEADLOCK FALSE
