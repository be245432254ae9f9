SPECIFICATION Spec

CONSTANTS
  MinGrow = 2
  MaxGrow = 2
  Calls = {c1, c2}
  NoCall = NoCall
  NoFile = NoFile
  MaxVersion = 3
  MaxPages = 2
  MaxReloads = 1
  MaxFails = 1
  c1 = c1
  c2 = c2

INVARIANTS
  TypeOK
  StoredIsSound
  LoadedIsSound
  StorageCatchesUp
  JournalIsDeleted
PROPERTIES
  NeverOlder
  Persisted

CHECK_DEADLOCK FALSE
