SPECIFICATION Spec

CONSTANTS
  Half = 4
  MaxSafe = 3
  ShortString = 8
  Arguments <- MCArguments
  Parameters = 8
  Schemas <- MCSchemas
  NoKeys = NoKeys
  Codes = {"constraint"}
  MaxRows = 2

INVARIANTS
  TypeOK
  RowsAreReal
  RoundTrip
  KeysAgree
  ErrorsAgree

CHECK_DEADLOCK FALSE
