SPECIFICATION Spec

CONSTANTS
  Half = 4
  MaxSafe = 3
  ShortString = 8
  Arguments <- MCEmpty
  Parameters = 2
  Schemas <- MCSchemas
  NoKeys = NoKeys
  Codes = {"constraint"}
  MaxRows = 1

INVARIANT TypesAreDocumented

CHECK_DEADLOCK FALSE
