SPECIFICATION Spec

CONSTANTS
  any = any
  one = one
  Funcs = {any, one}
  Length <- Lengths
  Names = {f, F, g}
  Fold <- LowerCase
  f = f
  F = F
  g = g
  Queries = {q1, q2}
  q1 = q1
  q2 = q2
  ArgCounts = {1, 2}
  None = None
  MaxDepth = 2

SYMMETRY Symmetry
INVARIANTS
  TypeOK
  SlotsMatchNames
  LiveIsRegistered
  ResultsDelivered
  Inductive
PROPERTIES
  OnlyNamedFunctionsRun

CHECK_DEADLOCK FALSE
