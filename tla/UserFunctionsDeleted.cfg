SPECIFICATION Spec

CONSTANTS
  any = any
  one = one
  Funcs = {any, one}
  Length <- Lengths
  Names = {f, F, g}
  Fold <- LowerCase
  f = f
  F = F
  g = g
  Queries = {q1}
  q1 = q1
  ArgCounts = {1}
  None = None
  MaxDepth = 1

PROPERTIES
  DeletedIsGone

CHECK_DEADLOCK FALSE
