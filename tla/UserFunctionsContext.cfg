SPECIFICATION Spec

CONSTANTS
  any = any
  one = one
  Funcs = {any, one}
  Length <- Lengths
  Names = {f, F, g}
  Fold <- LowerCase
  f = f
  F = F
  g = g
  Queries = {q1, q2}
  q1 = q1
  q2 = q2
  ArgCounts = {1}
  None = None
  MaxDepth = 2

INVARIANTS
  ContextIsMine

CHECK_DEADLOCK FALSE
