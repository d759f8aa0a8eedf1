SPECIFICATION Spec
SYMMETRY Symmetry
CONSTANTS
  Sessions = {s1, s2}
  NoSession = none
  Rows = {r1}
  Functions = {"gc"}
  MaxAppends = 3
  MaxCommits = 3
  MaxCalls = 1
INVARIANT CommitsStay
CHECK_DEADLOCK FALSE
