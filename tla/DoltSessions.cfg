SPECIFICATION Spec
SYMMETRY Symmetry
CONSTANTS
  Sessions = {s1, s2}
  NoSession = none
  Rows = {r1}
  Functions = {"add", "tag", "gc"}
  MaxAppends = 3
  MaxCommits = 3
  MaxCalls = 1
INVARIANTS
  TypeOK
  OneWriter
  CommitsStayUnlessCollected
  ToldIsStored
PROPERTY ReadStays
CHECK_DEADLOCK FALSE
