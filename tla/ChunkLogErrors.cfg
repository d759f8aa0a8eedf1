SPECIFICATION Spec
CONSTANTS
  Procs = {p1}
  NoProc = NoProc
  Chunks = {c1, c2}
  MaxCommits = 3
  MaxCrashes = 1
  MaxFailures = 2
CHECK_DEADLOCK FALSE
INVARIANTS
  RootsAreComplete
  ReadsAreCommitted
  RootsAreALine
PROPERTIES
  ImplementsRegister
