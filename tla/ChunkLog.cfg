SPECIFICATION Spec
CONSTANTS
  Procs = {p1, p2}
  NoProc = NoProc
  Chunks = {c1}
  MaxCommits = 3
  MaxCrashes = 2
  MaxFailures = 0
CHECK_DEADLOCK FALSE
INVARIANTS
  TypeOK
  RootsAreALine
  UpToDateIsLast
PROPERTIES
  ImplementsRegister
