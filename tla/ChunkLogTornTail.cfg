SPECIFICATION Spec
CONSTANTS
  Procs = {p1, p2}
  NoProc = NoProc
  Chunks = {c1, c2}
  MaxCommits = 3
  MaxCrashes = 1
  MaxFailures = 0
CHECK_DEADLOCK FALSE
INVARIANT AckedSurvives
