SPECIFICATION Spec
CONSTANTS
  Reports = {"delta", "diff"}
  Outcomes = {"ready"}
  MaxReports = 3
  MaxRequests = 1
  MaxTurns = 1
  MaxEvents = 6
  MaxReverts = 1
  MaxInterrupts = 2
  MaxCrashes = 1
  MaxFailures = 0
  MaxDrops = 1
CHECK_DEADLOCK FALSE
INVARIANT
  RebuildMatchesLive
