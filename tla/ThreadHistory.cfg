SPECIFICATION Spec
CONSTANTS
  Reports = {"plan", "diff"}
  Outcomes = {"error"}
  MaxReports = 2
  MaxRequests = 2
  MaxTurns = 2
  MaxEvents = 7
  MaxReverts = 1
  MaxInterrupts = 0
  MaxCrashes = 0
  MaxFailures = 0
  MaxDrops = 0
CHECK_DEADLOCK FALSE
INVARIANTS
  TypeOK
  CheckpointsDistinct
  PlansAgree
PROPERTY
  RevertLeavesNothing
