SPECIFICATION FairSpec
CONSTANTS
  Reports = {"delta", "diff"}
  Outcomes = {"missing", "error"}
  MaxReports = 3
  MaxRequests = 1
  MaxTurns = 1
  MaxEvents = 6
  MaxReverts = 1
  MaxInterrupts = 1
  MaxCrashes = 2
  MaxFailures = 1
  MaxDrops = 1
CHECK_DEADLOCK FALSE
INVARIANTS
  ShellIsFresh
  MessagesHaveTurns
  TurnsMatchLive
  RebuildWithoutRevert
PROPERTY
  PlaceholdersAreReplaced
