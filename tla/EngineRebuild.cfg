SPECIFICATION Spec
CONSTANTS
  Commands <- MCCommands
  Calls <- MCCalls
  CommandOf <- MCCommandOf
  EventCount <- MCEventCount
  Requires <- MCRequires
  Excludes <- MCExcludes
  ReadLimit = 2
  MaxFaults = 0
  MaxCrashes = 1
  MaxUpgrades = 1
CHECK_DEADLOCK FALSE
INVARIANT ProjectionsAreComplete
