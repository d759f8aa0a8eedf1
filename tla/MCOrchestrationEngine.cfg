SPECIFICATION FairSpec
CONSTANTS
  Commands <- MCCommands
  Calls <- MCCalls
  CommandOf <- MCCommandOf
  EventCount <- MCEventCount
  Requires <- MCRequires
  Excludes <- MCExcludes
  ReadLimit = 10
  MaxFaults = 2
  MaxCrashes = 1
  MaxUpgrades = 1
INVARIANTS
  TypeOK
  ExecutedOnce
  ReceiptsTellTheLog
  ReadModelIsCurrent
  ProjectionsAreComplete
  PublishedInOrder
  NothingUnpublished
  AnswersHold
PROPERTIES
  ImplementsPromise
  CallsAreAnswered
CHECK_DEADLOCK FALSE
