SPECIFICATION FairSpec
CONSTANTS
  Keys = {k1, k2, k3}
  NoKey = NoKey
  MaxValues = 2
CHECK_DEADLOCK FALSE
INVARIANTS
  TypeOK
  EachValueOnce
  NothingStranded
PROPERTIES
  ImplementsMailbox
  DrainsReturn
