SPECIFICATION FairSpec
CONSTANTS
  MaxVersion = 2
  MaxRestores = 2
  MaxFaults = 2
INVARIANTS NothingLost RefusalUndone
PROPERTIES RunSettles
