SPECIFICATION FairSpec
CONSTANTS
  Panel = {p1, p2}
  NUsers = 2
  Joined = {2}
  NAddresses = 2
  MaxTime = 2
  MaxEdits = 2
  MaxFaults = 1
PROPERTY TombstoneWins
CHECK_DEADLOCK FALSE
