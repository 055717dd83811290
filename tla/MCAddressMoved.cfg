SPECIFICATION FairSpec
CONSTANTS
  Panel = {p1, p2}
  NUsers = 2
  Joined = {2}
  NAddresses = 3
  MaxTime = 1
  MaxEdits = 2
  MaxFaults = 0
PROPERTY CopiesConverge
CHECK_DEADLOCK FALSE
