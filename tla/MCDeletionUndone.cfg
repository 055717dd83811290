SPECIFICATION Spec
CONSTANTS
  Panel = {p1, p2}
  NUsers = 2
  Joined = {1, 2}
  NAddresses = 3
  MaxTime = 2
  MaxEdits = 2
  MaxFaults = 0
INVARIANT DeletedStaysDeleted
CHECK_DEADLOCK FALSE
