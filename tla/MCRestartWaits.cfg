SPECIFICATION FairSpec
CONSTANTS
  Restart = {r1}
  Deploy = {}
  Patch = {}
  Delete = {}
  List = {l1, l2}
  MaxFaults = 0
  None = None
PROPERTY RestartEnds
CHECK_DEADLOCK FALSE
