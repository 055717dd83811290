SPECIFICATION Spec
CONSTANTS
  Restart = {r1}
  Deploy = {}
  Patch = {}
  Delete = {x1}
  List = {l1, l2}
  MaxFaults = 0
  None = None
INVARIANT GoneIsClosed
CHECK_DEADLOCK FALSE
