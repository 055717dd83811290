SPECIFICATION Spec
CONSTANTS
  Restart = {}
  Deploy = {}
  Patch = {e1}
  Delete = {}
  List = {l1, l2}
  MaxFaults = 0
  None = None
INVARIANT RulesInForce
CHECK_DEADLOCK FALSE
