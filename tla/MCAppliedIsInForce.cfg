SPECIFICATION Spec
CONSTANTS
  Apply = {a1}
  MaxEdits = 1
  MaxFaults = 0
  None = None
INVARIANT AppliedIsInForce
CHECK_DEADLOCK FALSE
