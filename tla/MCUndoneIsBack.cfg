SPECIFICATION Spec
CONSTANTS
  Move = {m1}
  Outside = {x, y}
  MaxWrites = 1
  MaxFaults = 1
  None = None
INVARIANT UndoneIsBack
CHECK_DEADLOCK FALSE
