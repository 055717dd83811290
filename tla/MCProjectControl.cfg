SPECIFICATION ControlFairSpec
CONSTANTS
  Request = {r1, r2}
  Rebuilds = {}
  None = None
  Op = {o1, o2}
INVARIANTS NeverStuck DeletedIsGone
PROPERTIES DeployEnds
