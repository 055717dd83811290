SPECIFICATION ControlSpec
CONSTANTS
  Request = {r1, r2}
  Rebuilds = {}
  None = None
  Op = {o1}
INVARIANTS NoOverlap
