SPECIFICATION Spec
CONSTANTS
  Request = {r1, r2, r3}
  Rebuilds = {}
  None = None
INVARIANTS NoPushForgotten
