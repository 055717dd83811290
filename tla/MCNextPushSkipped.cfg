SPECIFICATION Spec
CONSTANTS
  Tick = {t1}
  Primer = {p1}
  MaxCommit = 3
  MaxEdits = 3
  MaxFaults = 0
INVARIANTS NextIsDeployed
CHECK_DEADLOCK FALSE
