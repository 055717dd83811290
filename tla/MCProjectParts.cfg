SPECIFICATION Spec
CONSTANTS
  Move = {m1, m2}
  Outside = {x, y}
  MaxWrites = 1
  MoveFaults = 1
  Apply = {a1, a2}
  MaxSaves = 1
  ApplyFaults = 2
  Tick = {t1}
  Primer = {p1}
  MaxCommit = 3
  MaxEdits = 3
  PollFaults = 2
  GateRestart = {r1}
  GateDeploy = {d1}
  GatePatch = {e1}
  GateDelete = {x1}
  List = {l1}
  GateFaults = 1
  MinutesOfHour = 2
  HoursOfDay = 4
  DaysOfWeek = 3
  DaysOfMonth = 4
  MonthsOfYear = 2
  DaysAhead = 5
  Fields <- SomeFields
  Zones <- SomeZones
  MaxTime = 24
  None = None
INVARIANTS NothingErased HomeLeads BoundIsSeeded OneAttemptPerCommit PortMatchesRow NextIsNext
SYMMETRY Symmetry
CHECK_DEADLOCK FALSE
