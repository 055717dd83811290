SPECIFICATION Spec
CONSTANTS
  Command = {k1, k2}
  Deploy = {d1, d2}
  LastPhase = 2
  BuildPhases <- MCBuildPhases
  None = None
SYMMETRY MCSymmetry
INVARIANTS HandedToOne ClaimedIsHeld FinishedIsClean AttemptsAreCounted SucceedsOnce
PROPERTIES HistoryIsFinal
