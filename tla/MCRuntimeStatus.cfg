SPECIFICATION FairSpec
CONSTANTS
  Tick = {t1, t2}
  Operator = {o1}
  MaxTime = 2
  MaxFaults = 1
INVARIANTS OncePerOccurrence OneAttemptPerCrash RunningHasNoMarker
PROPERTIES SweepLeavesDeploysAlone StatusCatchesUp
