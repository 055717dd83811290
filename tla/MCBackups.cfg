SPECIFICATION Spec
CONSTANTS
    Policy = {p}
    Tick = {t1}
    Manual = {m}
    Restore = {r1, r2}
    None = None
    MaxTime = 3
    MaxRuns = 3
    MaxFaults = 1
SYMMETRY Actors
INVARIANTS
    SafeRestoreWritesAlone
    FlagsAreHeld
    LastArchiveKept
CHECK_DEADLOCK FALSE
