SPECIFICATION FairSpec
CONSTANTS
  Request = {r1, r2, r3}
  Rebuilds = {r3}
  None = None
INVARIANTS NoOverlap ClaimIsHeld FollowUpHasRunner RunningIsRecorded
PROPERTIES FollowUpTaken ImplementsSlot
