SPECIFICATION Spec
CONSTANTS
  Apply = {a1}
  Patch = {p1}
  Folder = {f1}
  Volume = Volume
  None = None
  MaxWrites = 2
  MaxAsked = 3
  MaxFaults = 2
INVARIANTS NothingErased DataFollows RestrictedIsHidden ServiceStands
CHECK_DEADLOCK FALSE
