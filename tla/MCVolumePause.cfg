SPECIFICATION FairPauseSpec
CONSTANTS
    web = web
    worker = worker
    data = data
    files = files
    Container = {web, worker}
    Volume = {data, files}
    Mounts <- MCMounts
    MaxPauseFaults = 3
INVARIANTS
    PausedIsJournaled
PROPERTIES
    FrozenThaws
