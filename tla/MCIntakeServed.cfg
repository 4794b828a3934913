\* The same on the worlds small enough for liveness.
SPECIFICATION FairSpec
CONSTANTS
    r1 = r1
    r2 = r2
    j1 = j1
    j2 = j2
    w1 = w1
    None = None
    ArcRunner = ArcRunner
    ArcLabel = ArcLabel
    Replicas = {r1, r2}
    Jobs = {j1, j2}
    Workers = {w1}
    Allocs <- McAllocs
    Worlds <- McLiveWorlds
    MaxJobAllocations = 2
    WorkCap = 1
    InboxBatch = 1
PROPERTIES QueuedJobIsServed InboxDrains
CHECK_DEADLOCK FALSE
