\* Webhook events of two jobs in every order, lost, repeated and replayed,
\* over one process and over two replicas with a shared store.
SPECIFICATION Spec
CONSTANTS
    r1 = r1
    r2 = r2
    j1 = j1
    j2 = j2
    w1 = w1
    None = None
    ArcRunner = ArcRunner
    ArcLabel = ArcLabel
    Replicas = {r1, r2}
    Jobs = {j1, j2}
    Workers = {w1}
    Allocs <- McAllocs
    Worlds <- McWorlds
    MaxJobAllocations = 2
    WorkCap = 1
    InboxBatch = 1
INVARIANTS TypeOK   BoundedAttempts
PROPERTIES OtherJobsKeepTheirRunner
CHECK_DEADLOCK FALSE
