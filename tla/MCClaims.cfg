\* One slot; a runner or a job that claims and registers while the allocation
\* is provisioned, canceled, completed and reaped.
CONSTANTS
    None = None
    Id <- Ids2
    Pool <- OnePool
    Backend <- OneBackend
    MaxAttempts = 1
    ARC = "arc"
    CloudBackends <- OneBackend
    Registered <- OneBackend
    Configured <- SingleConfigured
    MaxRunners <- SingleMax
    CrossPoolMax <- SingleCross
    BrokerLimit <- SingleBroker
    StaticLabel <- SingleStatic
    SchedulerOf <- SingleScheduler
    Requests = {r1}
    Pins = {None}
    Cancels = {c1}
    Completes = {d1}
    Claims = {k1}
    Queue = Queue
    Sweep = Sweep
    QueueEnabled = FALSE
    OrphanCleanup = TRUE
    CleanupMayFail = FALSE
    Denials = {}
    FailureKinds = {"capacity"}
    CompletionStates = {"completed"}
SPECIFICATION FairSpec
PROPERTY CapacityComesBack
