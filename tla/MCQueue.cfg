\* One slot and one request that may be queued, two cancels and the reaper,
\* against the queue loop and its snapshots, with cleanups that may fail.
CONSTANTS
    None = None
    Id <- Ids2
    Pool <- OnePool
    Backend <- OneBackend
    MaxAttempts = 3
    ARC = "arc"
    CloudBackends <- OneBackend
    Registered <- OneBackend
    Configured <- SingleConfigured
    MaxRunners <- SingleMax
    CrossPoolMax <- SingleCross
    BrokerLimit <- SingleBroker
    StaticLabel <- SingleStatic
    SchedulerOf <- SingleScheduler
    Requests = {r1}
    Pins = {None}
    Cancels = {c1, c2}
    Completes = {}
    Claims = {}
    Queue = Queue
    Sweep = Sweep
    QueueEnabled = TRUE
    OrphanCleanup = FALSE
    CleanupMayFail = TRUE
    Denials = {"circuit-open"}
    FailureKinds = {"throttled"}
    CompletionStates = {"completed"}
SPECIFICATION FairSpec
PROPERTY QueueSettles
INVARIANTS NoSlotLeak OneOwner
