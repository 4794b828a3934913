\* One pool with ARC and a cloud backend: every way a request is refused by
\* admission or by a provider, rerouted or given up, against a cancel and the
\* reaper.
CONSTANTS
    None = None
    Id <- Ids3
    Pool <- OnePool
    Backend <- ThreeBackends
    MaxAttempts = 1
    ARC = "arc"
    CloudBackends <- OneBackend
    Registered <- ARCAndCloud
    Configured <- FallbackConfigured
    MaxRunners <- FallbackMax
    CrossPoolMax <- FallbackCross
    BrokerLimit <- FallbackBroker
    StaticLabel <- FallbackStatic
    SchedulerOf <- FallbackScheduler
    Requests = {r1}
    Pins = {None, "arc", "lambda"}
    Cancels = {c1}
    Completes = {}
    Claims = {}
    Queue = Queue
    Sweep = Sweep
    QueueEnabled = FALSE
    OrphanCleanup = TRUE
    CleanupMayFail = FALSE
    Denials = {"circuit-open", "rate-limited"}
    FailureKinds = {"capacity", "unavailable", "throttled", "deadline", "fatal"}
    CompletionStates = {"completed"}
SPECIFICATION FairSpec
PROPERTIES RequestsAnswered CapacityComesBack
