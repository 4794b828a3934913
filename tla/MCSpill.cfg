\* Two requests that prefer ARC or a local backend and spill to the cloud when
\* the preferred one is full or refuses.
CONSTANTS
    None = None
    Id <- Ids4
    Pool <- TwoPools
    Backend <- SpillBackends
    MaxAttempts = 1
    ARC = "arc"
    CloudBackends <- OneBackend
    Registered <- SpillBackends
    Configured <- SpillConfigured
    MaxRunners <- SpillMax
    CrossPoolMax <- SpillCross
    BrokerLimit <- SpillBroker
    StaticLabel <- SpillStatic
    SchedulerOf <- SpillScheduler
    Requests = {r1, r2}
    Pins = {None, "arc", "local"}
    Cancels = {}
    Completes = {}
    Claims = {}
    Queue = Queue
    Sweep = Sweep
    QueueEnabled = FALSE
    OrphanCleanup = FALSE
    CleanupMayFail = FALSE
    Denials = {}
    FailureKinds = {"capacity"}
    CompletionStates = {"completed"}
SYMMETRY Interchangeable
SPECIFICATION Spec
INVARIANT PinHonoured
