\* Two requests for two pools that share a backend, one cancel and one
\* completion thread, the reaper; no queue.
CONSTANTS
    None = None
    Id <- Ids2
    Pool <- TwoPools
    Backend <- OneBackend
    MaxAttempts = 1
    ARC = "arc"
    CloudBackends <- OneBackend
    Registered <- OneBackend
    Configured <- SharedConfigured
    MaxRunners <- SharedMax
    CrossPoolMax <- SharedCross
    BrokerLimit <- SharedBroker
    StaticLabel <- SharedStatic
    SchedulerOf <- SharedScheduler
    Requests = {r1, r2}
    Pins = {None}
    Cancels = {c1}
    Completes = {d1}
    Claims = {}
    Queue = Queue
    Sweep = Sweep
    QueueEnabled = FALSE
    OrphanCleanup = FALSE
    CleanupMayFail = FALSE
    Denials = {}
    FailureKinds = {"fatal"}
    CompletionStates = {"completed"}
SYMMETRY Interchangeable
SPECIFICATION Spec
INVARIANTS TypeOK StoreCapacity NoSlotLeak NoRunnerLeak ReservedHasOwner
PROPERTIES NeverRevived ImplementsCapacityPool
