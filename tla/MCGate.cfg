\* One world for every gate between a request and its runner.
SPECIFICATION FairSpec
CHECK_DEADLOCK FALSE
CONSTANTS
    p1 = p1 p2 = p2 b1 = b1 b2 = b2 t0 = t0 t1 = t1 low = low high = high
    r1 = r1 r2 = r2 r3 = r3 None = None
    Pools = {p1, p2}
    Backends = {b1, b2}
    Tenants = {t0, t1}
    Classes = {low, high}
    Requests = {r1, r2, r3}
    DefaultTenant = t0
    Keys <- MCKeys
    Worlds <- GateWorlds
    FailureThreshold = 2
    EvaluationWindow = 1
    OpenDuration = 2
    ProbeInterval = 1
    RecoverySuccessThreshold = 2
    HalfOpenMaxRequests = 1
    Interval = 1
    MaxUsage = 3
INVARIANTS TypeOK    BudgetOvershoot
PROPERTIES PermitsReturn
