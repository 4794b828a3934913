\* Two requests over two backends, one or two disturbances, under every policy.
SPECIFICATION FairSpec
CHECK_DEADLOCK FALSE
CONSTANTS
    b1 = b1 b2 = b2 s1 = s1 s2 = s2 r1 = r1 r2 = r2 None = None
    Backends = {b1, b2}
    Requests = {r1, r2}
    Sources = {s1, s2}
    ExpiryThreshold = 2
    Worlds <- RoutingWorlds
PROPERTIES KnownDownNodeSpared BestTierFirst RequestsRouted
