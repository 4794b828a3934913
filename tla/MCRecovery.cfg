\* Crashes and restarts at every point, with each kind of store and driver.
SPECIFICATION FairSpec
CONSTANTS
    Ids = {a, b}
    HoldIds <- MCHoldIds
    Worlds <- RecoveryWorlds
    None = None
    WarmTarget = 1
INVARIANTS
    TypeOK
    
PROPERTIES
    StartupCoversProvider
    
    FinishedRunnersAreReleased
    GonePodFreesItsSlot
CHECK_DEADLOCK FALSE
