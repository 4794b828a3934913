\* The scan of GitHub for queued jobs: repositories, run pages and job pages
\* under a budget that ends a pass anywhere.
SPECIFICATION FairSpec
CONSTANTS
    MaxRepos = 2
    MaxRuns = 1
    None = None
    Budget = 5
    DeepReserve = 2
    RescueLimit = 1
    MaxCutoffs = 2
    DeepInterval = 2
    DeepMaxOpen = 9
    Worlds <- McWorlds
INVARIANT DeepGetsItsShare
PROPERTIES CursorsNeverPark  AllAgesPassIsKept
