SPECIFICATION FairSpec
CONSTANTS
    v1 = v1
    v2 = v2
    Caches = {v1, v2}
    interval <- MCInterval
    followerInterval <- MCFollowerInterval
    MaxRuns = 3
    MaxWatchers = 2
    MaxArrivals = 2
    MaxElections = 1
INVARIANTS
    TypeOK
    WatchedIsMember
    OneTimer
PROPERTIES
    KeepsPolling
    IdleLeaves
