SPECIFICATION FairSpec
CONSTANTS
    n1 = n1
    n2 = n2
    kOne = kOne
    kTwo = kTwo
    kAll = kAll
    Namespaces = {n1}
    ClusterWide = ClusterWide
    Keys = {kAll}
    PollKey = kAll
    ScopeOf <- MCScopeOf
    Readers = {r1}
    Writers = {w1}
    Flights = {f1, f2}
    NoFlight = NoFlight
    NoEntry = NoEntry
    HasReplica = TRUE
    Watched = FALSE
    MaxEntries = 1
    EvictionBatch = 1
    MaxCommits = 1
    MaxGeneration = 1
INVARIANTS
    WriteSeesItself
PROPERTIES
    WaitersReleased

