SPECIFICATION FairSpec
CONSTANTS
    Watchers = {w1}
    InitialLen = 1
    eventBuffer = 1
    maxPendingEvents = 1
    maxCachePendingEvents = 3
    MaxChanges = 3
    MaxBookmarks = 0
PROPERTIES
    BroadcastEnds
    ClosedIsHeard
CHECK_DEADLOCK FALSE
