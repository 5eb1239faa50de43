SPECIFICATION Spec
CONSTANTS
    Watchers = {w1, w2}
    InitialLen = 1
    eventBuffer = 1
    maxPendingEvents = 2
    maxCachePendingEvents = 2
    MaxChanges = 2
    MaxBookmarks = 1
SYMMETRY Interchangeable
INVARIANTS
    TypeOK
    NothingDropped
    NoGapReceived
    PendingAccounted
    BookmarkHonest
CHECK_DEADLOCK FALSE
