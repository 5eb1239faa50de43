SPECIFICATION Spec
CONSTANTS
    Keys = {k1, k2}
    Clients = {c1}
    Configs <- AllConfigs
    MaxQueue = 1
INVARIANTS
    TypeOK
    Converged
    RowsArrive
    CacheTracks
    NothingBelowMark
PROPERTIES
    VersionMonotonic
