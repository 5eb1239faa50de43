SPECIFICATION Spec
CONSTANTS
    n1 = n1
    n2 = n2
    k1 = k1
    k2 = k2
    Names = {n1, n2}
    Keys = {k1, k2}
    Specs <- AllSpecs
    Checked <- WithoutReplica
    None = None
    Start <- Beginning
    Requests = {r1}
    Checks = {c1}
    MaxEdits = 3
    MaxFailures = 1
CHECK_DEADLOCK FALSE
INVARIANTS
    SurfaceUsable
    PoolsAccounted
    RetiredDisconnected
