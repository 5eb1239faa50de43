SPECIFICATION Spec
CONSTANTS
    j1 = j1
    j2 = j2
    j3 = j3
    c1 = c1
    c2 = c2
    v1 = v1
    v2 = v2
    p1 = p1
    p2 = p2
    Jobs = {j1, j2, j3}
    Conns = {c1, c2}
    Variables = {v1, v2}
    Projections = {p1, p2}
    None = None
    Configs <- Pools
CHECK_DEADLOCK FALSE
INVARIANTS
    OwnSession
    AtomicOnce
    Accounted
PROPERTY
    NothingHangs
