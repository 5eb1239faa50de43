SPECIFICATION Spec
CONSTANTS
    p1 = p1
    p2 = p2
    r1 = r1
    r2 = r2
    g1 = g1
    g2 = g2
    Names = {p1, p2}
    Replicas = {r1, r2}
    Specs <- BothSpecs
    Groups = {g1, g2}
    None = None
    Configs <- AllConfigs
SYMMETRY Interchangeable
CHECK_DEADLOCK FALSE
INVARIANTS
    TypeOK
    SurfaceSettled
    StatusTells
    RegistrationsSettled
