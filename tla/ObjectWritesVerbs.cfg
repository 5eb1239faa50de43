SPECIFICATION Spec
CONSTANTS
    Names = {n1}
    Requests = {q1, q2}
    Finalizers = {f}
    Collector = collector
    NoRow = NoRow
    Configs <- AllConfigs
    deleteAttempts = 2
    generateNameAttempts = 2
    MaxClock = 3
    MaxUid = 2
SYMMETRY Interchangeable
INVARIANTS
    TypeOK
    LeftoverPursued
PROPERTIES
    ImplementsObjects
