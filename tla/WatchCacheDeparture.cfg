SPECIFICATION Spec
CONSTANTS
    Keys = {k1, k2}
    Clients = {c1}
    Configs <- Departures
    MaxQueue = 1
INVARIANT
    NoRowKept
