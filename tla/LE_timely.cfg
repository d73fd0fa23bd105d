SPECIFICATION Spec
CONSTANTS
    Replicas = {p1, p2, p3}
    NoOne = NoOne
    TTL = 3
    Interval = 2
    PassMax = 2
    MaxFaults = 3
SYMMETRY ReplicaSymmetry
INVARIANTS
    TypeOK
    OnePass
    HandleFresh
