SPECIFICATION FairSpec
CONSTANTS
    Replicas = {p1, p2, p3}
    NoOne = NoOne
    TTL = 3
    Interval = 2
    PassMax = 4
    MaxFaults = 2
PROPERTIES
    LeaseIsKept
    WorkGoesOn
