SPECIFICATION Spec
CONSTANTS
    Schedulers = {s1, s2}
    Clusters = 2
    Limit = 2
    Argo = {1}
    States = {"READY", "DEGRADED"}
    Apps <- SomeApps
    MaxMoves = 1
    MaxFaults = 1
INVARIANTS
    TypeOK
PROPERTIES
    NeverResolvedUnfired
    FiredAtKept
    AlertsTrack
    CacheTracks
