SPECIFICATION SerialSpec
CONSTANTS
    c1 = c1
    k1 = k1
    k2 = k2
    Callers = {c1}
    Keys = {k1, k2}
    Specs <- SomeSpecs
    Targets <- SomeTargets
    Sizes = {2}
    Pools = {"a", "b"}
    Unset = "unset"
    Proxmox = TRUE
    MaxChanges = 3
    MaxFaults = 1
VIEW LiveState
SYMMETRY NameSymmetry
CHECK_DEADLOCK FALSE
INVARIANTS
    TypeOK
    InstalledWasMerged
    GateMeansMerged
PROPERTIES
    LegalMoves
    SpecKept
    StatusForward
    Delivered
