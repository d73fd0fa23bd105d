SPECIFICATION ProvisionedSpec
CONSTANTS
    c1 = c1
    k1 = k1
    k2 = k2
    Callers = {c1}
    Keys = {k1, k2}
    Specs <- ManagedOnly
    Targets <- OneTarget
    Sizes = {2}
    Pools = {"a"}
    Unset = "unset"
    Proxmox = FALSE
    MaxChanges = 3
    MaxFaults = 0
SYMMETRY NameSymmetry
CHECK_DEADLOCK FALSE
INVARIANTS
    GateMeansMerged
