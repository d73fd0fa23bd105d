SPECIFICATION Spec
CONSTANTS
    r1 = r1
    r2 = r2
    k1 = k1
    hook = hook
    op = op
    w1 = w1
    w2 = w2
    Key <- SharedKey
    Target <- TargetFirst
    DefSteps <- Current
    Workers = {w1, w2}
    Requests = {r1}
    Keys = {k1}
    Registered = {r1}
    Callers = {hook, op}
    Hooks = {hook}
    NumSteps = 3
    Gate = 1
    MaxWorkerFaults = 1
    MaxLostConns = 0
    MaxApiFaults = 0
SYMMETRY WorkerSymmetry
CHECK_DEADLOCK FALSE
INVARIANTS
    GateRespected
