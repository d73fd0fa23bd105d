SPECIFICATION SerialSpec
CONSTANTS
    r1 = r1
    r2 = r2
    k1 = k1
    hook = hook
    op = op
    w1 = w1
    w2 = w2
    Key <- SharedKey
    Target <- TargetFirst
    DefSteps <- Rolling
    Workers = {w1, w2}
    Requests = {r1, r2}
    Keys = {k1}
    Registered = {r1, r2}
    Callers = {hook, op}
    Hooks = {hook}
    NumSteps = 3
    Gate = 1
    MaxWorkerFaults = 0
    MaxLostConns = 0
    MaxApiFaults = 1
CHECK_DEADLOCK FALSE
INVARIANTS
    OneRunPerKey
    ProgressSound
    GateRespected
    SucceededMeansDone
    FailureStops
PROPERTIES
    ImplementsSequential
    PausedStaysIdle
    TerminalStays
