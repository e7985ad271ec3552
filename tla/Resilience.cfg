SPECIFICATION MCSpec
CONSTANTS
    Size = 3
    Interval = 2
    Skew = 0
    MaxTime = 8
    MaxEvents = 4
    Procs = {p1, p2}
    Protection = 0
    ForcePass = 1
    AskTime = 5
    AskEvents = 2
    Clients = {c1, c2}
    Names = {n1}
    Reasons = 2
    MaxInst = 2
    MaxCalls = 5
    Width = 8
    MaxRetries = 10
    RetryConfigs <- FewConfigs
    Limit = 2
    Callers = {u1}
    One = 3
    Rate = 2
    Burst = 7
    Window = 3
    Grace = 1
    MaxDelay = 1
    BucketTime = 8
    WindowTime = 7
INVARIANTS WindowExact RegistryExact LimitsExact
PROPERTIES Probes RetryExact
SYMMETRY Symmetry
CHECK_DEADLOCK FALSE
