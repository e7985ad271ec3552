SPECIFICATION Spec
CONSTANTS
    Nodes = {n1}
    Stopping = {n1}
    Joiners <- Conns
    MaxConns = 1
    Rooms = {r1}
    Redis = TRUE
    OwnRedis = TRUE
    Quitting = {}
    Flaky = {}
    MayPanic = FALSE
    MaxRestarts = 0
INVARIANT NoGhosts
CHECK_DEADLOCK FALSE
