SPECIFICATION MCSpec
CONSTANTS
    Procs = {p1, p2, p3, p4, p5, p6}
    Limit = 2
    Released = TRUE
    Orders <- FiveStacks
    MaxUnits = 4
    MaxBuf = 2
    GlobalMws = {m1}
    GroupMws = {q1}
    Groups = {a, b}
    MaxRoutes = 2
    Prefixes <- TwoPrefixes
    Lists <- TwoLists
    Asked <- TwoRequests
    Nodes = {n1, n2}
    Stopping = {n1}
    Joiners <- TwoJoiners
    Quitting <- OfStopping
    Flaky = {n1}
    MaxConns = 1
    Rooms = {r1}
    MaxRestarts = 1
    Apps = {"a", "b", "c"}
    Config <- Applications
    Users = {"u"}
    Subjects = {"s"}
    Identities <- TwoIdentities
    MaxNow = 2
    MaxTokens = 4
INVARIANTS HandlersBounded RequestExact TokensExact
PROPERTIES RefusedOnlyWhenFull RouterExact OthersKept
CHECK_DEADLOCK FALSE
