SPECIFICATION MCSpec
CONSTANTS
    Tokens = {t1, t2}
    NoToken = NoToken
    TTL = 3
    AutoRenew = TRUE
    Nodes = {n1, n2}
    Keys = {k1}
    Vals = {v1, v2}
    Procs = {p1, p2}
    NoProc = NoProc
    MemVals = {v1}
    LruProcs = {p1}
    LruKeys = {k1, k2, k3}
    LruLimit = 2
INVARIANT TimelyHeldIsOwned
PROPERTIES ImplementsLease OrphansExpire MemCacheLive MemCacheExact PlaceholderYields
