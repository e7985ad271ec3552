SPECIFICATION MCSpec
CONSTANTS
    Procs = {p1, p2, p3}
    Waiters = {w1}
    Max = 2
    Outs = {o1, o2, o3}
    Sources = {s1, s2}
    FanOutCount = 3
    MergeCount = 2
    Callers = {c1, c2, c3, c4}
    Vals = {v1, v2}
    Keys = {1, 2, 3}
    MapVals = {x1}
    ShardCount = 2
    ShardOf <- TwoShards
    Setters = {u1}
    Walkers = {r1}
INVARIANTS CountsAgree StagesOrdered SharedExact
PROPERTIES WaitCovers NobodyStuck
