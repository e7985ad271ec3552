SPECIFICATION FairSpec
CONSTANTS
    Procs = {p1, p2, p3}
    Keys = {k1}
    Cells = {c1, c2}
    NoCell = NoCell
    Outcomes = {"val", "panic"}
INVARIANTS OneExecution NoFalseSuccess LinkedIsInFlight
PROPERTY EveryCallReturns
