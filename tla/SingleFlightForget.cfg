SPECIFICATION Spec
CONSTANTS
    Procs = {p1, p2, p3}
    Keys = {k1}
    Cells = {c1, c2, c3}
    NoCell = NoCell
    Outcomes = {"val"}
INVARIANT OnlyForgottenOverlap
