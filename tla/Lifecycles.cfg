SPECIFICATION MCSpec
CONSTANTS
    Workers = {w1, w2}
    Servers = {h}
    StartOnly = {o}
    Panicky = {w1, o}
    Early = {w1, w2}
    QueueNames = {"default", "low"}
    Starters = {a}
    Runners = {r}
    Stoppers = {z}
    Senders = {s1}
    Agents = {p1, p2}
    ServiceNames = {n1, n2}
    Attributes = {x1}
    MaxStarts = 2
    MaxSpans = 1
    Logging = {g1}
    Extractors = {e1, e2}
    Loggers = {l1, l2}
    First = l0
    Quiet = {l2}
INVARIANTS StopDiscipline ConsumerExact
PROPERTIES GroupEnds DefaultConsumed ObserversExact
