SPECIFICATION MCSpec
CONSTANTS
    Writers = {w1, w2}
    Closers = {x1, x2}
    Ping = ping
    NoOne = NoOne
    Timeout = TRUE
    MaxWrites = 4
INVARIANT ConnSafe
PROPERTIES ResponseWhole WritersEnd
CHECK_DEADLOCK FALSE
