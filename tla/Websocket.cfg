SPECIFICATION MCSpec
CONSTANTS
    ServerNode = n0
    Helpers <- OneHelper
    MaxConns = 2
    Rooms = {r1}
    MaxRestarts = 0
    Nodes = {n1, n2}
    MaxMsgs = 3
    Cap = 1
INVARIANTS RoomsTidy PublishedOrder
PROPERTY AllEnd
CHECK_DEADLOCK FALSE
