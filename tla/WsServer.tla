------------------------------ MODULE WsServer ------------------------------
(***************************************************************************)
(* websocket.Server on several nodes: ServeHTTP of every connection from   *)
(* the upgrade to its deferred clean-up, the connection table, the rooms   *)
(* (MemoryRoom: one step under a lock; RedisRoom: one step per Redis       *)
(* command, on sets that all nodes share), and Close of the whole server.  *)
(* A connection is its ConnID <<node, counter>>.                           *)
(***************************************************************************)
EXTENDS Naturals, FiniteSets

CONSTANTS
    Nodes,
    Stopping,   \* nodes that are shut down or restarted
    Joiners,      \* what joins and leaves: the callbacks of a connection, and the
                \* application's own goroutines, <<node, name>>, which get connections
                \* from GetConn or keep them from a callback
    MaxConns,   \* bound on the connections of a node
    Rooms,
    Redis,      \* RoomType: TRUE for redis
    OwnRedis,   \* whether New created the Redis client
    Flaky,      \* nodes whose Redis commands may fail
    MayPanic,   \* whether callbacks may panic
    Quitting,   \* connections that hang up or are closed one by one
    MaxRestarts \* bound on the restarts of all nodes

Conns == Nodes \X (1..MaxConns)
Node(c) == c[1]

VARIABLES
    counter,    \* s.counter of each node
    table,      \* s.conns, of all nodes
    pc,         \* where ServeHTTP of each connection is
    closed,     \* conn.closed
    down,       \* the socket is dead: reads fail
    roomFds,    \* room -> connections
    fdRooms,    \* connection -> rooms
    op,         \* the room operation each goroutine is in
    late,       \* connections that another goroutine than their own has put into a
                \* room when their clean-up had left the rooms
    srv,        \* where Server.Close of each node is
    seen, must, \* its Range: keys visited, keys it has to visit
    client,     \* whether the node's Redis client is open
    restarts

vars == <<counter, table, pc, closed, down, roomFds, fdRooms, op, late,
          srv, seen, must, client, restarts>>
roomVars == <<roomFds, fdRooms, op, late>>
srvVars == <<srv, seen, must, client>>

PCs == {"none",
        "upgraded", \* has an ID, not yet in the table
        "open",     \* in HandleOpen
        "read",     \* in ws.ReadMessage
        "msg",      \* in HandleMessage
        "closing",  \* in the deferred HandleClose
        "unlisted", \* deleted from the table
        "unroomed", \* room.Delete has been called
        "gone",     \* ServeHTTP has returned
        "leaked"}   \* ServeHTTP has panicked in HandleOpen, before the defer
                    \* statement, or in HandleClose, at its beginning

\* A goroutine that works on the rooms: a connection's ServeHTTP with its callbacks,
\* one of the application or a node's Close.
Actors == Conns \union Joiners \union Nodes
NodeOf(a) == IF a \in Nodes THEN a ELSE Node(a)
Op == [kind : {"none", "look", "add", "rem"}, conn : Conns, rooms : SUBSET Rooms,
       all : SUBSET Rooms]
NoOp == [kind |-> "none", conn |-> CHOOSE c \in Conns : TRUE, rooms |-> {}, all |-> {}]
Free(a) == op[a].kind = "none"

Init ==
    /\ counter = [n \in Nodes |-> 0]
    /\ table = {}
    /\ pc = [c \in Conns |-> "none"]
    /\ closed = [c \in Conns |-> FALSE]
    /\ down = [c \in Conns |-> FALSE]
    /\ roomFds = [r \in Rooms |-> {}]
    /\ fdRooms = [c \in Conns |-> {}]
    /\ op = [a \in Actors |-> NoOp]
    /\ late = {}
    /\ srv = [n \in Nodes |-> "up"]
    /\ seen = [n \in Nodes |-> {}]
    /\ must = [n \in Nodes |-> {}]
    /\ client = [n \in Nodes |-> TRUE]
    /\ restarts = 0

-----------------------------------------------------------------------------
(* Rooms. *)

MemAdd(c, rs) ==
    /\ roomFds' = [r \in Rooms |-> IF r \in rs THEN roomFds[r] \union {c} ELSE roomFds[r]]
    /\ fdRooms' = [fdRooms EXCEPT ![c] = @ \union rs]

MemDelete(c, rs) ==
    /\ roomFds' = [r \in Rooms |-> IF r \in rs THEN roomFds[r] \ {c} ELSE roomFds[r]]
    /\ fdRooms' = [fdRooms EXCEPT ![c] = @ \ rs]

\* room.Add(c, rs...) by goroutine a.
RoomAdd(a, c, rs) ==
    IF Redis
    THEN /\ op' = [op EXCEPT ![a] = [kind |-> "add", conn |-> c, rooms |-> rs, all |-> rs]]
         /\ UNCHANGED <<roomFds, fdRooms>>
    ELSE MemAdd(c, rs) /\ UNCHANGED op

\* room.Delete(c, rs...).
RoomDelete(a, c, rs) ==
    IF Redis
    THEN /\ op' = [op EXCEPT ![a] = [kind |-> "rem", conn |-> c, rooms |-> rs, all |-> rs]]
         /\ UNCHANGED <<roomFds, fdRooms>>
    ELSE MemDelete(c, rs) /\ UNCHANGED op

\* room.Delete(c): all rooms, which RedisRoom has to look up first.
RoomDeleteAll(a, c) ==
    IF Redis
    THEN /\ op' = [op EXCEPT ![a] = [kind |-> "look", conn |-> c, rooms |-> {}, all |-> {}]]
         /\ UNCHANGED <<roomFds, fdRooms>>
    ELSE MemDelete(c, fdRooms[c]) /\ UNCHANGED op

\* SMEMBERS of the connection's set.
RedisLook(a) ==
    LET c == op[a].conn IN
    /\ op[a].kind = "look" /\ client[NodeOf(a)]
    /\ op' = [op EXCEPT ![a] = IF fdRooms[c] = {} THEN NoOp
                               ELSE [kind |-> "rem", conn |-> c, rooms |-> fdRooms[c],
                                     all |-> fdRooms[c]]]
    /\ UNCHANGED <<roomFds, fdRooms>>

\* The pipeline: SADD or SREM on every room's set...
RedisRoomSet(a, r) ==
    LET c == op[a].conn IN
    /\ r \in op[a].rooms /\ client[NodeOf(a)]
    /\ roomFds' = [roomFds EXCEPT ![r] = IF op[a].kind = "add" THEN @ \union {c} ELSE @ \ {c}]
    /\ op' = [op EXCEPT ![a].rooms = @ \ {r}]
    /\ UNCHANGED fdRooms

\* ... then once on the connection's own set.
RedisFdSet(a) ==
    LET c == op[a].conn IN
    /\ op[a].kind \in {"add", "rem"} /\ op[a].rooms = {} /\ client[NodeOf(a)]
    /\ fdRooms' = [fdRooms EXCEPT ![c] = IF op[a].kind = "add" THEN @ \union op[a].all
                                                               ELSE @ \ op[a].all]
    /\ op' = [op EXCEPT ![a] = NoOp]
    /\ UNCHANGED roomFds

\* An error, which every method ignores: the rest of the operation is not done.
RedisFails(a) ==
    /\ ~Free(a)
    /\ NodeOf(a) \in Flaky \/ ~client[NodeOf(a)]
    /\ op' = [op EXCEPT ![a] = NoOp]
    /\ UNCHANGED <<roomFds, fdRooms>>

RedisStep(a) ==
    /\ RedisLook(a) \/ RedisFdSet(a) \/ \E r \in Rooms : RedisRoomSet(a, r)
    /\ UNCHANGED <<counter, table, pc, closed, down, late, srvVars, restarts>>

RedisError(a) ==
    /\ RedisFails(a)
    /\ UNCHANGED <<counter, table, pc, closed, down, late, srvVars, restarts>>

-----------------------------------------------------------------------------
(* ServeHTTP. *)

Goto(c, from, to) ==
    /\ pc[c] = from
    /\ Free(c)
    /\ pc' = [pc EXCEPT ![c] = to]

\* Upgrade and nextConnID.
Upgrade(c) ==
    /\ c[2] = counter[Node(c)] + 1
    /\ counter' = [counter EXCEPT ![Node(c)] = @ + 1]
    /\ Goto(c, "none", "upgraded")
    /\ UNCHANGED <<table, closed, down, roomVars, srvVars, restarts>>

\* conns.Store and startPing.
Store(c) ==
    /\ Goto(c, "upgraded", "open")
    /\ table' = table \union {c}
    /\ UNCHANGED <<counter, closed, down, roomVars, srvVars, restarts>>

\* Mutant: HandleClose comes last in the deferred function.
InCallbackLast(c) == pc[c] \in {"open", "msg", "unroomed"}

InCallback(c) == pc[c] \in {"open", "msg", "closing"}

\* Callbacks and other goroutines may use any connection of their node, also one
\* that is closed or whose ServeHTTP has returned.
Stored(c) == pc[c] \notin {"none", "upgraded"}
MayUse(a, c) ==
    /\ a \in Conns => InCallback(a)
    /\ NodeOf(a) = Node(c) /\ Stored(c) /\ Free(a)

Join(a, c, r) ==
    /\ MayUse(a, c)
    /\ RoomAdd(a, c, {r})
    /\ late' = IF a # c /\ pc[c] \in {"unroomed", "gone"} THEN late \union {c} ELSE late
    /\ UNCHANGED <<counter, table, pc, closed, down, srvVars, restarts>>

\* conn.Leave(r), or conn.Leave(): all rooms.
Leave(a, c) ==
    /\ MayUse(a, c)
    /\ RoomDeleteAll(a, c) \/ \E r \in Rooms : RoomDelete(a, c, {r})
    /\ UNCHANGED <<counter, table, pc, closed, down, late, srvVars, restarts>>

OpenReturns(c) ==
    /\ Goto(c, "open", "read")
    /\ UNCHANGED <<counter, table, closed, down, roomVars, srvVars, restarts>>

\* The defer statement comes after HandleOpen.
OpenPanics(c) ==
    /\ MayPanic
    /\ Goto(c, "open", "leaked")
    /\ UNCHANGED <<counter, table, closed, down, roomVars, srvVars, restarts>>

Message(c) ==
    /\ ~down[c]
    /\ Goto(c, "read", "msg")
    /\ UNCHANGED <<counter, table, closed, down, roomVars, srvVars, restarts>>

MessageReturns(c) ==
    /\ Goto(c, "msg", "read")
    /\ UNCHANGED <<counter, table, closed, down, roomVars, srvVars, restarts>>

\* A panic of HandleMessage or HandleError runs the deferred clean-up as well.
MessagePanics(c) ==
    /\ MayPanic
    /\ Goto(c, "msg", "closing")
    /\ UNCHANGED <<counter, table, closed, down, roomVars, srvVars, restarts>>

\* ReadMessage fails: HandleError, then the deferred HandleClose.
ReadFails(c) ==
    /\ down[c]
    /\ Goto(c, "read", "closing")
    /\ UNCHANGED <<counter, table, closed, down, roomVars, srvVars, restarts>>

\* It begins with HandleClose, whose panic ends it.
ClosePanics(c) ==
    /\ MayPanic
    /\ Goto(c, "closing", "leaked")
    /\ UNCHANGED <<counter, table, closed, down, roomVars, srvVars, restarts>>

Unlist(c) ==
    /\ Goto(c, "closing", "unlisted")
    /\ table' = table \ {c}
    /\ UNCHANGED <<counter, closed, down, roomVars, srvVars, restarts>>

Unroom(c) ==
    /\ Goto(c, "unlisted", "unroomed")
    /\ RoomDeleteAll(c, c)
    /\ UNCHANGED <<counter, table, closed, down, late, srvVars, restarts>>

\* conn.Close() (WsConn): the flag, and the socket.
HangUp(c) ==
    /\ closed' = [closed EXCEPT ![c] = TRUE]
    /\ down' = [down EXCEPT ![c] = TRUE]

Finish(c) ==
    /\ Goto(c, "unroomed", "gone")
    /\ HangUp(c)
    /\ UNCHANGED <<counter, table, roomVars, srvVars, restarts>>

-----------------------------------------------------------------------------
(* The peer, the application and Server.Close. *)

\* The client disconnects, or answers no ping within PingTimeout.
PeerLeaves(c) ==
    /\ c \in Quitting /\ pc[c] # "none" /\ ~down[c]
    /\ down' = [down EXCEPT ![c] = TRUE]
    /\ UNCHANGED <<counter, table, pc, closed, roomVars, srvVars, restarts>>

\* Server.CloseConn, or Close of a connection that somebody kept.
CloseConn(c) ==
    /\ c \in Quitting /\ Stored(c) /\ ~closed[c]
    /\ HangUp(c)
    /\ UNCHANGED <<counter, table, pc, roomVars, srvVars, restarts>>

Own(n) == {c \in table : Node(c) = n}

\* Range visits every key that stays in the table, once, and may or may not
\* visit one stored meanwhile.
RangeBegin(n, from, to) ==
    /\ srv[n] = from
    /\ srv' = [srv EXCEPT ![n] = to]
    /\ seen' = [seen EXCEPT ![n] = {}]
    /\ must' = [must EXCEPT ![n] = Own(n)]

RangeOver(n) == must[n] \intersect table \subseteq seen[n]

CloseBegin(n) ==
    /\ RangeBegin(n, "up", "clearing")
    /\ UNCHANGED <<counter, table, pc, closed, down, roomVars, client, restarts>>

\* Mutant: the rooms are cleared as a whole.
ClearOneAll(n, c) ==
    /\ srv[n] = "clearing" /\ c \in Own(n) \ seen[n] /\ Free(n)
    /\ seen' = [seen EXCEPT ![n] = @ \union {c}]
    /\ roomFds' = [r \in Rooms |-> {}]
    /\ fdRooms' = [x \in Conns |-> {}]
    /\ UNCHANGED <<counter, table, pc, closed, down, op, late, srv, must, client, restarts>>

ClearOne(n, c) ==
    /\ srv[n] = "clearing" /\ c \in Own(n) \ seen[n] /\ Free(n)
    /\ seen' = [seen EXCEPT ![n] = @ \union {c}]
    /\ RoomDeleteAll(n, c)
    /\ UNCHANGED <<counter, table, pc, closed, down, late, srv, must, client, restarts>>

ClearDone(n) ==
    /\ RangeOver(n) /\ Free(n)
    /\ RangeBegin(n, "clearing", "dropping")
    /\ UNCHANGED <<counter, table, pc, closed, down, roomVars, client, restarts>>

DropOne(n, c) ==
    /\ srv[n] = "dropping" /\ c \in Own(n) \ seen[n]
    /\ seen' = [seen EXCEPT ![n] = @ \union {c}]
    /\ HangUp(c)
    /\ UNCHANGED <<counter, table, pc, roomVars, srv, must, client, restarts>>

CloseDone(n) ==
    /\ RangeOver(n)
    /\ srv[n] = "dropping"
    /\ srv' = [srv EXCEPT ![n] = "closed"]
    /\ seen' = [seen EXCEPT ![n] = {}]
    /\ must' = [must EXCEPT ![n] = {}]
    /\ client' = [client EXCEPT ![n] = ~(Redis /\ OwnRedis)]
    /\ UNCHANGED <<counter, table, pc, closed, down, roomVars, restarts>>

\* The process ends, by a crash or in good order, and another one takes its
\* place with the same NodeID.  What is in Redis stays.
Restart(n) ==
    /\ restarts < MaxRestarts
    /\ restarts' = restarts + 1
    /\ counter' = [counter EXCEPT ![n] = 0]
    /\ table' = table \ Own(n)
    /\ pc' = [c \in Conns |-> IF Node(c) = n THEN "none" ELSE pc[c]]
    /\ closed' = [c \in Conns |-> Node(c) # n /\ closed[c]]
    /\ down' = [c \in Conns |-> Node(c) # n /\ down[c]]
    /\ roomFds' = IF Redis THEN roomFds ELSE [r \in Rooms |-> {}]
    /\ fdRooms' = IF Redis THEN fdRooms ELSE [c \in Conns |-> {}]
    /\ op' = [a \in Actors |-> IF NodeOf(a) = n THEN NoOp ELSE op[a]]
    /\ late' = {c \in late : Node(c) # n}
    /\ srv' = [srv EXCEPT ![n] = "up"]
    /\ seen' = [seen EXCEPT ![n] = {}]
    /\ must' = [must EXCEPT ![n] = {}]
    /\ client' = [client EXCEPT ![n] = TRUE]

-----------------------------------------------------------------------------

\* The steps of ServeHTTP that are due once the connection is down.
ServeStep(c) ==
    \/ Store(c) \/ OpenReturns(c) \/ MessageReturns(c) \/ ReadFails(c)
    \/ Unlist(c) \/ Unroom(c) \/ Finish(c)

CloseStep(n) ==
    \/ ClearDone(n) \/ CloseDone(n)
    \/ \E c \in Conns : ClearOne(n, c) \/ DropOne(n, c)

Next ==
    \/ \E c \in Conns :
          \/ Upgrade(c) \/ ServeStep(c) \/ Message(c)
          \/ OpenPanics(c) \/ MessagePanics(c) \/ ClosePanics(c)
          \/ PeerLeaves(c) \/ CloseConn(c)
          \/ \E a \in Joiners : Leave(a, c) \/ \E r \in Rooms : Join(a, c, r)
    \/ \E a \in Actors : RedisStep(a) \/ RedisError(a)
    \/ \E n \in Stopping : CloseBegin(n) \/ CloseStep(n) \/ Restart(n)

Spec == Init /\ [][Next]_vars

\* Goroutines run and callbacks return.
FairSpec ==
    /\ Spec
    /\ \A c \in Conns : WF_vars(ServeStep(c))
    /\ \A a \in Actors : WF_vars(RedisStep(a)) /\ WF_vars(RedisError(a))
    /\ \A n \in Nodes : WF_vars(CloseStep(n))

-----------------------------------------------------------------------------

TypeOK ==
    /\ counter \in [Nodes -> 0..MaxConns]
    /\ table \subseteq Conns
    /\ pc \in [Conns -> PCs]
    /\ closed \in [Conns -> BOOLEAN] /\ down \in [Conns -> BOOLEAN]
    /\ roomFds \in [Rooms -> SUBSET Conns] /\ fdRooms \in [Conns -> SUBSET Rooms]
    /\ op \in [Actors -> Op] /\ late \subseteq Conns
    /\ srv \in [Nodes -> {"up", "clearing", "dropping", "closed"}]
    /\ seen \in [Nodes -> SUBSET Conns] /\ must \in [Nodes -> SUBSET Conns]
    /\ client \in [Nodes -> BOOLEAN]
    /\ restarts \in 0..MaxRestarts
    /\ \A c \in Conns : c \in table <=> pc[c] \in {"open", "read", "msg", "closing", "leaked"}

\* When ServeHTTP returns, the connection is closed and in no room, whatever its
\* callbacks joined and whoever else used or closed it: unless another goroutine
\* has joined a room with it after its clean-up.
GoneIsForgotten ==
    \A c \in Conns : pc[c] = "gone" =>
        closed[c] /\ (c \in late \/ \A r \in Rooms : c \notin roomFds[r])

\* "It keeps the bidirectional mapping between room -> fds and fd -> rooms"
\* (Room), whenever no operation on the connection is under way.
RoomsMirror ==
    \A c \in Conns : (\A a \in Actors : op[a].conn = c => Free(a)) =>
        \A r \in Rooms : c \in roomFds[r] <=> r \in fdRooms[c]

\* "Room cleanup is limited to the connections of this instance" (Server.Close):
\* while its server is up, a connection goes out of a room only by a Leave of its
\* own application or its own clean-up, whatever other servers do that close,
\* fail half-way or restart.
OthersKept ==
    [][\A c \in Conns, r \in Rooms :
          srv[Node(c)] = "up" /\ c \in roomFds[r] /\ c \notin roomFds'[r]
              => ~Redis \/ \E a \in Conns \union Joiners :
                               /\ NodeOf(a) = Node(c)
                               /\ op[a].kind = "rem" /\ op[a].conn = c]_vars

\* A connection that was closed, by anyone, is cleaned up: its ServeHTTP ends,
\* unless HandleOpen or HandleClose panics.
ClosedConnEnds ==
    \A c \in Conns : closed[c] ~> pc[c] \in {"none", "gone", "leaked"}

\* "Close shuts down the server, disconnecting all connections".
CloseDisconnects ==
    \A n \in Nodes : srv[n] = "closed" => \A c \in Own(n) : closed[c]

\* Close removes "this instance's connections from all rooms first (this must
\* happen before the Redis client is closed)": nothing of a node that has shut
\* down stays in Redis.
NoGhosts ==
    \A n \in Nodes :
        srv[n] = "closed"
        /\ (\A c \in Conns : Node(c) = n => pc[c] \in {"none", "gone"} /\ Free(c))
            => \A r \in Rooms : \A c \in roomFds[r] : Node(c) # n

\* "nextConnID generates a globally unique connection ID": a connection whose
\* callbacks have not been called yet is in no room.
NoStranger ==
    \A r \in Rooms, c \in Conns : pc[c] = "upgraded" => c \notin roomFds[r]
=============================================================================
