----------------------------- MODULE HttpProof -----------------------------
(***************************************************************************)
(* Proofs about the HTTP server: Admission, for any number of requests and *)
(* any limit, WsServer with rooms in Redis, for any number of servers,     *)
(* connections and rooms, Router, for any routes, groups, middleware and   *)
(* requests, Jwt, for any applications and claims, and MiddlewareChain on  *)
(* the way inwards, for any stack of middleware.                           *)
(***************************************************************************)
EXTENDS MCHttp, FiniteSetTheorems, TLAPS

-----------------------------------------------------------------------------
(* Requests in progress. *)

\* Every request inside has a slot; where the slots are given back there are no
\* others.
IInv ==
    /\ pc \in [Procs -> PCs]
    /\ slots \in 0..Limit
    /\ Cardinality(Running) <= slots
    /\ Released => Cardinality(Running) = slots

\* The requests inside are finitely many, and one more or one less of them.
LEMMA RunningCounts ==
    ASSUME NEW S \in SUBSET Procs
    PROVE  /\ Cardinality(S) \in Nat
           /\ \A p \in Procs \ S : Cardinality(S \union {p}) = Cardinality(S) + 1
           /\ \A p \in S : Cardinality(S \ {p}) = Cardinality(S) - 1
                           /\ Cardinality(S \ {p}) \in Nat
<1>1. IsFiniteSet(S)
  BY FS_Subset, AdmissionAssumption
<1>2. Cardinality(S) \in Nat
  BY <1>1, FS_CardinalityType
<1>3. ASSUME NEW p \in Procs \ S
      PROVE  Cardinality(S \union {p}) = Cardinality(S) + 1
  BY <1>1, FS_AddElement
<1>4. ASSUME NEW p \in S
      PROVE  Cardinality(S \ {p}) = Cardinality(S) - 1 /\ Cardinality(S \ {p}) \in Nat
  <2>1. IsFiniteSet(S \ {p}) /\ Cardinality(S \ {p}) = Cardinality(S) - 1
    BY <1>1, FS_RemoveElement
  <2>2. QED
    BY <2>1, FS_CardinalityType
<1>5. QED
  BY <1>2, <1>3, <1>4

\* A request that leaves the inside gives its slot back or, through RateLimit,
\* keeps it.
LEMMA Leaves ==
    ASSUME IInv, NEW p \in Procs, NEW to \in PCs \ {"run"}, Goto(p, "run", to), Freed
    PROVE  IInv'
<1>1. Running' = Running \ {p} /\ p \in Running /\ Running \in SUBSET Procs
  BY DEF Goto, Running, IInv, PCs
<1>2. /\ Cardinality(Running) \in Nat
      /\ Cardinality(Running') = Cardinality(Running) - 1
      /\ Cardinality(Running') \in Nat
  BY <1>1, RunningCounts
<1>3. pc' \in [Procs -> PCs]
  BY DEF Goto, IInv
<1>4. slots \in Nat /\ Limit \in Nat /\ slots > 0
  BY <1>2, AdmissionAssumption DEF IInv
<1>5. CASE Released
  <2>1. slots' = slots - 1
    BY <1>4, <1>5 DEF Freed, Release
  <2>2. QED
    BY <1>2, <1>3, <1>4, <1>5, <2>1 DEF IInv
<1>6. CASE ~Released
  <2>1. slots' = slots
    BY <1>6 DEF Freed
  <2>2. QED
    BY <1>2, <1>3, <1>4, <1>6, <2>1 DEF IInv
<1>7. QED
  BY <1>5, <1>6

\* IInv is inductive.
LEMMA Inductive == IInv /\ [Next]_vars => IInv'
<1> SUFFICES ASSUME IInv, [Next]_vars PROVE IInv'
  OBVIOUS
<1>1. ASSUME NEW p \in Procs, Admit(p) PROVE IInv'
  <2>1. Running' = Running \union {p} /\ p \notin Running /\ Running \in SUBSET Procs
    BY <1>1 DEF Admit, Goto, Running, IInv, PCs
  <2>2. Cardinality(Running) \in Nat /\ Cardinality(Running') = Cardinality(Running) + 1
    BY <2>1, RunningCounts
  <2>3. pc' \in [Procs -> PCs]
    BY <1>1 DEF Admit, Goto, IInv, PCs
  <2>4. QED
    BY <1>1, <2>2, <2>3, AdmissionAssumption DEF Admit, IInv
<1>2. ASSUME NEW p \in Procs, Refuse(p) PROVE IInv'
  <2>1. Running' = Running /\ pc' \in [Procs -> PCs]
    BY <1>2 DEF Refuse, Goto, Running, IInv, PCs
  <2>2. QED
    BY <1>2, <2>1 DEF Refuse, IInv
<1>3. ASSUME NEW p \in Procs, Return(p) \/ Panics(p) \/ TimesOut(p) PROVE IInv'
  BY <1>3, Leaves DEF Return, Panics, TimesOut, PCs
<1>4. ASSUME NEW p \in Procs, Over(p) PROVE IInv'
  <2>1. Running' = Running /\ pc' \in [Procs -> PCs]
    BY <1>4 DEF Over, Running, IInv, PCs
  <2>2. QED
    BY <1>4, <2>1 DEF Over, IInv
<1>5. CASE UNCHANGED vars
  BY <1>5 DEF vars, IInv, Running
<1>6. QED
  BY <1>1, <1>2, <1>3, <1>4, <1>5 DEF Next

LEMMA Initial == Init => IInv
<1> SUFFICES ASSUME Init PROVE IInv
  OBVIOUS
<1>1. Running = {} /\ pc \in [Procs -> PCs]
  BY DEF Init, Running, PCs
<1>2. QED
  BY <1>1, FS_EmptySet, AdmissionAssumption DEF Init, IInv

\* MaxConns and Concurrency never have more requests inside than the limit, with
\* panics, timeouts and whether or not slots are given back.
THEOREM NeverMoreThanLimit == Spec => []HandlersBounded
<1>1. IInv => HandlersBounded
  <2> SUFFICES ASSUME IInv PROVE HandlersBounded
    OBVIOUS
  <2>1. Running \in SUBSET Procs
    BY DEF Running
  <2>2. QED
    BY <2>1, RunningCounts, AdmissionAssumption DEF IInv, HandlersBounded
<1>2. QED
  BY <1>1, Initial, Inductive, PTL DEF Spec

\* No panic, timeout or refusal leaks a slot: where the slot is given back, as
\* MaxConns does, a request is refused only while the limit is reached.
THEOREM NoSlotLeaks == ASSUME Released PROVE Spec => RefusedOnlyWhenFull
<1> DEFINE Full == \A p \in Procs : pc[p] = "idle" /\ pc'[p] = "refused"
                      => Cardinality(Running) >= Limit
<1>1. IInv /\ [Next]_vars => [Full]_vars
  <2> SUFFICES ASSUME IInv, Next, NEW p \in Procs, pc[p] = "idle", pc'[p] = "refused"
               PROVE  Cardinality(Running) >= Limit
    BY DEF vars
  <2>1. Refuse(p)
    BY DEF Next, Admit, Return, Panics, TimesOut, Over, Refuse, Goto, IInv, PCs
  <2>2. QED
    BY <2>1, Released DEF Refuse, IInv
<1>2. QED
  BY <1>1, Initial, Inductive, PTL DEF Spec, RefusedOnlyWhenFull

-----------------------------------------------------------------------------
(* Servers that share the sets of their rooms. *)

OpRecord(o) == o = [kind |-> o.kind, conn |-> o.conn, rooms |-> o.rooms, all |-> o.all]

\* Goroutines other than the Close of a node.
Goroutines == Sockets!Conns \union Joiners

\* Whoever works on the sets of a connection belongs to its node, and the node's Close
\* does so only while it clears the rooms.
OwnInv ==
    /\ op \in [Sockets!Actors -> {op[a] : a \in Sockets!Actors}]
    /\ \A a \in Sockets!Actors : OpRecord(op[a])
    /\ \A a \in Sockets!Actors : op[a].kind \notin {"add", "rem"} => op[a].rooms = {}
    /\ \A a \in Goroutines : op[a].kind # "none" => Sockets!Node(op[a].conn) = Sockets!Node(a)
    /\ srv \in [Nodes -> {"up", "clearing", "dropping", "closed"}]
    /\ \A n \in Nodes : op[n].kind # "none" =>
          Sockets!Node(op[n].conn) = n /\ srv[n] = "clearing"
    /\ roomFds = [r \in Rooms |-> roomFds[r]]

LEMMA NoOpIsFree ==
    OpRecord(Sockets!NoOp) /\ Sockets!NoOp.kind = "none" /\ Sockets!NoOp.rooms = {}
BY DEF OpRecord, Sockets!NoOp

LEMMA OwnStarts == Sockets!Init => OwnInv
<1> SUFFICES ASSUME Sockets!Init PROVE OwnInv
  OBVIOUS
<1>1. op = [a \in Sockets!Actors |-> Sockets!NoOp]
  BY DEF Sockets!Init
<1>2. op \in [Sockets!Actors -> {op[a] : a \in Sockets!Actors}]
  BY <1>1
<1>3. /\ \A a \in Sockets!Actors : op[a] = Sockets!NoOp
      /\ Goroutines \subseteq Sockets!Actors /\ Nodes \subseteq Sockets!Actors
  BY <1>1 DEF Sockets!Actors, Goroutines
<1>4. srv \in [Nodes -> {"up", "clearing", "dropping", "closed"}]
  BY DEF Sockets!Init
<1>5. roomFds = [r \in Rooms |-> roomFds[r]]
  BY DEF Sockets!Init
<1>6. QED
  BY <1>2, <1>3, <1>4, <1>5, NoOpIsFree DEF OwnInv

\* One goroutine begins, goes on with or ends an operation.
LEMMA OpMoves ==
    ASSUME OwnInv, srv' = srv, NEW a \in Sockets!Actors, NEW o,
           op' = [op EXCEPT ![a] = o], OpRecord(o),
           o.kind \notin {"add", "rem"} => o.rooms = {},
           \/ o.kind = "none"
           \/ a \in Goroutines /\ Sockets!Node(o.conn) = Sockets!Node(a)
           \/ a \in Nodes /\ Sockets!Node(o.conn) = a /\ srv[a] = "clearing",
           roomFds' = [r \in Rooms |-> roomFds'[r]]
    PROVE  OwnInv'
<1>1. /\ op'[a] = o /\ op' = [b \in Sockets!Actors |-> op'[b]]
      /\ \A b \in Sockets!Actors : b # a => op'[b] = op[b]
  BY DEF OwnInv
<1>2. op' \in [Sockets!Actors -> {op'[b] : b \in Sockets!Actors}]
  BY <1>1
<1>3. \A b \in Sockets!Actors : OpRecord(op'[b])
  BY <1>1 DEF OwnInv
<1>4. \A b \in Sockets!Actors : op'[b].kind \notin {"add", "rem"} => op'[b].rooms = {}
  BY <1>1 DEF OwnInv
<1>5. /\ Goroutines \subseteq Sockets!Actors /\ Nodes \subseteq Sockets!Actors
      /\ \A b \in Goroutines : b \notin Nodes
  BY SocketAssumption DEF Sockets!Actors, Sockets!Conns, Goroutines
<1>6. \A b \in Goroutines : op'[b].kind # "none" => Sockets!Node(op'[b].conn) = Sockets!Node(b)
  BY <1>1, <1>5 DEF OwnInv
<1>7. \A n \in Nodes : op'[n].kind # "none" =>
          Sockets!Node(op'[n].conn) = n /\ srv'[n] = "clearing"
  BY <1>1, <1>5 DEF OwnInv
<1>8. QED
  BY <1>2, <1>3, <1>4, <1>6, <1>7 DEF OwnInv, OpRecord

\* The stages of Close: none begins or ends while an operation of its own is under
\* way.
LEMMA CloseMoves ==
    ASSUME OwnInv, op' = op, roomFds' = roomFds, NEW n \in Nodes,
           NEW to \in {"up", "clearing", "dropping", "closed"},
           srv' = [srv EXCEPT ![n] = to],
           op[n].kind = "none" \/ srv[n] # "clearing"
    PROVE  OwnInv'
<1>1. /\ srv' \in [Nodes -> {"up", "clearing", "dropping", "closed"}]
      /\ \A m \in Nodes : m # n => srv'[m] = srv[m]
  BY DEF OwnInv
<1>2. op[n].kind = "none"
  BY DEF OwnInv
<1>3. \A m \in Nodes : op'[m].kind # "none" =>
          Sockets!Node(op'[m].conn) = m /\ srv'[m] = "clearing"
  BY <1>1, <1>2 DEF OwnInv
<1>4. QED
  BY <1>1, <1>3 DEF OwnInv, OpRecord

LEMMA RestartKeeps ==
    ASSUME OwnInv, NEW n \in Nodes, Sockets!Restart(n)
    PROVE  OwnInv'
<1>1. /\ roomFds' = roomFds /\ srv' = [srv EXCEPT ![n] = "up"]
      /\ op' = [a \in Sockets!Actors |->
                   IF Sockets!NodeOf(a) = n THEN Sockets!NoOp ELSE op[a]]
  BY DEF Sockets!Restart
<1>2. /\ srv' \in [Nodes -> {"up", "clearing", "dropping", "closed"}]
      /\ \A m \in Nodes : m # n => srv'[m] = srv[m]
  BY <1>1 DEF OwnInv
<1>3. /\ \A a \in Sockets!Actors : op'[a] = Sockets!NoOp \/ op'[a] = op[a]
      /\ Goroutines \subseteq Sockets!Actors /\ Nodes \subseteq Sockets!Actors
      /\ n \in Nodes /\ op'[n] = Sockets!NoOp
  BY <1>1 DEF Sockets!Actors, Sockets!NodeOf, Goroutines
<1>4. op' \in [Sockets!Actors -> {op'[a] : a \in Sockets!Actors}]
  BY <1>1
<1>5. \A a \in Sockets!Actors : OpRecord(op'[a]) /\ (op'[a].kind \notin {"add", "rem"} => op'[a].rooms = {})
  BY <1>3, NoOpIsFree DEF OwnInv
<1>6. \A a \in Goroutines : op'[a].kind # "none" => Sockets!Node(op'[a].conn) = Sockets!Node(a)
  BY <1>3, NoOpIsFree DEF OwnInv
<1>7. \A m \in Nodes : op'[m].kind # "none" =>
          Sockets!Node(op'[m].conn) = m /\ srv'[m] = "clearing"
  BY <1>2, <1>3, NoOpIsFree DEF OwnInv
<1>8. QED
  BY <1>1, <1>2, <1>4, <1>5, <1>6, <1>7 DEF OwnInv, OpRecord

\* What a Redis command does to the sets of the rooms: it works on the set of one room
\* and removes at most the connection of its own operation, if that is one that
\* removes.
LEMMA RedisKeeps ==
    ASSUME OwnInv, NEW a \in Sockets!Actors, Sockets!RedisStep(a) \/ Sockets!RedisError(a)
    PROVE  /\ OwnInv' /\ srv' = srv
           /\ \A r \in Rooms : \A c \in roomFds[r] :
                 c \notin roomFds'[r] => op[a].kind = "rem" /\ op[a].conn = c
<1>1. /\ OpRecord(op[a]) /\ roomFds = [r \in Rooms |-> roomFds[r]]
      /\ op[a].kind \notin {"add", "rem"} => op[a].rooms = {}
      /\ a \in Goroutines \/ a \in Nodes
  BY DEF OwnInv, Sockets!Actors, Goroutines
<1>2. srv' = srv
  BY DEF Sockets!RedisStep, Sockets!RedisError, Sockets!srvVars
<1>3. op[a].kind # "none" =>
        \/ a \in Goroutines /\ Sockets!Node(op[a].conn) = Sockets!Node(a)
        \/ a \in Nodes /\ Sockets!Node(op[a].conn) = a /\ srv[a] = "clearing"
  BY <1>1 DEF OwnInv
<1>4. CASE Sockets!RedisLook(a)
  <2> DEFINE c == op[a].conn
             o == IF fdRooms[c] = {} THEN Sockets!NoOp
                  ELSE [kind |-> "rem", conn |-> c, rooms |-> fdRooms[c], all |-> fdRooms[c]]
  <2>1. op' = [op EXCEPT ![a] = o] /\ roomFds' = roomFds /\ op[a].kind = "look"
    BY <1>4 DEF Sockets!RedisLook
  <2>2. /\ OpRecord(o) /\ (o.kind \notin {"add", "rem"} => o.rooms = {})
        /\ o.kind = "none" \/ o.conn = c
    <3>1. CASE fdRooms[c] = {}
      BY <3>1, NoOpIsFree
    <3>2. CASE fdRooms[c] # {}
      BY <3>2 DEF OpRecord
    <3>3. QED
      BY <3>1, <3>2
  <2>3. \/ o.kind = "none"
        \/ a \in Goroutines /\ Sockets!Node(o.conn) = Sockets!Node(a)
        \/ a \in Nodes /\ Sockets!Node(o.conn) = a /\ srv[a] = "clearing"
    BY <1>3, <2>1, <2>2
  <2> HIDE DEF o
  <2>4. OwnInv'
    BY <1>1, <1>2, <2>1, <2>2, <2>3, OpMoves
  <2>5. QED
    BY <1>2, <2>1, <2>4
<1>5. ASSUME NEW r \in Rooms, Sockets!RedisRoomSet(a, r)
      PROVE  /\ OwnInv' /\ srv' = srv
             /\ \A x \in Rooms : \A d \in roomFds[x] :
                   d \notin roomFds'[x] => op[a].kind = "rem" /\ op[a].conn = d
  <2> DEFINE c == op[a].conn
             o == [op[a] EXCEPT !.rooms = @ \ {r}]
             set == IF op[a].kind = "add" THEN roomFds[r] \union {c} ELSE roomFds[r] \ {c}
  <2>1. op' = [op EXCEPT ![a] = o] /\ roomFds' = [roomFds EXCEPT ![r] = set] /\ r \in op[a].rooms
    BY <1>5 DEF Sockets!RedisRoomSet
  <2>2. op[a].kind \in {"add", "rem"}
    BY <1>1, <2>1
  <2>3. o = [kind |-> op[a].kind, conn |-> c, rooms |-> op[a].rooms \ {r}, all |-> op[a].all]
    BY <1>1 DEF OpRecord
  <2>4. OpRecord(o) /\ o.kind \in {"add", "rem"} /\ o.conn = c
    BY <2>2, <2>3 DEF OpRecord
  <2> HIDE DEF o
  <2>5. /\ roomFds' = [x \in Rooms |-> roomFds'[x]]
        /\ roomFds'[r] = set /\ \A x \in Rooms : x # r => roomFds'[x] = roomFds[x]
    BY <1>1, <2>1
  <2>6. OwnInv'
    BY <1>2, <1>3, <2>1, <2>2, <2>4, <2>5, OpMoves
  <2>7. ASSUME NEW x \in Rooms, NEW d \in roomFds[x], d \notin roomFds'[x]
        PROVE  op[a].kind = "rem" /\ op[a].conn = d
    BY <2>2, <2>5, <2>7
  <2>8. QED
    BY <1>2, <2>6, <2>7
<1>6. CASE Sockets!RedisFdSet(a) \/ Sockets!RedisFails(a)
  <2>1. op' = [op EXCEPT ![a] = Sockets!NoOp] /\ roomFds' = roomFds
    BY <1>6 DEF Sockets!RedisFdSet, Sockets!RedisFails
  <2>2. OwnInv'
    BY <1>1, <1>2, <2>1, NoOpIsFree, OpMoves
  <2>3. QED
    BY <1>2, <2>1, <2>2
<1>7. QED
  BY <1>4, <1>5, <1>6 DEF Sockets!RedisStep, Sockets!RedisError

\* Everything but a Redis command leaves the sets of the rooms as they are.
LEMMA OthersKeep ==
    ASSUME OwnInv, Sockets!Next
    PROVE  \/ OwnInv' /\ roomFds' = roomFds
           \/ \E a \in Sockets!Actors : Sockets!RedisStep(a) \/ Sockets!RedisError(a)
<1>1. ASSUME UNCHANGED <<op, srv, roomFds>> PROVE OwnInv' /\ roomFds' = roomFds
  BY <1>1 DEF OwnInv, OpRecord
<1>2. /\ Goroutines \subseteq Sockets!Actors /\ Nodes \subseteq Sockets!Actors
      /\ Sockets!Conns \subseteq Goroutines /\ Joiners \subseteq Goroutines
      /\ \A a \in Goroutines : a \notin Nodes
      /\ Stopping \subseteq Nodes /\ roomFds = [r \in Rooms |-> roomFds[r]]
  BY SocketAssumption DEF Sockets!Actors, Sockets!Conns, Goroutines, OwnInv
<1>3. ASSUME NEW c \in Sockets!Conns,
             \/ Sockets!Upgrade(c) \/ Sockets!ServeStep(c) \/ Sockets!Message(c)
             \/ Sockets!OpenPanics(c) \/ Sockets!MessagePanics(c) \/ Sockets!ClosePanics(c)
             \/ Sockets!PeerLeaves(c) \/ Sockets!CloseConn(c)
      PROVE  OwnInv' /\ roomFds' = roomFds
  <2>1. CASE Sockets!Unroom(c)
    <3> DEFINE o == [kind |-> "look", conn |-> c, rooms |-> {}, all |-> {}]
    <3>1. op' = [op EXCEPT ![c] = o] /\ roomFds' = roomFds /\ srv' = srv
      BY <2>1 DEF Sockets!Unroom, Sockets!RoomDeleteAll, Sockets!srvVars
    <3>2. OpRecord(o) /\ o.conn = c /\ o.rooms = {}
      BY DEF OpRecord
    <3> HIDE DEF o
    <3>3. QED
      BY <1>2, <3>1, <3>2, OpMoves
  <2>2. CASE ~Sockets!Unroom(c)
    <3>1. UNCHANGED <<op, srv, roomFds>>
      BY <1>3, <2>2 DEF Sockets!ServeStep, Sockets!Upgrade, Sockets!Store, Sockets!OpenReturns,
         Sockets!MessageReturns, Sockets!ReadFails, Sockets!Unlist, Sockets!Finish,
         Sockets!Message, Sockets!OpenPanics, Sockets!MessagePanics, Sockets!ClosePanics,
         Sockets!PeerLeaves,
         Sockets!CloseConn, Sockets!roomVars, Sockets!srvVars
    <3>2. QED
      BY <1>1, <3>1
  <2>3. QED
    BY <2>1, <2>2
<1>4. ASSUME NEW c \in Sockets!Conns, NEW a \in Joiners,
             Sockets!Leave(a, c) \/ \E r \in Rooms : Sockets!Join(a, c, r)
      PROVE  OwnInv' /\ roomFds' = roomFds
  <2>1. PICK k \in {"look", "add", "rem"}, rs \in {{}} \union {{r} : r \in Rooms} :
           /\ op' = [op EXCEPT ![a] = [kind |-> k, conn |-> c, rooms |-> rs, all |-> rs]]
           /\ k = "look" => rs = {}
    <3>1. CASE Sockets!Leave(a, c) /\ Sockets!RoomDeleteAll(a, c)
      BY <3>1 DEF Sockets!RoomDeleteAll
    <3>2. ASSUME NEW r \in Rooms, Sockets!RoomDelete(a, c, {r}) \/ Sockets!RoomAdd(a, c, {r})
          PROVE  \E k \in {"add", "rem"} :
                    op' = [op EXCEPT ![a] = [kind |-> k, conn |-> c, rooms |-> {r}, all |-> {r}]]
      BY <3>2 DEF Sockets!RoomDelete, Sockets!RoomAdd
    <3>3. ASSUME NEW r \in Rooms, Sockets!RoomDelete(a, c, {r}) \/ Sockets!RoomAdd(a, c, {r})
          PROVE  \E k \in {"look", "add", "rem"}, rs \in {{}} \union {{x} : x \in Rooms} :
                    /\ op' = [op EXCEPT ![a] = [kind |-> k, conn |-> c, rooms |-> rs, all |-> rs]]
                    /\ k = "look" => rs = {}
      <4>1. PICK k \in {"add", "rem"} :
               op' = [op EXCEPT ![a] = [kind |-> k, conn |-> c, rooms |-> {r}, all |-> {r}]]
        BY <3>2, <3>3
      <4>2. k \in {"look", "add", "rem"} /\ k # "look" /\ {r} \in {{}} \union {{x} : x \in Rooms}
        OBVIOUS
      <4>3. QED
        BY <4>1, <4>2
    <3>4. QED
      BY <1>4, <3>1, <3>3 DEF Sockets!Join, Sockets!Leave
  <2>2. roomFds' = roomFds /\ srv' = srv
    BY <1>4 DEF Sockets!Join, Sockets!Leave, Sockets!RoomAdd, Sockets!RoomDelete,
       Sockets!RoomDeleteAll, Sockets!srvVars
  <2>3. Sockets!Node(c) = Sockets!Node(a)
    BY <1>2, <1>4 DEF Sockets!Join, Sockets!Leave, Sockets!MayUse, Sockets!NodeOf
  <2> DEFINE o == [kind |-> k, conn |-> c, rooms |-> rs, all |-> rs]
  <2>4. /\ OpRecord(o) /\ o.conn = c /\ op' = [op EXCEPT ![a] = o]
        /\ o.kind \notin {"add", "rem"} => o.rooms = {}
    BY <2>1 DEF OpRecord
  <2> HIDE DEF o
  <2>5. QED
    BY <1>2, <2>2, <2>3, <2>4, OpMoves
<1>5. ASSUME NEW n \in Stopping, Sockets!CloseBegin(n) \/ Sockets!CloseStep(n)
      PROVE  OwnInv' /\ roomFds' = roomFds
  <2>1. CASE Sockets!CloseBegin(n)
    <3>1. srv[n] = "up" /\ srv' = [srv EXCEPT ![n] = "clearing"] /\ op' = op /\ roomFds' = roomFds
      BY <2>1 DEF Sockets!CloseBegin, Sockets!RangeBegin, Sockets!roomVars
    <3>2. QED
      BY <1>2, <3>1, CloseMoves
  <2>2. CASE Sockets!ClearDone(n)
    <3>1. /\ op[n].kind = "none" /\ srv' = [srv EXCEPT ![n] = "dropping"]
          /\ op' = op /\ roomFds' = roomFds
      BY <2>2 DEF Sockets!ClearDone, Sockets!RangeBegin, Sockets!Free, Sockets!roomVars
    <3>2. QED
      BY <1>2, <3>1, CloseMoves
  <2>3. CASE Sockets!CloseDone(n)
    <3>1. /\ srv[n] = "dropping" /\ srv' = [srv EXCEPT ![n] = "closed"]
          /\ op' = op /\ roomFds' = roomFds
      BY <2>3 DEF Sockets!CloseDone, Sockets!roomVars
    <3>2. QED
      BY <1>2, <3>1, CloseMoves
  <2>4. ASSUME NEW c \in Sockets!Conns, Sockets!ClearOne(n, c)
        PROVE  OwnInv' /\ roomFds' = roomFds
    <3> DEFINE o == [kind |-> "look", conn |-> c, rooms |-> {}, all |-> {}]
    <3>1. /\ op' = [op EXCEPT ![n] = o] /\ roomFds' = roomFds /\ srv' = srv
          /\ srv[n] = "clearing" /\ Sockets!Node(c) = n
      BY <2>4 DEF Sockets!ClearOne, Sockets!RoomDeleteAll, Sockets!Own
    <3>2. OpRecord(o) /\ o.conn = c /\ o.rooms = {}
      BY DEF OpRecord
    <3> HIDE DEF o
    <3>3. QED
      BY <1>2, <3>1, <3>2, OpMoves
  <2>5. ASSUME NEW c \in Sockets!Conns, Sockets!DropOne(n, c)
        PROVE  OwnInv' /\ roomFds' = roomFds
    BY <1>1, <2>5 DEF Sockets!DropOne, Sockets!roomVars
  <2>6. QED
    BY <1>5, <2>1, <2>2, <2>3, <2>4, <2>5 DEF Sockets!CloseStep
<1>6. ASSUME NEW n \in Stopping, Sockets!Restart(n) PROVE OwnInv' /\ roomFds' = roomFds
  BY <1>2, <1>6, RestartKeeps DEF Sockets!Restart
<1>7. QED
  BY <1>3, <1>4, <1>5, <1>6 DEF Sockets!Next

\* "Room cleanup is limited to the connections of this instance" (Server.Close): while
\* its server is up, a connection goes out of a room in Redis only by a Leave that a
\* goroutine of its own application has called or by its own clean-up, whatever other
\* servers on the same Redis do, failing commands, a Close that is interrupted and
\* restarts under the same node ID included.
THEOREM OthersStay == MCSpec => OthersKept
<1> DEFINE Left(c) == \E a \in Sockets!Conns \union Joiners :
                         /\ Sockets!NodeOf(a) = Sockets!Node(c)
                         /\ op[a].kind = "rem" /\ op[a].conn = c
           Kept == \A c \in Sockets!Conns, r \in Rooms :
                      srv[Sockets!Node(c)] = "up" /\ c \in roomFds[r] /\ c \notin roomFds'[r]
                          => Left(c)
<1>1. MCInit => OwnInv
  BY OwnStarts DEF MCInit
<1>2. OwnInv /\ [MCNext]_<<which, vars, sVars, rVars, wVars, tVars>> => OwnInv' /\ Kept
  <2> SUFFICES ASSUME OwnInv, [MCNext]_<<which, vars, sVars, rVars, wVars, tVars>>
               PROVE  OwnInv' /\ Kept
    OBVIOUS
  <2>1. CASE ~Sockets!Next
    <3>1. UNCHANGED <<op, srv, roomFds>>
      BY <2>1 DEF MCNext, wVars
    <3>2. QED
      BY <3>1 DEF OwnInv, OpRecord
  <2>2. CASE OwnInv' /\ roomFds' = roomFds
    BY <2>2
  <2>3. ASSUME NEW a \in Sockets!Actors, Sockets!RedisStep(a) \/ Sockets!RedisError(a)
        PROVE  OwnInv' /\ Kept
    <3>1. /\ OwnInv' /\ \A r \in Rooms : \A c \in roomFds[r] :
                 c \notin roomFds'[r] => op[a].kind = "rem" /\ op[a].conn = c
      BY <2>3, RedisKeeps
    <3>2. ASSUME NEW c \in Sockets!Conns, NEW r \in Rooms, srv[Sockets!Node(c)] = "up",
                 c \in roomFds[r], c \notin roomFds'[r]
          PROVE  Left(c)
      <4>1. op[a].kind = "rem" /\ op[a].conn = c
        BY <3>1, <3>2
      <4>2. CASE a \in Goroutines
        <5>1. Sockets!NodeOf(a) = Sockets!Node(c)
          BY <4>1, <4>2, SocketAssumption DEF OwnInv, Goroutines, Sockets!Conns, Sockets!NodeOf
        <5>2. QED
          BY <4>1, <4>2, <5>1 DEF Goroutines
      <4>3. CASE a \in Nodes
        BY <3>2, <4>1, <4>3 DEF OwnInv
      <4>4. QED
        BY <4>2, <4>3 DEF Sockets!Actors, Goroutines
    <3>3. QED
      BY <3>1, <3>2
  <2>4. QED
    BY <2>1, <2>2, <2>3, OthersKeep
<1>3. Kept => [\A c \in Sockets!Conns, r \in Rooms :
                  srv[Sockets!Node(c)] = "up" /\ c \in roomFds[r] /\ c \notin roomFds'[r]
                      => ~TRUE \/ Left(c)]_Sockets!vars
  OBVIOUS
<1>4. QED
  BY <1>1, <1>2, <1>3, PTL DEF MCSpec, OthersKept, Sockets!OthersKept

-----------------------------------------------------------------------------
(* Routing. *)

\* A set of numbers has a least one.
LEMMA LeastOf ==
    ASSUME NEW T, T \subseteq Nat, T # {}
    PROVE  \E m \in T : \A k \in T : m <= k
<1> DEFINE Less == OpToRel(<, Nat)
<1>1. \A x, y \in Nat : x < y => <<x, y>> \in Less
  BY DEF OpToRel
<1>2. IsWellFoundedOn(Less, Nat)
  BY NatLessThanWellFounded
<1> HIDE DEF Less
<1>3. \E m \in T : \A k \in T : <<k, m>> \notin Less
  BY <1>2, WFMin
<1>4. PICK m \in T : \A k \in T : <<k, m>> \notin Less
  BY <1>3
<1>5. \A k \in T : ~(k < m)
  BY <1>1, <1>4
<1>6. \A k \in T : m <= k
  BY <1>5
<1>7. QED
  BY <1>6

\* Induction: a set with 0 and with the successor of each of its numbers.
LEMMA AllNumbers ==
    ASSUME NEW T, T \subseteq Nat, 0 \in T, \A n \in T : n + 1 \in T
    PROVE  T = Nat
<1> SUFFICES ASSUME T # Nat PROVE FALSE
  OBVIOUS
<1>1. PICK m \in Nat \ T : \A k \in Nat \ T : m <= k
  BY LeastOf
<1>2. m # 0 /\ m - 1 \in Nat
  BY <1>1
<1>3. m - 1 \in T
  BY <1>1, <1>2
<1>4. QED
  BY <1>1, <1>2, <1>3

\* f holds what FlattenSeq has put together after each part of s.
Flattening(f, s, S) ==
    /\ Routing!FlattenSeq(s) = f[Len(s)]
    /\ \A i \in 1..Len(s) : f[i] \in Seq(S)
    /\ f[1] = s[1]
    /\ \A i \in 1..(Len(s) - 1) : f[i + 1] = f[i] \o s[i + 1]

\* FlattenSeq goes through the parts of a sequence in order.
LEMMA Flattened ==
    ASSUME NEW S, NEW s \in Seq(Seq(S)), s # <<>>
    PROVE  \E f : Flattening(f, s, S)
<1> DEFINE N == Len(s)
<1>1. N \in Nat /\ N > 0 /\ DOMAIN s = 1..N
  OBVIOUS
<1> HIDE DEF N
<1> USE <1>1
<1> DEFINE Next1(f, i) == IF i = 1 THEN s[i] ELSE f[i - 1] \o s[i]
           Steps(f, n) == \A i \in 1..n : f[i] = Next1(f, i)
           T == {n \in Nat : n <= N => \E f \in [1..n -> Seq(S)] : Steps(f, n)}
<1>2. 0 \in T
  <2> DEFINE none == [i \in 1..0 |-> <<>>]
  <2>1. none \in [1..0 -> Seq(S)] /\ Steps(none, 0)
    OBVIOUS
  <2> HIDE DEF none
  <2>2. \E f \in [1..0 -> Seq(S)] : Steps(f, 0)
    <3> HIDE DEF Steps
    <3>1. QED
      BY <2>1
  <2>3. QED
    BY <2>2
<1>3. ASSUME NEW n \in T PROVE n + 1 \in T
  <2> SUFFICES ASSUME n \in Nat, n + 1 <= N
               PROVE  \E f \in [1..(n + 1) -> Seq(S)] : Steps(f, n + 1)
    <3> HIDE DEF Steps
    <3>1. n \in Nat /\ n + 1 \in Nat
      BY <1>3
    <3>2. QED
      BY <3>1
  <2>1. PICK f \in [1..n -> Seq(S)] : Steps(f, n)
    BY <1>3
  <2>2. n \in Nat /\ n + 1 \in 1..N /\ s[n + 1] \in Seq(S)
    OBVIOUS
  <2> DEFINE after == IF n = 0 THEN s[1] ELSE f[n] \o s[n + 1]
             g == [i \in 1..(n + 1) |-> IF i <= n THEN f[i] ELSE after]
  <2>3. after \in Seq(S)
    <3>1. CASE n = 0
      BY <2>2, <3>1
    <3>2. CASE n # 0
      <4>1. f[n] \in Seq(S)
        BY <2>2, <3>2
      <4>2. QED
        BY <2>2, <3>2, <4>1
    <3>3. QED
      BY <3>1, <3>2
  <2>4. g \in [1..(n + 1) -> Seq(S)]
    <3> HIDE DEF after
    <3>1. ASSUME NEW i \in 1..(n + 1) PROVE g[i] \in Seq(S)
      BY <2>2, <2>3
    <3>2. QED
      BY <3>1
  <2>5. ASSUME NEW i \in 1..(n + 1) PROVE g[i] = Next1(g, i)
    <3>1. CASE i <= n
      <4>1. g[i] = f[i] /\ (i # 1 => g[i - 1] = f[i - 1]) /\ i \in 1..n
        BY <2>2, <3>1
      <4>2. QED
        BY <2>1, <4>1
    <3>2. CASE i = n + 1
      <4>1. g[i] = after /\ (n # 0 => g[i - 1] = f[n])
        BY <2>2, <3>2
      <4>2. QED
        BY <2>2, <3>2, <4>1
    <3>3. QED
      BY <2>2, <3>1, <3>2
  <2>6. QED
    BY <2>4, <2>5
<1>4. N \in T
  <2> HIDE DEF T
  <2>1. T \subseteq Nat
    BY DEF T
  <2>2. QED
    BY <1>2, <1>3, <2>1, AllNumbers
<1>5. PICK f \in [1..N -> Seq(S)] : Steps(f, N)
  BY <1>4
<1>6. f = [i \in 1..N |-> Next1(f, i)]
  BY <1>5
<1> DEFINE F == CHOOSE g : g = [i \in 1..N |-> IF i = 1 THEN s[i] ELSE g[i - 1] \o s[i]]
<1>7. F = [i \in 1..N |-> IF i = 1 THEN s[i] ELSE F[i - 1] \o s[i]]
  BY <1>6
<1>8. Routing!FlattenSeq(s) = F[N]
  BY <1>1 DEF Routing!FlattenSeq, N
<1> HIDE DEF F
<1>9. ASSUME NEW i \in 1..N PROVE F[i] = f[i]
  <2> DEFINE U == {n \in Nat : n \in 1..N => F[n] = f[n]}
  <2>1. 0 \in U
    OBVIOUS
  <2>2. ASSUME NEW n \in U PROVE n + 1 \in U
    <3> SUFFICES ASSUME n + 1 \in 1..N PROVE F[n + 1] = f[n + 1]
      OBVIOUS
    <3>1. CASE n = 0
      <4>1. 1 \in 1..N
        OBVIOUS
      <4>2. F[1] = s[1]
        BY <1>7, <4>1
      <4>3. f[1] = s[1]
        BY <1>5, <4>1
      <4>4. QED
        BY <3>1, <4>2, <4>3
    <3>2. CASE n # 0
      <4>1. n \in 1..N /\ F[n] = f[n] /\ n + 1 # 1 /\ (n + 1) - 1 = n
        BY <2>2, <3>2
      <4>2. F[n + 1] = F[n] \o s[n + 1]
        BY <1>7, <4>1
      <4>3. f[n + 1] = f[n] \o s[n + 1]
        BY <1>5, <4>1
      <4>4. QED
        BY <4>1, <4>2, <4>3
    <3>3. QED
      BY <3>1, <3>2
  <2>3. i \in U
    <3> HIDE DEF U
    <3>1. U \subseteq Nat
      BY DEF U
    <3>2. U = Nat
      BY <2>1, <2>2, <3>1, AllNumbers
    <3>3. QED
      BY <3>2
  <2>4. QED
    BY <2>3
<1>10. Routing!FlattenSeq(s) = f[N]
  BY <1>8, <1>9
<1>11. f[1] = s[1]
  <2>1. 1 \in 1..N
    BY <1>1
  <2>2. QED
    BY <1>5, <2>1
<1>12. ASSUME NEW i \in 1..(N - 1) PROVE f[i + 1] = f[i] \o s[i + 1]
  <2>1. i + 1 \in 1..N /\ i + 1 # 1 /\ (i + 1) - 1 = i
    BY <1>1
  <2>2. QED
    BY <1>5, <2>1
<1>13. \A i \in 1..N : f[i] \in Seq(S)
  BY <1>5
<1>14. Flattening(f, s, S)
  BY <1>10, <1>11, <1>12, <1>13 DEF Flattening, N
<1>15. QED
  BY <1>14

\* The parts that FlattenSeq puts together.
Segments(nest) == [i \in DOMAIN nest |-> nest[i].segs]

\* What a group's prefix, or a route's path, was joined from.
JoinedFrom(p, nest) ==
    /\ p \in Paths /\ nest \in Seq(WellWritten)
    /\ p.segs = Routing!FlattenSeq(Segments(nest))
    /\ p = Routing!Empty <=> \A i \in DOMAIN nest : nest[i] = Routing!Empty

\* A route whose path, with a slash in front, is the one that was meant.
RouteRecords ==
    {r \in [method : STRING, path : Paths, mws : Seq(GroupMws), want : Paths] :
        Routing!Normalize(r.path) = r.want}

EntryRecords ==
    {e \in [method : STRING, path : Paths, mws : Seq(GroupMws), want : Paths] :
        e.path.lead /\ e.path = e.want}

Handlers == [gmw : Seq(GlobalMws), notFound : BOOLEAN, built : BOOLEAN]

\* Each group has the prefix of its nest.
GroupInv ==
    /\ groups \in [Groups -> [prefix : Paths, mws : Seq(GroupMws), nest : Seq(WellWritten),
                              made : BOOLEAN]]
    /\ \A g \in Groups : JoinedFrom(groups[g].prefix, groups[g].nest)

\* The mux has the entries of the listed routes and at most that of the route that
\* is being added.
MuxInv ==
    /\ adding \in Seq(RouteRecords) /\ routes \in Seq(RouteRecords)
    /\ IsFiniteSet(mux) /\ mux \subseteq EntryRecords
    /\ \A i \in DOMAIN routes : Routing!Entry(routes[i]) \in mux
    /\ \A i, j \in DOMAIN routes : Routing!Entry(routes[i]) = Routing!Entry(routes[j]) => i = j
    /\ \/ Len(routes) = Cardinality(mux)
       \/ /\ Len(routes) + 1 = Cardinality(mux) /\ adding # <<>>
          /\ Routing!Entry(Head(adding)) \in mux
          /\ \A i \in DOMAIN routes : Routing!Entry(routes[i]) # Routing!Entry(Head(adding))

\* The handlers are made from what is set.
ServedInv ==
    /\ gmw \in Seq(GlobalMws) /\ notFound \in BOOLEAN
    /\ asked \in Handlers /\ Routing!HandlerFresh

Outcomes == {"none", "route", "custom", "404", "405"}
CallRecords ==
    [at : {"idle", "check", "dispatch", "done"}, pattern : Paths, out : Outcomes,
     ran : Seq(GlobalMws \union GroupMws)]

\* What a call c of r may be.
CallOK(r, c) ==
    /\ c.at # "idle" => served # Routing!NoHandler
    /\ c.at = "check" => asked.notFound
    /\ c.at = "dispatch" /\ asked.notFound => \E e \in mux : Routing!OnPath(e, r)
    /\ c.at \in {"check", "dispatch"} => c.ran = asked.gmw
    /\ c.at # "idle" /\ c.pattern # Routing!Empty => Routing!Matches(r) # {}
    /\ c.at = "done" =>
          /\ Routing!IsPrefix(asked.gmw, c.ran)
          /\ c.out = "route" =>
                \E e \in mux : /\ Routing!OnPath(e, r) /\ Routing!MethodOf(e, r)
                               /\ c.ran = asked.gmw \o e.mws
          /\ c.out # "route" => c.ran = asked.gmw
          /\ c.out = "404" => ~asked.notFound
          /\ c.out = "custom" => asked.notFound /\ c.pattern = Routing!Empty
          /\ c.pattern # Routing!Empty => c.out = "route"

CallInv == call \in [Asked -> CallRecords] /\ \A r \in Asked : CallOK(r, call[r])

RouteInv == GroupInv /\ MuxInv /\ ServedInv /\ CallInv

\* A part that is appended comes last.
LEMMA FlattenAppends ==
    ASSUME NEW S, NEW s \in Seq(Seq(S)), NEW x \in Seq(S)
    PROVE  /\ Routing!FlattenSeq(s) \in Seq(S)
           /\ Routing!FlattenSeq(Append(s, x)) = Routing!FlattenSeq(s) \o x
<1> DEFINE N == Len(s)
           t == Append(s, x)
<1>1. N \in Nat /\ N = Len(s) /\ t \in Seq(Seq(S)) /\ N + 1 = Len(t) /\ N + 1 \in Nat /\ N + 1 > 0
  OBVIOUS
<1>2. t[N + 1] = x /\ \A i \in 1..N : t[i] = s[i]
  OBVIOUS
<1> HIDE DEF t, N
<1>3. PICK g :
         /\ Routing!FlattenSeq(t) = g[N + 1]
         /\ \A i \in 1..(N + 1) : g[i] \in Seq(S)
         /\ g[1] = t[1]
         /\ \A i \in 1..N : g[i + 1] = g[i] \o t[i + 1]
  <2>1. t # <<>> /\ Len(t) = N + 1 /\ Len(t) - 1 = N
    BY <1>1
  <2>2. PICK g : Flattening(g, t, S)
    BY <1>1, <2>1, Flattened
  <2>3. QED
    BY <2>1, <2>2 DEF Flattening
<1>4. CASE N = 0
  <2>1. s = <<>> /\ Routing!FlattenSeq(s) = <<>>
    BY <1>4 DEF N, Routing!FlattenSeq
  <2>2. Routing!FlattenSeq(t) = x
    BY <1>2, <1>3, <1>4
  <2>3. x = <<>> \o x /\ <<>> \in Seq(S)
    OBVIOUS
  <2>4. Routing!FlattenSeq(t) = Routing!FlattenSeq(s) \o x /\ Routing!FlattenSeq(s) \in Seq(S)
    BY <2>1, <2>2, <2>3
  <2>5. QED
    BY <2>4 DEF t
<1>5. CASE N > 0
  <2>1. PICK f :
           /\ Routing!FlattenSeq(s) = f[N]
           /\ \A i \in 1..N : f[i] \in Seq(S)
           /\ f[1] = s[1]
           /\ \A i \in 1..(N - 1) : f[i + 1] = f[i] \o s[i + 1]
    <3>1. s # <<>> /\ Len(s) = N
      BY <1>1, <1>5
    <3>2. PICK f : Flattening(f, s, S)
      BY <3>1, Flattened
    <3>3. QED
      BY <3>1, <3>2 DEF Flattening
  <2> DEFINE T == {n \in Nat : n + 1 \in 1..N => f[n + 1] = g[n + 1]}
  <2>2. 0 \in T
    <3>1. f[1] = g[1]
      BY <1>1, <1>2, <1>3, <1>5, <2>1
    <3>2. QED
      BY <3>1
  <2>3. ASSUME NEW n \in T PROVE n + 1 \in T
    <3> SUFFICES ASSUME n \in Nat, (n + 1) + 1 \in 1..N PROVE f[(n + 1) + 1] = g[(n + 1) + 1]
      OBVIOUS
    <3>1. n + 1 \in 1..(N - 1) /\ n + 1 \in 1..N
      BY <1>1
    <3>2. f[n + 1] = g[n + 1]
      BY <2>3, <3>1
    <3>3. QED
      BY <1>2, <1>3, <2>1, <3>1, <3>2
  <2>4. T = Nat
    <3>1. T \subseteq Nat
      OBVIOUS
    <3> HIDE DEF T
    <3>2. QED
      BY <2>2, <2>3, <3>1, AllNumbers
  <2>5. f[N] = g[N] /\ f[N] \in Seq(S)
    <3>1. N - 1 \in Nat /\ (N - 1) + 1 = N /\ N \in 1..N
      BY <1>1, <1>5
    <3>2. N - 1 \in T
      BY <2>4, <3>1
    <3>3. f[N] = g[N]
      BY <3>1, <3>2
    <3>4. QED
      BY <2>1, <3>1, <3>3
  <2>6. g[N + 1] = g[N] \o x
    <3>1. N \in 1..N
      BY <1>1, <1>5
    <3>2. QED
      BY <1>2, <1>3, <3>1
  <2>7. Routing!FlattenSeq(t) = Routing!FlattenSeq(s) \o x /\ Routing!FlattenSeq(s) \in Seq(S)
    BY <1>3, <2>1, <2>5, <2>6
  <2>8. QED
    BY <2>7 DEF t
<1>6. QED
  BY <1>1, <1>4, <1>5

\* A slash in front changes nothing else of a path.
LEMMA Led ==
    ASSUME NEW r, DOMAIN r = {"lead", "segs", "trail"}
    PROVE  [r EXCEPT !.lead = TRUE] = [lead |-> TRUE, segs |-> r.segs, trail |-> r.trail]
<1> DEFINE e == [r EXCEPT !.lead = TRUE]
<1>1. DOMAIN e = DOMAIN r /\ e = [x \in DOMAIN r |-> IF x = "lead" THEN TRUE ELSE r[x]]
  BY Zenon
<1>2. e["lead"] = TRUE /\ e["segs"] = r.segs /\ e["trail"] = r.trail
  BY <1>1
<1> HIDE DEF e
<1>3. e = [lead |-> TRUE, segs |-> r.segs, trail |-> r.trail]
  BY <1>1, <1>2
<1>4. QED
  BY <1>3 DEF e

\* Group.Group: the prefix is what its parent's and its own join to.
LEMMA JoinKeeps ==
    ASSUME NEW p, NEW nest, JoinedFrom(p, nest), NEW q \in WellWritten
    PROVE  /\ Routing!Join(p, q) \in Paths
           /\ Append(nest, q) \in Seq(WellWritten)
           /\ JoinedFrom(Routing!Join(p, q), Append(nest, q))
<1> DEFINE nest2 == Append(nest, q)
           segs == p.segs \o q.segs
<1>1. /\ q \in Paths /\ p \in Paths /\ nest \in Seq(WellWritten)
      /\ q.segs = <<>> => q.lead = q.trail
  BY DEF JoinedFrom, WellWritten
<1>2. /\ p.segs \in Seq(STRING) /\ q.segs \in Seq(STRING) /\ segs \in Seq(STRING)
      /\ p.trail \in BOOLEAN /\ q.trail \in BOOLEAN
  BY <1>1 DEF Paths
<1>3. nest2 \in Seq(WellWritten)
  BY <1>1
<1>4. Segments(nest) \in Seq(Seq(STRING))
  <2>1. \A i \in DOMAIN nest : nest[i].segs \in Seq(STRING)
    BY <1>1 DEF WellWritten, Paths
  <2>2. QED
    BY <1>1, <2>1 DEF Segments
<1>5. Segments(nest2) = Append(Segments(nest), q.segs)
  BY <1>1, <1>3, <1>4, <1>2 DEF Segments
<1>6. Routing!FlattenSeq(Segments(nest2)) = segs
  BY <1>2, <1>4, <1>5, FlattenAppends DEF JoinedFrom
<1>7. (\A i \in DOMAIN nest2 : nest2[i] = Routing!Empty) <=>
      (\A i \in DOMAIN nest : nest[i] = Routing!Empty) /\ q = Routing!Empty
  <2>1. /\ DOMAIN nest = 1..Len(nest) /\ DOMAIN nest2 = 1..(Len(nest) + 1) /\ Len(nest) \in Nat
        /\ nest2[Len(nest) + 1] = q /\ \A i \in 1..Len(nest) : nest2[i] = nest[i]
    BY <1>1
  <2>2. \A i \in DOMAIN nest2 : i \in DOMAIN nest \/ i = Len(nest) + 1
    BY <2>1
  <2>3. QED
    BY <2>1, <2>2
<1>8. CASE p = Routing!Empty
  <2>1. Routing!Join(p, q) = q /\ segs = q.segs
    <3>1. p.segs = <<>>
      BY <1>8 DEF Routing!Empty, Routing!Path
    <3>2. QED
      BY <1>2, <1>8, <3>1 DEF Routing!Join
  <2>2. QED
    BY <1>1, <1>3, <1>6, <1>7, <1>8, <2>1 DEF JoinedFrom
<1>9. CASE p # Routing!Empty
  <2> DEFINE j == Routing!Join(p, q)
  <2> DEFINE slash == segs = <<>> \/ (q.trail /\ q # Routing!Root)
  <2>1. j = [lead |-> TRUE, segs |-> segs, trail |-> slash] /\ slash \in BOOLEAN
    BY <1>9 DEF Routing!Join, Routing!Path
  <2>2. j \in Paths /\ j.segs = segs /\ j.lead
    <3> HIDE DEF slash, j, segs
    <3>1. QED
      BY <1>2, <2>1 DEF Paths
  <2>3. j # Routing!Empty
    BY <2>2 DEF Routing!Empty, Routing!Path
  <2>4. ~(\A i \in DOMAIN nest : nest[i] = Routing!Empty)
    BY <1>9 DEF JoinedFrom
  <2> HIDE DEF j
  <2>5. QED
    BY <1>3, <1>6, <1>7, <2>2, <2>3, <2>4 DEF JoinedFrom, j
<1>10. QED
  BY <1>8, <1>9

\* What AddRoutes registers is the nesting that was meant.
LEMMA RouteNests ==
    ASSUME NEW p, NEW nest, JoinedFrom(p, nest), NEW q \in WellWritten
    PROVE  /\ Routing!Nested(nest, q) \in Paths
           /\ Routing!Normalize(Routing!Join(p, q)) = Routing!Nested(nest, q)
<1> DEFINE segs == p.segs \o q.segs
           inner == \E i \in DOMAIN nest : nest[i] # Routing!Empty
           j == Routing!Join(p, q)
<1>1. /\ q \in Paths /\ p \in Paths
      /\ q.segs = <<>> => q.lead = q.trail
  BY DEF JoinedFrom, WellWritten
<1>2. /\ p.segs \in Seq(STRING) /\ q.segs \in Seq(STRING) /\ segs \in Seq(STRING)
      /\ q.trail \in BOOLEAN /\ q.lead \in BOOLEAN
      /\ q = [lead |-> q.lead, segs |-> q.segs, trail |-> q.trail]
  <2>1. /\ q \in [lead : BOOLEAN, segs : Seq(STRING), trail : BOOLEAN]
        /\ p \in [lead : BOOLEAN, segs : Seq(STRING), trail : BOOLEAN]
    BY <1>1 DEF Paths
  <2>2. q = [lead |-> q.lead, segs |-> q.segs, trail |-> q.trail]
    BY <2>1, Zenon
  <2>3. QED
    BY <2>1, <2>2
<1>3. inner <=> p # Routing!Empty
  BY DEF JoinedFrom
<1>4. Routing!Nested(nest, q) =
        [lead |-> TRUE, segs |-> segs,
         trail |-> segs = <<>> \/ (q.trail /\ (q = Routing!Root => ~inner))]
  BY DEF Routing!Nested, JoinedFrom, Segments, Routing!Path
<1>5. Routing!Nested(nest, q) \in Paths
  BY <1>2, <1>4 DEF Paths
<1>6. CASE p = Routing!Empty
  <2>1. j = q /\ segs = q.segs /\ ~inner
    <3>1. p.segs = <<>>
      BY <1>6 DEF Routing!Empty, Routing!Path
    <3>2. QED
      BY <1>2, <1>3, <1>6, <3>1 DEF Routing!Join
  <2>2. CASE q = Routing!Empty
    <3>1. q.segs = <<>> /\ Routing!Normalize(j) = [lead |-> TRUE, segs |-> <<>>, trail |-> TRUE]
      BY <2>1, <2>2 DEF Routing!Normalize, Routing!Root, Routing!Empty, Routing!Path
    <3>2. QED
      BY <1>4, <1>5, <2>1, <3>1
  <2>3. CASE q # Routing!Empty
    <3>1. Routing!Normalize(j) = [lead |-> TRUE, segs |-> q.segs, trail |-> q.trail]
      <4>1. Routing!Normalize(j) = [q EXCEPT !.lead = TRUE]
        BY <2>1, <2>3 DEF Routing!Normalize
      <4>2. [q EXCEPT !.lead = TRUE] = [lead |-> TRUE, segs |-> q.segs, trail |-> q.trail]
        <5>1. DOMAIN q = {"lead", "segs", "trail"}
          BY <1>1 DEF Paths
        <5>2. QED
          BY <5>1, Led
      <4>3. QED
        BY <4>1, <4>2
    <3>2. q.segs = <<>> => q.trail
      <4> SUFFICES ASSUME q.segs = <<>>, ~q.trail PROVE q = Routing!Empty
        BY <2>3
      <4>1. q.lead = FALSE /\ q.trail = FALSE
        BY <1>1, <1>2
      <4>2. QED
        BY <1>2, <4>1 DEF Routing!Empty, Routing!Path
    <3>3. q.trail = (segs = <<>> \/ (q.trail /\ (q = Routing!Root => ~inner)))
      BY <1>2, <2>1, <3>2
    <3>4. QED
      BY <1>4, <1>5, <2>1, <3>1, <3>3
  <2>4. QED
    BY <2>2, <2>3
<1>7. CASE p # Routing!Empty
  <2> DEFINE slash == segs = <<>> \/ (q.trail /\ q # Routing!Root)
  <2>1. j = [lead |-> TRUE, segs |-> segs, trail |-> slash]
    BY <1>7 DEF Routing!Join, Routing!Path
  <2>2. j # Routing!Empty /\ Routing!Normalize(j) = [j EXCEPT !.lead = TRUE]
    BY <2>1 DEF Routing!Empty, Routing!Path, Routing!Normalize
  <2>3. [j EXCEPT !.lead = TRUE] = j
    <3> HIDE DEF slash, segs, j
    <3>1. DOMAIN j = {"lead", "segs", "trail"} /\ j.segs = segs /\ j.trail = slash
      BY <2>1
    <3>2. QED
      BY <2>1, <3>1, Led
  <2>4. QED
    BY <1>3, <1>4, <1>5, <1>7, <2>1, <2>2, <2>3
<1>8. QED
  BY <1>6, <1>7

\* A pattern that matches has at most the segments of the request: there is a most
\* specific one.
LEMMA BestMatches ==
    ASSUME MuxInv, NEW r \in Asked, Routing!Matches(r) # {}
    PROVE  Routing!Best(r) \in Routing!Matches(r)
<1> DEFINE L == Len(r.path.segs)
           M == Routing!Matches(r)
<1>1. L \in Nat
  BY RoutesAssumption DEF Paths
<1>2. ASSUME NEW e \in M PROVE Routing!Weight(e) \in Nat /\ Routing!Weight(e) <= 4 * L + 3
  <2>1. e \in EntryRecords /\ Routing!OnPath(e, r)
    BY DEF Routing!Matches, MuxInv
  <2> DEFINE K == Len(e.path.segs)
  <2>2. K \in Nat
    BY <2>1 DEF EntryRecords, Paths
  <2>3. K <= L
    <3>1. CASE e.path.trail
      BY <2>1, <3>1 DEF Routing!OnPath, Routing!IsPrefix
    <3>2. CASE ~e.path.trail
      BY <1>1, <2>1, <3>2 DEF Routing!OnPath
    <3>3. QED
      BY <3>1, <3>2
  <2>4. Routing!Weight(e) =
          4 * K + (IF e.path.trail THEN 0 ELSE 2) + (IF e.method = "*" THEN 0 ELSE 1)
    BY DEF Routing!Weight
  <2> HIDE DEF K, L
  <2>5. QED
    BY <1>1, <2>2, <2>3, <2>4
<1> HIDE DEF L, M
<1> DEFINE T == {n \in Nat : \E e \in M : n = 4 * L + 3 - Routing!Weight(e)}
<1>3. PICK e \in M : TRUE
  BY DEF M
<1>4. \A f \in M : 4 * L + 3 - Routing!Weight(f) \in T
  BY <1>1, <1>2
<1>5. PICK m \in T : \A k \in T : m <= k
  <2>1. T \subseteq Nat /\ T # {}
    BY <1>3, <1>4
  <2> HIDE DEF T
  <2>2. QED
    BY <2>1, LeastOf
<1>6. PICK b \in M : m = 4 * L + 3 - Routing!Weight(b)
  OBVIOUS
<1>7. \A f \in M : Routing!Weight(f) <= Routing!Weight(b)
  BY <1>1, <1>2, <1>4, <1>5, <1>6
<1>8. QED
  BY <1>7 DEF Routing!Best, M

\* Groups are made from the server or from other groups.
LEMMA GroupsStay ==
    ASSUME GroupInv, Routing!Next
    PROVE  GroupInv'
<1>1. CASE UNCHANGED groups
  BY <1>1 DEF GroupInv, JoinedFrom
<1>2. ASSUME NEW g \in Groups, NEW v,
             v \in [prefix : Paths, mws : Seq(GroupMws), nest : Seq(WellWritten), made : BOOLEAN],
             JoinedFrom(v.prefix, v.nest), groups' = [groups EXCEPT ![g] = v]
      PROVE  GroupInv'
  BY <1>2 DEF GroupInv
<1>3. \A S, in : Routing!Unused(S, in) \subseteq S
  BY DEF Routing!Unused
<1>4. ASSUME NEW g \in Groups, NEW p \in Prefixes,
             NEW parent \in {Routing!Server} \union {groups[q] : q \in Groups},
             NEW mws \in {<<>>} \union {<<m>> : m \in Routing!Unused(GroupMws, Routing!GroupLists)},
             Routing!Group(g, parent, p, mws)
      PROVE  GroupInv'
  <2> DEFINE v == [prefix |-> Routing!Join(parent.prefix, p), mws |-> parent.mws \o mws,
                   nest |-> Append(parent.nest, p), made |-> TRUE]
  <2>1. groups' = [groups EXCEPT ![g] = v]
    BY <1>4 DEF Routing!Group
  <2>2. parent.mws \in Seq(GroupMws) /\ JoinedFrom(parent.prefix, parent.nest)
    <3>1. CASE parent = Routing!Server
      <4>1. parent.mws = <<>> /\ parent.nest = <<>> /\ parent.prefix = Routing!Empty
        BY <3>1 DEF Routing!Server, Routing!NoGroup
      <4>2. Segments(<<>>) = <<>> /\ Routing!FlattenSeq(<<>>) = <<>> /\ <<>> \in Seq(STRING)
        BY DEF Segments, Routing!FlattenSeq
      <4>3. Routing!Empty \in Paths /\ Routing!Empty.segs = <<>>
        BY <4>2 DEF Paths, Routing!Empty, Routing!Path
      <4>4. QED
        BY <4>1, <4>2, <4>3 DEF JoinedFrom
    <3>2. CASE parent # Routing!Server
      BY <3>2 DEF GroupInv
    <3>3. QED
      BY <3>1, <3>2
  <2>3. mws \in Seq(GroupMws)
    <3>1. Routing!Unused(GroupMws, Routing!GroupLists) \subseteq GroupMws
      BY <1>3
    <3>2. \A m \in GroupMws : <<m>> \in Seq(GroupMws)
      OBVIOUS
    <3>3. CASE mws = <<>>
      BY <3>3
    <3>4. CASE \E m \in Routing!Unused(GroupMws, Routing!GroupLists) : mws = <<m>>
      BY <3>1, <3>2, <3>4
    <3>5. QED
      BY <3>3, <3>4
  <2>4. p \in WellWritten
    BY RoutesAssumption
  <2>5. v.prefix \in Paths /\ v.nest \in Seq(WellWritten) /\ JoinedFrom(v.prefix, v.nest)
    BY <2>2, <2>4, JoinKeeps
  <2>6. v \in [prefix : Paths, mws : Seq(GroupMws), nest : Seq(WellWritten), made : BOOLEAN]
    BY <2>2, <2>3, <2>5
  <2> HIDE DEF v
  <2>7. QED
    BY <1>2, <2>1, <2>5, <2>6
<1>5. ASSUME NEW g \in Groups, NEW m \in GroupMws, Routing!GroupUse(g, m)
      PROVE  GroupInv'
  <2> DEFINE w == groups[g]
             ms == Append(w.mws, m)
             v == [prefix |-> w.prefix, mws |-> ms, nest |-> w.nest, made |-> w.made]
  <2>1. groups' = [groups EXCEPT ![g] = v]
    <3>1. groups' = [groups EXCEPT ![g] = [w EXCEPT !.mws = ms]]
      BY <1>5 DEF Routing!GroupUse, GroupInv
    <3>2. DOMAIN w = {"prefix", "mws", "nest", "made"}
      BY DEF GroupInv
    <3> HIDE DEF w, ms
    <3>3. [w EXCEPT !.mws = ms] = [x \in DOMAIN w |-> IF x = "mws" THEN ms ELSE w[x]]
      BY Zenon
    <3>4. v = [x \in DOMAIN w |-> IF x = "mws" THEN ms ELSE w[x]]
      BY <3>2
    <3>5. QED
      BY <3>1, <3>3, <3>4
  <2>2. /\ v \in [prefix : Paths, mws : Seq(GroupMws), nest : Seq(WellWritten), made : BOOLEAN]
        /\ v.prefix = groups[g].prefix /\ v.nest = groups[g].nest
    BY DEF GroupInv
  <2>3. JoinedFrom(v.prefix, v.nest)
    BY <2>2 DEF GroupInv
  <2> HIDE DEF v
  <2>4. QED
    BY <1>2, <2>1, <2>2, <2>3
<1>6. QED
  BY <1>1, <1>4, <1>5 DEF Routing!Next, Routing!AddRoutes, Routing!Handle, Routing!List, Routing!Use,
     Routing!SetNotFoundHandler, Routing!Handler, Routing!Start, Routing!Enter, Routing!Check,
     Routing!Dispatch

\* gh is dropped by whatever it was built from, and made from what is there.
LEMMA ServedStays ==
    ASSUME ServedInv, Routing!Next
    PROVE  ServedInv'
<1>1. CASE UNCHANGED <<gmw, notFound, gh, served, asked>>
  BY <1>1 DEF ServedInv, Routing!HandlerFresh, Routing!Chain
<1>2. \A S, in : Routing!Unused(S, in) \subseteq S
  BY DEF Routing!Unused
<1>3. ASSUME NEW m \in GlobalMws, Routing!Use(m) PROVE ServedInv'
  BY <1>3 DEF Routing!Use, ServedInv, Routing!HandlerFresh
<1>4. CASE Routing!SetNotFoundHandler
  BY <1>4 DEF Routing!SetNotFoundHandler, ServedInv, Routing!HandlerFresh
<1>5. ServedInv => Routing!Built = Routing!Chain(gmw, notFound) /\ Routing!Chain(gmw, notFound) \in Handlers
  BY DEF ServedInv, Routing!HandlerFresh, Routing!Built, Routing!Chain, Handlers
<1>6. CASE Routing!Handler
  BY <1>5, <1>6 DEF Routing!Handler, ServedInv, Routing!HandlerFresh, Routing!Chain
<1>7. CASE Routing!Start
  BY <1>5, <1>7 DEF Routing!Start, ServedInv, Routing!HandlerFresh, Routing!Chain
<1>8. QED
  BY <1>1, <1>3, <1>4, <1>6, <1>7 DEF Routing!Next, Routing!Group, Routing!GroupUse,
     Routing!AddRoutes, Routing!Handle, Routing!List, Routing!Enter, Routing!Check, Routing!Dispatch

\* mux.Handle gets the path with a slash in front.
LEMMA EntriesAreRecords ==
    ASSUME NEW r \in RouteRecords
    PROVE  Routing!Entry(r) \in EntryRecords
<1>1. /\ r.method \in STRING /\ r.mws \in Seq(GroupMws) /\ r.want \in Paths
      /\ Routing!Normalize(r.path) = r.want /\ r.path \in Paths
  BY DEF RouteRecords
<1>2. Routing!Normalize(r.path).lead
  <2>1. CASE r.path = Routing!Empty
    BY <2>1 DEF Routing!Normalize, Routing!Root, Routing!Path
  <2>2. CASE r.path # Routing!Empty
    <3>1. DOMAIN r.path = {"lead", "segs", "trail"}
      BY <1>1 DEF Paths
    <3>2. QED
      BY <2>2, <3>1, Led DEF Routing!Normalize
  <2>3. QED
    BY <2>1, <2>2
<1>3. QED
  BY <1>1, <1>2 DEF Routing!Entry, EntryRecords

\* Cardinality and IsFiniteSet of the instance are those of the lemmas.
LEMMA SameCount ==
    \A S : /\ Routing!Cardinality(S) = Cardinality(S)
           /\ Routing!IsFiniteSet(S) <=> IsFiniteSet(S)
BY DEF Routing!Cardinality, Cardinality, Routing!IsFiniteSet, IsFiniteSet

\* A route is registered and then listed, or AddRoutes panics.
LEMMA MuxStays ==
    ASSUME GroupInv, MuxInv, Routing!Next
    PROVE  MuxInv' /\ mux \subseteq mux'
<1>1. CASE UNCHANGED <<mux, routes, adding>>
  BY <1>1 DEF MuxInv, Routing!Entry
<1>2. Len(routes) \in Nat /\ DOMAIN routes = 1..Len(routes) /\ Cardinality(mux) \in Nat
  BY FS_CardinalityType DEF MuxInv
<1>3. ASSUME NEW g \in Groups, NEW rs \in Lists, Routing!AddRoutes(g, rs)
      PROVE  MuxInv' /\ mux \subseteq mux'
  <2> DEFINE route(i) == [method |-> rs[i].method, path |-> Routing!Join(groups[g].prefix, rs[i].path),
                        mws |-> groups[g].mws, want |-> Routing!Nested(groups[g].nest, rs[i].path)]
  <2>1. adding = <<>> /\ adding' = [i \in DOMAIN rs |-> route(i)] /\ mux' = mux /\ routes' = routes
    BY <1>3 DEF Routing!AddRoutes
  <2>2. rs \in Seq([method : STRING, path : WellWritten])
    BY RoutesAssumption
  <2>3. ASSUME NEW i \in DOMAIN rs PROVE route(i) \in RouteRecords
    <3>1. rs[i].method \in STRING /\ rs[i].path \in WellWritten
      <4>1. rs[i] \in [method : STRING, path : WellWritten]
        <5> DEFINE X == [method : STRING, path : WellWritten]
        <5>1. rs \in Seq(X)
          BY <2>2
        <5> HIDE DEF X
        <5>2. rs[i] \in X
          BY <5>1
        <5>3. QED
          BY <5>2 DEF X
      <4>2. QED
        BY <4>1
    <3>2. JoinedFrom(groups[g].prefix, groups[g].nest) /\ groups[g].mws \in Seq(GroupMws)
      BY DEF GroupInv
    <3>3. /\ Routing!Join(groups[g].prefix, rs[i].path) \in Paths
          /\ Routing!Nested(groups[g].nest, rs[i].path) \in Paths
          /\ Routing!Normalize(Routing!Join(groups[g].prefix, rs[i].path))
               = Routing!Nested(groups[g].nest, rs[i].path)
      BY <3>1, <3>2, JoinKeeps, RouteNests
    <3>4. QED
      BY <3>1, <3>2, <3>3 DEF RouteRecords
  <2> HIDE DEF route
  <2>4. adding' \in Seq(RouteRecords)
    BY <2>1, <2>2, <2>3
  <2>5. Len(routes) = Cardinality(mux)
    BY <2>1 DEF MuxInv
  <2>6. QED
    BY <2>1, <2>4, <2>5 DEF MuxInv, Routing!Entry
<1>4. CASE Routing!Handle
  <2> DEFINE r == Head(adding)
             e == Routing!Entry(r)
  <2>1. adding # <<>> /\ Len(routes) = Cardinality(mux) /\ routes' = routes
    BY <1>4, SameCount DEF Routing!Handle
  <2>2. r \in RouteRecords /\ adding \in Seq(RouteRecords)
    BY <2>1 DEF MuxInv
  <2>3. CASE Routing!Duplicate(r)
    <3>1. adding' = <<>> /\ mux' = mux /\ <<>> \in Seq(RouteRecords)
      BY <1>4, <2>3 DEF Routing!Handle
    <3>2. QED
      BY <2>1, <3>1 DEF MuxInv, Routing!Entry
  <2>4. CASE ~Routing!Duplicate(r)
    <3>1. mux' = mux \union {e} /\ adding' = adding
      BY <1>4, <2>4 DEF Routing!Handle
    <3>2. e \notin mux
      BY <2>4 DEF Routing!Duplicate, Routing!Entry
    <3>3. IsFiniteSet(mux') /\ Cardinality(mux') = Cardinality(mux) + 1
      BY <3>1, <3>2, FS_AddElement DEF MuxInv
    <3>4. e \in EntryRecords
      BY <2>2, EntriesAreRecords
    <3>5. \A i \in DOMAIN routes : Routing!Entry(routes[i]) # e
      BY <3>2 DEF MuxInv
    <3> HIDE DEF r
    <3>6. mux' \subseteq EntryRecords
      BY <3>1, <3>4 DEF MuxInv
    <3>7. adding' \in Seq(RouteRecords) /\ routes' \in Seq(RouteRecords)
      BY <2>1, <2>2, <3>1 DEF MuxInv
    <3>8. /\ \A i \in DOMAIN routes' : Routing!Entry(routes'[i]) \in mux'
          /\ \A i, j \in DOMAIN routes' :
                Routing!Entry(routes'[i]) = Routing!Entry(routes'[j]) => i = j
      BY <2>1, <3>1 DEF MuxInv
    <3>9. /\ Len(routes') + 1 = Cardinality(mux') /\ adding' # <<>>
          /\ Routing!Entry(Head(adding')) \in mux'
          /\ \A i \in DOMAIN routes' : Routing!Entry(routes'[i]) # Routing!Entry(Head(adding'))
      BY <2>1, <3>1, <3>3, <3>5 DEF r
    <3>10. mux \subseteq mux'
      BY <3>1
    <3>11. QED
      BY <3>3, <3>6, <3>7, <3>8, <3>9, <3>10 DEF MuxInv, Routing!Entry
  <2>5. QED
    BY <2>3, <2>4
<1>5. CASE Routing!List
  <2> DEFINE r == Head(adding)
             N == Len(routes)
  <2>1. /\ Len(routes) < Cardinality(mux) /\ mux' = mux
        /\ routes' = Append(routes, r) /\ adding' = Tail(adding)
    BY <1>5, SameCount DEF Routing!List
  <2>2. /\ N + 1 = Cardinality(mux) /\ adding # <<>> /\ adding \in Seq(RouteRecords)
        /\ Routing!Entry(r) \in mux
        /\ \A i \in DOMAIN routes : Routing!Entry(routes[i]) # Routing!Entry(r)
    BY <1>2, <2>1 DEF MuxInv
  <2>3. r \in RouteRecords /\ Tail(adding) \in Seq(RouteRecords)
    BY <2>2
  <2> HIDE DEF r
  <2>4. /\ routes' \in Seq(RouteRecords) /\ Len(routes') = N + 1
        /\ DOMAIN routes' = 1..(N + 1) /\ routes'[N + 1] = r
        /\ \A i \in 1..N : routes'[i] = routes[i]
    BY <2>1, <2>3 DEF MuxInv
  <2>5. \A i \in DOMAIN routes' : i \in DOMAIN routes \/ i = N + 1
    BY <1>2, <2>4
  <2> HIDE DEF N
  <2>6. \A i \in DOMAIN routes' : Routing!Entry(routes'[i]) \in mux'
    BY <1>2, <2>1, <2>2, <2>4, <2>5 DEF MuxInv, N
  <2>7. ASSUME NEW i \in DOMAIN routes', NEW j \in DOMAIN routes',
               Routing!Entry(routes'[i]) = Routing!Entry(routes'[j])
        PROVE  i = j
    <3>1. CASE i = N + 1 /\ j = N + 1
      BY <3>1
    <3>2. CASE i = N + 1 /\ j \in DOMAIN routes
      BY <1>2, <2>2, <2>4, <2>7, <3>2 DEF N
    <3>3. CASE j = N + 1 /\ i \in DOMAIN routes
      BY <1>2, <2>2, <2>4, <2>7, <3>3 DEF N
    <3>4. CASE i \in DOMAIN routes /\ j \in DOMAIN routes
      BY <1>2, <2>4, <2>7, <3>4 DEF N, MuxInv
    <3>5. QED
      BY <2>5, <3>1, <3>2, <3>3, <3>4
  <2>8. QED
    BY <2>1, <2>2, <2>3, <2>4, <2>6, <2>7 DEF MuxInv, Routing!Entry
<1>6. QED
  BY <1>1, <1>3, <1>4, <1>5 DEF Routing!Next, Routing!Group, Routing!GroupUse,
     Routing!Use, Routing!SetNotFoundHandler, Routing!Handler, Routing!Start, Routing!Enter,
     Routing!Check, Routing!Dispatch

\* Routes are only added.
LEMMA CallLasts ==
    ASSUME NEW r \in Asked, NEW c, CallOK(r, c), UNCHANGED <<served, asked>>, mux \subseteq mux'
    PROVE  CallOK(r, c)'
<1>1. Routing!Matches(r) \subseteq Routing!Matches(r)'
  BY DEF Routing!Matches, Routing!OnPath, Routing!MethodOf
<1>2. \A e : Routing!OnPath(e, r)' = Routing!OnPath(e, r) /\ Routing!MethodOf(e, r)' = Routing!MethodOf(e, r)
  BY DEF Routing!OnPath, Routing!MethodOf
<1>3. QED
  BY <1>1, <1>2 DEF CallOK

\* The one request makes a step.
LEMMA CallMoves ==
    ASSUME CallInv, UNCHANGED <<served, asked, mux>>, NEW r \in Asked, NEW c \in CallRecords,
           CallOK(r, c), call' = [call EXCEPT ![r] = c]
    PROVE  CallInv'
<1>1. \A q \in Asked : \A d : CallOK(q, d) => CallOK(q, d)'
  BY CallLasts
<1>2. call'[r] = c /\ call' \in [Asked -> CallRecords] /\ \A q \in Asked : q # r => call'[q] = call[q]
  BY DEF CallInv
<1>3. QED
  BY <1>1, <1>2 DEF CallInv

\* A sequence is a prefix of itself and of what it is continued to.
LEMMA PrefixOfLonger ==
    ASSUME NEW S, NEW T, NEW s \in Seq(S), NEW t \in Seq(T)
    PROVE  Routing!IsPrefix(s, s) /\ Routing!IsPrefix(s, s \o t)
BY DEF Routing!IsPrefix

\* A request takes its three steps while routes are being added.
LEMMA CallsStay ==
    ASSUME MuxInv, MuxInv', mux \subseteq mux', ServedInv, CallInv, Routing!Next
    PROVE  CallInv'
<1>1. CASE UNCHANGED <<call, served, asked>>
  BY <1>1, CallLasts DEF CallInv
<1>2. asked.gmw \in Seq(GlobalMws) /\ asked.notFound \in BOOLEAN /\ served = asked
  BY DEF ServedInv, Handlers, Routing!HandlerFresh
<1>3. asked.gmw \in Seq(GlobalMws \union GroupMws)
  BY <1>2
<1>4. CASE Routing!Start
  <2>1. served = Routing!NoHandler /\ call' = call
    BY <1>4 DEF Routing!Start
  <2>2. \A r \in Asked : call'[r].at = "idle"
    BY <2>1 DEF CallInv, CallOK
  <2>3. QED
    BY <2>1, <2>2 DEF CallInv, CallOK
<1>5. ASSUME NEW r \in Asked, Routing!Matches(r) # {}
      PROVE  /\ Routing!Best(r) \in mux /\ Routing!OnPath(Routing!Best(r), r)
             /\ Routing!MethodOf(Routing!Best(r), r) /\ Routing!Best(r).path \in Paths
             /\ Routing!Best(r).mws \in Seq(GroupMws)
  <2>1. Routing!Best(r) \in Routing!Matches(r)
    BY <1>5, BestMatches
  <2>2. QED
    BY <2>1 DEF Routing!Matches, MuxInv, EntryRecords
<1>6. ASSUME NEW r \in Asked, Routing!Enter(r) PROVE CallInv'
  <2> DEFINE c == [at |-> IF served.notFound THEN "check" ELSE "dispatch",
                   pattern |-> IF (served.gmw # <<>> \/ served.notFound) /\ Routing!Matches(r) # {}
                               THEN Routing!Best(r).path ELSE Routing!Empty,
                   out |-> "none", ran |-> served.gmw]
  <2>1. /\ call' = [call EXCEPT ![r] = c] /\ served # Routing!NoHandler
        /\ UNCHANGED <<served, asked, mux>>
    BY <1>6 DEF Routing!Enter
  <2>2. Routing!Empty \in Paths
    BY DEF Routing!Empty, Routing!Path, Paths
  <2>3. /\ c.at = IF asked.notFound THEN "check" ELSE "dispatch"
        /\ c.pattern \in Paths /\ (c.pattern # Routing!Empty => Routing!Matches(r) # {})
        /\ c.out = "none" /\ c.ran = asked.gmw
    BY <1>2, <1>5, <2>2
  <2>4. c \in CallRecords
    BY <1>2, <1>3, <2>3 DEF CallRecords, Outcomes
  <2>5. CallOK(r, c)
    <3> HIDE DEF c
    <3>1. QED
      BY <2>1, <2>3 DEF CallOK
  <2> HIDE DEF c
  <2>6. QED
    BY <2>1, <2>4, <2>5, CallMoves
<1>7. ASSUME NEW r \in Asked, Routing!Check(r) PROVE CallInv'
  <2> DEFINE d == call[r]
             custom == [d EXCEPT !.at = "done", !.out = "custom"]
             on == [d EXCEPT !.at = "dispatch"]
  <2>1. d \in CallRecords /\ CallOK(r, d) /\ d.at = "check"
    BY <1>7 DEF CallInv, Routing!Check
  <2>2. call' = [call EXCEPT ![r] = IF Routing!MuxNotFound(r) THEN custom ELSE on]
    BY <1>7 DEF Routing!Check, CallInv
  <2>3. UNCHANGED <<served, asked, mux>>
    BY <1>7 DEF Routing!Check
  <2>4. d.ran = asked.gmw /\ asked.notFound /\ d.pattern \in Paths
        /\ (d.pattern # Routing!Empty => Routing!Matches(r) # {}) /\ served # Routing!NoHandler
    BY <2>1 DEF CallOK, CallRecords
  <2>5. CASE Routing!MuxNotFound(r)
    <3>1. Routing!Matches(r) = {} /\ call' = [call EXCEPT ![r] = custom]
      BY <2>2, <2>5 DEF Routing!MuxNotFound
    <3>2. /\ custom \in CallRecords /\ custom.at = "done" /\ custom.out = "custom"
          /\ custom.ran = d.ran /\ custom.pattern = d.pattern
      BY <2>1 DEF CallRecords, Outcomes
    <3> HIDE DEF custom
    <3>3. CallOK(r, custom)
      BY <1>2, <2>4, <3>1, <3>2, PrefixOfLonger DEF CallOK
    <3>4. QED
      BY <2>3, <3>1, <3>2, <3>3, CallMoves
  <2>6. CASE ~Routing!MuxNotFound(r)
    <3>1. \E e \in mux : Routing!OnPath(e, r)
      BY <2>6 DEF Routing!MuxNotFound, Routing!NotAllowed, Routing!Matches
    <3>2. call' = [call EXCEPT ![r] = on]
      BY <2>2, <2>6
    <3>3. /\ on \in CallRecords /\ on.at = "dispatch" /\ on.out = d.out
          /\ on.ran = d.ran /\ on.pattern = d.pattern
      BY <2>1 DEF CallRecords
    <3> HIDE DEF on
    <3>4. CallOK(r, on)
      BY <2>4, <3>1, <3>3 DEF CallOK
    <3>5. QED
      BY <2>3, <3>2, <3>3, <3>4, CallMoves
  <2>7. QED
    BY <2>5, <2>6
<1>8. ASSUME NEW r \in Asked, Routing!Dispatch(r) PROVE CallInv'
  <2> DEFINE d == call[r]
             answered == [d EXCEPT !.at = "done", !.out = "route",
                                   !.ran = d.ran \o Routing!Best(r).mws]
             refused == [d EXCEPT !.at = "done",
                                  !.out = IF Routing!NotAllowed(r) THEN "405" ELSE "404"]
  <2>1. d \in CallRecords /\ CallOK(r, d) /\ d.at = "dispatch"
    BY <1>8 DEF CallInv, Routing!Dispatch
  <2>2. call' = [call EXCEPT ![r] = IF Routing!Matches(r) # {} THEN answered ELSE refused]
    <3>1. CASE Routing!Matches(r) # {}
      BY <1>8, <3>1 DEF Routing!Dispatch, CallInv
    <3>2. CASE Routing!Matches(r) = {}
      BY <1>8, <3>2 DEF Routing!Dispatch, CallInv
    <3>3. QED
      BY <3>1, <3>2
  <2>3. UNCHANGED <<served, asked, mux>>
    BY <1>8 DEF Routing!Dispatch
  <2>4. /\ d.ran = asked.gmw /\ d.pattern \in Paths /\ served # Routing!NoHandler
        /\ asked.notFound => \E e \in mux : Routing!OnPath(e, r)
        /\ d.pattern # Routing!Empty => Routing!Matches(r) # {}
    BY <2>1 DEF CallOK, CallRecords
  <2>5. CASE Routing!Matches(r) # {}
    <3>1. call' = [call EXCEPT ![r] = answered]
      BY <2>2, <2>5
    <3>2. d.ran \o Routing!Best(r).mws \in Seq(GlobalMws \union GroupMws)
      <4>1. Routing!Best(r).mws \in Seq(GlobalMws \union GroupMws)
        BY <1>5, <2>5
      <4>2. QED
        BY <1>3, <2>4, <4>1
    <3>3. /\ answered \in CallRecords /\ answered.at = "done" /\ answered.out = "route"
          /\ answered.ran = asked.gmw \o Routing!Best(r).mws /\ answered.pattern = d.pattern
      BY <2>1, <2>4, <3>2 DEF CallRecords, Outcomes
    <3> HIDE DEF answered
    <3>4. CallOK(r, answered)
      <4>1. Routing!IsPrefix(asked.gmw, answered.ran)
        BY <1>2, <1>5, <2>5, <3>3, PrefixOfLonger
      <4>2. QED
        BY <1>5, <2>4, <2>5, <3>3, <4>1 DEF CallOK
    <3>5. QED
      BY <2>3, <3>1, <3>3, <3>4, CallMoves
  <2>6. CASE Routing!Matches(r) = {}
    <3>1. call' = [call EXCEPT ![r] = refused]
      BY <2>2, <2>6
    <3>2. /\ refused \in CallRecords /\ refused.at = "done"
          /\ refused.out = IF Routing!NotAllowed(r) THEN "405" ELSE "404"
          /\ refused.ran = d.ran /\ refused.pattern = d.pattern
      BY <2>1 DEF CallRecords, Outcomes
    <3>3. asked.notFound => Routing!NotAllowed(r)
      BY <2>4, <2>6 DEF Routing!NotAllowed
    <3> HIDE DEF refused
    <3>4. CallOK(r, refused)
      BY <1>2, <2>4, <2>6, <3>2, <3>3, PrefixOfLonger DEF CallOK
    <3>5. QED
      BY <2>3, <3>1, <3>2, <3>4, CallMoves
  <2>7. QED
    BY <2>5, <2>6
<1>9. QED
  BY <1>1, <1>4, <1>6, <1>7, <1>8 DEF Routing!Next, Routing!Group, Routing!GroupUse, Routing!AddRoutes,
     Routing!Handle, Routing!List, Routing!Use, Routing!SetNotFoundHandler, Routing!Handler

\* Nothing is registered, set or asked for.
LEMMA RoutingStarts == Routing!Init => RouteInv
<1> SUFFICES ASSUME Routing!Init PROVE RouteInv
  OBVIOUS
<1>1. GroupInv
  <2>1. /\ Routing!NoGroup.mws = <<>> /\ Routing!NoGroup.nest = <<>> /\ Routing!NoGroup.made = FALSE
        /\ Routing!NoGroup.prefix = Routing!Empty
        /\ DOMAIN Routing!NoGroup = {"prefix", "mws", "nest", "made"}
    BY DEF Routing!NoGroup
  <2>2. /\ Segments(<<>>) = <<>> /\ Routing!FlattenSeq(<<>>) = <<>>
        /\ <<>> \in Seq(STRING) /\ <<>> \in Seq(WellWritten) /\ <<>> \in Seq(GroupMws)
    BY DEF Segments, Routing!FlattenSeq
  <2>3. Routing!Empty \in Paths /\ Routing!Empty.segs = <<>>
    BY <2>2 DEF Paths, Routing!Empty, Routing!Path
  <2>4. JoinedFrom(Routing!Empty, <<>>)
    BY <2>2, <2>3 DEF JoinedFrom
  <2>5. Routing!NoGroup
          \in [prefix : Paths, mws : Seq(GroupMws), nest : Seq(WellWritten), made : BOOLEAN]
    BY <2>2, <2>3 DEF Routing!NoGroup
  <2>6. groups = [g \in Groups |-> Routing!NoGroup]
    BY DEF Routing!Init
  <2>7. QED
    BY <2>1, <2>4, <2>5, <2>6 DEF GroupInv
<1>2. MuxInv
  <2>1. mux = {} /\ routes = <<>> /\ adding = <<>>
    BY DEF Routing!Init
  <2>2. <<>> \in Seq(RouteRecords) /\ Len(<<>>) = 0 /\ DOMAIN <<>> = {}
    OBVIOUS
  <2>3. QED
    BY <2>1, <2>2, FS_EmptySet DEF MuxInv
<1>3. ServedInv
  <2>1. Routing!NoHandler \in Handlers /\ <<>> \in Seq(GlobalMws)
    BY DEF Routing!NoHandler, Handlers
  <2>2. /\ gmw = <<>> /\ notFound = FALSE /\ gh = Routing!NoHandler
        /\ served = Routing!NoHandler /\ asked = Routing!NoHandler
    BY DEF Routing!Init
  <2>3. QED
    BY <2>1, <2>2 DEF ServedInv, Routing!HandlerFresh
<1>4. CallInv
  <2>1. call = [r \in Asked |-> Routing!Idle]
    BY DEF Routing!Init
  <2>2. Routing!Idle \in CallRecords /\ Routing!Idle.at = "idle"
    BY DEF Routing!Idle, CallRecords, Outcomes, Routing!Empty, Routing!Path, Paths
  <2>3. QED
    BY <2>1, <2>2 DEF CallInv, CallOK
<1>5. QED
  BY <1>1, <1>2, <1>3, <1>4 DEF RouteInv

\* Whatever is registered and set in whatever order, and while requests are served: the
\* cached handler (Server.rootHandler) is up to date, the running server has what was
\* set when it started, nested groups join to the path that was meant, middleware runs
\* in order and for the right route, Routes lists what the mux serves, and 404, 405 and
\* the route's template are what the mux makes of the request.
THEOREM RoutingExact == MCSpec => RouterExact
<1> DEFINE mcVars == <<which, vars, sVars, rVars, wVars, tVars>>
           Kept == \A r \in Asked :
                      call[r].at # "done" /\ call'[r].at = "done" /\ Routing!NotAllowed(r)
                         => call'[r].out = "405"
           Exact == /\ Routing!TypeOK /\ Routing!HandlerFresh /\ Routing!PathsNest
                    /\ Routing!RunsInOrder /\ Routing!NotFoundExact /\ Routing!RoutesListed
<1>1. MCInit => RouteInv
  BY RoutingStarts DEF MCInit
<1>2. RouteInv /\ [MCNext]_mcVars => RouteInv'
  <2> SUFFICES ASSUME RouteInv, [MCNext]_mcVars PROVE RouteInv'
    OBVIOUS
  <2>1. CASE Routing!Next
    <3>1. GroupInv' /\ MuxInv' /\ mux \subseteq mux' /\ ServedInv'
      BY <2>1, GroupsStay, MuxStays, ServedStays DEF RouteInv
    <3>2. QED
      BY <2>1, <3>1, CallsStay DEF RouteInv
  <2>2. CASE ~Routing!Next
    <3>1. UNCHANGED rVars
      BY <2>2 DEF MCNext
    <3>2. UNCHANGED <<mux, routes, adding, gmw, notFound, gh, served, asked, groups, call>>
      BY <3>1 DEF rVars
    <3>3. GroupInv' /\ MuxInv'
      BY <3>2 DEF RouteInv, GroupInv, MuxInv, JoinedFrom, Routing!Entry
    <3>4. ServedInv'
      BY <3>2 DEF RouteInv, ServedInv, Routing!HandlerFresh, Routing!Chain
    <3>5. CallInv'
      BY <3>2, CallLasts DEF RouteInv, CallInv
    <3>6. QED
      BY <3>3, <3>4, <3>5 DEF RouteInv
  <2>3. QED
    BY <2>1, <2>2
<1>3. RouteInv => Exact
  <2> SUFFICES ASSUME RouteInv PROVE Exact
    OBVIOUS
  <2>1. Routing!TypeOK /\ Routing!HandlerFresh /\ Routing!PathsNest
    BY DEF RouteInv, ServedInv, MuxInv, CallInv, CallRecords, EntryRecords, Routing!TypeOK,
       Routing!PathsNest
  <2>2. Routing!RunsInOrder /\ Routing!NotFoundExact
    BY DEF RouteInv, CallInv, CallOK, Routing!RunsInOrder, Routing!NotFoundExact
  <2>3. Routing!RoutesListed
    <3>1. Len(routes) \in Nat /\ Cardinality(mux) \in Nat
      BY FS_CardinalityType DEF RouteInv, MuxInv
    <3>2. QED
      BY <3>1, SameCount DEF RouteInv, MuxInv, Routing!RoutesListed
  <2>4. QED
    BY <2>1, <2>2, <2>3
<1>4. RouteInv /\ [MCNext]_mcVars => Kept
  <2> SUFFICES ASSUME RouteInv, [MCNext]_mcVars, NEW r \in Asked, Routing!NotAllowed(r),
                      call[r].at # "done", call'[r].at = "done"
               PROVE  call'[r].out = "405"
    OBVIOUS
  <2>1. call \in [Asked -> CallRecords]
    BY DEF RouteInv, CallInv
  <2>2. PICK q \in Asked : Routing!Enter(q) \/ Routing!Check(q) \/ Routing!Dispatch(q)
    <3>1. call' # call
      OBVIOUS
    <3>2. QED
      BY <3>1 DEF MCNext, rVars, Routing!Next, Routing!Group, Routing!GroupUse, Routing!AddRoutes,
         Routing!Handle, Routing!List, Routing!Use, Routing!SetNotFoundHandler, Routing!Handler,
         Routing!Start
  <2>3. q = r
    BY <2>1, <2>2 DEF Routing!Enter, Routing!Check, Routing!Dispatch
  <2>4. ~Routing!Enter(r)
    <3>1. ASSUME Routing!Enter(r) PROVE call'[r].at # "done"
      BY <2>1, <3>1 DEF Routing!Enter
    <3>2. QED
      BY <3>1
  <2>5. Routing!Matches(r) = {} /\ ~Routing!MuxNotFound(r)
    BY DEF Routing!NotAllowed, Routing!MuxNotFound
  <2>6. ~Routing!Check(r)
    <3>1. ASSUME Routing!Check(r) PROVE call'[r].at # "done"
      BY <2>1, <2>5, <3>1 DEF Routing!Check, CallRecords
    <3>2. QED
      BY <3>1
  <2>7. Routing!Dispatch(r)
    BY <2>2, <2>3, <2>4, <2>6
  <2>8. QED
    BY <2>1, <2>5, <2>7 DEF Routing!Dispatch, CallRecords
<1>5. Kept => [Kept]_Routing!vars
  OBVIOUS
<1>6. QED
  BY <1>1, <1>2, <1>3, <1>4, <1>5, PTL DEF MCSpec, RouterExact, Routing!KeepsNotAllowed

-----------------------------------------------------------------------------
(* Tokens.                                                                  *)

\* How long a token of this type lives.
Lifetime(app, type) == IF type = "refresh" THEN Config[app].refresh ELSE Config[app].access

\* A token has the issuer and the audience of the application that made it, or else of
\* its caller, that application's lifetime, and the business claims of the login.
TokenOK(t) ==
    /\ t.by \in Apps
    /\ t.aud = IF Config[t.by].aud # {} THEN Config[t.by].aud ELSE t.given.aud
    /\ Tokens!Claim(t.claims, "iss") = IF Config[t.by].iss # "" THEN Config[t.by].iss ELSE t.given.iss
    /\ Tokens!extractBusinessClaims(t.claims) = t.root
    /\ Tokens!Claim(t.claims, "token_type") \in {"access", "refresh"}
    /\ t.at \in Nat
    /\ t.exp = Tokens!Unix(t.at + Tokens!Seconds(Lifetime(t.by, Tokens!Claim(t.claims, "token_type"))))

\* The business claims of which a pair is made are those of the login.
LoginOK ==
    /\ login.stage \in {"access", "refresh"} =>
          /\ login.app \in Apps
          /\ Tokens!extractBusinessClaims(login.claims) = login.root

TokenInv ==
    /\ now \in Nat
    /\ \A t \in tokens : TokenOK(t)
    /\ LoginOK
    /\ TokensExact

\* A claim of the standard that is written over others.
LEMMA PutType ==
    ASSUME NEW claims, NEW v
    PROVE  /\ Tokens!extractBusinessClaims(Tokens!Put(claims, "token_type", v))
                 = Tokens!extractBusinessClaims(claims)
           /\ Tokens!Claim(Tokens!Put(claims, "token_type", v), "token_type") = v
           /\ Tokens!Claim(Tokens!Put(claims, "token_type", v), "iss") = Tokens!Claim(claims, "iss")
  BY DEF Tokens!Put, Tokens!Claim, Tokens!extractBusinessClaims, Tokens!standardClaimKeys

LEMMA PutIssuer ==
    ASSUME NEW claims, NEW v
    PROVE  /\ Tokens!extractBusinessClaims(Tokens!Put(claims, "iss", v))
                 = Tokens!extractBusinessClaims(claims)
           /\ Tokens!Claim(Tokens!Put(claims, "iss", v), "iss") = v
           /\ Tokens!Claim(Tokens!Put(claims, "iss", v), "token_type") = Tokens!Claim(claims, "token_type")
  BY DEF Tokens!Put, Tokens!Claim, Tokens!extractBusinessClaims, Tokens!standardClaimKeys

\* Business claims are not claims of the standard.
LEMMA BareClaims ==
    ASSUME NEW claims
    PROVE  Tokens!extractBusinessClaims(Tokens!extractBusinessClaims(claims))
             = Tokens!extractBusinessClaims(claims)
<1> DEFINE c == Tokens!extractBusinessClaims(claims)
<1>1. DOMAIN c = DOMAIN claims \ Tokens!standardClaimKeys
  BY DEF Tokens!extractBusinessClaims
<1>2. \A x \in DOMAIN c : c[x] = claims[x]
  BY DEF Tokens!extractBusinessClaims
<1> HIDE DEF c
<1>3. DOMAIN c \ Tokens!standardClaimKeys = DOMAIN claims \ Tokens!standardClaimKeys
  BY <1>1
<1>4. Tokens!extractBusinessClaims(c) = [x \in DOMAIN claims \ Tokens!standardClaimKeys |-> claims[x]]
  BY <1>1, <1>2, <1>3 DEF Tokens!extractBusinessClaims
<1>5. QED
  BY <1>4 DEF c, Tokens!extractBusinessClaims

\* What GenerateToken makes.
LEMMA MintedOK ==
    ASSUME NEW app \in Apps, NEW claims, NEW aud, NEW root, NEW type \in {"access", "refresh"}, now \in Nat,
           Tokens!extractBusinessClaims(claims) = root
    PROVE  TokenOK(Tokens!GenerateToken(app, Tokens!Put(claims, "token_type", type), aud,
                                        Lifetime(app, type), root))
<1> DEFINE t == Tokens!GenerateToken(app, Tokens!Put(claims, "token_type", type), aud,
                                     Lifetime(app, type), root)
           typed == Tokens!Put(claims, "token_type", type)
<1>1. /\ Tokens!extractBusinessClaims(typed) = Tokens!extractBusinessClaims(claims)
      /\ Tokens!Claim(typed, "token_type") = type
  BY PutType, Zenon
<1>2. /\ Tokens!extractBusinessClaims(typed) = root
      /\ Tokens!Claim(typed, "token_type") = type
  BY <1>1
<1>3. /\ t.by = app /\ t.aud = IF Config[app].aud # {} THEN Config[app].aud ELSE aud
      /\ t.given.iss = Tokens!Claim(typed, "iss") /\ t.given.aud = aud
      /\ t.root = root /\ t.at = now
      /\ t.exp = Tokens!Unix(now + Tokens!Seconds(Lifetime(app, type)))
      /\ t.claims = IF Config[app].iss # "" THEN Tokens!Put(typed, "iss", Config[app].iss) ELSE typed
  BY DEF Tokens!GenerateToken
<1> HIDE DEF t, typed
<1>4. /\ Tokens!extractBusinessClaims(t.claims) = root
      /\ Tokens!Claim(t.claims, "token_type") = type
      /\ Tokens!Claim(t.claims, "iss") = IF Config[app].iss # "" THEN Config[app].iss
                                                               ELSE t.given.iss
  <2>1. CASE Config[app].iss # ""
    <3>1. t.claims = Tokens!Put(typed, "iss", Config[app].iss)
      BY <1>3, <2>1
    <3> DEFINE issued == Tokens!Put(typed, "iss", Config[app].iss)
    <3>2. /\ Tokens!extractBusinessClaims(issued) = Tokens!extractBusinessClaims(typed)
          /\ Tokens!Claim(issued, "iss") = Config[app].iss
          /\ Tokens!Claim(issued, "token_type") = Tokens!Claim(typed, "token_type")
      BY PutIssuer, Zenon
    <3>3. t.claims = issued
      BY <3>1
    <3> HIDE DEF issued
    <3>4. /\ Tokens!extractBusinessClaims(t.claims) = Tokens!extractBusinessClaims(typed)
          /\ Tokens!Claim(t.claims, "iss") = Config[app].iss
          /\ Tokens!Claim(t.claims, "token_type") = Tokens!Claim(typed, "token_type")
      BY <3>2, <3>3
    <3>5. QED
      BY <1>2, <2>1, <3>4
  <2>2. CASE Config[app].iss = ""
    <3>1. t.claims = typed
      BY <1>3, <2>2
    <3>2. t.given.iss = Tokens!Claim(typed, "iss")
      BY <1>3
    <3>3. QED
      BY <1>2, <2>2, <3>1, <3>2
  <2>3. QED
    BY <2>1, <2>2
<1>5. t.aud = IF Config[t.by].aud # {} THEN Config[t.by].aud ELSE t.given.aud
  <2>1. t.given.aud = aud
    BY <1>3
  <2>2. QED
    BY <1>3, <2>1
<1>6. t.by \in Apps /\ Config[t.by] = Config[app] /\ t.root = root /\ t.at \in Nat
  BY <1>3
<1>7. t.exp = Tokens!Unix(t.at + Tokens!Seconds(Lifetime(t.by, Tokens!Claim(t.claims, "token_type"))))
  BY <1>3, <1>4
<1>8. TokenOK(t)
  BY <1>4, <1>5, <1>6, <1>7 DEF TokenOK
<1>9. QED
  BY <1>8 DEF t, typed

\* An issuer and an audience that are configured are the token's own, as it got them.
ForMe(app, t) ==
    /\ Config[app].iss # "" =>
          Config[app].iss = IF Config[t.by].iss # "" THEN Config[t.by].iss ELSE t.given.iss
    /\ Config[app].aud # {} =>
          Config[app].aud \cap (IF Config[t.by].aud # {} THEN Config[t.by].aud ELSE t.given.aud) # {}

\* What ParseToken has accepted, or found to be expired.
LEMMA ParsedToken ==
    ASSUME NEW app \in Apps, NEW t, TokenOK(t), now \in Nat, NEW type \in {"access", "refresh"}
    PROVE  /\ Tokens!ParseTyped(app, t, type) = "ok" =>
                 /\ Tokens!Claim(t.claims, "token_type") = type
                 /\ now - t.at < Tokens!Seconds(Lifetime(t.by, type))
                 /\ ForMe(app, t)
           /\ Tokens!ParseTyped(app, t, type) = "expired" =>
                 now - t.at > Tokens!Seconds(Lifetime(t.by, Tokens!Claim(t.claims, "token_type"))) - 2
<1> DEFINE own == Tokens!Claim(t.claims, "token_type")
           life == Lifetime(t.by, own)
<1>1. life \in Nat
  BY TokensAssumption DEF TokenOK, Lifetime
<1>2. t.at \in Nat /\ t.exp = (t.at + 2 * life) \div 2
  BY DEF TokenOK, Tokens!Unix, Tokens!Seconds
<1> HIDE DEF life, own
<1>3. t.exp \in Nat /\ 2 * t.exp <= t.at + 2 * life /\ 2 * t.exp > t.at + 2 * life - 2
  BY <1>1, <1>2
<1>4. ASSUME Tokens!ParseTyped(app, t, type) = "ok"
      PROVE  own = type /\ Tokens!ParseToken(app, t) = "ok"
  BY <1>4 DEF Tokens!ParseTyped, own
<1>5. ASSUME Tokens!ParseToken(app, t) = "ok"
      PROVE  /\ now < 2 * t.exp
             /\ Tokens!ForUs(app, t)
  <2>1. ~Tokens!Expired(t) /\ Tokens!ForUs(app, t)
    BY <1>5 DEF Tokens!ParseToken
  <2>2. QED
    BY <1>3, <2>1 DEF Tokens!Expired, Tokens!Seconds
<1>6. ASSUME Tokens!ParseTyped(app, t, type) = "expired" PROVE now >= 2 * t.exp
  <2>1. Tokens!Expired(t)
    BY <1>6 DEF Tokens!ParseTyped, Tokens!ParseToken
  <2>2. QED
    BY <2>1 DEF Tokens!Expired, Tokens!Seconds
<1>7. ASSUME Tokens!ForUs(app, t) PROVE ForMe(app, t)
  BY <1>7 DEF Tokens!ForUs, TokenOK, ForMe
<1>8. QED
  <2>1. ASSUME Tokens!ParseTyped(app, t, type) = "ok" PROVE now - t.at < 2 * Lifetime(t.by, type)
    <3>1. own = type /\ now < 2 * t.exp
      BY <1>4, <1>5, <2>1
    <3>2. life = Lifetime(t.by, type)
      BY <3>1 DEF life
    <3>3. QED
      BY <1>1, <1>2, <1>3, <3>1, <3>2
  <2>2. ASSUME Tokens!ParseTyped(app, t, type) = "expired" PROVE now - t.at > 2 * life - 2
    BY <1>1, <1>2, <1>3, <1>6, <2>2
  <2>3. QED
    BY <1>4, <1>5, <1>7, <2>1, <2>2 DEF life, own, Tokens!Seconds

LEMMA TokensStart == Tokens!JInit => TokenInv
  BY DEF Tokens!JInit, TokenInv, LoginOK, Tokens!Idle, TokensExact, Tokens!TokensExact, Tokens!SessionKept,
     Tokens!LifetimeExact, Tokens!Accepted, Tokens!NoRequest

LEMMA TokensStay == TokenInv /\ Tokens!JNext => TokenInv'
<1> SUFFICES ASSUME TokenInv, Tokens!JNext PROVE TokenInv'
  OBVIOUS
<1>0. now \in Nat /\ LoginOK /\ \A t \in tokens : TokenOK(t)
  BY DEF TokenInv
<1>n. ASSUME answer' = Tokens!NoRequest PROVE TokensExact'
  BY <1>n DEF TokensExact, Tokens!TokensExact, Tokens!SessionKept,
     Tokens!LifetimeExact, Tokens!Accepted, Tokens!NoRequest
<1>l. ASSUME UNCHANGED login PROVE LoginOK'
  BY <1>0, <1>l DEF LoginOK
<1>1. ASSUME NEW app \in Apps, Tokens!Login(app) PROVE TokenInv'
  <2>1. PICK claims, aud : /\ Tokens!Begin(app, claims, aud, Tokens!extractBusinessClaims(claims))
                           /\ answer' = Tokens!NoRequest
    BY <1>1 DEF Tokens!Login
  <2>2. LoginOK'
    BY <2>1 DEF Tokens!Begin, LoginOK
  <2>3. QED
    BY <1>0, <1>n, <2>1, <2>2 DEF Tokens!Begin, TokenInv
<1>2. ASSUME NEW app \in Apps, Tokens!Refresh(app) PROVE TokenInv'
  <2>1. PICK t \in tokens :
           LET r == Tokens!ParseTyped(app, t, "refresh")
           IN  IF r = "ok"
               THEN /\ Tokens!Begin(app, Tokens!extractBusinessClaims(t.claims), {}, t.root)
                    /\ answer' = [by |-> app, result |-> "refreshed", token |-> t, now |-> now]
               ELSE answer' = Tokens!NoRequest /\ UNCHANGED <<now, tokens, login, pair>>
    BY <1>2 DEF Tokens!Refresh
  <2>2. TokenOK(t)
    BY <1>0
  <2>3. CASE Tokens!ParseTyped(app, t, "refresh") = "ok"
    <3>1. /\ Tokens!Begin(app, Tokens!extractBusinessClaims(t.claims), {}, t.root)
          /\ answer' = [by |-> app, result |-> "refreshed", token |-> t, now |-> now]
      BY <2>1, <2>3
    <3>2. LoginOK'
      BY <2>2, <3>1, BareClaims DEF Tokens!Begin, LoginOK, TokenOK
    <3>3. TokensExact'
      BY <1>0, <2>2, <2>3, <3>1, ParsedToken DEF ForMe, TokensExact, Tokens!TokensExact, Tokens!SessionKept,
         Tokens!LifetimeExact, Tokens!Accepted, Lifetime
    <3>4. QED
      BY <1>0, <3>1, <3>2, <3>3 DEF Tokens!Begin, TokenInv
  <2>4. CASE Tokens!ParseTyped(app, t, "refresh") # "ok"
    <3>1. answer' = Tokens!NoRequest /\ UNCHANGED <<now, tokens, login, pair>>
      BY <2>1, <2>4
    <3>2. QED
      BY <1>0, <1>l, <1>n, <3>1 DEF TokenInv
  <2>5. QED
    BY <2>3, <2>4
<1>3. ASSUME NEW app \in Apps, Tokens!Request(app) PROVE TokenInv'
  <2>1. UNCHANGED <<now, tokens, login, pair>>
    BY <1>3 DEF Tokens!Request
  <2>2. CASE answer' = Tokens!NoToken
    <3>1. TokensExact'
      BY <2>2 DEF TokensExact, Tokens!TokensExact, Tokens!SessionKept, Tokens!LifetimeExact,
         Tokens!Accepted, Tokens!NoToken
    <3>2. QED
      BY <1>0, <1>l, <2>1, <3>1 DEF TokenInv
  <2>3. CASE answer' # Tokens!NoToken
    <3> DEFINE r(t) == Tokens!ParseTyped(app, t, "access")
    <3>1. PICK t \in tokens :
             answer' = [by |-> app, token |-> t, now |-> now,
                        result |-> IF r(t) = "ok" THEN "handled" ELSE r(t),
                        context |-> IF r(t) = "ok" THEN Tokens!extractBusinessClaims(t.claims) ELSE <<>>]
      BY <1>3, <2>3 DEF Tokens!Request
    <3>2. TokenOK(t)
      BY <1>0
    <3>3. r(t) \in {"ok", "invalid", "expired"}
      BY DEF Tokens!ParseTyped, Tokens!ParseToken
    <3> HIDE DEF r
    <3>4. CASE r(t) = "ok"
      <4>1. TokensExact'
        BY <1>0, <3>1, <3>2, <3>4, ParsedToken DEF r, ForMe, TokensExact, Tokens!TokensExact, Tokens!SessionKept,
           Tokens!LifetimeExact, Tokens!Accepted, Lifetime, TokenOK
      <4>2. QED
        BY <1>0, <1>l, <2>1, <4>1 DEF TokenInv
    <3>5. CASE r(t) # "ok"
      <4>1. TokensExact'
        BY <1>0, <3>1, <3>2, <3>3, <3>5, ParsedToken DEF r, ForMe, TokensExact, Tokens!TokensExact, Tokens!SessionKept,
           Tokens!LifetimeExact, Tokens!Accepted, Lifetime
      <4>2. QED
        BY <1>0, <1>l, <2>1, <4>1 DEF TokenInv
    <3>6. QED
      BY <3>4, <3>5
  <2>4. QED
    BY <2>2, <2>3
<1>4. ASSUME Tokens!MintAccess PROVE TokenInv'
  <2> DEFINE t == Tokens!GenerateAccessToken(login.app, login.claims, login.aud, login.root)
  <2>1. /\ login.app \in Apps
        /\ Tokens!extractBusinessClaims(login.claims) = login.root
    BY <1>0, <1>4 DEF LoginOK, Tokens!MintAccess
  <2>2. t = Tokens!GenerateToken(login.app, Tokens!Put(login.claims, "token_type", "access"),
                                 login.aud, Lifetime(login.app, "access"), login.root)
    BY DEF Tokens!GenerateAccessToken, Lifetime
  <2>3. TokenOK(t)
    BY <1>0, <2>1, <2>2, MintedOK
  <2> HIDE DEF t
  <2>4. /\ tokens' = tokens \cup {t} /\ answer' = Tokens!NoRequest /\ UNCHANGED now
        /\ login' = [stage |-> "refresh", app |-> login.app, claims |-> login.claims,
                     aud |-> login.aud, root |-> login.root, access |-> t]
    BY <1>4 DEF Tokens!MintAccess, t
  <2>5. LoginOK'
    BY <2>1, <2>4 DEF LoginOK
  <2>6. QED
    BY <1>0, <1>n, <2>3, <2>4, <2>5 DEF TokenInv
<1>5. ASSUME Tokens!MintRefresh PROVE TokenInv'
  <2> DEFINE t == Tokens!GenerateRefreshToken(login.app, login.claims, login.aud, login.root)
  <2>1. /\ login.app \in Apps
        /\ Tokens!extractBusinessClaims(login.claims) = login.root
    BY <1>0, <1>5 DEF LoginOK, Tokens!MintRefresh
  <2>2. t = Tokens!GenerateToken(login.app, Tokens!Put(login.claims, "token_type", "refresh"),
                                 login.aud, Lifetime(login.app, "refresh"), login.root)
    BY DEF Tokens!GenerateRefreshToken, Lifetime
  <2>3. TokenOK(t)
    BY <1>0, <2>1, <2>2, MintedOK
  <2> HIDE DEF t
  <2>4. /\ tokens' = tokens \cup {t} /\ answer' = Tokens!NoRequest /\ UNCHANGED now
        /\ login' = [stage |-> "return", app |-> login.app, access |-> login.access]
    BY <1>5 DEF Tokens!MintRefresh, t
  <2>5. LoginOK'
    BY <2>4 DEF LoginOK
  <2>6. QED
    BY <1>0, <1>n, <2>3, <2>4, <2>5 DEF TokenInv
<1>6. ASSUME Tokens!Return PROVE TokenInv'
  <2>1. LoginOK'
    BY <1>6 DEF Tokens!Return, Tokens!Idle, LoginOK
  <2>2. QED
    BY <1>0, <1>6, <1>n, <2>1 DEF Tokens!Return, TokenInv
<1>7. ASSUME Tokens!Tick PROVE TokenInv'
  BY <1>0, <1>7, <1>l, <1>n DEF Tokens!Tick, TokenInv
<1>8. QED
  BY <1>1, <1>2, <1>3, <1>4, <1>5, <1>6, <1>7 DEF Tokens!JNext

\* However often a session is refreshed, and by whichever of the applications that share
\* a secret, and whatever issuer and audience callers write into their claims: a handler
\* sees the business claims of the login; an application with an issuer accepts only tokens
\* of applications with that issuer, or of ones without any whose caller wrote it into this
\* very token, no refreshed one; the same for audiences; and a token is accepted for its
\* lifetime and its purpose (JWT.GenerateToken, ParseToken, RefreshToken, AuthMiddleware).
THEOREM TokensHonest == MCSpec => []TokensExact
<1>1. MCInit => TokenInv
  BY TokensStart DEF MCInit
<1>2. TokenInv /\ [MCNext]_<<which, vars, sVars, rVars, wVars, tVars>> => TokenInv'
  <2> SUFFICES ASSUME TokenInv, [MCNext]_<<which, vars, sVars, rVars, wVars, tVars>> PROVE TokenInv'
    OBVIOUS
  <2>1. CASE Tokens!JNext
    BY <2>1, TokensStay
  <2>2. CASE ~Tokens!JNext
    <3>1. UNCHANGED <<now, tokens, login, pair, answer>>
      BY <2>2 DEF MCNext, tVars
    <3>2. QED
      BY <3>1 DEF TokenInv, LoginOK, TokensExact, Tokens!TokensExact, Tokens!SessionKept,
         Tokens!LifetimeExact, Tokens!Accepted
  <2>3. QED
    BY <2>1, <2>2
<1>3. TokenInv => TokensExact
  BY DEF TokenInv
<1>4. QED
  BY <1>1, <1>2, <1>3, PTL DEF MCSpec

-----------------------------------------------------------------------------
(* A request on its way inwards. *)

\* Of the layers that the request has passed on its way to layer k, and of the others.
Passed(l, k) == Stack!Has(l) /\ Stack!Depth(l) < k
Ahead(l, k) == Stack!Has(l) /\ Stack!Depth(l) >= k
Zipped(k) == zip /\ Ahead("gunzip", k)
Encrypted(k) == Ahead("cryption", k)
GunzipFirst == Stack!Depth("gunzip") < Stack!Depth("cryption")

Encs(es) == Len(body) = Len(es) /\ \A i \in 1..Len(es) : body[i].enc = es[i]

\* The body has the encodings that the layers ahead undo, or something else in the
\* place of one of them; the outer form is big if what it encodes is, unless gzipped.
BodyInv(k) ==
    /\ body \in Seq([enc : {"gzip", "cipher", "plain", "junk"}, big : BOOLEAN])
    /\ \A i \in 1..(Len(body) - 1) :
          body[i].enc # "gzip" /\ body[i + 1].big => body[i].big
    /\ \/ body = <<>>
       \/ ~Zipped(k) /\ ~Encrypted(k) /\ Encs(<<"plain">>)
       \/ (Zipped(k) \/ Encrypted(k)) /\ Encs(<<"junk">>)
       \/ Zipped(k) /\ ~Encrypted(k) /\ Encs(<<"gzip", "plain">>)
       \/ ~Zipped(k) /\ Encrypted(k) /\ Encs(<<"cipher", "plain">>)
       \/ /\ Zipped(k) /\ Encrypted(k) /\ GunzipFirst
          /\ Encs(<<"gzip", "junk">>) \/ Encs(<<"gzip", "cipher", "plain">>)
       \/ /\ Zipped(k) /\ Encrypted(k) /\ ~GunzipFirst
          /\ Encs(<<"cipher", "junk">>) \/ Encs(<<"cipher", "gzip", "plain">>)

SentZipped == \E i \in DOMAIN req.body : req.body[i].enc = "gzip"

\* Whatever has been passed has done its part.
Inward(k) ==
    /\ BodyInv(k)
    /\ SentZipped => Stack!Has("gunzip") /\ (Ahead("gunzip", k) => zip)
    /\ (\/ Passed("maxbytes", k) \/ Passed("contentsec", k) \/ Passed("cryption", k)
        \/ SentZipped /\ Passed("gunzip", k)) => fails \/ ~Stack!Big
    /\ Passed("contentsec", k) => req.sig = "good"

\* No layer is about to be entered.
NoEntry ==
    \E S : /\ todo \in Seq(S)
           /\ \A x \in S : "do" \in DOMAIN x /\ x.do # "enter"

Handler == Len(order) + 1

InboundInv ==
    /\ order \in Orders
    /\ req.sig \in {"none", "late", "forged", "good"}
    /\ fails \in BOOLEAN /\ zip \in BOOLEAN /\ inside \in BOOLEAN
    /\ \/ \E k \in 1..Handler : todo = <<Stack!Enter(k)>> /\ ~inside /\ Inward(k)
       \/ NoEntry /\ (inside => Inward(Handler))

\* The stack, and where its layers are.
LEMMA StackIs ==
    ASSUME order \in Orders
    PROVE  /\ order \in Seq(Layers) /\ Len(order) \in Nat
           /\ \A l : Stack!Has(l) => Stack!Depth(l) \in 1..Len(order) /\ order[Stack!Depth(l)] = l
           /\ \A k \in 1..Len(order) : Stack!Has(order[k]) /\ Stack!Depth(order[k]) = k
<1>1. /\ order \in Seq(Layers) /\ Len(order) \in Nat /\ DOMAIN order = 1..Len(order)
      /\ \A i, j \in DOMAIN order : order[i] = order[j] => i = j
  BY StacksAssumption
<1>2. \A l : Stack!Has(l) <=> \E i \in DOMAIN order : order[i] = l
  BY DEF Stack!Has, Stack!ToSet
<1>3. \A l : Stack!Has(l) => Stack!Depth(l) \in DOMAIN order /\ order[Stack!Depth(l)] = l
  BY <1>2 DEF Stack!Depth
<1>4. ASSUME NEW k \in 1..Len(order)
      PROVE  Stack!Has(order[k]) /\ Stack!Depth(order[k]) = k
  <2>1. Stack!Has(order[k])
    BY <1>1, <1>2
  <2>2. Stack!Depth(order[k]) \in DOMAIN order /\ order[Stack!Depth(order[k])] = order[k]
    BY <1>3, <2>1
  <2>3. QED
    BY <1>1, <2>1, <2>2
<1>5. QED
  BY <1>1, <1>3, <1>4

LEMMA LayerIs ==
    ASSUME order \in Orders, NEW k \in 1..Handler, todo = <<Stack!Enter(k)>>
    PROVE  /\ todo # <<>> /\ Stack!Call.do = "enter" /\ Stack!Call.at = k
           /\ Tail(todo) = <<>>
           /\ k <= Len(order) => Stack!Layer = order[k]
           /\ k = Handler => Stack!Layer = "handler"
<1>1. order \in Seq(Layers) /\ Len(order) \in Nat /\ k \in 1..(Len(order) + 1)
  BY StackIs DEF Handler
<1>2. Stack!Call = [at |-> k, do |-> "enter"]
  BY DEF Stack!Call, Stack!Enter
<1>3. todo # <<>> /\ Tail(todo) = <<>>
  OBVIOUS
<1>4. Stack!Layer = (<<"wire">> \o order \o <<"handler">>)[k + 1]
  BY <1>2 DEF Stack!Layer
<1> DEFINE s == <<"wire">> \o order
<1>5. s \in Seq(Layers \union {"wire"}) /\ Len(s) = Len(order) + 1
      /\ (k <= Len(order) => s[k + 1] = order[k])
  BY <1>1
<1>6. k <= Len(order) => (s \o <<"handler">>)[k + 1] = s[k + 1]
  BY <1>1, <1>5
<1>7. k = Len(order) + 1 => (s \o <<"handler">>)[k + 1] = "handler"
  BY <1>1, <1>5
<1>8. QED
  BY <1>1, <1>2, <1>3, <1>4, <1>5, <1>6, <1>7 DEF Handler

\* One layer further.
LEMMA OneFurther ==
    ASSUME order \in Orders, NEW k \in 1..Len(order), NEW l
    PROVE  /\ l # order[k] => (Passed(l, k + 1) <=> Passed(l, k)) /\ (Ahead(l, k + 1) <=> Ahead(l, k))
           /\ l = order[k] => Passed(l, k + 1) /\ ~Passed(l, k) /\ Ahead(l, k) /\ ~Ahead(l, k + 1)
<1>1. Len(order) \in Nat
      /\ (Stack!Has(l) => Stack!Depth(l) \in 1..Len(order) /\ order[Stack!Depth(l)] = l)
      /\ Stack!Has(order[k]) /\ Stack!Depth(order[k]) = k
  BY StackIs
<1>2. QED
  BY <1>1 DEF Passed, Ahead

\* Calls that enter no layer.
Quiet(S) == \A x \in S : "do" \in DOMAIN x /\ x.do # "enter"

\* What a call is replaced by enters no layer either.
LEMMA StaysQuiet ==
    ASSUME NoEntry, todo # <<>>, NEW cs, NEW T, cs \in Seq(T), Quiet(T), Stack!Do(cs)
    PROVE  NoEntry'
<1>1. PICK S : todo \in Seq(S) /\ Quiet(S)
  BY DEF NoEntry, Quiet
<1>2. todo' = cs \o Tail(todo)
  BY DEF Stack!Do
<1>3. Tail(todo) \in Seq(S \union T) /\ cs \in Seq(S \union T)
  BY <1>1
<1>4. todo' \in Seq(S \union T) /\ Quiet(S \union T)
  BY <1>1, <1>2, <1>3 DEF Quiet
<1>5. QED
  BY <1>4 DEF NoEntry, Quiet

LEMMA QuietCalls ==
    /\ \A i, x : Quiet({Stack!Header(i, x)}) /\ Quiet({Stack!Write(i, x)})
    /\ \A i : Quiet({Stack!Flush(i)}) /\ Quiet({Stack!Return(i)}) /\ Quiet({Stack!Panic(i)})
BY DEF Quiet, Stack!Header, Stack!Write, Stack!Flush, Stack!Return, Stack!Panic

LEMMA CallIsQuiet ==
    ASSUME NoEntry, todo # <<>>
    PROVE  Stack!Call.do # "enter" /\ "do" \in DOMAIN Stack!Call
<1>1. PICK S : todo \in Seq(S) /\ Quiet(S)
  BY DEF NoEntry, Quiet
<1>2. Head(todo) \in S
  BY <1>1
<1>3. QED
  BY <1>1, <1>2 DEF Quiet, Stack!Call

LEMMA OutwardsStaysQuiet == NoEntry /\ todo # <<>> /\ Stack!Outwards => NoEntry'
<1> SUFFICES ASSUME NoEntry, todo # <<>>, Stack!Outwards PROVE NoEntry'
  OBVIOUS
<1> DEFINE x == [Stack!Call EXCEPT !.at = @ - 1]
<1>1. "do" \in DOMAIN x /\ x.do # "enter"
  BY CallIsQuiet
<1>2. Stack!Do(<<x>>)
  BY DEF Stack!Outwards
<1> HIDE DEF x
<1>3. Quiet({x}) /\ <<x>> \in Seq({x})
  BY <1>1 DEF Quiet
<1>4. QED
  BY <1>2, <1>3, StaysQuiet

LEMMA NothingStaysQuiet == NoEntry /\ todo # <<>> /\ Stack!Do(<<>>) => NoEntry'
<1>1. <<>> \in Seq({}) /\ Quiet({})
  BY DEF Quiet
<1>2. QED
  BY <1>1, StaysQuiet

LEMMA RefuseStaysQuiet ==
    ASSUME NEW x, Stack!Refuse(x), (NoEntry /\ todo # <<>>) \/ Tail(todo) = <<>>
    PROVE  NoEntry'
<1> DEFINE i == Stack!Call.at - 1
           T == {Stack!Header(i, x)} \union {Stack!Write(i, Stack!ErrorBody)}
                \union {Stack!Return(i)}
           cs == <<Stack!Header(i, x), Stack!Write(i, Stack!ErrorBody)>> \o <<Stack!Return(i)>>
<1>1. Quiet(T)
  BY QuietCalls DEF Quiet
<1>2. Stack!Do(cs)
  BY DEF Stack!Refuse, Stack!WriteError
<1>3. cs \in Seq(T)
  OBVIOUS
<1> HIDE DEF T, cs
<1>4. CASE NoEntry /\ todo # <<>>
  BY <1>1, <1>2, <1>3, <1>4, StaysQuiet
<1>5. CASE Tail(todo) = <<>>
  <2>1. todo' \in Seq(T)
    <3>1. todo' = cs \o <<>>
      BY <1>2, <1>5, Zenon DEF Stack!Do
    <3>2. <<>> \in Seq(T)
      OBVIOUS
    <3>3. QED
      BY <1>3, <3>1, <3>2
  <2>2. QED
    BY <1>1, <2>1 DEF NoEntry, Quiet
<1>6. QED
  BY <1>4, <1>5

\* Outwards nothing of the request changes.
Outward ==
    /\ UNCHANGED <<order, keyOK, req, body, fails, sized, zip>>
    /\ inside' = inside \/ ~inside'

LEMMA OutwardKeeps ==
    ASSUME InboundInv, NoEntry, NoEntry', inside' \in BOOLEAN, Outward
    PROVE  InboundInv'
<1>1. inside => Inward(Handler)
  <2>1. ASSUME NEW k, todo = <<Stack!Enter(k)>> PROVE FALSE
    <3>1. todo # <<>> /\ Stack!Call = [at |-> k, do |-> "enter"]
      BY <2>1 DEF Stack!Call, Stack!Enter
    <3>2. QED
      BY <3>1, CallIsQuiet
  <2>2. QED
    BY <2>1 DEF InboundInv
<1>2. inside' => inside
  BY DEF Outward, InboundInv
<1>3. Inward(Handler) => Inward(Handler)'
  BY DEF Outward, Inward, BodyInv, Encs, Zipped, Encrypted, Ahead, Passed, GunzipFirst,
         SentZipped, Handler, Stack!Has, Stack!Depth, Stack!ToSet, Stack!Big
<1>4. QED
  BY <1>1, <1>2, <1>3 DEF InboundInv, Outward

-----------------------------------------------------------------------------

LEMMA BodyKept ==
    ASSUME order \in Orders, NEW k \in 1..Len(order), order[k] # "cryption",
           order[k] = "gunzip" => ~zip,
           BodyInv(k), UNCHANGED <<order, body, zip>>
    PROVE  BodyInv(k + 1)'
<1>1. (Zipped(k + 1)' <=> Zipped(k)) /\ (Encrypted(k + 1)' <=> Encrypted(k))
  <2>1. (Ahead("gunzip", k + 1)' <=> Ahead("gunzip", k + 1))
        /\ (Ahead("cryption", k + 1)' <=> Ahead("cryption", k + 1))
    BY DEF Ahead, Stack!Has, Stack!Depth, Stack!ToSet
  <2>2. QED
    BY <2>1, OneFurther DEF Zipped, Encrypted
<1>2. (GunzipFirst' <=> GunzipFirst) /\ \A es : Encs(es)' <=> Encs(es)
  BY DEF GunzipFirst, Stack!Depth, Encs
<1>3. QED
  BY <1>1, <1>2 DEF BodyInv

LEMMA Bodies ==
    ASSUME NEW k, BodyInv(k)
    PROVE  /\ Len(body) \in Nat
           /\ body # <<>> => Len(body) >= 1 /\ Head(body) = body[1] /\ body[1].big \in BOOLEAN
           /\ Len(body) >= 2 => /\ Tail(body) # <<>> /\ Head(Tail(body)) = body[2]
                                /\ Len(Tail(body)) = Len(body) - 1
                                /\ \A i \in 1..(Len(body) - 1) : Tail(body)[i] = body[i + 1]
           /\ Tail(body) \in Seq([enc : {"gzip", "cipher", "plain", "junk"}, big : BOOLEAN])
              \/ body = <<>>
<1> DEFINE Form == [enc : {"gzip", "cipher", "plain", "junk"}, big : BOOLEAN]
<1>1. body \in Seq(Form)
  BY DEF BodyInv
<1>2. \A x \in Form : x.big \in BOOLEAN
  OBVIOUS
<1> HIDE DEF Form
<1>3. body # <<>> => Len(body) >= 1 /\ Head(body) = body[1] /\ body[1] \in Form
  BY <1>1
<1>4. body # <<>> =>
         /\ Tail(body) \in Seq(Form) /\ Len(Tail(body)) = Len(body) - 1
         /\ \A i \in 1..(Len(body) - 1) : Tail(body)[i] = body[i + 1]
  BY <1>1
<1>5. Len(body) \in Nat /\ (Len(body) >= 1 => body # <<>>)
  BY <1>1
<1>6. ASSUME Len(body) >= 2
      PROVE  Tail(body) # <<>> /\ Head(Tail(body)) = body[2]
  <2> DEFINE t == Tail(body)
  <2>1. t \in Seq(Form) /\ Len(t) >= 1 /\ t[1] = body[2]
    BY <1>4, <1>5, <1>6
  <2> HIDE DEF t
  <2>2. t # <<>> /\ Head(t) = t[1]
    BY <2>1
  <2>3. QED
    BY <2>1, <2>2 DEF t
<1>7. QED
  BY <1>2, <1>3, <1>4, <1>5, <1>6 DEF Form

\* A layer takes its encoding off.
LEMMA BodyOpened ==
    ASSUME order \in Orders, NEW k \in 1..Len(order), BodyInv(k), body # <<>>,
           \/ order[k] = "gunzip" /\ zip /\ Head(body).enc = "gzip" /\ ~zip'
           \/ order[k] = "cryption" /\ Head(body).enc = "cipher" /\ zip' = zip,
           body' = Tail(body), UNCHANGED order
    PROVE  BodyInv(k + 1)' /\ body' # <<>> /\ Head(body') = body[2] /\ Len(body) >= 2
<1>1. /\ Len(body) \in Nat /\ Len(body) >= 1 /\ Head(body) = body[1]
      /\ body \in Seq([enc : {"gzip", "cipher", "plain", "junk"}, big : BOOLEAN])
  BY Bodies DEF BodyInv
<1>2. body[1].enc = "gzip" \/ body[1].enc = "cipher"
  BY <1>1
<1>3. /\ Ahead("gunzip", k + 1)' <=> Ahead("gunzip", k + 1)
      /\ Ahead("cryption", k + 1)' <=> Ahead("cryption", k + 1)
      /\ GunzipFirst' <=> GunzipFirst
  BY DEF Ahead, Stack!Has, Stack!Depth, Stack!ToSet, GunzipFirst
<1>4. Len(body) >= 2
  BY <1>1, <1>2 DEF BodyInv, Encs
<1>5. /\ body' # <<>> /\ Head(body') = body[2] /\ Len(body') = Len(body) - 1
      /\ \A i \in 1..(Len(body) - 1) : body'[i] = body[i + 1]
      /\ body' \in Seq([enc : {"gzip", "cipher", "plain", "junk"}, big : BOOLEAN])
  BY <1>1, <1>4, Bodies
<1>6. \A i \in 1..(Len(body') - 1) :
         body'[i].enc # "gzip" /\ body'[i + 1].big => body'[i].big
  <2> SUFFICES ASSUME NEW i \in 1..(Len(body') - 1), body'[i].enc # "gzip", body'[i + 1].big
               PROVE  body'[i].big
    OBVIOUS
  <2>1. i + 1 \in 1..(Len(body) - 1) /\ body'[i] = body[i + 1] /\ body'[i + 1] = body[(i + 1) + 1]
    BY <1>1, <1>5
  <2>2. QED
    BY <2>1 DEF BodyInv
<1>7. CASE order[k] = "gunzip" /\ zip /\ body[1].enc = "gzip" /\ ~zip'
  <2>1. /\ ~Zipped(k + 1)' /\ (Encrypted(k + 1)' <=> Encrypted(k)) /\ Zipped(k)
    BY <1>3, <1>7, OneFurther DEF Zipped, Encrypted
  <2>2. CASE ~Encrypted(k)
    <3>1. Encs(<<"gzip", "plain">>)
      BY <1>1, <1>7, <2>1, <2>2 DEF BodyInv, Encs
    <3>2. Encs(<<"plain">>)'
      BY <3>1, <1>1, <1>5 DEF Encs
    <3>3. QED
      BY <2>1, <2>2, <3>2, <1>5, <1>6 DEF BodyInv
  <2>3. CASE Encrypted(k)
    <3>1. Encs(<<"gzip", "junk">>) \/ Encs(<<"gzip", "cipher", "plain">>)
      BY <1>1, <1>7, <2>1, <2>3 DEF BodyInv, Encs
    <3>2. Encs(<<"junk">>)' \/ Encs(<<"cipher", "plain">>)'
      BY <3>1, <1>1, <1>5 DEF Encs
    <3>3. QED
      BY <2>1, <2>3, <3>2, <1>5, <1>6 DEF BodyInv
  <2>4. QED
    BY <2>2, <2>3, <1>4, <1>5
<1>8. CASE order[k] = "cryption" /\ body[1].enc = "cipher" /\ zip' = zip
  <2>1. /\ ~Encrypted(k + 1)' /\ (Zipped(k + 1)' <=> Zipped(k)) /\ Encrypted(k)
    BY <1>3, <1>8, OneFurther DEF Zipped, Encrypted
  <2>2. CASE ~Zipped(k)
    <3>1. Encs(<<"cipher", "plain">>)
      BY <1>1, <1>8, <2>1, <2>2 DEF BodyInv, Encs
    <3>2. Encs(<<"plain">>)'
      BY <3>1, <1>1, <1>5 DEF Encs
    <3>3. QED
      BY <2>1, <2>2, <3>2, <1>5, <1>6 DEF BodyInv
  <2>3. CASE Zipped(k)
    <3>1. Encs(<<"cipher", "junk">>) \/ Encs(<<"cipher", "gzip", "plain">>)
      BY <1>1, <1>8, <2>1, <2>3 DEF BodyInv, Encs
    <3>2. Encs(<<"junk">>)' \/ Encs(<<"gzip", "plain">>)'
      BY <3>1, <1>1, <1>5 DEF Encs
    <3>3. QED
      BY <2>1, <2>3, <3>2, <1>5, <1>6 DEF BodyInv
  <2>4. QED
    BY <2>2, <2>3, <1>4, <1>5
<1>9. QED
  BY <1>1, <1>7, <1>8

\* The next layer is entered when this one has done its part.
LEMMA GoesOn ==
    ASSUME InboundInv, NEW k \in 1..Len(order), todo = <<Stack!Enter(k)>>, ~inside, Inward(k),
           Stack!Inwards, UNCHANGED <<order, req, inside>>, BodyInv(k + 1)',
           fails' \in BOOLEAN, zip' \in BOOLEAN,
           order[k] # "gunzip" => zip' = zip,
           order[k] = "contentsec" => req.sig = "good",
           (\/ Passed("maxbytes", k + 1) \/ Passed("contentsec", k + 1)
            \/ Passed("cryption", k + 1)
            \/ SentZipped /\ Passed("gunzip", k + 1)) => fails' \/ ~Stack!Big'
    PROVE  InboundInv'
<1>1. order \in Orders /\ Len(order) \in Nat /\ k \in 1..Handler /\ k + 1 \in 1..Handler
  BY StackIs DEF InboundInv, Handler
<1>2. todo' = <<Stack!Enter(k + 1)>>
  <2>1. Tail(todo) = <<>> /\ Stack!Call.at = k
    BY <1>1, LayerIs
  <2>2. todo' = <<Stack!Enter(k + 1)>> \o <<>>
    BY <2>1 DEF Stack!Inwards, Stack!Do
  <2>3. QED
    BY <2>2
<1>3. /\ \A l : (Passed(l, k + 1)' <=> Passed(l, k + 1)) /\ (Ahead(l, k + 1)' <=> Ahead(l, k + 1))
      /\ SentZipped' <=> SentZipped
      /\ \A l : Stack!Has(l)' <=> Stack!Has(l)
      /\ Handler' = Handler
  BY DEF Passed, Ahead, Stack!Has, Stack!Depth, Stack!ToSet, SentZipped, Handler
<1>4. SentZipped => Stack!Has("gunzip") /\ (Ahead("gunzip", k + 1) => zip')
  <2>1. CASE order[k] = "gunzip"
    BY <1>1, <2>1, OneFurther DEF Inward
  <2>2. CASE order[k] # "gunzip"
    BY <1>1, <2>2, OneFurther DEF Inward
  <2>3. QED
    BY <2>1, <2>2
<1>5. Passed("contentsec", k + 1) => req.sig = "good"
  BY <1>1, OneFurther DEF Inward
<1>6. Inward(k + 1)'
  BY <1>3, <1>4, <1>5 DEF Inward
<1>7. QED
  BY <1>1, <1>2, <1>3, <1>6 DEF InboundInv

LEMMA RefusedIn ==
    ASSUME InboundInv, NEW k \in 1..Handler, todo = <<Stack!Enter(k)>>, ~inside,
           NEW x, Stack!Refuse(x),
           UNCHANGED <<order, req, body, zip, inside>>, fails' \in BOOLEAN
    PROVE  InboundInv'
<1>1. order \in Orders
  BY DEF InboundInv
<1>2. NoEntry'
  <2>1. Tail(todo) = <<>>
    BY <1>1, LayerIs
  <2>2. QED
    BY <2>1, RefuseStaysQuiet
<1>3. QED
  BY <1>2 DEF InboundInv

\* A request that is about to enter layer k.
LEMMA EntersStay ==
    ASSUME InboundInv, NEW k \in 1..Handler, todo = <<Stack!Enter(k)>>, ~inside, Inward(k),
           Stack!Next
    PROVE  InboundInv'
<1>1. /\ order \in Orders /\ Len(order) \in Nat
      /\ \A l \in 1..Len(order) : order[l] \in Layers
      /\ fails \in BOOLEAN /\ zip \in BOOLEAN /\ inside \in BOOLEAN
  BY StackIs DEF InboundInv
<1>2. /\ todo # <<>> /\ Stack!Call.do = "enter" /\ Stack!Call.at = k /\ Tail(todo) = <<>>
      /\ (k <= Len(order) => Stack!Layer = order[k]) /\ (k = Handler => Stack!Layer = "handler")
  BY <1>1, LayerIs
<1>3. k <= Len(order) \/ k = Handler
  BY <1>1 DEF Handler
<1>4. BodyInv(k)
  BY DEF Inward
<1>5. ASSUME Stack!Layer # "handler"
      PROVE  k \in 1..Len(order) /\ Stack!Layer = order[k]
  BY <1>1, <1>2, <1>3, <1>5
<1>6. CASE Stack!EnterPass
  <2>1. /\ k \in 1..Len(order) /\ order[k] \in {"recovery", "notfound", "logger", "breaker", "tracing"}
        /\ Stack!Inwards /\ UNCHANGED <<order, req, body, fails, sized, zip, inside>>
    BY <1>5, <1>6 DEF Stack!EnterPass, Stack!setup, Stack!inbound, Stack!Recorders
  <2>2. BodyInv(k + 1)'
    BY <1>1, <1>4, <2>1, BodyKept
  <2>3. Stack!Big' <=> Stack!Big
    BY <2>1 DEF Stack!Big
  <2>4. (\/ Passed("maxbytes", k + 1) \/ Passed("contentsec", k + 1)
         \/ Passed("cryption", k + 1)
         \/ SentZipped /\ Passed("gunzip", k + 1)) => fails' \/ ~Stack!Big'
    BY <1>1, <2>1, <2>3, OneFurther DEF Inward
  <2>5. QED
    BY <1>1, <2>1, <2>2, <2>4, GoesOn
<1>7. CASE Stack!BreakerRefuses
  <2>1. Stack!Refuse(503) /\ UNCHANGED <<order, req, body, fails, sized, zip, inside>>
    BY <1>7 DEF Stack!BreakerRefuses, Stack!setup, Stack!inbound
  <2>2. QED
    BY <1>1, <2>1, RefusedIn
<1>8. CASE Stack!MaxBytes
  <2>1. /\ k \in 1..Len(order) /\ order[k] = "maxbytes"
        /\ UNCHANGED <<order, req, body, sized, zip, inside>>
    BY <1>5, <1>8 DEF Stack!MaxBytes, Stack!Doing, Stack!setup
  <2>2. CASE Stack!Refuse(413) /\ UNCHANGED fails
    BY <1>1, <2>1, <2>2, RefusedIn
  <2>3. CASE Stack!Inwards /\ fails' = (fails \/ Stack!Big)
    <3>1. BodyInv(k + 1)'
      BY <1>1, <1>4, <2>1, BodyKept
    <3>2. Stack!Big' <=> Stack!Big
      BY <2>1 DEF Stack!Big
    <3>3. fails' \/ ~Stack!Big'
      BY <2>3, <3>2
    <3>4. fails' \in BOOLEAN
      BY <2>3
    <3>5. QED
      BY <1>1, <2>1, <2>3, <3>1, <3>3, <3>4, GoesOn
  <2>4. QED
    BY <1>8, <2>2, <2>3 DEF Stack!MaxBytes
<1>9. CASE Stack!Gunzip
  <2>1. /\ k \in 1..Len(order) /\ order[k] = "gunzip"
        /\ UNCHANGED <<order, req, inside>>
    BY <1>5, <1>9 DEF Stack!Gunzip, Stack!Doing, Stack!setup
  <2>2. CASE ~zip /\ Stack!Inwards /\ UNCHANGED <<body, fails, sized, zip>>
    <3>1. BodyInv(k + 1)'
      BY <1>1, <1>4, <2>1, <2>2, BodyKept
    <3>2. Stack!Big' <=> Stack!Big
      BY <2>2 DEF Stack!Big
    <3>3. ~SentZipped
      BY <1>1, <2>1, <2>2, OneFurther DEF Inward
    <3>4. (\/ Passed("maxbytes", k + 1) \/ Passed("contentsec", k + 1)
           \/ Passed("cryption", k + 1)
           \/ SentZipped /\ Passed("gunzip", k + 1)) => fails' \/ ~Stack!Big'
      BY <1>1, <2>1, <2>2, <3>2, <3>3, OneFurther DEF Inward
    <3>5. QED
      BY <1>1, <2>1, <2>2, <3>1, <3>4, GoesOn
  <2>3. CASE Stack!Refuse(400) /\ UNCHANGED <<body, fails, sized, zip>>
    BY <1>1, <2>1, <2>3, RefusedIn
  <2>4. CASE /\ zip /\ body # <<>> /\ Head(body).enc = "gzip"
             /\ Stack!Inwards /\ body' = Tail(body)
             /\ fails' = (fails \/ Head(Tail(body)).big)
             /\ sized' = FALSE /\ zip' = FALSE
    <3>1. BodyInv(k + 1)' /\ body' # <<>> /\ Head(body') = body[2] /\ Len(body) >= 2
      BY <1>1, <1>4, <2>1, <2>4, BodyOpened
    <3>2. body[2].big \in BOOLEAN
      <4> DEFINE Form == [enc : {"gzip", "cipher", "plain", "junk"}, big : BOOLEAN]
      <4>1. body \in Seq(Form) /\ \A x \in Form : x.big \in BOOLEAN
        BY <1>4 DEF BodyInv
      <4> HIDE DEF Form
      <4>2. body[2] \in Form
        BY <3>1, <4>1
      <4>3. QED
        BY <4>1, <4>2
    <3>3. fails' \in BOOLEAN /\ (fails' \/ ~Stack!Big')
      BY <1>1, <2>4, <3>1, <3>2 DEF Stack!Big
    <3>4. QED
      BY <1>1, <2>1, <2>4, <3>1, <3>3, GoesOn
  <2>5. QED
    BY <1>9, <2>2, <2>3, <2>4 DEF Stack!Gunzip, Stack!inbound
<1>10. CASE Stack!ContentSecurity
  <2>1. /\ k \in 1..Len(order) /\ order[k] = "contentsec"
        /\ UNCHANGED <<order, req, body, fails, sized, zip, inside>>
    BY <1>5, <1>10 DEF Stack!ContentSecurity, Stack!Doing, Stack!setup, Stack!inbound
  <2>2. ASSUME NEW x, Stack!Refuse(x) PROVE InboundInv'
    BY <1>1, <2>1, <2>2, RefusedIn
  <2>3. CASE req.sig = "good" /\ ~fails /\ ~Stack!Big /\ Stack!Inwards
    <3>1. BodyInv(k + 1)'
      BY <1>1, <1>4, <2>1, BodyKept
    <3>2. ~Stack!Big'
      BY <2>1, <2>3 DEF Stack!Big
    <3>3. QED
      BY <1>1, <2>1, <2>3, <3>1, <3>2, GoesOn
  <2>4. req.sig \in {"none", "late", "forged", "good"}
    BY DEF InboundInv
  <2>5. QED
    BY <1>10, <2>2, <2>3, <2>4 DEF Stack!ContentSecurity
<1>11. CASE Stack!Decrypt
  <2>1. /\ k \in 1..Len(order) /\ order[k] = "cryption"
        /\ UNCHANGED <<order, req, inside>>
    BY <1>5, <1>11 DEF Stack!Decrypt, Stack!Doing, Stack!setup
  <2>2. CASE body = <<>> /\ Stack!Inwards /\ UNCHANGED <<body, fails, sized, zip>>
    <3>1. BodyInv(k + 1)'
      BY <2>2 DEF BodyInv
    <3>2. ~Stack!Big'
      BY <2>2 DEF Stack!Big
    <3>3. QED
      BY <1>1, <2>1, <2>2, <3>1, <3>2, GoesOn
  <2>3. ASSUME NEW x, Stack!Refuse(x), UNCHANGED <<body, fails, sized, zip>> PROVE InboundInv'
    BY <1>1, <2>1, <2>3, RefusedIn
  <2>4. CASE /\ body # <<>> /\ ~fails /\ ~Stack!Big /\ Head(body).enc = "cipher"
             /\ Stack!Inwards /\ body' = Tail(body)
             /\ sized' = TRUE /\ UNCHANGED <<fails, zip>>
    <3>1. BodyInv(k + 1)' /\ body' # <<>> /\ Head(body') = body[2] /\ Len(body) >= 2
      BY <1>1, <1>4, <2>1, <2>4, BodyOpened
    <3>2. ~Stack!Big'
      <4>1. Head(body) = body[1] /\ Len(body) \in Nat
        BY <1>4, <2>4, Bodies
      <4>2. 1 \in 1..(Len(body) - 1) /\ 1 + 1 = 2
        BY <3>1, <4>1
      <4>3. body[1].enc # "gzip" /\ body[2].big => body[1].big
        BY <1>4, <4>2 DEF BodyInv
      <4>4. ~body[2].big
        BY <2>4, <4>1, <4>3 DEF Stack!Big
      <4>5. QED
        BY <3>1, <4>4 DEF Stack!Big
    <3>3. QED
      BY <1>1, <2>1, <2>4, <3>1, <3>2, GoesOn
  <2>5. QED
    BY <1>11, <2>2, <2>3, <2>4 DEF Stack!Decrypt, Stack!inbound
<1>12. CASE Stack!Arrive
  <2>1. /\ Stack!Layer = "handler" /\ Stack!Do(<<>>) /\ inside' = TRUE
        /\ UNCHANGED <<order, req, body, fails, sized, zip>>
    BY <1>12 DEF Stack!Arrive, Stack!Doing, Stack!setup, Stack!inbound
  <2>2. k = Handler
    BY <1>1, <1>2, <1>3, <2>1 DEF Layers
  <2>3. todo' = <<>>
    <3>1. todo' = <<>> \o <<>>
      BY <1>2, <2>1 DEF Stack!Do
    <3>2. QED
      BY <3>1
  <2>4. NoEntry'
    <3>1. todo' \in Seq({})
      BY <2>3
    <3>2. QED
      BY <3>1 DEF NoEntry
  <2>5. Inward(Handler)'
    BY <2>1, <2>2
       DEF Inward, BodyInv, Encs, Zipped, Encrypted, Ahead, Passed, GunzipFirst, SentZipped,
           Handler, Stack!Has, Stack!Depth, Stack!ToSet, Stack!Big
  <2>6. QED
    BY <1>1, <2>1, <2>4, <2>5 DEF InboundInv
<1>13. QED
  <2>1. \/ Stack!EnterPass \/ Stack!BreakerRefuses \/ Stack!MaxBytes \/ Stack!Gunzip
        \/ Stack!ContentSecurity \/ Stack!Decrypt \/ Stack!Arrive
    BY <1>2
       DEF Stack!Next, Stack!HandlerStatus, Stack!HandlerWrite, Stack!HandlerFlush,
           Stack!HandlerEnds, Stack!May, Stack!WritePass, Stack!Recorder, Stack!CryptionHeader,
           Stack!CryptionWrite, Stack!CryptionFlush, Stack!NotFound, Stack!Wire,
           Stack!ReturnPass, Stack!Report, Stack!Encrypt, Stack!Recover, Stack!PanicPass,
           Stack!Finish, Stack!Doing, Stack!IsWrite
  <2>2. QED
    BY <2>1, <1>6, <1>7, <1>8, <1>9, <1>10, <1>11, <1>12

-----------------------------------------------------------------------------

\* What the handler calls, and what becomes of it, enters no layer.
LEMMA MayIsQuiet ==
    ASSUME NEW cl, Stack!May(cl), Quiet({cl})
    PROVE  NoEntry' /\ UNCHANGED <<order, keyOK, req, body, fails, sized, zip>>
<1>1. todo' \in Seq({cl})
  BY DEF Stack!May
<1>2. NoEntry'
  BY <1>1 DEF NoEntry, Quiet
<1>3. QED
  BY <1>2 DEF Stack!May, Stack!setup, Stack!inbound

LEMMA OutwardsStay ==
    ASSUME InboundInv, NoEntry, Stack!Next
    PROVE  InboundInv'
<1>1. inside \in BOOLEAN
  BY DEF InboundInv
<1>2. todo # <<>> => Stack!Call.do # "enter"
  BY CallIsQuiet
<1> DEFINE Kept == UNCHANGED <<order, keyOK, req, body, fails, sized, zip>>
<1>3. ASSUME NoEntry', Kept, inside' = inside \/ inside' = FALSE
      PROVE  InboundInv'
  BY <1>1, <1>3, OutwardKeeps DEF Outward
<1>4. ASSUME NEW c, Stack!HandlerStatus(c) PROVE InboundInv'
  BY <1>3, <1>4, MayIsQuiet, QuietCalls DEF Stack!HandlerStatus
<1>5. ASSUME NEW n, Stack!HandlerWrite(n) PROVE InboundInv'
  <2> DEFINE us == [i \in 1..n |-> Len(h.sent) + i]
  <2>1. Stack!May(Stack!Write(Len(order), us)) /\ UNCHANGED inside
    BY <1>5 DEF Stack!HandlerWrite
  <2> HIDE DEF us
  <2>2. QED
    BY <1>3, <2>1, MayIsQuiet, QuietCalls
<1>6. CASE Stack!HandlerFlush
  BY <1>3, <1>6, MayIsQuiet, QuietCalls DEF Stack!HandlerFlush
<1>7. CASE Stack!HandlerEnds
  <2>1. \/ Stack!May(Stack!Return(Len(order))) /\ inside' = FALSE
        \/ Stack!May(Stack!Panic(Len(order))) /\ inside' = FALSE
    BY <1>7 DEF Stack!HandlerEnds
  <2>2. QED
    BY <1>3, <2>1, MayIsQuiet, QuietCalls
<1>8. CASE Stack!WritePass \/ Stack!ReturnPass \/ Stack!PanicPass \/ Stack!Recorder \/ Stack!Report
  <2>1. todo # <<>> /\ Stack!Outwards /\ Kept /\ inside' = inside
    BY <1>8
       DEF Stack!WritePass, Stack!ReturnPass, Stack!PanicPass, Stack!Recorder, Stack!Report,
           Stack!setup, Stack!inbound
  <2>2. QED
    BY <1>3, <2>1, OutwardsStaysQuiet
<1>9. CASE Stack!CryptionHeader \/ Stack!CryptionFlush \/ Stack!Wire \/ Stack!Finish
  <2>1. todo # <<>> /\ (Stack!Outwards \/ Stack!Do(<<>>)) /\ Kept /\ inside' = inside
    BY <1>9
       DEF Stack!CryptionHeader, Stack!CryptionFlush, Stack!Wire, Stack!Finish, Stack!Doing,
           Stack!setup, Stack!inbound
  <2>2. QED
    BY <1>3, <2>1, OutwardsStaysQuiet, NothingStaysQuiet
<1>10. CASE Stack!Recover
  <2>1. todo # <<>> /\ Stack!Refuse(500) /\ Kept /\ inside' = inside
    BY <1>10 DEF Stack!Recover, Stack!Doing, Stack!setup, Stack!inbound
  <2>2. QED
    BY <1>3, <2>1, RefuseStaysQuiet
<1> DEFINE a == Stack!Call.at - 1
<1>11. CASE Stack!CryptionWrite
  <2> DEFINE H == Stack!Header(a, cw.code)
             W == Stack!Write(a, cw.buf)
             U == Stack!Write(a, Stack!Call.units)
             A == IF cw.code # 0 THEN <<H>> ELSE <<>>
             B == IF cw.buf # <<>> THEN <<W>> ELSE <<>>
             C == <<U>>
             T == {H} \union {W} \union {U}
  <2>1. /\ todo # <<>> /\ Kept /\ inside' = inside
        /\ Stack!Outwards \/ Stack!Do(<<>>) \/ Stack!Do(A \o B \o C)
    BY <1>11 DEF Stack!CryptionWrite, Stack!Doing, Stack!setup, Stack!inbound
  <2>3. Quiet(T)
    BY QuietCalls DEF Quiet
  <2> HIDE DEF H, W, U
  <2>2. A \in Seq(T) /\ B \in Seq(T) /\ C \in Seq(T)
    <3>1. <<>> \in Seq(T) /\ <<H>> \in Seq(T) /\ <<W>> \in Seq(T) /\ <<U>> \in Seq(T)
      OBVIOUS
    <3>2. QED
      BY <3>1
  <2> HIDE DEF A, B, C, T
  <2>4. A \o B \o C \in Seq(T)
    BY <2>2
  <2>5. QED
    BY <1>3, <2>1, <2>3, <2>4, OutwardsStaysQuiet, NothingStaysQuiet, StaysQuiet
<1>12. CASE Stack!NotFound
  <2> DEFINE T == {Stack!Header(a, 404)} \union {Stack!Write(a, Stack!CustomBody)}
             cs == <<Stack!Header(a, 404), Stack!Write(a, Stack!CustomBody)>>
  <2>1. /\ todo # <<>> /\ Kept /\ inside' = inside
        /\ Stack!Outwards \/ Stack!Do(<<>>) \/ Stack!Do(cs)
    BY <1>12 DEF Stack!NotFound, Stack!setup, Stack!inbound
  <2>2. cs \in Seq(T)
    OBVIOUS
  <2>3. Quiet(T)
    BY QuietCalls DEF Quiet
  <2> HIDE DEF cs, T
  <2>4. QED
    BY <1>3, <2>1, <2>2, <2>3, OutwardsStaysQuiet, NothingStaysQuiet, StaysQuiet
<1>13. CASE Stack!Encrypt
  <2> DEFINE H == Stack!Header(a, Stack!Code)
             W == Stack!Write(a, cw.buf)
             E == Stack!Write(a, Stack!Cipher(cw.buf))
             R == Stack!Return(a)
             T == {H} \union {W} \union {E} \union {R}
             B == IF ~req.head /\ cw.buf # <<>> THEN <<W>> ELSE <<>>
  <2>1. /\ todo # <<>> /\ Kept /\ inside' = inside
        /\ \/ Stack!Outwards \/ Stack!Refuse(500)
           \/ Stack!Do(<<H>> \o B \o <<R>>) \/ Stack!Do(<<H, E, R>>)
    BY <1>13 DEF Stack!Encrypt, Stack!Doing, Stack!setup, Stack!inbound
  <2>2. Quiet(T)
    BY QuietCalls DEF Quiet
  <2>3. {H, W, E, R} \subseteq T
    OBVIOUS
  <2> HIDE DEF H, W, E, R, T
  <2>4. B \in Seq(T) /\ <<H>> \in Seq(T) /\ <<R>> \in Seq(T) /\ <<H, E, R>> \in Seq(T)
    BY <2>3
  <2> HIDE DEF B
  <2>5. <<H>> \o B \o <<R>> \in Seq(T)
    BY <2>4
  <2>6. CASE Stack!Outwards \/ Stack!Refuse(500)
    BY <1>3, <2>1, <2>6, OutwardsStaysQuiet, RefuseStaysQuiet
  <2>7. CASE Stack!Do(<<H>> \o B \o <<R>>) \/ Stack!Do(<<H, E, R>>)
    BY <1>3, <2>1, <2>2, <2>4, <2>5, <2>7, StaysQuiet
  <2>8. QED
    BY <2>1, <2>6, <2>7
<1>14. QED
  <2>1. \/ \E c : Stack!HandlerStatus(c)
        \/ \E n : Stack!HandlerWrite(n)
        \/ Stack!HandlerFlush \/ Stack!HandlerEnds
        \/ Stack!WritePass \/ Stack!Recorder \/ Stack!CryptionHeader \/ Stack!CryptionWrite
        \/ Stack!CryptionFlush \/ Stack!NotFound \/ Stack!Wire
        \/ Stack!ReturnPass \/ Stack!Report \/ Stack!Encrypt \/ Stack!Recover
        \/ Stack!PanicPass \/ Stack!Finish
    BY <1>2
       DEF Stack!Next, Stack!EnterPass, Stack!BreakerRefuses, Stack!MaxBytes, Stack!Gunzip,
           Stack!ContentSecurity, Stack!Decrypt, Stack!Arrive, Stack!Doing
  <2>2. QED
    BY <2>1, <1>4, <1>5, <1>6, <1>7, <1>8, <1>9, <1>10, <1>11, <1>12, <1>13

\* Tuples that are joined.
LEMMA Concat ==
    ASSUME NEW S, NEW a \in Seq(S), NEW b \in Seq(S)
    PROVE  /\ a \o b \in Seq(S) /\ Len(a \o b) = Len(a) + Len(b)
           /\ \A i \in 1..Len(a) : (a \o b)[i] = a[i]
           /\ \A i \in 1..Len(b) : (a \o b)[Len(a) + i] = b[i]
OBVIOUS

LEMMA Pair ==
    ASSUME NEW S, NEW s \in Seq(S), NEW t \in Seq(S)
    PROVE  Len(s) = 1 /\ Len(t) = 1 => s \o t = <<s[1], t[1]>>
<1> DEFINE u == s \o t
<1>1. /\ u \in Seq(S) /\ Len(u) = Len(s) + Len(t)
      /\ \A i \in 1..Len(s) : u[i] = s[i]
      /\ \A i \in 1..Len(t) : u[Len(s) + i] = t[i]
  OBVIOUS
<1> HIDE DEF u
<1> SUFFICES ASSUME Len(s) = 1, Len(t) = 1 PROVE s \o t = <<s[1], t[1]>>
  OBVIOUS
<1>2. Len(u) = 2
  BY <1>1
<1>3. u[1] = s[1] /\ u[2] = t[1]
  BY <1>1
<1>4. u = <<s[1], t[1]>>
  BY <1>1, <1>2, <1>3
<1>5. QED
  BY <1>4 DEF u

LEMMA Triple ==
    ASSUME NEW S, NEW s \in Seq(S), NEW t \in Seq(S)
    PROVE  Len(s) = 2 /\ Len(t) = 1 => s \o t = <<s[1], s[2], t[1]>>
<1> DEFINE u == s \o t
<1>1. /\ u \in Seq(S) /\ Len(u) = Len(s) + Len(t)
      /\ \A i \in 1..Len(s) : u[i] = s[i]
      /\ \A i \in 1..Len(t) : u[Len(s) + i] = t[i]
  OBVIOUS
<1> HIDE DEF u
<1> SUFFICES ASSUME Len(s) = 2, Len(t) = 1 PROVE s \o t = <<s[1], s[2], t[1]>>
  OBVIOUS
<1>2. Len(u) = 3
  BY <1>1
<1>3. u[1] = s[1] /\ u[2] = s[2] /\ u[3] = t[1]
  BY <1>1
<1>4. u = <<s[1], s[2], t[1]>>
  BY <1>1, <1>2, <1>3
<1>5. QED
  BY <1>4 DEF u

LEMMA Joined ==
    \A x, y, z :
        /\ <<>> \o <<z>> = <<z>>
        /\ <<x>> \o <<z>> = <<x, z>>
        /\ <<x, y>> \o <<z>> = <<x, y, z>>
<1> TAKE x, y, z
<1> DEFINE S == {x} \union {y} \union {z}
           r == <<x>>
           s == <<x, y>>
           t == <<z>>
<1>1. r \in Seq(S) /\ s \in Seq(S) /\ t \in Seq(S)
  OBVIOUS
<1>2. Len(r) = 1 /\ r[1] = x /\ Len(s) = 2 /\ s[1] = x /\ s[2] = y /\ Len(t) = 1 /\ t[1] = z
  OBVIOUS
<1>3. <<>> \o <<z>> = <<z>>
  OBVIOUS
<1> HIDE DEF S, r, s, t
<1>4. r \o t = <<x, z>>
  BY <1>1, <1>2, Pair, Zenon
<1>5. s \o t = <<x, y, z>>
  BY <1>1, <1>2, Triple, Zenon
<1>6. QED
  BY <1>3, <1>4, <1>5 DEF r, s, t

\* The encodings that clients put on a body.
LEMMA FormsAre ==
    ASSUME order \in Orders, zip \in BOOLEAN, zip => Stack!Has("gunzip"),
           NEW encs \in Stack!Forms(zip)
    PROVE  \/ encs = <<>>
           \/ ~Zipped(1) /\ ~Encrypted(1) /\ encs = <<"plain">>
           \/ (Zipped(1) \/ Encrypted(1)) /\ encs = <<"junk">>
           \/ Zipped(1) /\ ~Encrypted(1) /\ encs = <<"gzip", "plain">>
           \/ ~Zipped(1) /\ Encrypted(1) /\ encs = <<"cipher", "plain">>
           \/ /\ Zipped(1) /\ Encrypted(1) /\ GunzipFirst
              /\ encs = <<"gzip", "junk">> \/ encs = <<"gzip", "cipher", "plain">>
           \/ /\ Zipped(1) /\ Encrypted(1) /\ ~GunzipFirst
              /\ encs = <<"cipher", "junk">> \/ encs = <<"cipher", "gzip", "plain">>
<1>1. (Zipped(1) <=> zip) /\ (Encrypted(1) <=> Stack!Has("cryption"))
  BY StackIs DEF Zipped, Encrypted, Ahead
<1> DEFINE u == Stack!Undone(zip)
<1>2. /\ ~Zipped(1) /\ ~Encrypted(1) => u = <<>>
      /\ Zipped(1) /\ ~Encrypted(1) => u = <<"gzip">>
      /\ ~Zipped(1) /\ Encrypted(1) => u = <<"cipher">>
      /\ Zipped(1) /\ Encrypted(1) /\ GunzipFirst => u = <<"gzip", "cipher">>
      /\ Zipped(1) /\ Encrypted(1) /\ ~GunzipFirst => u = <<"cipher", "gzip">>
  BY <1>1 DEF Stack!Undone, GunzipFirst
<1>3. \/ encs = <<>> \/ encs = u \o <<"plain">>
      \/ \E i \in DOMAIN u : encs = SubSeq(u, 1, i - 1) \o <<"junk">>
  BY DEF Stack!Forms
<1> HIDE DEF u
<1>5. \A x, y :
         /\ SubSeq(<<x>>, 1, 1 - 1) \o <<"junk">> = <<"junk">>
         /\ SubSeq(<<x, y>>, 1, 1 - 1) \o <<"junk">> = <<"junk">>
         /\ SubSeq(<<x, y>>, 1, 2 - 1) \o <<"junk">> = <<x, "junk">>
  <2> TAKE x, y
  <2> DEFINE s == <<x>>
             t == <<x, y>>
  <2>1. s \in Seq({x}) /\ t \in Seq({x} \union {y}) /\ Len(s) = 1 /\ Len(t) = 2 /\ t[1] = x
    OBVIOUS
  <2>2. 1 - 1 = 0 /\ 2 - 1 = 1
    OBVIOUS
  <2>3. SubSeq(s, 1, 0) = <<>> /\ SubSeq(t, 1, 0) = <<>>
    BY <2>1
  <2>4. SubSeq(t, 1, 1) = <<x>>
    <3> HIDE DEF t
    <3> DEFINE r == SubSeq(t, 1, 1)
    <3>1. r \in Seq({x} \union {y}) /\ Len(r) = 1 /\ r[1] = x
      BY <2>1
    <3> HIDE DEF r
    <3>2. r = <<x>>
      BY <3>1
    <3>3. QED
      BY <3>2 DEF r
  <2>5. <<>> \o <<"junk">> = <<"junk">> /\ <<x>> \o <<"junk">> = <<x, "junk">>
    BY Joined
  <2> HIDE DEF s, t
  <2>6. QED
    BY <2>2, <2>3, <2>4, <2>5 DEF s, t
<1>6. CASE ~Zipped(1) /\ ~Encrypted(1)
  BY <1>2, <1>3, <1>6
<1>7. CASE Zipped(1) /\ ~Encrypted(1)
  <2>1. u = <<"gzip">>
    BY <1>2, <1>7
  <2>2. encs = <<>> \/ encs = <<"gzip", "plain">> \/ encs = <<"junk">>
    <3>1. \A i \in DOMAIN u : i = 1
      BY <2>1
    <3>2. u \o <<"plain">> = <<"gzip", "plain">>
      BY <2>1, Joined
    <3>3. QED
      BY <1>3, <1>5, <2>1, <3>1, <3>2
  <2>3. QED
    BY <1>7, <2>2
<1>8. CASE ~Zipped(1) /\ Encrypted(1)
  <2>1. u = <<"cipher">>
    BY <1>2, <1>8
  <2>2. encs = <<>> \/ encs = <<"cipher", "plain">> \/ encs = <<"junk">>
    <3>1. \A i \in DOMAIN u : i = 1
      BY <2>1
    <3>2. u \o <<"plain">> = <<"cipher", "plain">>
      BY <2>1, Joined
    <3>3. QED
      BY <1>3, <1>5, <2>1, <3>1, <3>2
  <2>3. QED
    BY <1>8, <2>2
<1>9. CASE Zipped(1) /\ Encrypted(1) /\ GunzipFirst
  <2>1. u = <<"gzip", "cipher">>
    BY <1>2, <1>9
  <2>2. \/ encs = <<>> \/ encs = <<"gzip", "cipher", "plain">>
        \/ encs = <<"junk">> \/ encs = <<"gzip", "junk">>
    <3>1. \A i \in DOMAIN u : i = 1 \/ i = 2
      BY <2>1
    <3>2. u \o <<"plain">> = <<"gzip", "cipher", "plain">>
      BY <2>1, Joined
    <3>3. QED
      BY <1>3, <1>5, <2>1, <3>1, <3>2
  <2>3. QED
    BY <1>9, <2>2
<1>10. CASE Zipped(1) /\ Encrypted(1) /\ ~GunzipFirst
  <2>1. u = <<"cipher", "gzip">>
    BY <1>2, <1>10
  <2>2. \/ encs = <<>> \/ encs = <<"cipher", "gzip", "plain">>
        \/ encs = <<"junk">> \/ encs = <<"cipher", "junk">>
    <3>1. \A i \in DOMAIN u : i = 1 \/ i = 2
      BY <2>1
    <3>2. u \o <<"plain">> = <<"cipher", "gzip", "plain">>
      BY <2>1, Joined
    <3>3. QED
      BY <1>3, <1>5, <2>1, <3>1, <3>2
  <2>3. QED
    BY <1>10, <2>2
<1>11. QED
  BY <1>6, <1>7, <1>8, <1>9, <1>10

LEMMA InboundStarts == Stack!Init => InboundInv
<1> SUFFICES ASSUME Stack!Init PROVE InboundInv
  OBVIOUS
<1>1. /\ order \in Orders /\ zip \in BOOLEAN /\ (zip => Stack!Has("gunzip"))
      /\ fails = FALSE /\ todo = <<Stack!Enter(1)>> /\ inside = FALSE
      /\ req.body = body /\ req.sig \in {"none", "late", "forged", "good"}
  BY DEF Stack!Init
<1>2. PICK encs \in Stack!Forms(zip) : \E bs \in Stack!Sizes(encs) : body = Stack!Encoded(encs, bs)
  BY DEF Stack!Init
<1>3. PICK bs \in Stack!Sizes(encs) : body = Stack!Encoded(encs, bs)
  BY <1>2
<1> DEFINE Form == [enc : {"gzip", "cipher", "plain", "junk"}, big : BOOLEAN]
<1>4. encs \in Seq({"gzip", "cipher", "plain", "junk"})
  <2>1. \/ encs = <<>> \/ encs = <<"plain">> \/ encs = <<"junk">>
        \/ encs = <<"gzip", "plain">> \/ encs = <<"cipher", "plain">>
        \/ encs = <<"gzip", "junk">> \/ encs = <<"cipher", "junk">>
        \/ encs = <<"gzip", "cipher", "plain">> \/ encs = <<"cipher", "gzip", "plain">>
    BY <1>1, <1>2, FormsAre
  <2> DEFINE S == {"gzip", "cipher", "plain", "junk"}
  <2>2. <<>> \in Seq(S) /\ <<"plain">> \in Seq(S) /\ <<"junk">> \in Seq(S)
    OBVIOUS
  <2>3. /\ <<"gzip", "plain">> \in Seq(S) /\ <<"cipher", "plain">> \in Seq(S)
        /\ <<"gzip", "junk">> \in Seq(S) /\ <<"cipher", "junk">> \in Seq(S)
    OBVIOUS
  <2>4. /\ <<"gzip", "cipher", "plain">> \in Seq(S)
        /\ <<"cipher", "gzip", "plain">> \in Seq(S)
    OBVIOUS
  <2> HIDE DEF S
  <2>5. encs \in Seq(S)
    BY <2>1, <2>2, <2>3, <2>4
  <2>6. QED
    BY <2>5 DEF S
<1>5. /\ Len(encs) \in Nat /\ DOMAIN encs = 1..Len(encs)
      /\ \A i \in 1..Len(encs) : encs[i] \in {"gzip", "cipher", "plain", "junk"}
  BY <1>4
<1>6. /\ \A i \in 1..Len(encs) : bs[i] \in BOOLEAN
      /\ \A i \in 1..(Len(encs) - 1) : encs[i] # "gzip" /\ bs[i + 1] => bs[i]
  BY DEF Stack!Sizes
<1>7. /\ body = [i \in 1..Len(encs) |-> [enc |-> encs[i], big |-> bs[i]]]
  BY <1>3, <1>5 DEF Stack!Encoded
<1>8. body \in Seq(Form) /\ Len(body) = Len(encs)
  <2>1. \A i \in 1..Len(encs) : [enc |-> encs[i], big |-> bs[i]] \in Form
    BY <1>5, <1>6
  <2> HIDE DEF Form
  <2>2. QED
    BY <1>5, <1>7, <2>1
<1>9. \A i \in 1..Len(encs) : body[i].enc = encs[i] /\ body[i].big = bs[i]
  BY <1>7
<1>10. Encs(encs)
  BY <1>8, <1>9 DEF Encs
<1>11. body = <<>> \/ encs # <<>>
  BY <1>5, <1>8
<1>12. BodyInv(1)
  <2>1. \A i \in 1..(Len(body) - 1) :
           body[i].enc # "gzip" /\ body[i + 1].big => body[i].big
    <3> SUFFICES ASSUME NEW i \in 1..(Len(body) - 1),
                        body[i].enc # "gzip", body[i + 1].big
                 PROVE  body[i].big
      OBVIOUS
    <3>1. i \in 1..Len(encs) /\ i + 1 \in 1..Len(encs) /\ i \in 1..(Len(encs) - 1)
      BY <1>5, <1>8
    <3>2. QED
      BY <1>6, <1>9, <3>1
  <2>2. \/ body = <<>>
        \/ ~Zipped(1) /\ ~Encrypted(1) /\ Encs(<<"plain">>)
        \/ (Zipped(1) \/ Encrypted(1)) /\ Encs(<<"junk">>)
        \/ Zipped(1) /\ ~Encrypted(1) /\ Encs(<<"gzip", "plain">>)
        \/ ~Zipped(1) /\ Encrypted(1) /\ Encs(<<"cipher", "plain">>)
        \/ /\ Zipped(1) /\ Encrypted(1) /\ GunzipFirst
           /\ Encs(<<"gzip", "junk">>) \/ Encs(<<"gzip", "cipher", "plain">>)
        \/ /\ Zipped(1) /\ Encrypted(1) /\ ~GunzipFirst
           /\ Encs(<<"cipher", "junk">>) \/ Encs(<<"cipher", "gzip", "plain">>)
    BY <1>1, <1>2, <1>10, <1>11, FormsAre
  <2>3. QED
    BY <1>8, <2>1, <2>2 DEF BodyInv
<1>13. \A l : ~Passed(l, 1)
  <2>1. \A l : Stack!Has(l) => Stack!Depth(l) \in 1..Len(order)
    BY <1>1, StackIs
  <2>2. Len(order) \in Nat
    BY <1>1, StackIs
  <2>3. QED
    BY <2>1, <2>2 DEF Passed
<1>14. SentZipped => zip
  <2> SUFFICES ASSUME SentZipped, ~zip PROVE FALSE
    OBVIOUS
  <2>1. PICK i \in DOMAIN body : body[i].enc = "gzip"
    BY <1>1 DEF SentZipped
  <2>2. i \in 1..Len(encs) /\ encs[i] = "gzip"
    BY <1>7, <1>9, <2>1
  <2>3. encs = <<>> \/ encs = <<"plain">> \/ encs = <<"junk">> \/ encs = <<"cipher", "plain">>
    BY <1>1, <1>2, FormsAre DEF Zipped
  <2>4. QED
    BY <2>2, <2>3
<1>15. Inward(1)
  BY <1>1, <1>12, <1>13, <1>14 DEF Inward
<1>16. 1 \in 1..Handler
  BY <1>1, StackIs DEF Handler
<1>17. QED
  BY <1>1, <1>15, <1>16 DEF InboundInv

LEMMA InboundEnds == InboundInv => Stack!InboundExact
<1> SUFFICES ASSUME InboundInv, inside, ~fails
             PROVE  /\ body = <<>> \/ Head(body).enc = "plain"
                    /\ Stack!Limited => ~Stack!Big
                    /\ Stack!Has("contentsec") => req.sig = "good"
  BY DEF Stack!InboundExact
<1>1. order \in Orders /\ Inward(Handler)
  BY DEF InboundInv
<1>2. Len(order) \in Nat /\ \A l : Stack!Has(l) => Stack!Depth(l) \in 1..Len(order)
  BY <1>1, StackIs
<1>3. \A l : ~Ahead(l, Handler) /\ (Passed(l, Handler) <=> Stack!Has(l))
  BY <1>2 DEF Ahead, Passed, Handler
<1>4. body = <<>> \/ Encs(<<"plain">>)
  BY <1>1, <1>3 DEF Inward, BodyInv, Zipped, Encrypted
<1>5. body # <<>> => Head(body) = body[1] /\ Len(body) >= 1
  BY <1>1, Bodies DEF Inward
<1>6. body = <<>> \/ Head(body).enc = "plain"
  BY <1>4, <1>5 DEF Encs
<1>7. Stack!Limited => ~Stack!Big
  <2> SUFFICES ASSUME Stack!Limited PROVE ~Stack!Big
    OBVIOUS
  <2>1. \/ Stack!Has("maxbytes") \/ Stack!Has("contentsec") \/ Stack!Has("cryption")
        \/ SentZipped
    BY DEF Stack!Limited, Stack!Limiters, SentZipped
  <2>2. QED
    BY <1>1, <1>3, <2>1 DEF Inward
<1>8. QED
  BY <1>1, <1>3, <1>6, <1>7 DEF Inward

\* What the handler of a request can read to the end is decoded as far as the stack
\* undoes encodings, signed if it checks signatures, and no larger than its limits,
\* whatever the order of MaxBytes, Gunzip, ContentSecurity and Cryption in it: for
\* every stack in which a middleware occurs at most once.
THEOREM InboundStaysExact == MCSpec => []Stack!InboundExact
<1>1. MCInit => InboundInv
  BY InboundStarts DEF MCInit
<1>2. InboundInv /\ [MCNext]_<<which, vars, sVars, rVars, wVars, tVars>> => InboundInv'
  <2> SUFFICES ASSUME InboundInv, [MCNext]_<<which, vars, sVars, rVars, wVars, tVars>>
               PROVE  InboundInv'
    OBVIOUS
  <2>1. CASE Stack!Next
    <3>1. CASE NoEntry
      BY <2>1, <3>1, OutwardsStay
    <3>2. ASSUME NEW k \in 1..Handler, todo = <<Stack!Enter(k)>>, ~inside, Inward(k)
          PROVE  InboundInv'
      BY <2>1, <3>2, EntersStay
    <3>3. QED
      BY <3>1, <3>2 DEF InboundInv
  <2>2. CASE ~Stack!Next
    <3>1. UNCHANGED <<order, req, body, fails, zip, todo, inside>>
      BY <2>2 DEF MCNext, sVars
    <3>2. UNCHANGED <<Handler, NoEntry>> /\ \A k : UNCHANGED <<Inward(k), Stack!Enter(k)>>
      BY <3>1
         DEF Inward, BodyInv, Encs, Zipped, Encrypted, Ahead, Passed, GunzipFirst,
             SentZipped, Handler, NoEntry, Stack!Has, Stack!Depth, Stack!ToSet, Stack!Big,
             Stack!Enter
    <3>3. QED
      BY <3>1, <3>2 DEF InboundInv
  <2>3. QED
    BY <2>1, <2>2
<1>3. QED
  BY <1>1, <1>2, InboundEnds, PTL DEF MCSpec

=============================================================================
