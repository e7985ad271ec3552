----------------------------- MODULE MCWebsocket -----------------------------
(***************************************************************************)
(* A server with in-memory rooms and a cluster of servers for TLC, one     *)
(* after the other: which is the one that runs, the variables of the other *)
(* keep their initial values.                                              *)
(***************************************************************************)
EXTENDS Cluster

CONSTANTS ServerNode, Helpers, MaxConns, Rooms, MaxRestarts

\* <<ServerNode, 0>>, ... are the application's goroutines.
OneHelper == {<<ServerNode, 0>>}

ASSUME ServerAssumption ==
    /\ MaxConns \in Nat \ {0} /\ MaxRestarts \in Nat
    /\ \A h \in Helpers : h[1] = ServerNode

VARIABLES which,
          counter, table, pc, closed, down, roomFds, fdRooms, op, late,
          srv, seen, must, client, restarts

Joiners == Helpers \union ({ServerNode} \X (1..MaxConns))

Server == INSTANCE WsServer WITH
    Nodes <- {ServerNode}, Stopping <- {ServerNode}, Redis <- FALSE,
    OwnRedis <- FALSE, Flaky <- {}, MayPanic <- TRUE,
    Quitting <- {ServerNode} \X (1..MaxConns)

sVars == <<counter, table, pc, closed, down, roomFds, fdRooms, op, late,
           srv, seen, must, client, restarts>>

MCInit == which \in {"server", "cluster"} /\ Init /\ Server!Init

MCNext ==
    \/ which = "server" /\ Server!Next /\ UNCHANGED <<which, vars>>
    \/ which = "cluster" /\ Next /\ UNCHANGED <<which, sVars>>

\* The fairness of the two specifications, for the one that runs.
Fairness ==
    /\ \A c \in Server!Conns : WF_sVars(which = "server" /\ Server!ServeStep(c))
    /\ WF_sVars(which = "server" /\ Server!CloseStep(ServerNode))
    /\ \A n \in Nodes :
          /\ WF_vars(which = "cluster" /\ Bridge(n))
          /\ WF_vars(which = "cluster" /\ Dispatcher(n))
          /\ WF_vars(which = "cluster" /\ Stopper(n))

MCSpec == MCInit /\ [][MCNext]_<<which, vars, sVars>> /\ Fairness

\* A connection whose ServeHTTP has returned is closed and in no room, unless
\* another goroutine has joined one since its clean-up, and the two maps of
\* MemoryRoom mirror each other.
RoomsTidy == Server!TypeOK /\ Server!GoneIsForgotten /\ Server!RoomsMirror

\* A server connection that anyone has closed is cleaned up by its ServeHTTP; Stop
\* ends the cluster's goroutines; and every node whose subscription works
\* catches up with what is published.
AllEnd == Server!ClosedConnEnds /\ StopEndsAll /\ EveryoneReceives
=============================================================================
