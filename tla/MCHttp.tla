------------------------------- MODULE MCHttp -------------------------------
(***************************************************************************)
(* The HTTP server for TLC: its limit on requests in progress, the stack   *)
(* of middleware that one request passes, routing, the websocket endpoint  *)
(* of two servers that share their rooms, and applications that make and   *)
(* accept tokens.  which is the one that runs, the variables of the others *)
(* keep their initial values.                                              *)
(***************************************************************************)
EXTENDS Admission, Sequences

CONSTANTS Orders, MaxUnits, MaxBuf, GlobalMws, GroupMws, Groups, MaxRoutes,
          Prefixes, Lists, Asked,
          Nodes, Stopping, Joiners, Quitting, Flaky, MaxConns, Rooms, MaxRestarts,
          Apps, Config, Users, Subjects, Identities, MaxNow, MaxTokens

\* A node's ID is not a connection's, nor is an application's goroutine.
ASSUME SocketAssumption ==
    /\ Stopping \subseteq Nodes
    /\ \A c \in Nodes \X (1..MaxConns) : c \notin Nodes
    /\ \A a \in Joiners : a[1] \in Nodes /\ a \notin Nodes

VARIABLES which,
          order, keyOK, req, body, fails, sized, zip, todo, inside, h, rec, report,
          cw, replaced, wire, past,
          mux, routes, adding, panicked, gmw, notFound, gh, served, asked, groups, call,
          counter, table, serve, closed, down, roomFds, fdRooms, op, late,
          srv, seen, must, client, restarts,
          now, tokens, login, pair, answer

\* Every middleware that wraps the response or unwraps the request, inside and
\* outside of Recovery and of Cryption.
FiveStacks ==
    {<<"recovery", "logger", "maxbytes", "gunzip", "contentsec", "cryption">>,
     <<"cryption", "breaker", "recovery", "gunzip">>,
     <<"tracing", "recovery", "notfound", "cryption", "maxbytes">>,
     <<"notfound", "cryption", "logger", "recovery">>,
     <<"logger", "recovery", "breaker", "maxbytes", "gunzip", "cryption">>}

Layers == {"recovery", "notfound", "logger", "breaker", "tracing",
           "maxbytes", "gunzip", "contentsec", "cryption"}

\* A stack has a middleware once at most.
ASSUME StacksAssumption ==
    \A o \in Orders :
        o \in Seq(Layers) /\ \A i, j \in DOMAIN o : o[i] = o[j] => i = j

\* Callbacks on a server that closes, another goroutine on one that stays up.
TwoJoiners == (Stopping \X {1}) \union ((Nodes \ Stopping) \X {0})
OfStopping == Stopping \X (1..MaxConns)

Stack == INSTANCE MiddlewareChain WITH Careful <- TRUE

Written(lead, segs, trail) == [lead |-> lead, segs |-> segs, trail |-> trail]
Route(m, p) == [method |-> m, path |-> p]
Paths == [lead : BOOLEAN, segs : Seq(STRING), trail : BOOLEAN]

\* Without a segment a path is "" or "/".
WellWritten == {p \in Paths : p.segs = <<>> => p.lead = p.trail}

ASSUME RoutesAssumption ==
    /\ Prefixes \subseteq WellWritten
    /\ Lists \subseteq Seq([method : STRING, path : WellWritten])
    /\ Asked \subseteq [method : STRING, path : Paths]

\* "" and "v1/"; "users" and "/users" for GET and for all methods, and "/".
TwoPrefixes == {Written(FALSE, <<>>, FALSE), Written(FALSE, <<"v1">>, TRUE)}
TwoLists ==
    {<<Route("GET", Written(FALSE, <<"users">>, FALSE)),
       Route("*", Written(TRUE, <<"users">>, FALSE))>>,
     <<Route("GET", Written(TRUE, <<>>, TRUE))>>}
TwoRequests ==
    {Route("GET", Written(TRUE, <<"v1", "users">>, FALSE)),
     Route("PUT", Written(TRUE, <<"v1", "x">>, FALSE))}

Routing == INSTANCE Router WITH
    GroupPrefixes <- Prefixes, RouteLists <- Lists, Requests <- Asked

\* Rooms in Redis, and a server that fails, closes and restarts.
Sockets == INSTANCE WsServer WITH
    Redis <- TRUE, OwnRedis <- TRUE, MayPanic <- FALSE, pc <- serve

\* An application with an audience, one with its issuer and no audience, and one
\* with neither; they share a secret.
App(iss, aud) ==
    [secret |-> "k", alg |-> "HS256", iss |-> iss, aud |-> aud, access |-> 1, refresh |-> 2]
Applications == [a |-> App("a", {"web"}), b |-> App("a", {}), c |-> App("", {})]

\* A caller that names neither, and one that names those of application a.
TwoIdentities == {[iss |-> "", aud |-> {}], [iss |-> "a", aud |-> {"web"}]}

ASSUME TokensAssumption ==
    Config \in [Apps -> [secret : STRING, alg : STRING, iss : STRING, aud : SUBSET STRING,
                         access : Nat, refresh : Nat]]

Tokens == INSTANCE Jwt WITH call <- login, seen <- answer

sVars == <<order, keyOK, req, body, fails, sized, zip, todo, inside, h, rec, report,
           cw, replaced, wire, past>>
rVars == <<mux, routes, adding, panicked, gmw, notFound, gh, served, asked, groups, call>>
wVars == <<counter, table, serve, closed, down, roomFds, fdRooms, op, late,
           srv, seen, must, client, restarts>>
tVars == <<now, tokens, login, pair, answer>>

MCInit ==
    /\ which \in {"admission", "stack", "routing", "sockets", "tokens"}
    /\ Init /\ Stack!Init /\ Routing!Init /\ Sockets!Init /\ Tokens!JInit
    /\ which # "admission" => ~timeouts
    /\ which # "stack" =>
          order[1] = "notfound" /\ keyOK /\ ~sized /\ body = <<>> /\ ~req.head

MCNext ==
    \/ which = "admission" /\ Next /\ UNCHANGED <<which, sVars, rVars, wVars, tVars>>
    \/ which = "stack" /\ Stack!Next /\ UNCHANGED <<which, vars, rVars, wVars, tVars>>
    \/ which = "routing" /\ Routing!Next /\ UNCHANGED <<which, vars, sVars, wVars, tVars>>
    \/ which = "sockets" /\ Sockets!Next /\ UNCHANGED <<which, vars, sVars, rVars, tVars>>
    \/ which = "tokens" /\ Tokens!JNext /\ UNCHANGED <<which, vars, sVars, rVars, wVars>>

MCSpec == MCInit /\ [][MCNext]_<<which, vars, sVars, rVars, wVars, tVars>>

\* Whatever the order of the middleware: what the handler can read to the end is
\* decoded, signed and within the limits; the client gets the handler's status and
\* whole body once, encrypted or not as Cryption promises, or an error response
\* and nothing else; logs, breakers and spans have the status the client got.
RequestExact == Stack!InboundExact /\ Stack!ResponseExact

\* Routes, groups, middleware and the custom 404 in any order and under requests:
\* the cached handler is up to date, middleware runs in order, and 404, 405 and
\* the route's template are what the mux makes of the request.
RouterExact ==
    /\ [](/\ Routing!TypeOK
          /\ Routing!HandlerFresh
          /\ Routing!PathsNest
          /\ Routing!RunsInOrder
          /\ Routing!NotFoundExact
          /\ Routing!RoutesListed)
    /\ Routing!KeepsNotAllowed

\* Whatever the other server does, a Close and a restart included, a connection goes
\* out of a room only by a Leave of its own server's application or its own clean-up,
\* while its server is up.
OthersKept == Sockets!OthersKept

\* The business claims of a login survive every refresh, and a token is accepted for
\* its lifetime, by applications with its issuer and audience only, which are its
\* maker's, or its caller's where the maker has none configured.
TokensExact == Tokens!TokensExact
=============================================================================
