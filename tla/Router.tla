------------------------------- MODULE Router -------------------------------
(***************************************************************************)
(* Routing of httpx.Server: routes and groups are registered, global       *)
(* middleware and the custom 404 are set, and the root handler is built    *)
(* lazily and cached, in any order and while requests are being served.    *)
(*                                                                         *)
(* A path is what is left of its string once it is split at the slashes.   *)
(* http.ServeMux is modelled from its use: the most specific pattern wins, *)
(* a path that only other methods have is a 405, a pattern that exists     *)
(* already is a panic, and patterns are never removed.                     *)
(***************************************************************************)
EXTENDS Naturals, Sequences, SequencesExt, FiniteSets, FiniteSetsExt

CONSTANTS
    GlobalMws, GroupMws,    \* middleware, each is added once
    Groups,                 \* identities of groups
    GroupPrefixes,               \* prefixes of groups
    RouteLists,             \* arguments of AddRoutes
    Requests,               \* requests, one of which is made: they only read
    MaxRoutes               \* bound: AddRoutes is called below that many

VARIABLES
    mux,            \* what is registered: pattern, baked middleware, handler
    routes,         \* s.routes
    adding,         \* routes that AddRoutes still has to register
    panicked,       \* AddRoutes has panicked
    gmw, notFound,  \* s.gmw; whether s.notFoundHandler is set
    gh,             \* s.gh: what it was built from, or NoHandler
    served,         \* the handler of the running http.Server, or NoHandler
    asked,          \* history: gmw and notFound when Start asked for it
    groups,         \* prefix and middlewares of each group
    call            \* where each request is, and what came of it

vars == <<mux, routes, adding, panicked, gmw, notFound, gh, served, asked, groups, call>>

-----------------------------------------------------------------------------
(* Paths. *)

Path(lead, segs, trail) == [lead |-> lead, segs |-> segs, trail |-> trail]
Empty == Path(FALSE, <<>>, FALSE)
Root == Path(TRUE, <<>>, TRUE)

\* normalizePath.
Normalize(p) == IF p = Empty THEN Root ELSE [p EXCEPT !.lead = TRUE]

\* path.Join, which cleans, then the leading and the trailing slash.
Join(prefix, p) ==
    LET segs == prefix.segs \o p.segs
    IN IF prefix = Empty THEN p
       ELSE Path(TRUE, segs, segs = <<>> \/ (p.trail /\ p # Root))

\* The intent: the segments of all prefixes and of the path, outermost first, and a
\* subtree if the route says so.
Nested(prefixes, p) ==
    LET segs == FlattenSeq([i \in DOMAIN prefixes |-> prefixes[i].segs]) \o p.segs
        inner == \E i \in DOMAIN prefixes : prefixes[i] # Empty
    IN Path(TRUE, segs, segs = <<>> \/ (p.trail /\ (p = Root => ~inner)))

-----------------------------------------------------------------------------

Chain(ms, nf) == [gmw |-> ms, notFound |-> nf, built |-> TRUE]
NoHandler == [gmw |-> <<>>, notFound |-> FALSE, built |-> FALSE]
NoGroup == [prefix |-> Empty, mws |-> <<>>, nest |-> <<>>, made |-> FALSE]
Idle == [at |-> "idle", pattern |-> Empty, out |-> "none", ran |-> <<>>]

Init ==
    /\ mux = {} /\ routes = <<>> /\ adding = <<>> /\ panicked = FALSE
    /\ gmw = <<>> /\ notFound = FALSE
    /\ gh = NoHandler /\ served = NoHandler /\ asked = NoHandler
    /\ groups = [g \in Groups |-> NoGroup]
    /\ call = [r \in Requests |-> Idle]

\* Server.Group and Group.Group: a copy of the parent's middleware.
Group(g, parent, prefix, mws) ==
    /\ ~groups[g].made /\ parent.made
    /\ groups' = [groups EXCEPT ![g] =
           [prefix |-> Join(parent.prefix, prefix), mws |-> parent.mws \o mws,
            nest |-> Append(parent.nest, prefix), made |-> TRUE]]
    /\ UNCHANGED <<mux, routes, adding, panicked, gmw, notFound, gh, served, asked, call>>

Unused(ms, in) == ms \ UNION {ToSet(q) : q \in in}
GroupLists == {groups[g].mws : g \in Groups}

GroupUse(g, m) ==
    /\ groups[g].made /\ m \in Unused(GroupMws, GroupLists)
    /\ groups' = [groups EXCEPT ![g].mws = Append(@, m)]
    /\ UNCHANGED <<mux, routes, adding, panicked, gmw, notFound, gh, served, asked, call>>

\* AddRoutes: WithPrefix and WithMiddlewares of the group are applied...
AddRoutes(g, rs) ==
    /\ adding = <<>> /\ ~panicked /\ groups[g].made
    /\ Len(routes) < MaxRoutes
    /\ adding' = [i \in DOMAIN rs |->
           [method |-> rs[i].method, path |-> Join(groups[g].prefix, rs[i].path),
            mws |-> groups[g].mws,
            want |-> Nested(groups[g].nest, rs[i].path)]]
    /\ UNCHANGED <<mux, routes, panicked, gmw, notFound, gh, served, asked, groups, call>>

\* ... and each route is registered in the mux, which panics for a duplicate...
Entry(r) == [method |-> r.method, path |-> Normalize(r.path), mws |-> r.mws, want |-> r.want]
Duplicate(r) == \E e \in mux : e.method = r.method /\ e.path = Normalize(r.path)

Handle ==
    /\ adding # <<>> /\ Len(routes) = Cardinality(mux)
    /\ IF Duplicate(Head(adding))
       THEN panicked' = TRUE /\ adding' = <<>> /\ UNCHANGED mux
       ELSE mux' = mux \union {Entry(Head(adding))} /\ UNCHANGED <<adding, panicked>>
    /\ UNCHANGED <<routes, gmw, notFound, gh, served, asked, groups, call>>

\* ... and then put into the list, under stateLk.
List ==
    /\ Len(routes) < Cardinality(mux)
    /\ routes' = Append(routes, Head(adding))
    /\ adding' = Tail(adding)
    /\ UNCHANGED <<mux, panicked, gmw, notFound, gh, served, asked, groups, call>>

\* Mutant: the cached handler is kept.
UseCached(m) ==
    /\ m \in Unused(GlobalMws, {gmw})
    /\ gmw' = Append(gmw, m)
    /\ UNCHANGED <<mux, routes, adding, panicked, notFound, gh, served, asked, groups, call>>

Use(m) ==
    /\ m \in Unused(GlobalMws, {gmw})
    /\ gmw' = Append(gmw, m)
    /\ gh' = NoHandler
    /\ UNCHANGED <<mux, routes, adding, panicked, notFound, served, asked, groups, call>>

SetNotFoundHandler ==
    /\ ~notFound
    /\ notFound' = TRUE
    /\ gh' = NoHandler
    /\ UNCHANGED <<mux, routes, adding, panicked, gmw, served, asked, groups, call>>

\* buildGlobalHandler takes what is set now.
Built == IF gh = NoHandler THEN Chain(gmw, notFound) ELSE gh

\* Handler, by itself (a test's) or in Start, which serves it from then on.
Handler ==
    /\ gh' = Built
    /\ UNCHANGED <<mux, routes, adding, panicked, gmw, notFound, served, asked, groups, call>>

Start ==
    /\ served = NoHandler
    /\ gh' = Built /\ served' = gh'
    /\ asked' = Chain(gmw, notFound)
    /\ UNCHANGED <<mux, routes, adding, panicked, gmw, notFound, groups, call>>

-----------------------------------------------------------------------------
(* A request. *)

OnPath(e, r) ==
    IF e.path.trail THEN IsPrefix(e.path.segs, r.path.segs)
    ELSE e.path.segs = r.path.segs
MethodOf(e, r) == e.method \in {r.method, "*"}

\* mux.Handler: longer paths are more specific, then those without a subtree, then
\* those with a method.
Weight(e) ==
    4 * Len(e.path.segs) + (IF e.path.trail THEN 0 ELSE 2) + (IF e.method = "*" THEN 0 ELSE 1)
Matches(r) == {e \in mux : OnPath(e, r) /\ MethodOf(e, r)}
Best(r) == CHOOSE e \in Matches(r) : \A f \in Matches(r) : Weight(f) <= Weight(e)
NotAllowed(r) == Matches(r) = {} /\ \E e \in mux : OnPath(e, r)
MuxNotFound(r) == Matches(r) = {} /\ ~NotAllowed(r)

\* The pre-check of the route for the context, then the global middleware.
Enter(r) ==
    /\ served # NoHandler
    /\ \A q \in Requests : call[q].at = "idle"
    /\ call' = [call EXCEPT ![r] =
           [at |-> IF served.notFound THEN "check" ELSE "dispatch",
            pattern |-> IF (served.gmw # <<>> \/ served.notFound) /\ Matches(r) # {}
                        THEN Best(r).path ELSE Empty,
            out |-> "none", ran |-> served.gmw]]
    /\ UNCHANGED <<mux, routes, adding, panicked, gmw, notFound, gh, served, asked, groups>>

\* isMuxNotFound, for the custom 404.
Check(r) ==
    /\ call[r].at = "check"
    /\ call' = [call EXCEPT ![r] =
           IF MuxNotFound(r) THEN [@ EXCEPT !.at = "done", !.out = "custom"]
           ELSE [@ EXCEPT !.at = "dispatch"]]
    /\ UNCHANGED <<mux, routes, adding, panicked, gmw, notFound, gh, served, asked, groups>>

Dispatch(r) ==
    /\ call[r].at = "dispatch"
    /\ call' = [call EXCEPT ![r] =
           IF Matches(r) # {}
           THEN [@ EXCEPT !.at = "done", !.out = "route", !.ran = call[r].ran \o Best(r).mws]
           ELSE [@ EXCEPT !.at = "done",
                          !.out = IF NotAllowed(r) THEN "405" ELSE "404"]]
    /\ UNCHANGED <<mux, routes, adding, panicked, gmw, notFound, gh, served, asked, groups>>

Server == [NoGroup EXCEPT !.made = TRUE]
Next ==
    \/ \E g \in Groups, p \in GroupPrefixes :
          \E parent \in {Server} \union {groups[q] : q \in Groups} :
             \E mws \in {<<>>} \union {<<m>> : m \in Unused(GroupMws, GroupLists)} :
                Group(g, parent, p, mws)
    \/ \E g \in Groups : (\E m \in GroupMws : GroupUse(g, m)) \/ \E rs \in RouteLists : AddRoutes(g, rs)
    \/ Handle \/ List
    \/ \E m \in GlobalMws : Use(m)
    \/ SetNotFoundHandler \/ Handler \/ Start
    \/ \E r \in Requests : Enter(r) \/ Check(r) \/ Dispatch(r)

Spec == Init /\ [][Next]_vars

-----------------------------------------------------------------------------

TypeOK ==
    /\ gmw \in Seq(GlobalMws) /\ notFound \in BOOLEAN
    /\ \A e \in mux : e.path.lead
    /\ \A r \in Requests : call[r].at \in {"idle", "check", "dispatch", "done"}

\* The running server has the middleware that was there when Start asked for its
\* handler, and the cache what there is now: whatever was set after an earlier
\* Handler, and nothing that was set after Start ("does not affect the running
\* httpServer").
HandlerFresh ==
    /\ served = asked
    /\ gh # NoHandler => gh = Chain(gmw, notFound)

\* Nested groups: a route lies below all the prefixes, in order, in whatever way
\* they are written.
PathsNest == \A e \in mux : e.path = e.want

\* "global middleware, group middleware, route handler", and the group's are those
\* the group had when the route was added.
RunsInOrder ==
    \A r \in Requests : call[r].at = "done" =>
        /\ IsPrefix(asked.gmw, call[r].ran)
        /\ call[r].out = "route" =>
              \E e \in mux : OnPath(e, r) /\ MethodOf(e, r) /\ call[r].ran = asked.gmw \o e.mws
        /\ call[r].out # "route" => call[r].ran = asked.gmw

\* With a custom 404 nobody gets the built-in one, and no 405 is lost for it; the
\* template in the context is that of a route, although routes are added between
\* the pre-check and the dispatch.
NotFoundExact ==
    \A r \in Requests : call[r].at = "done" =>
        /\ call[r].out = "404" => ~asked.notFound
        /\ call[r].out = "custom" => asked.notFound /\ call[r].pattern = Empty
        /\ call[r].pattern # Empty => call[r].out = "route"

\* A request that ends while its path has routes for other methods only is
\* answered 405, with a custom 404 too and although routes are being added between
\* isMuxNotFound and the dispatch.
KeepsNotAllowed ==
    [][\A r \in Requests :
          call[r].at # "done" /\ call'[r].at = "done" /\ NotAllowed(r)
              => call'[r].out = "405"]_vars

\* Routes lists what the mux serves, each route once and in order, except the one
\* that is being added; also after a panic in the middle of AddRoutes.
RoutesListed ==
    /\ \A i \in DOMAIN routes : Entry(routes[i]) \in mux
    /\ \A i, j \in DOMAIN routes : Entry(routes[i]) = Entry(routes[j]) => i = j
    /\ Cardinality(mux) - Len(routes) \in {0, 1}
    /\ adding = <<>> => Cardinality(mux) = Len(routes)
=============================================================================
