---------------------------- MODULE ServiceGroup ----------------------------
(***************************************************************************)
(* service.ServiceGroup together with the services it manages: ordinary    *)
(* services that keep the contract of service.Service, httpx.Servers       *)
(* wrapped by AsService, and the adapters whose Stop is a no-op.           *)
(*                                                                         *)
(* One goroutine runs Start; one per service runs its Start; Stop comes    *)
(* from a user goroutine or from the recover of a panicking service, and   *)
(* starts one goroutine per service.                                       *)
(***************************************************************************)
EXTENDS Naturals, FiniteSets

CONSTANTS
    Workers,    \* services that record a stop request whenever it arrives
    Servers,    \* AsService(*httpx.Server)
    StartOnly,  \* WithStart / WithStarter
    Panicky,    \* services whose Start may panic
    Early       \* services added before Start; the others may be added later

Services == Workers \union Servers \union StartOnly

ASSUME KindsAssumption ==
    /\ Workers \intersect Servers = {}
    /\ StartOnly \intersect (Workers \union Servers) = {}
ASSUME RolesAssumption == Panicky \subseteq Services /\ Early \subseteq Services

VARIABLES
    services,   \* sg.services
    startPc,    \* where ServiceGroup.Start is
    snap,       \* the snapshot doStart took
    started,    \* sg.started
    barrier,    \* whether allEntered is closed
    svc,        \* where each service's start goroutine is
    panicOnce,  \* doStart's panicOnce
    once,       \* sg.stopOnce
    stopPc,     \* where doStop is
    sawStarted, \* doStop's local copy of sg.started
    stopCall,   \* how often and how far Stop of each service got
    told,       \* whether a stop request has reached the service's own state
    panicked    \* history: a service has panicked in Start

vars == <<services, startPc, snap, started, barrier, svc, panicOnce, once,
          stopPc, sawStarted, stopCall, told, panicked>>

OnceStates == {"new", "running", "done"}
StartPCs == {"idle", "snapshot", "marked", "waiting", "returned"}
\* doStop: reading sg.started, then allEntered, then the Stop goroutines.
StopPCs == {"off", "check", "barrier", "wait"}
SvcPCs == {"none", "spawned",
           "entered",   \* entered.Done() called, s.Start() not yet
           "init",      \* inside s.Start(), before its state is registered
           "running",   \* inside s.Start(), a stop request will be seen
           "panicked",  \* in recover, before panicOnce.Do
           "handling",  \* inside panicOnce.Do, in sg.stopOnce()
           "done"}      \* wg.Done()
StopCall == [issued : 0..2, active : BOOLEAN]

Init ==
    /\ services = Early
    /\ startPc = "idle"
    /\ snap = {}
    /\ started = FALSE
    /\ barrier = FALSE
    /\ svc = [s \in Services |-> "none"]
    /\ panicOnce = "new"
    /\ once = "new"
    /\ stopPc = "off"
    /\ sawStarted = FALSE
    /\ stopCall = [s \in Services |-> [issued |-> 0, active |-> FALSE]]
    /\ told = [s \in Services |-> FALSE]
    /\ panicked = FALSE

-----------------------------------------------------------------------------
(* The application. *)

Add(s) ==
    /\ s \in Services \ services
    /\ services' = services \union {s}
    /\ UNCHANGED <<startPc, snap, started, barrier, svc, panicOnce, once, stopPc,
                   stopCall, told, panicked, sawStarted>>

\* sync.OnceFunc(doStop): only the first caller runs it.
BeginStop ==
    /\ once = "new"
    /\ once' = "running"
    /\ stopPc' = "check"

Stop ==
    /\ BeginStop
    /\ UNCHANGED <<services, startPc, snap, started, barrier, svc, panicOnce,
                   stopCall, told, panicked, sawStarted>>

-----------------------------------------------------------------------------
(* doStart and the goroutines it spawns. *)

StartSnapshot ==
    /\ startPc = "idle"
    /\ startPc' = "snapshot"
    /\ snap' = services
    /\ UNCHANGED <<services, started, barrier, svc, panicOnce, once, stopPc,
                   stopCall, told, panicked, sawStarted>>

StartMark ==
    /\ startPc = "snapshot"
    /\ startPc' = "marked"
    /\ started' = TRUE
    /\ UNCHANGED <<services, snap, barrier, svc, panicOnce, once, stopPc, stopCall,
                   told, panicked, sawStarted>>

StartSpawn ==
    /\ startPc = "marked"
    /\ startPc' = "waiting"
    /\ svc' = [s \in Services |-> IF s \in snap THEN "spawned" ELSE svc[s]]
    /\ UNCHANGED <<services, snap, started, barrier, panicOnce, once, stopPc,
                   stopCall, told, panicked, sawStarted>>

\* Mutant: the barrier is released without waiting for the counter.
CloseBarrierAtOnce ==
    /\ startPc = "waiting" /\ ~barrier
    /\ barrier' = TRUE
    /\ UNCHANGED <<services, startPc, snap, started, svc, panicOnce, once, stopPc,
                   stopCall, told, panicked, sawStarted>>

\* The goroutine behind the barrier: entered.Wait(), then close(allEntered).
CloseBarrier ==
    /\ startPc \in {"waiting", "returned"} /\ ~barrier
    /\ \A s \in snap : svc[s] # "spawned"
    /\ barrier' = TRUE
    /\ UNCHANGED <<services, startPc, snap, started, svc, panicOnce, once, stopPc,
                   stopCall, told, panicked, sawStarted>>

StartReturn ==
    /\ startPc = "waiting"
    /\ \A s \in snap : svc[s] = "done"
    /\ startPc' = "returned"
    /\ UNCHANGED <<services, snap, started, barrier, svc, panicOnce, once, stopPc,
                   stopCall, told, panicked, sawStarted>>

Move(s, from, to) ==
    /\ svc[s] = from
    /\ svc' = [svc EXCEPT ![s] = to]

\* entered.Done(): reported before s.Start() is called.
Report(s) ==
    /\ Move(s, "spawned", "entered")
    /\ UNCHANGED <<services, startPc, snap, started, barrier, panicOnce, once,
                   stopPc, stopCall, told, panicked, sawStarted>>

\* The call of s.Start().
CallStart(s) ==
    /\ Move(s, "entered", "init")
    /\ UNCHANGED <<services, startPc, snap, started, barrier, panicOnce, once,
                   stopPc, stopCall, told, panicked, sawStarted>>

\* The service registers itself; for a Server this is s.httpServer = srv.
Register(s) ==
    /\ Move(s, "init", "running")
    /\ UNCHANGED <<services, startPc, snap, started, barrier, panicOnce, once,
                   stopPc, stopCall, told, panicked, sawStarted>>

\* Start returns because of a stop request: a Server's ListenAndServe yields
\* http.ErrServerClosed, also when Shutdown came before it.
StopSeen(s) ==
    /\ told[s]
    /\ Move(s, "running", "done")
    /\ UNCHANGED <<services, startPc, snap, started, barrier, panicOnce, once,
                   stopPc, stopCall, told, panicked, sawStarted>>

\* Start returns by itself: the work is finished, ListenAndServe failed (an
\* error AsService only logs), or a Server got SIGINT, SIGTERM or SIGHUP.
ExitAlone(s) ==
    /\ Move(s, "running", "done")
    /\ UNCHANGED <<services, startPc, snap, started, barrier, panicOnce, once,
                   stopPc, stopCall, told, panicked, sawStarted>>

PanicInStart(s) ==
    /\ s \in Panicky
    /\ svc[s] \in {"init", "running"}
    /\ svc' = [svc EXCEPT ![s] = "panicked"]
    /\ panicked' = TRUE
    /\ UNCHANGED <<services, startPc, snap, started, barrier, panicOnce, once,
                   stopPc, stopCall, told, sawStarted>>

\* The first panic enters panicOnce.Do and calls sg.stopOnce().
HandlePanic(s) ==
    /\ panicOnce = "new"
    /\ panicOnce' = "running"
    /\ Move(s, "panicked", "handling")
    /\ IF once = "new" THEN BeginStop ELSE UNCHANGED <<once, stopPc>>
    /\ UNCHANGED <<services, startPc, snap, started, barrier, stopCall, told,
                   panicked, sawStarted>>

\* sync.OnceFunc returns to every caller only after doStop has.
PanicHandled(s) ==
    /\ once = "done"
    /\ panicOnce' = "done"
    /\ Move(s, "handling", "done")
    /\ UNCHANGED <<services, startPc, snap, started, barrier, once, stopPc, stopCall,
                   told, panicked, sawStarted>>

\* A later panic waits for the first one's panicOnce.Do and does nothing.
LaterPanic(s) ==
    /\ panicOnce = "done"
    /\ Move(s, "panicked", "done")
    /\ UNCHANGED <<services, startPc, snap, started, barrier, panicOnce, once,
                   stopPc, stopCall, told, panicked, sawStarted>>

-----------------------------------------------------------------------------
(* doStop and the goroutines it spawns. *)

\* Mutant: the check for a Start that has not begun is missing.
StopCheckAlwaysWaits ==
    /\ stopPc = "check"
    /\ stopPc' = "barrier"
    /\ sawStarted' = TRUE
    /\ UNCHANGED <<services, startPc, snap, started, barrier, svc, panicOnce, once,
                   stopCall, told, panicked>>

StopCheck ==
    /\ stopPc = "check"
    /\ stopPc' = "barrier"
    /\ sawStarted' = started
    /\ UNCHANGED <<services, startPc, snap, started, barrier, svc, panicOnce, once,
                   stopCall, told, panicked>>

\* The barrier, the second snapshot and one goroutine per service in it.
StopDispatch ==
    /\ stopPc = "barrier"
    /\ sawStarted => barrier
    /\ stopPc' = "wait"
    /\ stopCall' = [s \in Services |->
           IF s \in services
           THEN [issued |-> stopCall[s].issued + 1, active |-> TRUE]
           ELSE stopCall[s]]
    /\ UNCHANGED <<services, startPc, snap, started, barrier, svc, panicOnce, once,
                   told, panicked, sawStarted>>

\* What a call of Stop leaves in the service: a worker records the request; a
\* Server acts on it only once Start has registered its http.Server (Shutdown
\* returns nil before that); the adapters ignore it.
Hears(s) ==
    \/ s \in Workers
    \/ s \in Servers /\ svc[s] \notin {"none", "spawned", "entered", "init"}

\* A panic in s.Stop() is recovered and logged: the goroutine ends either way.
StopService(s) ==
    /\ stopCall[s].active
    /\ told' = [told EXCEPT ![s] = @ \/ Hears(s)]
    /\ stopCall' = [stopCall EXCEPT ![s].active = FALSE]
    /\ UNCHANGED <<services, startPc, snap, started, barrier, svc, panicOnce, once,
                   stopPc, panicked, sawStarted>>

StopReturn ==
    /\ stopPc = "wait"
    /\ \A s \in Services : ~stopCall[s].active
    /\ stopPc' = "off"
    /\ once' = "done"
    /\ UNCHANGED <<services, startPc, snap, started, barrier, svc, panicOnce,
                   stopCall, told, panicked, sawStarted>>

-----------------------------------------------------------------------------

\* What the runtime and well-behaved services do of their own accord.
SvcStep(s) ==
    \/ Report(s) \/ CallStart(s) \/ Register(s) \/ StopSeen(s)
    \/ HandlePanic(s) \/ PanicHandled(s) \/ LaterPanic(s)
StopStep == StopCheck \/ StopDispatch \/ StopReturn
StartStep == StartMark \/ StartSpawn \/ CloseBarrier \/ StartReturn

\* Start has returned and so has Stop: nothing is left to run.
Finished ==
    /\ startPc = "returned" /\ once # "running" /\ services = Services
    /\ UNCHANGED vars

\* The moves of the application before and while the group runs.
AppStep == Stop \/ StartSnapshot \/ (\E s \in Services : Add(s))

Next ==
    \/ AppStep
    \/ StartStep
    \/ StopStep
    \/ \E s \in Services :
          SvcStep(s) \/ StopService(s) \/ ExitAlone(s) \/ PanicInStart(s)
    \/ Finished

Spec == Init /\ [][Next]_vars

\* Runnable goroutines run; a worker's Start, once told to stop, returns.
\* Neither a panic, nor a service ending alone, nor a user Stop is promised.
FairSpec ==
    /\ Spec
    /\ WF_vars(StartStep) /\ WF_vars(StopStep)
    /\ WF_vars(CloseBarrier) /\ WF_vars(StartReturn)
    /\ \A s \in Services : WF_vars(SvcStep(s)) /\ WF_vars(StopService(s))

-----------------------------------------------------------------------------

TypeOK ==
    /\ services \subseteq Services
    /\ startPc \in StartPCs
    /\ snap \subseteq services
    /\ started \in BOOLEAN /\ barrier \in BOOLEAN
    /\ sawStarted \in BOOLEAN /\ panicked \in BOOLEAN
    /\ svc \in [Services -> SvcPCs]
    /\ panicOnce \in OnceStates /\ once \in OnceStates
    /\ stopPc \in StopPCs
    /\ stopCall \in [Services -> StopCall]
    /\ told \in [Services -> BOOLEAN]
    /\ \A s \in Services : svc[s] # "none" => started /\ s \in snap

\* "ServiceGroup guarantees that Stop is issued at most once" (Service), with a
\* user Stop, a panic and further panics all asking for it.
StopAtMostOnce == \A s \in Services : stopCall[s].issued <= 1

\* The start barrier: a doStop that found Start under way issues no Stop to a
\* service whose goroutine has not reported.
BarrierHolds ==
    sawStarted => \A s \in snap :
        svc[s] \in {"none", "spawned"} => stopCall[s].issued = 0

\* The recover of a panicking service runs the stop synchronously, so Start
\* does not return from a panic before every Stop has finished.
PanicStopsBeforeReturn ==
    startPc = "returned" /\ panicked => once = "done"

\* doStop's discipline: all of these, whoever asks for the stop and how often.
StopDiscipline == TypeOK /\ StopAtMostOnce /\ BarrierHolds /\ PanicStopsBeforeReturn

\* "never before that service's Start has been called (see the start barrier in
\* ServiceGroup.doStop)" (Service): for a doStop that did wait at the barrier.
NoStopBeforeStart ==
    sawStarted => \A s \in snap :
        svc[s] \in {"none", "spawned", "entered"} => stopCall[s].issued = 0

\* "Services added after Start has begun are neither started nor stopped".
LateServicesLeftAlone ==
    sawStarted => \A s \in Services \ snap : stopCall[s].issued = 0

\* A stop request, or a panic in one Start, unblocks every Start: the group's
\* Start returns ("A panic in Start automatically triggers Stop to unblock the
\* other services"), provided the services it started remember a request that
\* comes early and were there when it came.
StopEndsGroup ==
    (startPc \in {"marked", "waiting"} /\ snap \subseteq Workers \intersect Early
        /\ (panicked \/ once # "new")) ~> startPc = "returned"

\* The same for a stop that waited at the barrier, which "avoids a service
\* stopped before it ever started and then never receiving the stop signal once
\* it does start" (ServiceGroup.Start).
BarrierStopEndsGroup == sawStarted ~> startPc = "returned"

\* Stop itself never blocks for good, whatever Start is doing.
StopReturns == once = "running" ~> once = "done"
=============================================================================
