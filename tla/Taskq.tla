------------------------------- MODULE Taskq -------------------------------
(***************************************************************************)
(* taskq: a Producer and a Consumer built from the same Config, around the *)
(* client and the server of asynq.  Goroutines start, run and shut down    *)
(* the consumer while others enqueue with options of their own.            *)
(*                                                                         *)
(* asynq is modelled from its use and from the tests of the package: a     *)
(* server is started once, is closed for good by Shutdown, which does      *)
(* nothing before the start, and Run blocks until a signal.                *)
(***************************************************************************)
EXTENDS Naturals, Sequences, FiniteSets

CONSTANTS
    Names,          \* queue names, "default" among them
    Starters, Runners, Stoppers,   \* who calls Start, Run, Shutdown
    Senders,        \* who enqueues, each with a delay of its own
    SharedSpare     \* the senders pass one slice of options that has room left

VARIABLES
    cfg,            \* the Config and the Option of the application
    started,        \* c.started
    server,         \* asynq.Server: "new", "active", "closed"
    pc,             \* where each Runner and each Sender is
    own,            \* the options that a sender passes
    spare,          \* the element behind the shared slice
    tasks, processed,
    crossed         \* history: a Shutdown came between the two steps of Run

vars == <<cfg, started, server, pc, own, spare, tasks, processed, crossed>>

Unset == "unset"
Queue(q) == [set |-> "queue", to |-> q]
MaxRetry(n) == [set |-> "retry", to |-> n]
ProcessIn(d) == [set |-> "delay", to |-> d]

\* Config.DefaultMaxRetry cannot express 0; noRetry is WithDefaultMaxRetry(0).
Configs == [queues : SUBSET Names, queue : Names \union {Unset},
            retry : {0, 3}, noRetry : BOOLEAN]

\* Mutant: Queues is taken as it is.
FillDefaultOnly(c) ==
    [queues |-> c.queues,
     queue |-> IF c.queue = Unset THEN "default" ELSE c.queue,
     retry |-> IF c.noRetry THEN 0
               ELSE IF c.retry # 0 THEN c.retry ELSE 25]

\* fillDefault: what is zero is unset, an Option comes last, and a non-empty
\* Queues gets DefaultQueue if it is not in it (ensureDefaultQueueConsumed).
FillDefault(c) ==
    LET dq == IF c.queue = Unset THEN "default" ELSE c.queue
    IN [queues |-> IF c.queues = {} THEN {} ELSE c.queues \union {dq},
        queue |-> dq,
        retry |-> IF c.noRetry THEN 0
                  ELSE IF c.retry # 0 THEN c.retry ELSE 25]

\* toAsynqConfig: what the consumer subscribes to.
Subscribed ==
    LET c == FillDefault(cfg) IN IF c.queues = {} THEN {c.queue} ELSE c.queues

\* defaultOpts; asynq lets the last option of a kind win.
DefaultOpts ==
    LET c == FillDefault(cfg) IN <<MaxRetry(c.retry), Queue(c.queue)>>
Winner(opts, kind) ==
    LET is == {i \in DOMAIN opts : opts[i].set = kind}
    IN IF is = {} THEN Unset
       ELSE opts[CHOOSE i \in is : \A j \in is : j <= i].to

Init ==
    /\ cfg \in Configs
    /\ started = FALSE
    /\ server = "new"
    /\ pc = [p \in Runners \union Senders |-> "idle"]
    /\ own = [s \in Senders |-> <<>>]
    /\ spare = ProcessIn(Unset)
    /\ tasks = {} /\ processed = {}
    /\ crossed = FALSE

-----------------------------------------------------------------------------
(* The consumer. *)

\* asynq's Server.Start, which may also fail.
ServerStarts == server = "new" /\ server' = "active"
ServerRefuses == UNCHANGED server

\* Start holds c.mu throughout; when started it returns an error at once.
Start(p) ==
    /\ ~started
    /\ \/ ServerStarts /\ started' = TRUE
       \/ ServerRefuses /\ UNCHANGED started
    /\ UNCHANGED <<cfg, pc, own, spare, tasks, processed, crossed>>

\* Mutant: Run leaves started as it is.
RunUnmarked(p) ==
    /\ pc[p] = "idle"
    /\ pc' = [pc EXCEPT ![p] = "run"]
    /\ UNCHANGED <<cfg, started, server, own, spare, tasks, processed, crossed>>

\* Run sets started, without a look at it...
RunMark(p) ==
    /\ pc[p] = "idle"
    /\ started' = TRUE
    /\ pc' = [pc EXCEPT ![p] = "run"]
    /\ UNCHANGED <<cfg, server, own, spare, tasks, processed, crossed>>

\* ... and calls server.Run after the unlock, which fails...
RunFails(p) ==
    /\ pc[p] = "run"
    /\ ServerRefuses
    /\ pc' = [pc EXCEPT ![p] = "returned"]
    /\ UNCHANGED <<cfg, started, own, spare, tasks, processed, crossed>>

\* ... or blocks until a signal; started stays as it is.
RunServes(p) ==
    /\ pc[p] = "run"
    /\ ServerStarts
    /\ pc' = [pc EXCEPT ![p] = "running"]
    /\ UNCHANGED <<cfg, started, own, spare, tasks, processed, crossed>>

Signal(p) ==
    /\ pc[p] = "running"
    /\ server' = "closed"
    /\ pc' = [pc EXCEPT ![p] = "returned"]
    /\ UNCHANGED <<cfg, started, own, spare, tasks, processed, crossed>>

\* Shutdown holds c.mu too; asynq ignores it when the server is not active.
Shutdown(p) ==
    /\ started
    /\ server' = IF server = "active" THEN "closed" ELSE server
    /\ started' = FALSE
    /\ crossed' = (crossed \/ \E r \in Runners : pc[r] = "run")
    /\ UNCHANGED <<cfg, pc, own, spare, tasks, processed>>

-----------------------------------------------------------------------------
(* The producer. *)

\* EnqueueIn and EnqueueAt: append(opts, ...) writes behind the caller's slice
\* when there is room, and copies it when not.
EnqueueIn(s, opts) ==
    /\ pc[s] = "idle"
    /\ own' = [own EXCEPT ![s] = opts]
    /\ spare' = IF SharedSpare THEN ProcessIn(s) ELSE spare
    /\ pc' = [pc EXCEPT ![s] = "delayed"]
    /\ UNCHANGED <<cfg, started, server, tasks, processed, crossed>>

\* Enqueue copies the defaults and appends to the copy; asynq may refuse.
Enqueue(s, delayed) ==
    LET in == IF SharedSpare THEN spare ELSE ProcessIn(s)
        opts == DefaultOpts \o own[s] \o IF delayed THEN <<in>> ELSE <<>>
    IN \/ tasks' = tasks \union
              {[by |-> s, queue |-> Winner(opts, "queue"),
                retry |-> Winner(opts, "retry"), delay |-> Winner(opts, "delay")]}
       \/ UNCHANGED tasks

EnqueueDelayed(s) ==
    /\ pc[s] = "delayed" /\ Enqueue(s, TRUE)
    /\ pc' = [pc EXCEPT ![s] = "sentLater"]
    /\ UNCHANGED <<cfg, started, server, own, spare, processed, crossed>>

EnqueueNow(s) ==
    /\ pc[s] = "idle" /\ Enqueue(s, FALSE)
    /\ pc' = [pc EXCEPT ![s] = "sentNow"]
    /\ UNCHANGED <<cfg, started, server, own, spare, processed, crossed>>

\* asynq: an active server takes tasks from the queues it is subscribed to.
Process(t) ==
    /\ server = "active"
    /\ t \in tasks \ processed /\ t.queue \in Subscribed
    /\ processed' = processed \union {t}
    /\ UNCHANGED <<cfg, started, server, pc, own, spare, tasks, crossed>>

Next ==
    \/ \E p \in Starters : Start(p)
    \/ \E p \in Runners : RunMark(p) \/ RunFails(p) \/ RunServes(p) \/ Signal(p)
    \/ \E p \in Stoppers : Shutdown(p)
    \/ \E s \in Senders :
          \/ EnqueueNow(s) \/ EnqueueDelayed(s)
          \/ \E opts \in {<<>>} \union {<<Queue(q)>> : q \in Names} : EnqueueIn(s, opts)
    \/ \E t \in tasks : Process(t)

Consume == \E t \in tasks : Process(t)

Spec == Init /\ [][Next]_vars /\ WF_vars(Consume)

-----------------------------------------------------------------------------

TypeOK ==
    /\ started \in BOOLEAN
    /\ server \in {"new", "active", "closed"}
    /\ processed \subseteq tasks

\* A task carries the options of its own call and the defaults for the rest,
\* whatever other goroutines enqueue: "appending directly could reuse the
\* backing array of defaultOpts and leak state across calls" (producer.go:35).
OwnOptions ==
    \A t \in tasks :
        /\ t.delay = IF pc[t.by] = "sentLater" THEN t.by ELSE Unset
        /\ t.queue = IF own[t.by] # <<>> THEN own[t.by][1].to ELSE FillDefault(cfg).queue
        /\ t.retry = FillDefault(cfg).retry

\* While the server is active Shutdown does not return early: started says so,
\* unless Shutdown has come between Run's mark and the start of the server.
Stoppable == server = "active" => started \/ crossed

\* Without Run, started is exactly that the server is active.
StartedExact ==
    (\A r \in Runners : pc[r] = "idle") => (started <=> server = "active")

\* "Make sure the queue the producer enqueues to (DefaultQueue) is actually
\* subscribed by the consumer" (config.go:113): a task of the default queue is
\* processed as long as the consumer goes on.
DefaultConsumed ==
    \A s \in Senders :
        (server = "active" /\ \E t \in tasks : t.by = s /\ own[s] = <<>>)
            ~> (server # "active" \/ \E t \in processed : t.by = s)

\* Start refuses with "taskq: consumer already running" only if it is: not when a
\* Run has failed, which leaves started set.
RefusalHonest == started => server = "active" \/ \E r \in Runners : pc[r] = "run"
=============================================================================
