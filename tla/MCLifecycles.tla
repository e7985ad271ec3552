---------------------------- MODULE MCLifecycles ----------------------------
(***************************************************************************)
(* What an application starts, replaces and stops, for TLC, one after the  *)
(* other: the service group, the task consumer with its producer, the      *)
(* tracing agent, and the loggers.  which is the one that runs, the        *)
(* variables of the others keep their initial values.                      *)
(***************************************************************************)
EXTENDS ServiceGroup

CONSTANTS QueueNames, Starters, Runners, Stoppers, Senders,
          Agents, ServiceNames, Attributes, MaxStarts, MaxSpans,
          Logging, Extractors, Loggers, First, Quiet

\* Who runs the consumer sends nothing, and NoOne is nobody's name.
ASSUME CallersAssumption ==
    /\ Runners \intersect Senders = {} /\ "NoOne" \notin Agents
    /\ MaxStarts \in Nat /\ MaxSpans \in Nat

VARIABLES which,
          cfg, qStarted, server, qpc, own, spare, tasks, processed, crossed,
          holder, apc, conf, current, agents, attrs, otel, spans, batch, accepted, exported,
          list, removed, reg, global, replaced, closed, open, lpc, lg, rest, fields, whole, gone

Queues == INSTANCE Taskq WITH
    Names <- QueueNames, SharedSpare <- FALSE, started <- qStarted, pc <- qpc

Tracing == INSTANCE TraceAgent WITH
    Procs <- Agents, Names <- ServiceNames, Extra <- Attributes, pc <- apc

Logs == INSTANCE Logger WITH Procs <- Logging, pc <- lpc

qVars == <<cfg, qStarted, server, qpc, own, spare, tasks, processed, crossed>>
aVars == <<holder, apc, conf, current, agents, attrs, otel, spans, batch, accepted, exported>>
lVars == <<list, removed, reg, global, replaced, closed, open, lpc, lg, rest, fields, whole, gone>>

MCInit ==
    /\ which \in {"group", "queue", "agent", "logger"}
    /\ Init /\ Queues!Init /\ Tracing!Init /\ Logs!Init
    /\ which # "queue" => cfg = [queues |-> {}, queue |-> "unset", retry |-> 0, noRetry |-> FALSE]

\* The group ends in Finished; the others may be left as they are at any time.
Rests == which # "group" /\ UNCHANGED <<which, vars, qVars, aVars, lVars>>

MCNext ==
    \/ which = "group" /\ Next /\ UNCHANGED <<which, qVars, aVars, lVars>>
    \/ which = "queue" /\ Queues!Next /\ UNCHANGED <<which, vars, aVars, lVars>>
    \/ which = "agent" /\ Tracing!Next /\ UNCHANGED <<which, vars, qVars, lVars>>
    \/ which = "logger" /\ Logs!Next /\ UNCHANGED <<which, vars, qVars, aVars>>
    \/ Rests

\* The fairness of ServiceGroup and Taskq, for the one that runs.
Fairness ==
    /\ WF_vars(which = "group" /\ StartStep) /\ WF_vars(which = "group" /\ StopStep)
    /\ WF_vars(which = "group" /\ CloseBarrier) /\ WF_vars(which = "group" /\ StartReturn)
    /\ \A s \in Services :
          WF_vars(which = "group" /\ SvcStep(s)) /\ WF_vars(which = "group" /\ StopService(s))
    /\ WF_qVars(which = "queue" /\ Queues!Consume)

MCSpec == MCInit /\ [][MCNext]_<<which, vars, qVars, aVars, lVars>> /\ Fairness

\* Stop returns, whatever Start is doing; and it, or a panic, ends a group of
\* services that remember a request that comes early.
GroupEnds == StopReturns /\ StopEndsGroup

\* A task has the options of its own call, and started says whether Shutdown is needed.
ConsumerExact ==
    Queues!TypeOK /\ Queues!OwnOptions /\ Queues!Stoppable /\ Queues!StartedExact

\* What is put into the default queue is processed while the consumer runs.
DefaultConsumed == Queues!DefaultConsumed

\* What observes the application loses nothing when it is replaced.  No span is
\* lost at StopAgent, nothing of an earlier agent stays open, and every agent has
\* the service name of its own configuration.  No registration of an extractor is
\* lost, an entry has the fields of all that were there while others log, and a walk
\* calls nobody who was unregistered before it came there.
ObserversExact ==
    /\ [](/\ Tracing!TypeOK /\ Tracing!NoSpanLost /\ Tracing!OnlyCurrentAlive /\ Tracing!OwnName
          /\ Logs!TypeOK /\ Logs!RegistryKept /\ Logs!FieldsWhole)
    /\ Logs!NoneLate
=============================================================================
