----------------------------- MODULE TraceAgent -----------------------------
(***************************************************************************)
(* The tracing agent of package trace: StartAgent and StopAgent under      *)
(* agentLk, resource attributes under a lock of their own, and spans that  *)
(* are recorded meanwhile through otel's global TracerProvider.            *)
(*                                                                         *)
(* The n-th agent that starts has number n: its provider, its exporter and *)
(* its file are its own.  otel is modelled from its use: a provider        *)
(* collects spans in batches, Shutdown exports what it has and makes it    *)
(* drop all further spans.                                                 *)
(***************************************************************************)
EXTENDS Naturals, Sequences, FiniteSets

CONSTANTS
    Procs,          \* goroutines that call StartAgent and StopAgent
    Names,          \* service names in configurations
    Extra,          \* attributes that the application adds with AddResources
    MaxStarts, MaxSpans     \* bounds

VARIABLES
    holder,         \* who holds agentLk, or NoOne
    pc, conf,
    current,        \* currentAgent: its number, or 0
    agents,         \* what startAgent has made: the n-th is the n-th agent
    attrs,          \* attrResources
    otel,           \* the global TracerProvider: its agent's number, or 0
    spans,          \* number of spans that have ended
    batch,          \* spans that a provider has and that are not exported
    accepted,       \* history: spans that an exporting provider has taken
    exported        \* spans that have reached their exporter's file or service

vars == <<holder, pc, conf, current, agents, attrs, otel, spans, batch, accepted, exported>>

NoOne == "NoOne"

\* Config after fillDefault.  Without Endpoint there is no exporter; a file is
\* opened; any other exporter has nothing to close; creating one may fail.
Configs == [disabled : BOOLEAN, name : Names, exporter : {"none", "file", "net"}]

Init ==
    /\ holder = NoOne
    /\ pc = [p \in Procs |-> "idle"]
    /\ conf = [p \in Procs |-> "none"]
    /\ current = 0
    /\ agents = <<>>
    /\ attrs = <<>>
    /\ otel = 0
    /\ spans = 0
    /\ batch = [n \in 1 .. MaxStarts |-> {}]
    /\ accepted = {} /\ exported = {}

Attr(k, v) == [key |-> k, val |-> v]
NamesIn(as) == {i \in DOMAIN as : as[i].key = "name"}

\* The last one of a key counts.
ServiceName(as) == as[CHOOSE i \in NamesIn(as) : \A j \in NamesIn(as) : j <= i].val

\* AddResources, which may come at any time.
AddResources(a) ==
    /\ \A i \in DOMAIN attrs : attrs[i] # Attr("extra", a)
    /\ attrs' = Append(attrs, Attr("extra", a))
    /\ UNCHANGED <<holder, pc, conf, current, agents, otel, spans, batch, accepted, exported>>

\* A span ends at the global provider, which drops it after its Shutdown.
Span ==
    /\ spans < MaxSpans
    /\ spans' = spans + 1
    /\ IF otel # 0 /\ agents[otel].up /\ agents[otel].exporter # "none"
       THEN /\ batch' = [batch EXCEPT ![otel] = @ \union {spans'}]
            /\ accepted' = accepted \union {spans'}
       ELSE UNCHANGED <<batch, accepted>>
    /\ UNCHANGED <<holder, pc, conf, current, agents, attrs, otel, exported>>

\* Exporting writes what the provider has; into a closed file nothing gets.
Export(n) ==
    /\ batch' = [batch EXCEPT ![n] = {}]
    /\ exported' = IF agents[n].exporter = "net" \/ agents[n].open
                   THEN exported \union batch[n] ELSE exported

\* The batcher of a provider that is up exports now and then.
Batcher(n) ==
    /\ n \in DOMAIN agents /\ agents[n].up /\ batch[n] # {}
    /\ Export(n)
    /\ UNCHANGED <<holder, pc, conf, current, agents, attrs, otel, spans, accepted>>

Goto(p, to) == pc' = [pc EXCEPT ![p] = to]

-----------------------------------------------------------------------------
(* StartAgent. *)

\* A disabled configuration returns before the lock, a running agent after it.
StartLock(p, c) ==
    /\ pc[p] = "idle" /\ holder = NoOne /\ ~c.disabled
    /\ current = 0
    /\ Cardinality(NamesIn(attrs)) < MaxStarts
    /\ holder' = p
    /\ conf' = [conf EXCEPT ![p] = c]
    /\ Goto(p, "name")
    /\ UNCHANGED <<current, agents, attrs, otel, spans, batch, accepted, exported>>

\* startAgent: the service name becomes an attribute, for good...
AddName(p) ==
    /\ pc[p] = "name"
    /\ attrs' = Append(attrs, Attr("name", conf[p].name))
    /\ Goto(p, "attrs")
    /\ UNCHANGED <<holder, conf, current, agents, otel, spans, batch, accepted, exported>>

\* ... resourceAttrs copies all of them; createExporterWithClosers fails (a file
\* that was opened is closed again)...
ExporterFails(p) ==
    /\ pc[p] = "attrs" /\ conf[p].exporter # "none"
    /\ holder' = NoOne
    /\ Goto(p, "idle")
    /\ UNCHANGED <<conf, current, agents, attrs, otel, spans, batch, accepted, exported>>

\* ... or the provider is created and becomes otel's; currentAgent is set.
Install(p) ==
    /\ pc[p] = "attrs"
    /\ agents' = Append(agents,
           [resource |-> attrs, name |-> conf[p].name, exporter |-> conf[p].exporter,
            up |-> TRUE, open |-> conf[p].exporter = "file"])
    /\ otel' = Len(agents')
    /\ current' = Len(agents')
    /\ holder' = NoOne
    /\ Goto(p, "idle")
    /\ UNCHANGED <<conf, attrs, spans, batch, accepted, exported>>

-----------------------------------------------------------------------------
(* StopAgent. *)

StopLock(p) ==
    /\ pc[p] = "idle" /\ holder = NoOne /\ current # 0
    /\ holder' = p
    /\ conf' = [conf EXCEPT ![p] = current]
    /\ current' = 0
    /\ Goto(p, "shutdown")
    /\ UNCHANGED <<agents, attrs, otel, spans, batch, accepted, exported>>

\* tp.Shutdown flushes; its error is ignored...
StopShutdown(p) ==
    /\ pc[p] = "shutdown"
    /\ Export(conf[p])
    /\ agents' = [agents EXCEPT ![conf[p]].up = FALSE]
    /\ Goto(p, "close")
    /\ UNCHANGED <<holder, conf, current, attrs, otel, spans, accepted>>

\* ... and then the closers close the file.
StopClose(p) ==
    /\ pc[p] = "close"
    /\ agents' = [agents EXCEPT ![conf[p]].open = FALSE]
    /\ holder' = NoOne
    /\ Goto(p, "idle")
    /\ UNCHANGED <<conf, current, attrs, otel, spans, batch, accepted, exported>>

Next ==
    \/ Span
    \/ \E a \in Extra : AddResources(a)
    \/ \E n \in 1 .. MaxStarts : Batcher(n)
    \/ \E p \in Procs :
          \/ \E c \in Configs : StartLock(p, c)
          \/ AddName(p) \/ ExporterFails(p) \/ Install(p)
          \/ StopLock(p) \/ StopShutdown(p) \/ StopClose(p)

Spec == Init /\ [][Next]_vars

-----------------------------------------------------------------------------

TypeOK ==
    /\ holder \in Procs \union {NoOne}
    /\ current \in 0 .. MaxStarts /\ otel \in 0 .. MaxStarts
    /\ accepted \subseteq 1 .. MaxSpans

\* What a provider has taken is exported, also if StopAgent comes meanwhile: it
\* "flushes spans that were not exported yet and releases the handles".
NoSpanLost == accepted \subseteq exported \union UNION {batch[n] : n \in DOMAIN batch}

\* Whatever was started and stopped, and however often that failed: between the
\* calls the file and the provider of the current agent are the only ones alive,
\* and otel's provider is the current agent's.
OnlyCurrentAlive ==
    holder = NoOne =>
        /\ \A n \in DOMAIN agents : agents[n].up \/ agents[n].open => n = current
        /\ current # 0 => otel = current /\ agents[current].up

\* The service name of an agent is the one of its own configuration, although
\* attributes are never removed.
OwnName == \A n \in DOMAIN agents : ServiceName(agents[n].resource) = agents[n].name

=============================================================================
