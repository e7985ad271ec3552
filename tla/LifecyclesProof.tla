-------------------------- MODULE LifecyclesProof --------------------------
(***************************************************************************)
(* Proofs about what an application starts, replaces and stops: the        *)
(* service group, the task consumer and its producer, the tracing agent,   *)
(* and the loggers with their extractors, for any services, senders,       *)
(* agents, extractors and callers.                                         *)
(***************************************************************************)
EXTENDS MCLifecycles, Sequences, FiniteSetTheorems, SequenceTheorems, TLAPS

-----------------------------------------------------------------------------
(* The service group. *)

\* Where Start is tells what its goroutines can have done: they exist once it
\* waits, none of them is behind the barrier when it is closed, and all have
\* ended when it returns.
StartInv ==
    /\ started <=> startPc \notin {"idle", "snapshot"}
    /\ \A s \in snap : svc[s] # "none" <=> startPc \in {"waiting", "returned"}
    /\ barrier => /\ startPc \in {"waiting", "returned"}
                  /\ \A s \in snap : svc[s] \notin {"none", "spawned"}
    /\ startPc = "returned" => \A s \in snap : svc[s] = "done"

\* doStop runs once; it issues nothing before it is past the barrier.
StopInv ==
    /\ once = "running" <=> stopPc # "off"
    /\ once = "new" \/ stopPc \in {"check", "barrier"}
          => \A s \in Services : stopCall[s].issued = 0
    /\ sawStarted /\ (once = "done" \/ stopPc = "wait") => barrier
    /\ StopAtMostOnce

\* A panic is in the hands of some goroutine until the stop it asks for is done.
PanicInv ==
    /\ panicOnce = "done" => once = "done"
    /\ panicked /\ once # "done"
          => \E s \in Services : svc[s] \in {"panicked", "handling"}

GroupInv == TypeOK /\ StartInv /\ StopInv /\ PanicInv

LEMMA GroupInitial == Init => GroupInv
<1> SUFFICES ASSUME Init PROVE GroupInv
  OBVIOUS
<1> USE RolesAssumption DEF Init
<1>1. TypeOK
  <2>1. stopCall \in [Services -> StopCall]
    BY DEF StopCall
  <2>2. QED
    BY <2>1 DEF TypeOK, StartPCs, SvcPCs, OnceStates, StopPCs
<1>2. StartInv
  BY DEF StartInv
<1>3. StopInv
  BY DEF StopInv, StopAtMostOnce
<1>4. PanicInv
  BY DEF PanicInv
<1>5. QED
  BY <1>1, <1>2, <1>3, <1>4 DEF GroupInv

\* One action at a time.
LEMMA GroupInductive == GroupInv /\ [Next]_vars => GroupInv'
<1> SUFFICES ASSUME GroupInv, [Next]_vars PROVE GroupInv'
  OBVIOUS
<1> USE DEF GroupInv, TypeOK, StartInv, StopInv, PanicInv, StopAtMostOnce, BeginStop, Move,
            StartPCs, SvcPCs, OnceStates, StopPCs, StopCall
<1>1. CASE Stop
  BY <1>1 DEF Stop
<1>2. CASE StartSnapshot
  BY <1>2 DEF StartSnapshot
<1>3. CASE StartMark
  BY <1>3 DEF StartMark
<1>4. CASE StartSpawn
  BY <1>4 DEF StartSpawn
<1>5. CASE CloseBarrier
  BY <1>5 DEF CloseBarrier
<1>6. CASE StartReturn
  BY <1>6 DEF StartReturn
<1>7. CASE StopCheck
  BY <1>7 DEF StopCheck
<1>8. CASE StopDispatch
  BY <1>8 DEF StopDispatch
<1>9. CASE StopReturn
  BY <1>9 DEF StopReturn
<1>10. CASE Finished
  BY <1>10 DEF Finished, vars
<1>11. ASSUME NEW s \in Services, Add(s) PROVE GroupInv'
  BY <1>11 DEF Add
<1>12. ASSUME NEW s \in Services, Report(s) PROVE GroupInv'
  BY <1>12 DEF Report
<1>13. ASSUME NEW s \in Services, CallStart(s) PROVE GroupInv'
  BY <1>13 DEF CallStart
<1>14. ASSUME NEW s \in Services, Register(s) PROVE GroupInv'
  BY <1>14 DEF Register
<1>15. ASSUME NEW s \in Services, StopSeen(s) PROVE GroupInv'
  BY <1>15 DEF StopSeen
<1>16. ASSUME NEW s \in Services, HandlePanic(s) PROVE GroupInv'
  BY <1>16 DEF HandlePanic
<1>17. ASSUME NEW s \in Services, PanicHandled(s) PROVE GroupInv'
  BY <1>17 DEF PanicHandled
<1>18. ASSUME NEW s \in Services, LaterPanic(s) PROVE GroupInv'
  BY <1>18 DEF LaterPanic
<1>19. ASSUME NEW s \in Services, StopService(s) PROVE GroupInv'
  BY <1>19 DEF StopService, Hears
<1>20. ASSUME NEW s \in Services, ExitAlone(s) PROVE GroupInv'
  BY <1>20 DEF ExitAlone
<1>21. ASSUME NEW s \in Services, PanicInStart(s) PROVE GroupInv'
  BY <1>21 DEF PanicInStart
<1>22. CASE UNCHANGED vars
  BY <1>22 DEF vars
<1>23. QED
  BY <1>1, <1>2, <1>3, <1>4, <1>5, <1>6, <1>7, <1>8, <1>9, <1>10, <1>11, <1>12, <1>13, <1>14,
     <1>15, <1>16, <1>17, <1>18, <1>19, <1>20, <1>21, <1>22
     DEF Next, AppStep, StartStep, StopStep, SvcStep

\* The invariant is strong enough.
LEMMA GroupInvImplies == GroupInv => StopDiscipline
<1> SUFFICES ASSUME GroupInv PROVE StopDiscipline
  OBVIOUS
<1> USE DEF GroupInv, TypeOK, StopInv, OnceStates, StopPCs
<1>1. BarrierHolds
  BY DEF BarrierHolds, StartInv
<1>2. PanicStopsBeforeReturn
  BY DEF PanicStopsBeforeReturn, StartInv, PanicInv
<1>3. QED
  BY <1>1, <1>2 DEF StopDiscipline

\* ServiceGroup.doStop and doStart, for any services, whoever asks for the stop and
\* how often, panics included: Stop of a service is called at most once; a
\* doStop that found Start under way stops nothing that has not reported at the
\* barrier; and Start of a group in which a service panicked returns only when
\* every Stop has.
THEOREM StopsDisciplined == Spec => []StopDiscipline
BY GroupInitial, GroupInductive, GroupInvImplies, PTL DEF Spec

-----------------------------------------------------------------------------
(* The task consumer and its producer. *)

\* The options that a sender may pass.
OwnOpts == {<<>>} \union {<<Queues!Queue(q)>> : q \in QueueNames}

\* What a task of sender s carries that passes the options opts, with the defaults d.
TaskOf(d, s, opts, delayed) ==
    [by |-> s,
     queue |-> IF opts # <<>> THEN opts[1].to ELSE d.queue,
     retry |-> d.retry,
     delay |-> IF delayed THEN s ELSE Queues!Unset]

\* A sender has enqueued at most once, with its own options; a Run under way has marked
\* the consumer, unless a Shutdown came since.
QueueInv ==
    /\ qStarted \in BOOLEAN /\ server \in {"new", "active", "closed"}
    /\ qpc \in [Runners \union Senders ->
                  {"idle", "run", "running", "returned", "delayed", "sentNow", "sentLater"}]
    /\ own \in [Senders -> OwnOpts]
    /\ processed \subseteq tasks
    /\ \A t \in tasks :
          /\ t.by \in Senders /\ qpc[t.by] \in {"sentNow", "sentLater"}
          /\ t = TaskOf(Queues!FillDefault(cfg),
                        t.by, own[t.by], qpc[t.by] = "sentLater")
    /\ \A r \in Runners : qpc[r] \in {"idle", "run", "running", "returned"}
    /\ \A r \in Runners : qpc[r] = "run" => qStarted \/ crossed
    /\ Queues!Stoppable /\ Queues!StartedExact

\* Concatenations of short sequences.
LEMMA TwoAndOne == ASSUME NEW a, NEW b, NEW e PROVE <<a, b>> \o <<e>> = <<a, b, e>>
<1> DEFINE S == {a, b, e}
           u == <<a, b>> \o <<e>>
           v == <<a, b, e>>
<1>1. v \in Seq(S) /\ <<a, b>> \in Seq(S) /\ <<e>> \in Seq(S)
  OBVIOUS
<1>2. /\ u \in Seq(S) /\ Len(u) = 3
      /\ \A i \in 1..3 : u[i] = v[i]
  <2>1. Len(<<a, b>>) = 2 /\ Len(<<e>>) = 1
    OBVIOUS
  <2>2. QED
    BY <1>1, <2>1, ConcatProperties
<1>3. Len(v) = 3
  OBVIOUS
<1> HIDE DEF u, v, S
<1>4. u = v
  BY <1>1, <1>2, <1>3, SeqEqual
<1>5. QED
  BY <1>4 DEF u, v

LEMMA ThreeAndOne ==
    ASSUME NEW a, NEW b, NEW e, NEW f PROVE <<a, b, e>> \o <<f>> = <<a, b, e, f>>
<1> DEFINE S == {a, b, e, f}
           u == <<a, b, e>> \o <<f>>
           v == <<a, b, e, f>>
<1>1. v \in Seq(S) /\ <<a, b, e>> \in Seq(S) /\ <<f>> \in Seq(S)
  OBVIOUS
<1>2. /\ u \in Seq(S) /\ Len(u) = 4
      /\ \A i \in 1..4 : u[i] = v[i]
  <2>1. Len(<<a, b, e>>) = 3 /\ Len(<<f>>) = 1
    OBVIOUS
  <2>2. QED
    BY <1>1, <2>1, ConcatProperties
<1>3. Len(v) = 4
  OBVIOUS
<1> HIDE DEF u, v, S
<1>4. u = v
  BY <1>1, <1>2, <1>3, SeqEqual
<1>5. QED
  BY <1>4 DEF u, v

\* The last option of a kind wins.
LEMMA WinnerIs ==
    ASSUME NEW s, NEW opts \in OwnOpts, NEW delayed \in BOOLEAN
    PROVE  LET all == Queues!DefaultOpts \o opts
                        \o IF delayed THEN <<Queues!ProcessIn(s)>> ELSE <<>>
           IN  [by |-> s, queue |-> Queues!Winner(all, "queue"),
                retry |-> Queues!Winner(all, "retry"), delay |-> Queues!Winner(all, "delay")]
                 = TaskOf(Queues!FillDefault(cfg), s, opts, delayed)
<1> DEFINE all == Queues!DefaultOpts \o opts
                    \o IF delayed THEN <<Queues!ProcessIn(s)>> ELSE <<>>
           c == Queues!FillDefault(cfg)
           T(q, d) == [by |-> s, queue |-> q, retry |-> c.retry, delay |-> d]
           is(kind) == {i \in DOMAIN all : all[i].set = kind}
<1>1. Queues!DefaultOpts = <<Queues!MaxRetry(c.retry), Queues!Queue(c.queue)>>
  BY DEF Queues!DefaultOpts
<1>2. ASSUME NEW kind, NEW m \in is(kind), \A j \in is(kind) : j <= m, \A j \in is(kind) : j \in Nat
      PROVE  Queues!Winner(all, kind) = all[m].to
  <2>1. (CHOOSE i \in is(kind) : \A j \in is(kind) : j <= i) = m
    BY <1>2
  <2>2. QED
    BY <1>2, <2>1 DEF Queues!Winner
<1>3. ASSUME NEW kind, is(kind) = {} PROVE Queues!Winner(all, kind) = Queues!Unset
  BY <1>3 DEF Queues!Winner
<1> DEFINE o1 == Queues!MaxRetry(c.retry)
           o2 == Queues!Queue(c.queue)
           o4 == Queues!ProcessIn(s)
<1>4. ASSUME NEW a, NEW b, NEW e PROVE <<a, b>> \o <<e>> = <<a, b, e>>
  BY TwoAndOne
<1>5. ASSUME NEW a, NEW b, NEW e, NEW f PROVE <<a, b, e>> \o <<f>> = <<a, b, e, f>>
  BY ThreeAndOne
<1>6. ASSUME NEW a, NEW b PROVE <<a, b>> \o <<>> = <<a, b>>
  OBVIOUS
<1>7. /\ o1.set = "retry" /\ o1.to = c.retry /\ o2.set = "queue" /\ o2.to = c.queue
      /\ o4.set = "delay" /\ o4.to = s
  BY DEF Queues!MaxRetry, Queues!Queue, Queues!ProcessIn
<1> HIDE DEF o1, o2, o4, c
<1>8. CASE opts = <<>> /\ ~delayed
  <2>1. all = <<o1, o2>>
    BY <1>1, <1>6, <1>8 DEF o1, o2
  <2> HIDE DEF all
  <2>2. DOMAIN all = {1, 2} /\ all[1] = o1 /\ all[2] = o2
    BY <2>1
  <2>3. is("retry") = {1} /\ is("queue") = {2} /\ is("delay") = {}
    BY <1>7, <2>2
  <2>4. /\ Queues!Winner(all, "retry") = c.retry /\ Queues!Winner(all, "queue") = c.queue
        /\ Queues!Winner(all, "delay") = Queues!Unset
    <3> HIDE DEF is
    <3>1. QED
      BY <1>2, <1>3, <1>7, <2>2, <2>3
  <2>5. QED
    BY <1>8, <2>4 DEF TaskOf, all, c
<1>9. CASE opts = <<>> /\ delayed
  <2>1. all = <<o1, o2, o4>>
    BY <1>1, <1>4, <1>6, <1>9 DEF o1, o2, o4
  <2> HIDE DEF all
  <2>2. DOMAIN all = {1, 2, 3} /\ all[1] = o1 /\ all[2] = o2 /\ all[3] = o4
    BY <2>1
  <2>3. is("retry") = {1} /\ is("queue") = {2} /\ is("delay") = {3}
    BY <1>7, <2>2
  <2>4. /\ Queues!Winner(all, "retry") = c.retry /\ Queues!Winner(all, "queue") = c.queue
        /\ Queues!Winner(all, "delay") = s
    <3> HIDE DEF is
    <3>1. QED
      BY <1>2, <1>7, <2>2, <2>3
  <2>5. QED
    BY <1>9, <2>4 DEF TaskOf, all, c
<1>10. CASE opts # <<>>
  <2>1. PICK q \in QueueNames : opts = <<Queues!Queue(q)>>
    BY <1>10 DEF OwnOpts
  <2> DEFINE o3 == Queues!Queue(q)
  <2>2. o3.set = "queue" /\ o3.to = q /\ opts[1].to = q
    BY <2>1 DEF Queues!Queue
  <2>3. CASE ~delayed
    <3>1. all = <<o1, o2, o3>>
      BY <1>1, <1>4, <1>6, <2>1, <2>3 DEF o1, o2
    <3> HIDE DEF all, o3
    <3>2. DOMAIN all = {1, 2, 3} /\ all[1] = o1 /\ all[2] = o2 /\ all[3] = o3
      BY <3>1
    <3>3. is("retry") = {1} /\ is("queue") = {2, 3} /\ is("delay") = {}
      BY <1>7, <2>2, <3>2
    <3>4. /\ Queues!Winner(all, "retry") = c.retry /\ Queues!Winner(all, "queue") = q
          /\ Queues!Winner(all, "delay") = Queues!Unset
      <4> HIDE DEF is
      <4>1. QED
        BY <1>2, <1>3, <1>7, <2>2, <3>2, <3>3
    <3>5. QED
      BY <1>10, <2>2, <2>3, <3>4 DEF TaskOf, all, c
  <2>4. CASE delayed
    <3>1. all = <<o1, o2, o3, o4>>
      <4>1. all = (<<o1, o2>> \o <<o3>>) \o <<o4>>
        BY <1>1, <2>1, <2>4 DEF o1, o2, o4
      <4> HIDE DEF all, o3
      <4>2. <<o1, o2>> \o <<o3>> = <<o1, o2, o3>>
        BY TwoAndOne
      <4>3. <<o1, o2, o3>> \o <<o4>> = <<o1, o2, o3, o4>>
        BY ThreeAndOne
      <4>4. QED
        BY <4>1, <4>2, <4>3
    <3> HIDE DEF all, o3
    <3>2. DOMAIN all = {1, 2, 3, 4} /\ all[1] = o1 /\ all[2] = o2 /\ all[3] = o3 /\ all[4] = o4
      BY <3>1
    <3>3. is("retry") = {1} /\ is("queue") = {2, 3} /\ is("delay") = {4}
      BY <1>7, <2>2, <3>2
    <3>4. /\ Queues!Winner(all, "retry") = c.retry /\ Queues!Winner(all, "queue") = q
          /\ Queues!Winner(all, "delay") = s
      <4> HIDE DEF is
      <4>1. QED
        BY <1>2, <1>7, <2>2, <3>2, <3>3
    <3>5. QED
      BY <1>10, <2>2, <2>4, <3>4 DEF TaskOf, all, c
  <2>5. QED
    BY <2>3, <2>4
<1>11. QED
  BY <1>8, <1>9, <1>10

LEMMA QueueStarts == Queues!Init => QueueInv
<1> SUFFICES ASSUME Queues!Init PROVE QueueInv
  OBVIOUS
<1>1. /\ own \in [Senders -> OwnOpts] /\ tasks = {} /\ processed = {} /\ qStarted = FALSE
      /\ server = "new" /\ qpc = [p \in Runners \union Senders |-> "idle"]
  BY DEF Queues!Init, OwnOpts
<1>2. QED
  BY <1>1 DEF QueueInv, Queues!Stoppable, Queues!StartedExact

\* One action at a time.
LEMMA QueueKeeps == QueueInv /\ Queues!Next => QueueInv'
<1> SUFFICES ASSUME QueueInv, Queues!Next PROVE QueueInv'
  OBVIOUS
<1> DEFINE All == Runners \union Senders
           Places == {"idle", "run", "running", "returned", "delayed", "sentNow", "sentLater"}
           TasksOwn == \A t \in tasks :
                          /\ t.by \in Senders /\ qpc[t.by] \in {"sentNow", "sentLater"}
                          /\ t = TaskOf(Queues!FillDefault(cfg),
                                        t.by, own[t.by], qpc[t.by] = "sentLater")
           RunsMarked == \A r \in Runners : qpc[r] = "run" => qStarted \/ crossed
           RunsRun == \A r \in Runners : qpc[r] \in {"idle", "run", "running", "returned"}
<1>1. /\ qStarted \in BOOLEAN /\ server \in {"new", "active", "closed"}
      /\ qpc \in [All -> Places] /\ own \in [Senders -> OwnOpts] /\ processed \subseteq tasks
      /\ TasksOwn /\ RunsRun /\ RunsMarked
      /\ server = "active" => qStarted \/ crossed
      /\ (\A r \in Runners : qpc[r] = "idle") => (qStarted <=> server = "active")
  BY DEF QueueInv, Queues!Stoppable, Queues!StartedExact
<1>2. Runners \intersect Senders = {}
  BY CallersAssumption
<1> HIDE DEF TasksOwn, RunsMarked, RunsRun
<1>3. ASSUME /\ qStarted' \in BOOLEAN /\ server' \in {"new", "active", "closed"}
             /\ qpc' \in [All -> Places] /\ own' \in [Senders -> OwnOpts]
             /\ processed' \subseteq tasks'
             /\ TasksOwn' /\ RunsRun' /\ RunsMarked'
             /\ server' = "active" => qStarted' \/ crossed'
             /\ (\A r \in Runners : qpc'[r] = "idle") => (qStarted' <=> server' = "active")
      PROVE  QueueInv'
  BY <1>3 DEF QueueInv, TasksOwn, RunsRun, RunsMarked, Queues!Stoppable, Queues!StartedExact
<1>4. ASSUME UNCHANGED <<qpc, cfg, own, tasks>> PROVE TasksOwn' /\ RunsRun'
  BY <1>1, <1>4 DEF TasksOwn, RunsRun, TaskOf
<1>5. ASSUME NEW p \in Runners, NEW to \in {"run", "running", "returned"},
             qpc' = [qpc EXCEPT ![p] = to], UNCHANGED <<cfg, own, tasks>>
      PROVE  /\ qpc' \in [All -> Places] /\ TasksOwn' /\ RunsRun'
             /\ \A r \in Runners : qpc'[r] = IF r = p THEN to ELSE qpc[r]
             /\ qpc'[p] # "idle"
  <2>1. /\ qpc' \in [All -> Places]
        /\ \A r \in All : qpc'[r] = IF r = p THEN to ELSE qpc[r]
    BY <1>1, <1>5
  <2>2. \A s \in Senders : qpc'[s] = qpc[s]
    BY <1>2, <2>1
  <2>3. TasksOwn'
    BY <1>1, <1>5, <2>2 DEF TasksOwn, TaskOf
  <2>4. QED
    BY <1>1, <2>1, <2>3 DEF RunsRun
<1>6. ASSUME NEW s \in Senders, NEW to \in {"delayed", "sentNow", "sentLater"},
             qpc' = [qpc EXCEPT ![s] = to], UNCHANGED <<qStarted, crossed, server>>
      PROVE  /\ qpc' \in [All -> Places]
             /\ \A r \in Runners : qpc'[r] = qpc[r]
             /\ \A r \in Senders : qpc'[r] = IF r = s THEN to ELSE qpc[r]
             /\ RunsRun' /\ RunsMarked'
             /\ (\A r \in Runners : qpc'[r] = "idle") => (qStarted' <=> server' = "active")
  <2>1. /\ qpc' \in [All -> Places]
        /\ \A r \in All : qpc'[r] = IF r = s THEN to ELSE qpc[r]
    BY <1>1, <1>6
  <2>2. \A r \in Runners : qpc'[r] = qpc[r]
    BY <1>2, <2>1
  <2>3. QED
    BY <1>1, <1>6, <2>1, <2>2 DEF RunsRun, RunsMarked
<1>7. ASSUME NEW p \in Starters, Queues!Start(p) PROVE QueueInv'
  <2>1. /\ ~qStarted /\ UNCHANGED <<cfg, qpc, own, spare, tasks, processed, crossed>>
        /\ \/ server = "new" /\ server' = "active" /\ qStarted' = TRUE
           \/ UNCHANGED <<server, qStarted>>
    BY <1>7 DEF Queues!Start, Queues!ServerStarts, Queues!ServerRefuses
  <2>2. TasksOwn' /\ RunsRun'
    BY <1>4, <2>1
  <2>3. RunsMarked'
    BY <1>1, <2>1 DEF RunsMarked
  <2>4. /\ qStarted' \in BOOLEAN /\ server' \in {"new", "active", "closed"}
        /\ (server' = "active" => qStarted' \/ crossed')
    BY <1>1, <2>1
  <2>5. (\A r \in Runners : qpc'[r] = "idle") => (qStarted' <=> server' = "active")
    BY <1>1, <2>1
  <2>6. QED
    BY <1>1, <1>3, <2>1, <2>2, <2>3, <2>4, <2>5
<1>8. ASSUME NEW p \in Runners, Queues!RunMark(p) PROVE QueueInv'
  <2>1. /\ qStarted' = TRUE /\ qpc' = [qpc EXCEPT ![p] = "run"]
        /\ UNCHANGED <<cfg, server, own, spare, tasks, processed, crossed>>
    BY <1>8 DEF Queues!RunMark
  <2>2. /\ qpc' \in [All -> Places] /\ TasksOwn' /\ RunsRun' /\ qpc'[p] # "idle"
    BY <1>5, <2>1
  <2>3. RunsMarked'
    BY <2>1 DEF RunsMarked
  <2>4. qStarted' \in BOOLEAN /\ (server' = "active" => qStarted' \/ crossed')
    BY <2>1
  <2>5. QED
    BY <1>1, <1>3, <2>1, <2>2, <2>3, <2>4
<1>9. ASSUME NEW p \in Runners, Queues!RunFails(p) \/ Queues!RunServes(p) \/ Queues!Signal(p)
      PROVE  QueueInv'
  <2>1. /\ qpc[p] \in {"run", "running"}
        /\ UNCHANGED <<cfg, qStarted, own, spare, tasks, processed, crossed>>
        /\ \E to \in {"running", "returned"} : qpc' = [qpc EXCEPT ![p] = to]
        /\ \/ server' = server
           \/ server' = "active" /\ qpc[p] = "run"
           \/ server' = "closed"
    BY <1>9 DEF Queues!RunFails, Queues!RunServes, Queues!Signal, Queues!ServerStarts,
                Queues!ServerRefuses
  <2>2. PICK to \in {"running", "returned"} : qpc' = [qpc EXCEPT ![p] = to]
    BY <2>1
  <2>3. /\ qpc' \in [All -> Places] /\ TasksOwn' /\ RunsRun' /\ qpc'[p] # "idle"
        /\ \A r \in Runners : qpc'[r] = IF r = p THEN to ELSE qpc[r]
    BY <1>5, <2>1, <2>2
  <2>4. RunsMarked'
    BY <1>1, <2>1, <2>3 DEF RunsMarked
  <2>5. server' = "active" => qStarted' \/ crossed'
    BY <1>1, <2>1 DEF RunsMarked
  <2>6. QED
    BY <1>1, <1>3, <2>1, <2>3, <2>4, <2>5
<1>10. ASSUME NEW p \in Stoppers, Queues!Shutdown(p) PROVE QueueInv'
  <2>1. /\ qStarted /\ server' = (IF server = "active" THEN "closed" ELSE server)
        /\ qStarted' = FALSE /\ crossed' = (crossed \/ \E r \in Runners : qpc[r] = "run")
        /\ UNCHANGED <<cfg, qpc, own, spare, tasks, processed>>
    BY <1>10 DEF Queues!Shutdown
  <2>2. TasksOwn' /\ RunsRun'
    BY <1>4, <2>1
  <2>3. RunsMarked'
    BY <2>1 DEF RunsMarked
  <2>4. QED
    BY <1>1, <1>3, <2>1, <2>2, <2>3
<1>11. ASSUME NEW s \in Senders, NEW opts \in OwnOpts, Queues!EnqueueIn(s, opts)
       PROVE  QueueInv'
  <2>1. /\ qpc[s] = "idle" /\ own' = [own EXCEPT ![s] = opts]
        /\ qpc' = [qpc EXCEPT ![s] = "delayed"]
        /\ UNCHANGED <<cfg, qStarted, server, tasks, processed, crossed>>
    BY <1>11 DEF Queues!EnqueueIn
  <2>2. /\ qpc' \in [All -> Places] /\ RunsRun' /\ RunsMarked'
        /\ \A r \in Senders : qpc'[r] = IF r = s THEN "delayed" ELSE qpc[r]
        /\ (\A r \in Runners : qpc'[r] = "idle") => (qStarted' <=> server' = "active")
    BY <1>6, <2>1
  <2>3. /\ own' \in [Senders -> OwnOpts]
        /\ \A r \in Senders : r # s => own'[r] = own[r]
    BY <1>1, <2>1
  <2>4. TasksOwn'
    <3>1. \A t \in tasks : t.by \in Senders /\ t.by # s
      BY <1>1, <2>1 DEF TasksOwn
    <3>2. QED
      BY <1>1, <2>1, <2>2, <2>3, <3>1 DEF TasksOwn, TaskOf
  <2>5. QED
    BY <1>1, <1>3, <2>1, <2>2, <2>3, <2>4
<1>12. ASSUME NEW s \in Senders, NEW delayed \in BOOLEAN, Queues!Enqueue(s, delayed),
              qpc[s] \in {"idle", "delayed"},
              qpc' = [qpc EXCEPT ![s] = IF delayed THEN "sentLater" ELSE "sentNow"],
              UNCHANGED <<cfg, qStarted, server, own, processed, crossed>>
       PROVE  QueueInv'
  <2> DEFINE to == IF delayed THEN "sentLater" ELSE "sentNow"
             task == TaskOf(Queues!FillDefault(cfg), s, own[s], delayed)
  <2>1. /\ qpc' \in [All -> Places] /\ RunsRun' /\ RunsMarked'
        /\ \A r \in Senders : qpc'[r] = IF r = s THEN to ELSE qpc[r]
        /\ (\A r \in Runners : qpc'[r] = "idle") => (qStarted' <=> server' = "active")
    BY <1>6, <1>12
  <2>2. tasks' = tasks \union {task} \/ tasks' = tasks
    <3>1. own[s] \in OwnOpts
      BY <1>1
    <3>2. LET all == Queues!DefaultOpts \o own[s]
                        \o IF delayed THEN <<Queues!ProcessIn(s)>> ELSE <<>>
          IN  \/ tasks' = tasks \union
                   {[by |-> s, queue |-> Queues!Winner(all, "queue"),
                     retry |-> Queues!Winner(all, "retry"), delay |-> Queues!Winner(all, "delay")]}
              \/ tasks' = tasks
      BY <1>12 DEF Queues!Enqueue
    <3>3. LET all == Queues!DefaultOpts \o own[s]
                        \o IF delayed THEN <<Queues!ProcessIn(s)>> ELSE <<>>
          IN  [by |-> s, queue |-> Queues!Winner(all, "queue"),
               retry |-> Queues!Winner(all, "retry"), delay |-> Queues!Winner(all, "delay")]
                = task
      BY <3>1, WinnerIs
    <3>4. QED
      BY <3>2, <3>3, Zenon
  <2>3. \A t \in tasks : t.by \in Senders /\ t.by # s
    BY <1>1, <1>12 DEF TasksOwn
  <2>4. task.by = s /\ (to = "sentLater" <=> delayed) /\ to \in {"sentNow", "sentLater"}
    BY DEF TaskOf
  <2>5. TasksOwn'
    <3>1. ASSUME NEW t \in tasks'
          PROVE  /\ t.by \in Senders /\ qpc'[t.by] \in {"sentNow", "sentLater"}
                 /\ t = TaskOf(Queues!FillDefault(cfg'), t.by, own'[t.by], qpc'[t.by] = "sentLater")
      <4>1. CASE t \in tasks
        BY <1>1, <1>12, <2>1, <2>3, <4>1 DEF TasksOwn, TaskOf
      <4>2. CASE t = task
        <5>1. t.by = s /\ qpc'[s] = to /\ own'[s] = own[s]
          BY <1>12, <2>1, <2>4, <4>2
        <5>2. TaskOf(Queues!FillDefault(cfg'), t.by, own'[t.by], qpc'[t.by] = "sentLater") = task
          BY <1>12, <2>4, <5>1 DEF TaskOf
        <5>3. QED
          BY <2>4, <4>2, <5>1, <5>2
      <4>3. QED
        BY <2>2, <4>1, <4>2
    <3>2. QED
      BY <3>1 DEF TasksOwn
  <2>6. processed' \subseteq tasks'
    BY <1>1, <1>12, <2>2
  <2>7. QED
    BY <1>1, <1>3, <1>12, <2>1, <2>5, <2>6
<1>13. ASSUME NEW s \in Senders, Queues!EnqueueNow(s) \/ Queues!EnqueueDelayed(s) PROVE QueueInv'
  BY <1>12, <1>13 DEF Queues!EnqueueNow, Queues!EnqueueDelayed
<1>14. ASSUME NEW t \in tasks, Queues!Process(t) PROVE QueueInv'
  <2>1. /\ processed' = processed \union {t}
        /\ UNCHANGED <<cfg, qStarted, server, qpc, own, spare, tasks, crossed>>
    BY <1>14 DEF Queues!Process
  <2>2. TasksOwn' /\ RunsRun'
    BY <1>4, <2>1
  <2>3. QED
    BY <1>1, <1>3, <2>1, <2>2 DEF RunsMarked
<1>15. QED
  <2>1. ASSUME NEW s \in Senders,
               NEW opts \in {<<>>} \union {<<Queues!Queue(q)>> : q \in QueueNames},
               Queues!EnqueueIn(s, opts)
        PROVE  QueueInv'
    BY <1>11, <2>1 DEF OwnOpts
  <2>2. QED
    BY <1>7, <1>8, <1>9, <1>10, <1>13, <1>14, <2>1 DEF Queues!Next

LEMMA QueueImplies == QueueInv => ConsumerExact
<1> SUFFICES ASSUME QueueInv PROVE ConsumerExact
  OBVIOUS
<1>1. Queues!TypeOK /\ Queues!Stoppable /\ Queues!StartedExact
  BY DEF QueueInv, Queues!TypeOK
<1>2. ASSUME NEW t \in tasks
      PROVE  /\ t.delay = IF qpc[t.by] = "sentLater" THEN t.by ELSE Queues!Unset
             /\ t.queue = IF own[t.by] # <<>> THEN own[t.by][1].to
                          ELSE Queues!FillDefault(cfg).queue
             /\ t.retry = Queues!FillDefault(cfg).retry
  <2>1. t = TaskOf(Queues!FillDefault(cfg), t.by, own[t.by], qpc[t.by] = "sentLater")
    BY DEF QueueInv
  <2>2. QED
    BY <2>1 DEF TaskOf
<1>3. QED
  BY <1>1, <1>2 DEF ConsumerExact, Queues!OwnOptions

LEMMA QueueStays == QueueInv /\ UNCHANGED qVars => QueueInv'
<1> SUFFICES ASSUME QueueInv, UNCHANGED qVars PROVE QueueInv'
  OBVIOUS
<1>1. UNCHANGED <<cfg, qStarted, server, qpc, own, tasks, processed, crossed>>
  BY DEF qVars
<1>2. QED
  BY <1>1 DEF QueueInv, Queues!Stoppable, Queues!StartedExact, TaskOf

\* taskq, for any queues, options and goroutines: a task carries the options of its
\* own call and the defaults for the rest; while the server is active started says
\* so, unless a Shutdown came between Run's mark and the start of the server; and
\* without Run, started is exactly that the server is active.
THEOREM ConsumerStaysExact == MCSpec => []ConsumerExact
<1>1. MCInit => QueueInv
  BY QueueStarts DEF MCInit
<1>2. QueueInv /\ [MCNext]_<<which, vars, qVars, aVars, lVars>> => QueueInv'
  BY QueueKeeps, QueueStays DEF MCNext, Rests
<1>3. QED
  BY <1>1, <1>2, QueueImplies, PTL DEF MCSpec

-----------------------------------------------------------------------------
(* The tracing agent. *)

AgentPlaces == {"idle", "name", "attrs", "shutdown", "close"}
AttrRec == [key : {"name", "extra"}, val : ServiceNames \union Attributes]
AgentRec == [resource : Seq(AttrRec), name : ServiceNames, exporter : {"none", "file", "net"},
             up : BOOLEAN, open : BOOLEAN]

\* The last attribute that is a name has value v.
NamedLast(ats, v) ==
    \E m \in Tracing!NamesIn(ats) :
        ats[m].val = v /\ \A j \in Tracing!NamesIn(ats) : j <= m

AgentTyped ==
    /\ holder \in Agents \union {Tracing!NoOne}
    /\ apc \in [Agents -> AgentPlaces]
    /\ conf = [p \in Agents |-> conf[p]]
    /\ current \in 0 .. Len(agents) /\ otel \in 0 .. Len(agents)
    /\ agents \in Seq(AgentRec) /\ attrs \in Seq(AttrRec)
    /\ spans \in 0 .. MaxSpans /\ accepted \subseteq 1 .. MaxSpans
    /\ batch \in [1 .. MaxStarts -> SUBSET (1 .. MaxSpans)]

\* Whoever starts or stops an agent holds the lock, and then there is no current one.
AgentLocked ==
    /\ \A p \in Agents : apc[p] # "idle" <=> holder = p
    /\ holder # Tracing!NoOne => current = 0
    /\ \A p \in Agents :
          /\ apc[p] \in {"name", "attrs"} => conf[p] \in Tracing!Configs
          /\ apc[p] \in {"shutdown", "close"} => conf[p] \in DOMAIN agents
          /\ apc[p] = "close" => ~agents[conf[p]].up

\* Every agent has left its name among the attributes, and one that starts has just done so.
AgentNamed ==
    /\ Len(agents) <= Cardinality(Tracing!NamesIn(attrs))
    /\ Cardinality(Tracing!NamesIn(attrs)) <= MaxStarts
    /\ \A p \in Agents :
          /\ apc[p] = "name" => Cardinality(Tracing!NamesIn(attrs)) < MaxStarts
          /\ apc[p] = "attrs" => /\ Len(agents) < Cardinality(Tracing!NamesIn(attrs))
                                 /\ NamedLast(attrs, conf[p].name)

\* Nothing is alive but the current agent and the one that is being stopped; a span that
\* waits is with a provider that can still export it.
AgentAlive ==
    /\ Tracing!OwnName
    /\ \A n \in DOMAIN agents :
          /\ agents[n].up /\ agents[n].exporter = "file" => agents[n].open
          /\ agents[n].up \/ agents[n].open =>
                \/ n = current
                \/ \E p \in Agents : apc[p] \in {"shutdown", "close"} /\ conf[p] = n
    /\ current # 0 => otel = current /\ agents[current].up
    /\ \A n \in 1 .. MaxStarts :
          batch[n] # {} => /\ n \in DOMAIN agents
                           /\ agents[n].up /\ agents[n].exporter # "none"
    /\ Tracing!NoSpanLost

AgentInv == AgentTyped /\ AgentLocked /\ AgentNamed /\ AgentAlive

\* Adding an attribute: the names that there were stay where they are.
LEMMA NamesGrow ==
    ASSUME NEW ats \in Seq(AttrRec), NEW k \in {"name", "extra"},
           NEW v \in ServiceNames \union Attributes
    PROVE  LET bs == Append(ats, Tracing!Attr(k, v))
           IN  /\ bs \in Seq(AttrRec) /\ Len(bs) = Len(ats) + 1
               /\ bs[Len(ats) + 1] = Tracing!Attr(k, v)
               /\ \A i \in 1 .. Len(ats) : bs[i] = ats[i]
               /\ Tracing!NamesIn(ats) \subseteq 1 .. Len(ats)
               /\ k = "extra" => Tracing!NamesIn(bs) = Tracing!NamesIn(ats)
               /\ k = "name" => Tracing!NamesIn(bs) = Tracing!NamesIn(ats) \union {Len(ats) + 1}
<1> DEFINE a == Tracing!Attr(k, v)
           bs == Append(ats, a)
<1>1. a \in AttrRec /\ a.key = k
  BY DEF Tracing!Attr, AttrRec
<1> HIDE DEF a
<1>2. /\ bs \in Seq(AttrRec) /\ Len(bs) = Len(ats) + 1 /\ bs[Len(ats) + 1] = a
      /\ \A i \in 1 .. Len(ats) : bs[i] = ats[i]
  BY <1>1, AppendProperties
<1> HIDE DEF bs
<1>3. /\ DOMAIN ats = 1 .. Len(ats) /\ DOMAIN bs = 1 .. Len(bs)
      /\ Len(ats) \in Nat
  BY <1>2
<1>4. Tracing!NamesIn(ats) \subseteq 1 .. Len(ats)
  BY <1>3 DEF Tracing!NamesIn
<1>5. ASSUME k = "extra" PROVE Tracing!NamesIn(bs) = Tracing!NamesIn(ats)
  BY <1>1, <1>2, <1>3, <1>5 DEF Tracing!NamesIn
<1>6. ASSUME k = "name" PROVE Tracing!NamesIn(bs) = Tracing!NamesIn(ats) \union {Len(ats) + 1}
  BY <1>1, <1>2, <1>3, <1>6 DEF Tracing!NamesIn
<1>7. QED
  BY <1>2, <1>4, <1>5, <1>6 DEF bs, a

LEMMA NamesFinite ==
    ASSUME NEW ats \in Seq(AttrRec)
    PROVE  /\ IsFiniteSet(Tracing!NamesIn(ats)) /\ Cardinality(Tracing!NamesIn(ats)) \in Nat
           /\ Tracing!NamesIn(ats) \subseteq 1 .. Len(ats)
<1>1. Tracing!NamesIn(ats) \subseteq 1 .. Len(ats) /\ Len(ats) \in Nat
  BY DEF Tracing!NamesIn
<1>2. IsFiniteSet(Tracing!NamesIn(ats))
  <2>1. IsFiniteSet(1 .. Len(ats))
    BY <1>1, FS_Interval
  <2>2. QED
    BY <1>1, <2>1, FS_Subset
<1>3. QED
  BY <1>1, <1>2, FS_CardinalityType

LEMMA NamesCounted ==
    ASSUME NEW ats \in Seq(AttrRec), NEW v \in ServiceNames
    PROVE  Cardinality(Tracing!NamesIn(Append(ats, Tracing!Attr("name", v))))
             = Cardinality(Tracing!NamesIn(ats)) + 1
<1> DEFINE S == Tracing!NamesIn(ats)
<1>1. /\ Len(ats) \in Nat /\ S \subseteq 1 .. Len(ats)
      /\ Tracing!NamesIn(Append(ats, Tracing!Attr("name", v))) = S \union {Len(ats) + 1}
  BY NamesGrow
<1>2. IsFiniteSet(S)
  BY NamesFinite
<1> HIDE DEF S
<1>3. Len(ats) + 1 \notin S
  BY <1>1
<1>4. Cardinality(S \union {Len(ats) + 1}) = Cardinality(S) + 1
  BY <1>2, <1>3, FS_AddElement
<1>5. QED
  BY <1>1, <1>4 DEF S

LEMMA SameCardinality == \A S : Tracing!Cardinality(S) = Cardinality(S)
BY DEF Tracing!Cardinality, Cardinality

\* The service name is that of the last name, whatever is added that is none.
LEMMA LastName ==
    ASSUME NEW ats \in Seq(AttrRec)
    PROVE  /\ \A v : NamedLast(ats, v) => Tracing!ServiceName(ats) = v
           /\ \A v \in ServiceNames : NamedLast(Append(ats, Tracing!Attr("name", v)), v)
           /\ \A a \in Attributes : \A v :
                 NamedLast(ats, v) => NamedLast(Append(ats, Tracing!Attr("extra", a)), v)
<1>1. ASSUME NEW v, NamedLast(ats, v) PROVE Tracing!ServiceName(ats) = v
  <2>1. PICK m \in Tracing!NamesIn(ats) :
            ats[m].val = v /\ \A j \in Tracing!NamesIn(ats) : j <= m
    BY <1>1 DEF NamedLast
  <2>2. Tracing!NamesIn(ats) \subseteq Nat
    BY DEF Tracing!NamesIn
  <2>3. (CHOOSE i \in Tracing!NamesIn(ats) : \A j \in Tracing!NamesIn(ats) : j <= i) = m
    BY <2>1, <2>2
  <2>4. QED
    BY <2>1, <2>3 DEF Tracing!ServiceName
<1>2. ASSUME NEW v \in ServiceNames PROVE NamedLast(Append(ats, Tracing!Attr("name", v)), v)
  <2> DEFINE bs == Append(ats, Tracing!Attr("name", v))
  <2>1. /\ Len(ats) \in Nat /\ bs[Len(ats) + 1] = Tracing!Attr("name", v)
        /\ Tracing!NamesIn(ats) \subseteq 1 .. Len(ats)
        /\ Tracing!NamesIn(bs) = Tracing!NamesIn(ats) \union {Len(ats) + 1}
    BY NamesGrow
  <2>2. Tracing!Attr("name", v).val = v
    BY DEF Tracing!Attr
  <2> HIDE DEF bs
  <2>3. NamedLast(bs, v)
    BY <2>1, <2>2 DEF NamedLast
  <2>4. QED
    BY <2>3 DEF bs
<1>3. ASSUME NEW v, NEW a \in Attributes, NamedLast(ats, v)
      PROVE  NamedLast(Append(ats, Tracing!Attr("extra", a)), v)
  <2> DEFINE bs == Append(ats, Tracing!Attr("extra", a))
  <2>1. /\ \A i \in 1 .. Len(ats) : bs[i] = ats[i]
        /\ Tracing!NamesIn(ats) \subseteq 1 .. Len(ats)
        /\ Tracing!NamesIn(bs) = Tracing!NamesIn(ats)
    BY NamesGrow
  <2> HIDE DEF bs
  <2>2. NamedLast(bs, v)
    BY <1>3, <2>1 DEF NamedLast
  <2>3. QED
    BY <2>2 DEF bs
<1>4. QED
  BY <1>1, <1>2, <1>3

LEMMA AgentStarts == Tracing!Init => AgentInv
<1> SUFFICES ASSUME Tracing!Init PROVE AgentInv
  OBVIOUS
<1>1. /\ holder = Tracing!NoOne /\ apc = [p \in Agents |-> "idle"]
      /\ conf = [p \in Agents |-> "none"]
      /\ current = 0 /\ agents = <<>> /\ attrs = <<>> /\ otel = 0 /\ spans = 0
      /\ batch = [n \in 1 .. MaxStarts |-> {}] /\ accepted = {} /\ exported = {}
  BY DEF Tracing!Init
<1>2. MaxStarts \in Nat /\ MaxSpans \in Nat /\ Tracing!NoOne \notin Agents
  BY CallersAssumption DEF Tracing!NoOne
<1>3. agents \in Seq(AgentRec) /\ attrs \in Seq(AttrRec) /\ Len(agents) = 0 /\ DOMAIN agents = {}
  BY <1>1
<1>4. Tracing!NamesIn(attrs) = {}
  BY <1>1 DEF Tracing!NamesIn
<1>5. Cardinality(Tracing!NamesIn(attrs)) = 0
  BY <1>4, FS_EmptySet
<1>6. AgentTyped
  BY <1>1, <1>2, <1>3 DEF AgentTyped, AgentPlaces
<1>7. AgentLocked
  BY <1>1, <1>2 DEF AgentLocked
<1>8. AgentNamed
  BY <1>1, <1>2, <1>3, <1>5 DEF AgentNamed
<1>9. AgentAlive
  BY <1>1, <1>3 DEF AgentAlive, Tracing!OwnName, Tracing!NoSpanLost
<1>10. QED
  BY <1>6, <1>7, <1>8, <1>9 DEF AgentInv

\* A span that was taken waits in a batch or is out.
LEMMA WaitsOrOut ==
    Tracing!NoSpanLost <=>
        \A x \in accepted : x \in exported \/ \E n \in DOMAIN batch : x \in batch[n]
BY DEF Tracing!NoSpanLost

\* What Export takes from a batch gets out, as long as the batch is of a provider that is up.
LEMMA ExportKeeps ==
    ASSUME AgentInv, NEW n \in 1 .. MaxStarts, Tracing!Export(n), UNCHANGED accepted
    PROVE  /\ Tracing!NoSpanLost'
           /\ batch' \in [1 .. MaxStarts -> SUBSET (1 .. MaxSpans)]
           /\ batch'[n] = {} /\ \A m \in 1 .. MaxStarts : m # n => batch'[m] = batch[m]
<1>1. batch \in [1 .. MaxStarts -> SUBSET (1 .. MaxSpans)] /\ agents \in Seq(AgentRec)
  BY DEF AgentInv, AgentTyped
<1>2. batch' = [batch EXCEPT ![n] = {}]
  BY DEF Tracing!Export
<1>3. /\ batch' \in [1 .. MaxStarts -> SUBSET (1 .. MaxSpans)] /\ DOMAIN batch = 1 .. MaxStarts
      /\ batch'[n] = {} /\ \A m \in 1 .. MaxStarts : m # n => batch'[m] = batch[m]
  BY <1>1, <1>2
<1>4. exported \union batch[n] \subseteq exported'
  <2>1. CASE batch[n] = {}
    BY <2>1 DEF Tracing!Export
  <2>2. CASE batch[n] # {}
    <3>1. /\ n \in DOMAIN agents /\ agents[n].up /\ agents[n].exporter # "none"
          /\ (agents[n].up /\ agents[n].exporter = "file" => agents[n].open)
      BY <2>2 DEF AgentInv, AgentAlive
    <3>2. agents[n].exporter \in {"none", "file", "net"}
      <4>1. agents[n] \in AgentRec
        BY <1>1, <3>1
      <4>2. QED
        BY <4>1 DEF AgentRec
    <3>3. QED
      BY <3>1, <3>2 DEF Tracing!Export
  <2>3. QED
    BY <2>1, <2>2
<1>5. \A x \in accepted : x \in exported \/ \E m \in DOMAIN batch : x \in batch[m]
  BY WaitsOrOut DEF AgentInv, AgentAlive
<1>6. \A x \in accepted' : x \in exported' \/ \E m \in DOMAIN batch' : x \in batch'[m]
  BY <1>3, <1>4, <1>5
<1>7. QED
  BY <1>3, <1>6 DEF Tracing!NoSpanLost

\* One action at a time.
LEMMA AgentKeeps == AgentInv /\ Tracing!Next => AgentInv'
<1> SUFFICES ASSUME AgentInv, Tracing!Next PROVE AgentInv'
  OBVIOUS
<1> DEFINE N == Cardinality(Tracing!NamesIn(attrs))
<1>1. /\ AgentTyped /\ AgentLocked /\ AgentNamed /\ AgentAlive
      /\ MaxStarts \in Nat /\ MaxSpans \in Nat /\ Tracing!NoOne \notin Agents
  BY CallersAssumption DEF AgentInv, Tracing!NoOne
<1>2. /\ attrs \in Seq(AttrRec) /\ agents \in Seq(AgentRec) /\ N \in Nat
      /\ Len(agents) \in Nat /\ DOMAIN agents = 1 .. Len(agents)
      /\ Len(agents) <= N /\ N <= MaxStarts
      /\ \A n \in DOMAIN agents : agents[n] \in AgentRec
  <2>1. attrs \in Seq(AttrRec) /\ agents \in Seq(AgentRec)
    BY <1>1 DEF AgentTyped
  <2>2. N \in Nat
    BY <2>1, NamesFinite
  <2>3. QED
    BY <1>1, <2>1, <2>2 DEF AgentNamed
\* Who holds the lock when nobody else does anything.
<1>3. ASSUME NEW p \in Agents, apc[p] # "idle"
      PROVE  holder = p /\ \A q \in Agents : q # p => apc[q] = "idle"
  BY <1>1, <1>3 DEF AgentLocked
<1>4. ASSUME holder = Tracing!NoOne PROVE \A q \in Agents : apc[q] = "idle"
  BY <1>1, <1>4 DEF AgentLocked
<1>5. CASE Tracing!Span
  <2>1. /\ spans < MaxSpans /\ spans' = spans + 1
        /\ UNCHANGED <<holder, apc, conf, current, agents, attrs, otel, exported>>
        /\ \/ /\ otel # 0 /\ agents[otel].up /\ agents[otel].exporter # "none"
              /\ batch' = [batch EXCEPT ![otel] = @ \union {spans'}]
              /\ accepted' = accepted \union {spans'}
           \/ UNCHANGED <<batch, accepted>>
    BY <1>5 DEF Tracing!Span
  <2>2. /\ spans \in 0 .. MaxSpans /\ otel \in 0 .. Len(agents) /\ accepted \subseteq 1 .. MaxSpans
        /\ batch \in [1 .. MaxStarts -> SUBSET (1 .. MaxSpans)]
    BY <1>1 DEF AgentTyped
  <2>3. spans' \in 1 .. MaxSpans
    BY <1>1, <2>1, <2>2
  <2>4. CASE UNCHANGED <<batch, accepted>>
    <3>1. AgentTyped'
      BY <1>1, <2>1, <2>3, <2>4 DEF AgentTyped
    <3>2. AgentLocked' /\ AgentNamed' /\ AgentAlive'
      BY <1>1, <2>1, <2>4 DEF AgentLocked, AgentNamed, AgentAlive, Tracing!OwnName, Tracing!NoSpanLost
    <3>3. QED
      BY <3>1, <3>2 DEF AgentInv
  <2>5. CASE /\ otel # 0 /\ agents[otel].up /\ agents[otel].exporter # "none"
             /\ batch' = [batch EXCEPT ![otel] = @ \union {spans'}]
             /\ accepted' = accepted \union {spans'}
    <3>1. otel \in 1 .. MaxStarts /\ otel \in DOMAIN agents
      BY <1>1, <1>2, <2>2, <2>5
    <3>2. /\ batch' \in [1 .. MaxStarts -> SUBSET (1 .. MaxSpans)]
          /\ batch'[otel] = batch[otel] \union {spans'}
          /\ \A n \in 1 .. MaxStarts : n # otel => batch'[n] = batch[n]
      BY <2>2, <2>3, <2>5, <3>1
    <3>3. AgentTyped'
      BY <1>1, <2>1, <2>2, <2>3, <2>5, <3>2 DEF AgentTyped
    <3>4. AgentLocked' /\ AgentNamed'
      BY <1>1, <2>1 DEF AgentLocked, AgentNamed
    <3>5. Tracing!NoSpanLost'
      <4>1. \A x \in accepted : x \in exported \/ \E n \in 1 .. MaxStarts : x \in batch[n]
        BY <1>1, <2>2, WaitsOrOut DEF AgentAlive
      <4>2. \A n \in 1 .. MaxStarts : batch[n] \subseteq batch'[n]
        BY <3>2
      <4>3. \A x \in accepted' : x \in exported' \/ \E n \in 1 .. MaxStarts : x \in batch'[n]
        BY <2>1, <2>5, <3>1, <3>2, <4>1, <4>2
      <4>4. DOMAIN batch' = 1 .. MaxStarts
        BY <3>2
      <4>5. QED
        BY <4>3, <4>4 DEF Tracing!NoSpanLost
    <3>6. \A n \in 1 .. MaxStarts :
              batch'[n] # {} => n \in DOMAIN agents /\ agents[n].up /\ agents[n].exporter # "none"
      BY <1>1, <2>5, <3>1, <3>2 DEF AgentAlive
    <3>7. AgentAlive'
      BY <1>1, <2>1, <3>5, <3>6 DEF AgentAlive, Tracing!OwnName
    <3>8. QED
      BY <3>3, <3>4, <3>7 DEF AgentInv
  <2>6. QED
    BY <2>1, <2>4, <2>5
<1>6. ASSUME NEW a \in Attributes, Tracing!AddResources(a) PROVE AgentInv'
  <2>1. /\ attrs' = Append(attrs, Tracing!Attr("extra", a))
        /\ UNCHANGED <<holder, apc, conf, current, agents, otel, spans, batch, accepted, exported>>
    BY <1>6 DEF Tracing!AddResources
  <2>2. attrs' \in Seq(AttrRec) /\ Tracing!NamesIn(attrs') = Tracing!NamesIn(attrs)
    BY <1>2, <2>1, NamesGrow
  <2>3. \A v : NamedLast(attrs, v) => NamedLast(attrs', v)
    BY <1>2, <2>1, LastName
  <2>4. AgentTyped' /\ AgentLocked'
    BY <1>1, <2>1, <2>2 DEF AgentTyped, AgentLocked
  <2>5. AgentNamed'
    BY <1>1, <2>1, <2>2, <2>3 DEF AgentNamed
  <2>6. AgentAlive'
    BY <1>1, <2>1 DEF AgentAlive, Tracing!OwnName, Tracing!NoSpanLost
  <2>7. QED
    BY <2>4, <2>5, <2>6 DEF AgentInv
<1>7. ASSUME NEW n \in 1 .. MaxStarts, Tracing!Batcher(n) PROVE AgentInv'
  <2>1. /\ Tracing!Export(n)
        /\ UNCHANGED <<holder, apc, conf, current, agents, attrs, otel, spans, accepted>>
    BY <1>7 DEF Tracing!Batcher
  <2>2. /\ Tracing!NoSpanLost' /\ batch' \in [1 .. MaxStarts -> SUBSET (1 .. MaxSpans)]
        /\ batch'[n] = {} /\ \A m \in 1 .. MaxStarts : m # n => batch'[m] = batch[m]
    BY <2>1, ExportKeeps
  <2>3. AgentTyped' /\ AgentLocked' /\ AgentNamed'
    BY <1>1, <2>1, <2>2 DEF AgentTyped, AgentLocked, AgentNamed
  <2>4. \A m \in 1 .. MaxStarts :
            batch'[m] # {} => m \in DOMAIN agents /\ agents[m].up /\ agents[m].exporter # "none"
    BY <1>1, <2>2 DEF AgentAlive
  <2>5. AgentAlive'
    BY <1>1, <2>1, <2>2, <2>4 DEF AgentAlive, Tracing!OwnName
  <2>6. QED
    BY <2>3, <2>5 DEF AgentInv
<1>8. ASSUME NEW p \in Agents, NEW c \in Tracing!Configs, Tracing!StartLock(p, c) PROVE AgentInv'
  <2>1. /\ holder = Tracing!NoOne /\ current = 0 /\ N < MaxStarts
        /\ holder' = p /\ conf' = [conf EXCEPT ![p] = c] /\ apc' = [apc EXCEPT ![p] = "name"]
        /\ UNCHANGED <<current, agents, attrs, otel, spans, batch, accepted, exported>>
    BY <1>8, SameCardinality DEF Tracing!StartLock, Tracing!Goto
  <2>2. \A q \in Agents : apc[q] = "idle"
    BY <1>4, <2>1
  <2>3. /\ apc \in [Agents -> AgentPlaces] /\ conf = [q \in Agents |-> conf[q]]
    BY <1>1 DEF AgentTyped
  <2>4. /\ apc' \in [Agents -> AgentPlaces] /\ conf' = [q \in Agents |-> conf'[q]]
        /\ \A q \in Agents : apc'[q] = (IF q = p THEN "name" ELSE "idle")
        /\ conf'[p] = c
    BY <2>1, <2>2, <2>3 DEF AgentPlaces
  <2>5. AgentTyped'
    BY <1>1, <2>1, <2>4 DEF AgentTyped
  <2>6. AgentLocked'
    BY <1>1, <2>1, <2>4 DEF AgentLocked
  <2>7. AgentNamed'
    BY <1>1, <2>1, <2>4 DEF AgentNamed
  <2>8. AgentAlive'
    BY <1>1, <2>1, <2>2 DEF AgentAlive, Tracing!OwnName, Tracing!NoSpanLost
  <2>9. QED
    BY <2>5, <2>6, <2>7, <2>8 DEF AgentInv
<1>9. ASSUME NEW p \in Agents, Tracing!AddName(p) PROVE AgentInv'
  <2> DEFINE v == conf[p].name
  <2>1. /\ apc[p] = "name"
        /\ attrs' = Append(attrs, Tracing!Attr("name", v)) /\ apc' = [apc EXCEPT ![p] = "attrs"]
        /\ UNCHANGED <<holder, conf, current, agents, otel, spans, batch, accepted, exported>>
    BY <1>9 DEF Tracing!AddName, Tracing!Goto
  <2>2. conf[p] \in Tracing!Configs
    BY <1>1, <2>1 DEF AgentLocked
  <2>3. v \in ServiceNames
    BY <2>2 DEF Tracing!Configs
  <2> HIDE DEF v
  <2>4. /\ attrs' \in Seq(AttrRec) /\ Cardinality(Tracing!NamesIn(attrs')) = N + 1
        /\ NamedLast(attrs', v)
    BY <1>2, <2>1, <2>3, NamesGrow, NamesCounted, LastName
  <2>5. N < MaxStarts
    BY <1>1, <2>1 DEF AgentNamed
  <2>6. holder = p /\ \A q \in Agents : q # p => apc[q] = "idle"
    BY <1>3, <2>1
  <2>7. /\ apc' \in [Agents -> AgentPlaces]
        /\ \A q \in Agents : apc'[q] = (IF q = p THEN "attrs" ELSE "idle")
    <3>1. apc \in [Agents -> AgentPlaces]
      BY <1>1 DEF AgentTyped
    <3>2. QED
      BY <2>1, <2>6, <3>1 DEF AgentPlaces
  <2>8. AgentTyped'
    BY <1>1, <2>1, <2>4, <2>7 DEF AgentTyped
  <2>9. AgentLocked'
    BY <1>1, <2>1, <2>2, <2>6, <2>7 DEF AgentLocked
  <2>10. AgentNamed'
    <3>1. /\ Len(agents) < N + 1 /\ N + 1 <= MaxStarts
      BY <1>1, <1>2, <2>5
    <3>2. NamedLast(attrs', conf'[p].name)
      BY <2>1, <2>4 DEF v
    <3>3. QED
      BY <1>2, <2>1, <2>4, <2>7, <3>1, <3>2 DEF AgentNamed
  <2>11. AgentAlive'
    <3>1. \A q \in Agents : apc[q] \notin {"shutdown", "close"}
      BY <2>1, <2>6
    <3>2. QED
      BY <1>1, <2>1, <3>1 DEF AgentAlive, Tracing!OwnName, Tracing!NoSpanLost
  <2>12. QED
    BY <2>8, <2>9, <2>10, <2>11 DEF AgentInv
<1>10. ASSUME NEW p \in Agents, Tracing!ExporterFails(p) PROVE AgentInv'
  <2>1. /\ apc[p] = "attrs" /\ holder' = Tracing!NoOne /\ apc' = [apc EXCEPT ![p] = "idle"]
        /\ UNCHANGED <<conf, current, agents, attrs, otel, spans, batch, accepted, exported>>
    BY <1>10 DEF Tracing!ExporterFails, Tracing!Goto
  <2>2. \A q \in Agents : q # p => apc[q] = "idle"
    BY <1>3, <2>1
  <2>3. apc' \in [Agents -> AgentPlaces] /\ \A q \in Agents : apc'[q] = "idle"
    <3>1. apc \in [Agents -> AgentPlaces]
      BY <1>1 DEF AgentTyped
    <3>2. QED
      BY <2>1, <2>2, <3>1 DEF AgentPlaces
  <2>4. AgentTyped'
    BY <1>1, <2>1, <2>3 DEF AgentTyped
  <2>5. AgentLocked' /\ AgentNamed'
    BY <1>1, <2>1, <2>3 DEF AgentLocked, AgentNamed
  <2>6. AgentAlive'
    <3>1. \A q \in Agents : apc[q] \notin {"shutdown", "close"}
      BY <2>1, <2>2
    <3>2. QED
      BY <1>1, <2>1, <3>1 DEF AgentAlive, Tracing!OwnName, Tracing!NoSpanLost
  <2>7. QED
    BY <2>4, <2>5, <2>6 DEF AgentInv
<1>11. ASSUME NEW p \in Agents, Tracing!Install(p) PROVE AgentInv'
  <2> DEFINE new == [resource |-> attrs, name |-> conf[p].name, exporter |-> conf[p].exporter,
                     up |-> TRUE, open |-> conf[p].exporter = "file"]
             k == Len(agents) + 1
  <2>1. /\ apc[p] = "attrs" /\ agents' = Append(agents, new)
        /\ otel' = Len(agents') /\ current' = Len(agents')
        /\ holder' = Tracing!NoOne /\ apc' = [apc EXCEPT ![p] = "idle"]
        /\ UNCHANGED <<conf, attrs, spans, batch, accepted, exported>>
    BY <1>11 DEF Tracing!Install, Tracing!Goto
  <2>2. conf[p] \in Tracing!Configs
    BY <1>1, <2>1 DEF AgentLocked
  <2>3. /\ new \in AgentRec /\ new.up /\ (new.exporter = "file" => new.open)
        /\ new.resource = attrs /\ new.name = conf[p].name
    BY <1>2, <2>2 DEF Tracing!Configs, AgentRec
  <2> HIDE DEF new
  <2>4. /\ agents' \in Seq(AgentRec) /\ Len(agents') = k /\ DOMAIN agents' = 1 .. k
        /\ agents'[k] = new /\ \A n \in DOMAIN agents : agents'[n] = agents[n]
    <3>1. /\ agents' \in Seq(AgentRec) /\ Len(agents') = k
          /\ agents'[k] = new /\ \A n \in 1 .. Len(agents) : agents'[n] = agents[n]
      BY <1>2, <2>1, <2>3, AppendProperties
    <3>2. QED
      BY <1>2, <3>1
  <2>5. current = 0 /\ \A q \in Agents : q # p => apc[q] = "idle"
    <3>1. holder = p /\ holder # Tracing!NoOne
      BY <1>1, <1>3, <2>1
    <3>2. QED
      BY <1>1, <1>3, <2>1, <3>1 DEF AgentLocked
  <2>6. apc' \in [Agents -> AgentPlaces] /\ \A q \in Agents : apc'[q] = "idle"
    <3>1. apc \in [Agents -> AgentPlaces]
      BY <1>1 DEF AgentTyped
    <3>2. QED
      BY <2>1, <2>5, <3>1 DEF AgentPlaces
  <2>7. k <= N /\ Tracing!ServiceName(attrs) = conf[p].name
    <3>1. Len(agents) < N /\ NamedLast(attrs, conf[p].name)
      BY <1>1, <2>1 DEF AgentNamed
    <3>2. QED
      BY <1>2, <3>1, LastName
  <2> HIDE DEF k
  <2>8. k \in Nat /\ k = Len(agents) + 1
    BY <1>2 DEF k
  <2>9. AgentTyped'
    BY <1>1, <2>1, <2>4, <2>6, <2>8 DEF AgentTyped
  <2>10. AgentLocked' /\ AgentNamed'
    BY <1>1, <1>2, <2>1, <2>4, <2>6, <2>7, <2>8 DEF AgentLocked, AgentNamed
  <2>11. AgentAlive'
    <3>1. \A n \in DOMAIN agents : ~agents[n].up /\ ~agents[n].open
      <4>1. \A q \in Agents : apc[q] \notin {"shutdown", "close"}
        BY <2>1, <2>5
      <4>2. \A n \in DOMAIN agents : n # current
        BY <1>2, <2>5
      <4>3. QED
        BY <1>1, <4>1, <4>2 DEF AgentAlive
    <3>2. \A n \in 1 .. MaxStarts : batch'[n] = {}
      BY <1>1, <2>1, <3>1 DEF AgentAlive
    <3>3. Tracing!NoSpanLost'
      BY <1>1, <2>1 DEF AgentAlive, Tracing!NoSpanLost
    <3>4. \A n \in DOMAIN agents' : Tracing!ServiceName(agents'[n].resource) = agents'[n].name
      <4>1. \A n \in DOMAIN agents : Tracing!ServiceName(agents[n].resource) = agents[n].name
        BY <1>1 DEF AgentAlive, Tracing!OwnName
      <4>2. \A n \in DOMAIN agents' : n \in DOMAIN agents \/ n = k
        BY <1>2, <2>4, <2>8
      <4>3. QED
        BY <2>3, <2>4, <2>7, <4>1, <4>2
    <3>5. /\ \A n \in DOMAIN agents' :
                /\ agents'[n].up /\ agents'[n].exporter = "file" => agents'[n].open
                /\ agents'[n].up \/ agents'[n].open => n = current'
          /\ otel' = current' /\ agents'[current'].up
      <4>1. \A n \in DOMAIN agents' : n \in DOMAIN agents \/ n = k
        BY <1>2, <2>4, <2>8
      <4>2. QED
        BY <2>1, <2>3, <2>4, <3>1, <4>1
    <3>6. QED
      BY <3>2, <3>3, <3>4, <3>5 DEF AgentAlive, Tracing!OwnName
  <2>12. QED
    BY <2>9, <2>10, <2>11 DEF AgentInv
<1>12. ASSUME NEW p \in Agents, Tracing!StopLock(p) PROVE AgentInv'
  <2>1. /\ holder = Tracing!NoOne /\ current # 0
        /\ holder' = p /\ conf' = [conf EXCEPT ![p] = current] /\ current' = 0
        /\ apc' = [apc EXCEPT ![p] = "shutdown"]
        /\ UNCHANGED <<agents, attrs, otel, spans, batch, accepted, exported>>
    BY <1>12 DEF Tracing!StopLock, Tracing!Goto
  <2>2. \A q \in Agents : apc[q] = "idle"
    BY <1>4, <2>1
  <2>3. current \in DOMAIN agents
    <3>1. current \in 0 .. Len(agents)
      BY <1>1 DEF AgentTyped
    <3>2. QED
      BY <1>2, <2>1, <3>1
  <2>4. /\ apc' \in [Agents -> AgentPlaces] /\ conf' = [q \in Agents |-> conf'[q]]
        /\ \A q \in Agents : apc'[q] = (IF q = p THEN "shutdown" ELSE "idle")
        /\ conf'[p] = current
    <3>1. /\ apc \in [Agents -> AgentPlaces] /\ conf = [q \in Agents |-> conf[q]]
      BY <1>1 DEF AgentTyped
    <3>2. QED
      BY <2>1, <2>2, <3>1 DEF AgentPlaces
  <2>5. AgentTyped'
    BY <1>1, <1>2, <2>1, <2>4 DEF AgentTyped
  <2>6. AgentLocked' /\ AgentNamed'
    BY <1>1, <2>1, <2>3, <2>4 DEF AgentLocked, AgentNamed
  <2>7. AgentAlive'
    <3>1. \A n \in DOMAIN agents : agents[n].up \/ agents[n].open => n = current
      BY <1>1, <2>2 DEF AgentAlive
    <3>2. QED
      BY <1>1, <2>1, <2>4, <3>1 DEF AgentAlive, Tracing!OwnName, Tracing!NoSpanLost
  <2>8. QED
    BY <2>5, <2>6, <2>7 DEF AgentInv
<1>13. ASSUME NEW p \in Agents, Tracing!StopShutdown(p) PROVE AgentInv'
  <2> DEFINE n == conf[p]
  <2>1. /\ apc[p] = "shutdown" /\ Tracing!Export(n)
        /\ agents' = [agents EXCEPT ![n].up = FALSE] /\ apc' = [apc EXCEPT ![p] = "close"]
        /\ UNCHANGED <<holder, conf, current, attrs, otel, spans, accepted>>
    BY <1>13 DEF Tracing!StopShutdown, Tracing!Goto
  <2>2. n \in DOMAIN agents /\ n \in 1 .. MaxStarts
    <3>1. n \in DOMAIN agents
      BY <1>1, <2>1 DEF AgentLocked
    <3>2. QED
      BY <1>1, <1>2, <3>1
  <2>3. /\ holder = p /\ current = 0 /\ \A q \in Agents : q # p => apc[q] = "idle"
    <3>1. holder = p /\ holder # Tracing!NoOne /\ \A q \in Agents : q # p => apc[q] = "idle"
      BY <1>1, <1>3, <2>1
    <3>2. QED
      BY <1>1, <3>1 DEF AgentLocked
  <2> HIDE DEF n
  <2>4. /\ Tracing!NoSpanLost' /\ batch' \in [1 .. MaxStarts -> SUBSET (1 .. MaxSpans)]
        /\ batch'[n] = {} /\ \A m \in 1 .. MaxStarts : m # n => batch'[m] = batch[m]
    BY <2>1, <2>2, ExportKeeps
  <2>5. /\ agents' \in Seq(AgentRec) /\ Len(agents') = Len(agents)
        /\ DOMAIN agents' = DOMAIN agents /\ agents'[n] = [agents[n] EXCEPT !.up = FALSE]
        /\ \A m \in DOMAIN agents : m # n => agents'[m] = agents[m]
    <3>1. agents[n] \in AgentRec
      BY <1>2, <2>2
    <3>2. [agents[n] EXCEPT !.up = FALSE] \in AgentRec
      BY <3>1 DEF AgentRec
    <3>3. QED
      BY <1>2, <2>1, <2>2, <3>2
  <2>6. /\ ~agents'[n].up /\ agents'[n].open = agents[n].open
        /\ agents'[n].resource = agents[n].resource /\ agents'[n].name = agents[n].name
    <3>1. agents[n] \in AgentRec
      BY <1>2, <2>2
    <3>2. QED
      BY <2>5, <3>1 DEF AgentRec
  <2>7. /\ apc' \in [Agents -> AgentPlaces]
        /\ \A q \in Agents : apc'[q] = (IF q = p THEN "close" ELSE "idle")
    <3>1. apc \in [Agents -> AgentPlaces]
      BY <1>1 DEF AgentTyped
    <3>2. QED
      BY <2>1, <2>3, <3>1 DEF AgentPlaces
  <2>8. AgentTyped'
    BY <1>1, <2>1, <2>4, <2>5, <2>7 DEF AgentTyped
  <2>9. AgentLocked'
    BY <1>1, <2>1, <2>2, <2>3, <2>5, <2>6, <2>7 DEF AgentLocked, n
  <2>10. AgentNamed'
    BY <1>1, <2>1, <2>5, <2>7 DEF AgentNamed
  <2>11. AgentAlive'
    <3>1. \A m \in DOMAIN agents : m # n => ~agents[m].up /\ ~agents[m].open
      <4>1. \A m \in DOMAIN agents : m # current
        BY <1>2, <2>3
      <4>2. \A q \in Agents : apc[q] \in {"shutdown", "close"} => conf[q] = n
        BY <2>3 DEF n
      <4>3. QED
        BY <1>1, <4>1, <4>2 DEF AgentAlive
    <3>2. \A m \in 1 .. MaxStarts : batch'[m] = {}
      BY <1>1, <2>4, <3>1 DEF AgentAlive
    <3>3. Tracing!OwnName'
      <4>1. \A m \in DOMAIN agents : Tracing!ServiceName(agents[m].resource) = agents[m].name
        BY <1>1 DEF AgentAlive, Tracing!OwnName
      <4>2. \A m \in DOMAIN agents : /\ agents'[m].resource = agents[m].resource
                                    /\ agents'[m].name = agents[m].name
        BY <2>5, <2>6
      <4>3. QED
        BY <2>5, <4>1, <4>2 DEF Tracing!OwnName
    <3>4. \A m \in DOMAIN agents' :
              /\ agents'[m].up /\ agents'[m].exporter = "file" => agents'[m].open
              /\ agents'[m].up \/ agents'[m].open => m = n
      BY <2>5, <2>6, <3>1
    <3>5. apc'[p] \in {"shutdown", "close"} /\ conf'[p] = n
      BY <2>1, <2>7 DEF n
    <3>6. current' = 0
      BY <2>1, <2>3
    <3>7. QED
      BY <2>4, <3>2, <3>3, <3>4, <3>5, <3>6 DEF AgentAlive
  <2>12. QED
    BY <2>8, <2>9, <2>10, <2>11 DEF AgentInv
<1>14. ASSUME NEW p \in Agents, Tracing!StopClose(p) PROVE AgentInv'
  <2> DEFINE n == conf[p]
  <2>1. /\ apc[p] = "close"
        /\ agents' = [agents EXCEPT ![n].open = FALSE] /\ apc' = [apc EXCEPT ![p] = "idle"]
        /\ holder' = Tracing!NoOne
        /\ UNCHANGED <<conf, current, attrs, otel, spans, batch, accepted, exported>>
    BY <1>14 DEF Tracing!StopClose, Tracing!Goto
  <2>2. n \in DOMAIN agents /\ ~agents[n].up
    BY <1>1, <2>1 DEF AgentLocked
  <2>3. /\ current = 0 /\ \A q \in Agents : q # p => apc[q] = "idle"
    <3>1. holder = p /\ holder # Tracing!NoOne /\ \A q \in Agents : q # p => apc[q] = "idle"
      BY <1>1, <1>3, <2>1
    <3>2. QED
      BY <1>1, <3>1 DEF AgentLocked
  <2>4. \A m \in DOMAIN agents : m # n => ~agents[m].up /\ ~agents[m].open
    <3>1. \A m \in DOMAIN agents : m # current
      BY <1>2, <2>3
    <3>2. \A q \in Agents : apc[q] \in {"shutdown", "close"} => conf[q] = n
      BY <2>3
    <3>3. QED
      BY <1>1, <3>1, <3>2 DEF AgentAlive
  <2> HIDE DEF n
  <2>5. /\ agents' \in Seq(AgentRec) /\ Len(agents') = Len(agents)
        /\ DOMAIN agents' = DOMAIN agents /\ agents'[n] = [agents[n] EXCEPT !.open = FALSE]
        /\ \A m \in DOMAIN agents : m # n => agents'[m] = agents[m]
    <3>1. agents[n] \in AgentRec
      BY <1>2, <2>2
    <3>2. [agents[n] EXCEPT !.open = FALSE] \in AgentRec
      BY <3>1 DEF AgentRec
    <3>3. QED
      BY <1>2, <2>1, <2>2, <3>2
  <2>6. /\ ~agents'[n].up /\ ~agents'[n].open
        /\ agents'[n].resource = agents[n].resource /\ agents'[n].name = agents[n].name
    <3>1. agents[n] \in AgentRec
      BY <1>2, <2>2
    <3>2. QED
      BY <2>2, <2>5, <3>1 DEF AgentRec
  <2>7. apc' \in [Agents -> AgentPlaces] /\ \A q \in Agents : apc'[q] = "idle"
    <3>1. apc \in [Agents -> AgentPlaces]
      BY <1>1 DEF AgentTyped
    <3>2. QED
      BY <2>1, <2>3, <3>1 DEF AgentPlaces
  <2>8. AgentTyped'
    BY <1>1, <2>1, <2>5, <2>7 DEF AgentTyped
  <2>9. AgentLocked' /\ AgentNamed'
    BY <1>1, <2>1, <2>5, <2>7 DEF AgentLocked, AgentNamed
  <2>10. AgentAlive'
    <3>1. \A m \in 1 .. MaxStarts : batch'[m] = {}
      BY <1>1, <2>1, <2>2, <2>4 DEF AgentAlive
    <3>2. Tracing!OwnName' /\ Tracing!NoSpanLost'
      BY <1>1, <2>1, <2>5, <2>6 DEF AgentAlive, Tracing!OwnName, Tracing!NoSpanLost
    <3>3. \A m \in DOMAIN agents' : ~agents'[m].up /\ ~agents'[m].open
      BY <2>4, <2>5, <2>6
    <3>4. QED
      BY <2>1, <2>3, <3>1, <3>2, <3>3 DEF AgentAlive
  <2>11. QED
    BY <2>8, <2>9, <2>10 DEF AgentInv
<1>15. QED
  BY <1>5, <1>6, <1>7, <1>8, <1>9, <1>10, <1>11, <1>12, <1>13, <1>14 DEF Tracing!Next

LEMMA AgentStays == AgentInv /\ UNCHANGED aVars => AgentInv'
<1> SUFFICES ASSUME AgentInv, UNCHANGED aVars PROVE AgentInv'
  OBVIOUS
<1>1. UNCHANGED <<holder, apc, conf, current, agents, attrs, otel, spans, batch, accepted, exported>>
  BY DEF aVars
<1>2. AgentTyped' /\ AgentLocked'
  BY <1>1 DEF AgentInv, AgentTyped, AgentLocked
<1>3. AgentNamed'
  BY <1>1 DEF AgentInv, AgentNamed
<1>4. AgentAlive'
  BY <1>1 DEF AgentInv, AgentAlive, Tracing!OwnName, Tracing!NoSpanLost
<1>5. QED
  BY <1>2, <1>3, <1>4 DEF AgentInv

LEMMA AgentImplies ==
    AgentInv => /\ Tracing!TypeOK /\ Tracing!NoSpanLost
                /\ Tracing!OnlyCurrentAlive /\ Tracing!OwnName
<1> SUFFICES ASSUME AgentInv
             PROVE  /\ Tracing!TypeOK /\ Tracing!NoSpanLost
                    /\ Tracing!OnlyCurrentAlive /\ Tracing!OwnName
  OBVIOUS
<1>1. AgentTyped /\ AgentLocked /\ AgentNamed /\ AgentAlive
  BY DEF AgentInv
<1>2. Tracing!TypeOK
  <2>1. Len(agents) \in Nat /\ MaxStarts \in Nat /\ Len(agents) <= MaxStarts
    <3>1. Cardinality(Tracing!NamesIn(attrs)) \in Nat
      BY <1>1, NamesFinite DEF AgentTyped
    <3>2. QED
      BY <1>1, <3>1, CallersAssumption DEF AgentTyped, AgentNamed
  <2>2. QED
    BY <1>1, <2>1 DEF AgentTyped, Tracing!TypeOK
<1>3. Tracing!OnlyCurrentAlive
  <2>1. Tracing!NoOne \notin Agents
    BY CallersAssumption DEF Tracing!NoOne
  <2>2. holder = Tracing!NoOne => \A p \in Agents : apc[p] = "idle"
    BY <1>1, <2>1 DEF AgentLocked
  <2>3. QED
    BY <1>1, <2>2 DEF AgentAlive, Tracing!OnlyCurrentAlive
<1>4. QED
  BY <1>1, <1>2, <1>3 DEF AgentAlive

-----------------------------------------------------------------------------
(* The loggers and their extractors. *)

\* A set of numbers has a least one.
LEMMA LeastOf ==
    ASSUME NEW T, T \subseteq Nat, T # {}
    PROVE  \E m \in T : \A k \in T : m <= k
<1> DEFINE Less == OpToRel(<, Nat)
<1>1. \A x, y \in Nat : x < y => <<x, y>> \in Less
  BY DEF OpToRel
<1>2. IsWellFoundedOn(Less, Nat)
  BY NatLessThanWellFounded
<1> HIDE DEF Less
<1>3. \E m \in T : \A k \in T : <<k, m>> \notin Less
  BY <1>2, WFMin
<1>4. PICK m \in T : \A k \in T : <<k, m>> \notin Less
  BY <1>3
<1>5. \A k \in T : ~(k < m)
  BY <1>1, <1>4
<1>6. \A k \in T : m <= k
  BY <1>5
<1>7. QED
  BY <1>6

\* Induction: a set with 0 and with the successor of each of its numbers.
LEMMA AllNumbers ==
    ASSUME NEW T, T \subseteq Nat, 0 \in T, \A n \in T : n + 1 \in T
    PROVE  T = Nat
<1> SUFFICES ASSUME T # Nat PROVE FALSE
  OBVIOUS
<1>1. PICK m \in Nat \ T : \A k \in Nat \ T : m <= k
  BY LeastOf
<1>2. m # 0 /\ m - 1 \in Nat
  BY <1>1
<1>3. m - 1 \in T
  BY <1>1, <1>2
<1>4. QED
  BY <1>1, <1>2, <1>3

\* The walk over the list that a compaction makes, step by step.
WalkStep(h, n) == IF n = 0 THEN <<>>
                  ELSE IF list[n] \in removed THEN h[n - 1] ELSE Append(h[n - 1], list[n])
Walked == CHOOSE h : h = [n \in 0..Len(list) |-> WalkStep(h, n)]

\* The recursion of Remaining has a solution: by induction over the list.
LEMMA RemainingIs ==
    ASSUME list \in Seq(Extractors)
    PROVE  /\ Logs!Remaining = Walked[Len(list)]
           /\ \A n \in 0..Len(list) : Walked[n] = WalkStep(Walked, n)
<1> DEFINE H == CHOOSE h : h = [n \in 0..Len(list) |->
                  IF n = 0 THEN <<>>
                  ELSE IF list[n] \in removed THEN h[n - 1] ELSE Append(h[n - 1], list[n])]
           T == {m \in Nat : \E h : h = [n \in 0..m |-> WalkStep(h, n)]}
<1>1. Logs!Remaining = H[Len(list)]
  BY DEF Logs!Remaining
<1>2. H = Walked
  BY DEF Walked, WalkStep
<1> HIDE DEF H
<1>3. 0 \in T
  <2> DEFINE h == [n \in 0..0 |-> <<>>]
  <2>1. \A n \in 0..0 : WalkStep(h, n) = <<>>
    BY DEF WalkStep
  <2>2. h = [n \in 0..0 |-> WalkStep(h, n)]
    BY <2>1
  <2> HIDE DEF h
  <2>3. QED
    BY <2>2
<1>4. ASSUME NEW m \in T PROVE m + 1 \in T
  <2>1. m \in Nat /\ \E h : h = [n \in 0..m |-> WalkStep(h, n)]
    OBVIOUS
  <2>2. PICK h : h = [n \in 0..m |-> WalkStep(h, n)]
    BY <2>1
  <2> DEFINE g == [n \in 0..(m + 1) |-> WalkStep(h, n)]
  <2>3. \A n \in 0..m : n \in 0..(m + 1) /\ g[n] = h[n]
    <3>1. \A n \in 0..m : n \in 0..(m + 1)
      BY <2>1
    <3>2. \A n \in 0..m : h[n] = WalkStep(h, n)
      BY <2>2, Zenon
    <3>3. QED
      BY <3>1, <3>2, Zenon
  <2>4. ASSUME NEW n \in 0..(m + 1) PROVE WalkStep(g, n) = WalkStep(h, n)
    <3>1. CASE n = 0
      BY <3>1 DEF WalkStep
    <3>2. CASE n # 0
      <4>1. n - 1 \in 0..m
        BY <2>1, <3>2
      <4>2. g[n - 1] = h[n - 1]
        BY <2>3, <4>1
      <4> HIDE DEF g
      <4>3. QED
        BY <3>2, <4>2 DEF WalkStep
    <3>3. QED
      BY <3>1, <3>2
  <2>5. g = [n \in 0..(m + 1) |-> WalkStep(g, n)]
    BY <2>4
  <2> HIDE DEF g
  <2>6. QED
    BY <2>1, <2>5
<1>5. Len(list) \in T
  <2> HIDE DEF T
  <2>1. T \subseteq Nat
    BY DEF T
  <2>2. T = Nat
    BY <1>3, <1>4, <2>1, AllNumbers
  <2>3. QED
    BY <2>2
<1>6. Walked = [n \in 0..Len(list) |-> WalkStep(Walked, n)]
  BY <1>5 DEF Walked
<1>7. QED
  BY <1>1, <1>2, <1>6

\* What the walk has after n steps: each of the first n that is not flagged.
WalkedWell(w, n) ==
    /\ w \in Seq(Extractors)
    /\ \A k \in DOMAIN w : w[k] \notin removed /\ \E i \in 1..n : w[k] = list[i]
    /\ \A i \in 1..n : list[i] \notin removed => \E k \in DOMAIN w : w[k] = list[i]
    /\ Logs!IsInjective(list) => Logs!IsInjective(w)

LEMMA WalkGrows ==
    ASSUME list \in Seq(Extractors), NEW n \in Nat, n + 1 \in 1..Len(list), NEW w,
           WalkedWell(w, n)
    PROVE  WalkedWell(IF list[n + 1] \in removed THEN w ELSE Append(w, list[n + 1]), n + 1)
<1> DEFINE e == list[n + 1]
<1>1. e \in Extractors /\ w \in Seq(Extractors) /\ DOMAIN list = 1..Len(list) /\ Len(list) \in Nat
  BY DEF WalkedWell
<1>2. \A i \in 1..(n + 1) : i \in 1..n \/ i = n + 1
  OBVIOUS
<1>3. \A i \in 1..n : i \in 1..(n + 1)
  OBVIOUS
<1>4. CASE e \in removed
  BY <1>2, <1>3, <1>4 DEF WalkedWell
<1>5. CASE e \notin removed
  <2> DEFINE v == Append(w, e)
             l == Len(w) + 1
  <2>1. /\ v \in Seq(Extractors) /\ DOMAIN w = 1..Len(w) /\ Len(w) \in Nat /\ Len(v) = l
        /\ v[l] = e /\ \A k \in DOMAIN w : v[k] = w[k]
    <3>1. /\ v \in Seq(Extractors) /\ Len(v) = Len(w) + 1
          /\ v[Len(w) + 1] = e /\ \A k \in 1..Len(w) : v[k] = w[k]
      BY <1>1, AppendProperties
    <3>2. QED
      BY <1>1, <3>1
  <2> HIDE DEF v, e
  <2>2. /\ DOMAIN v = 1..l /\ l \in DOMAIN v
        /\ \A k \in DOMAIN v : k \in DOMAIN w \/ k = l
        /\ \A k \in DOMAIN w : k \in DOMAIN v
    BY <2>1
  <2>3. \A k \in DOMAIN v : v[k] \notin removed /\ \E i \in 1..(n + 1) : v[k] = list[i]
    <3>1. \A k \in DOMAIN w : w[k] \notin removed /\ \E i \in 1..n : w[k] = list[i]
      BY DEF WalkedWell
    <3>2. e = list[n + 1] /\ n + 1 \in 1..(n + 1)
      BY DEF e
    <3>3. QED
      BY <1>3, <1>5, <2>1, <2>2, <3>1, <3>2
  <2>4. ASSUME NEW i \in 1..(n + 1), list[i] \notin removed PROVE \E k \in DOMAIN v : v[k] = list[i]
    <3>1. CASE i = n + 1
      BY <2>1, <2>2, <3>1 DEF e
    <3>2. CASE i \in 1..n
      <4>1. PICK k \in DOMAIN w : w[k] = list[i]
        BY <2>4, <3>2 DEF WalkedWell
      <4>2. QED
        BY <2>1, <2>2, <4>1
    <3>3. QED
      BY <1>2, <3>1, <3>2
  <2>5. ASSUME Logs!IsInjective(list) PROVE Logs!IsInjective(v)
    <3>1. \A i, j \in DOMAIN list : list[i] = list[j] => i = j
      BY <2>5 DEF Logs!IsInjective
    <3>2. \A i, j \in DOMAIN w : w[i] = w[j] => i = j
      BY <2>5 DEF WalkedWell, Logs!IsInjective
    <3>3. \A k \in DOMAIN w : w[k] # e
      <4>1. SUFFICES ASSUME NEW k \in DOMAIN w, w[k] = e PROVE FALSE
        OBVIOUS
      <4>2. PICK i \in 1..n : w[k] = list[i]
        BY DEF WalkedWell
      <4>3. i \in DOMAIN list /\ n + 1 \in DOMAIN list /\ i # n + 1
        BY <1>1
      <4>4. QED
        BY <3>1, <4>1, <4>2, <4>3 DEF e
    <3>4. QED
      BY <2>1, <2>2, <3>2, <3>3 DEF Logs!IsInjective
  <2>6. WalkedWell(v, n + 1)
    BY <2>1, <2>3, <2>4, <2>5 DEF WalkedWell
  <2>7. QED
    BY <1>5, <2>6 DEF v, e
<1>6. QED
  BY <1>4, <1>5

\* Compaction keeps what is not flagged, and only that.
LEMMA RemainingWell ==
    ASSUME list \in Seq(Extractors)
    PROVE  /\ Logs!Remaining \in Seq(Extractors)
           /\ Logs!ToSet(Logs!Remaining) = Logs!ToSet(list) \ removed
           /\ Logs!IsInjective(list) => Logs!IsInjective(Logs!Remaining)
<1> DEFINE N == Len(list)
           T == {n \in Nat : n <= N => WalkedWell(Walked[n], n)}
<1>1. /\ N \in Nat /\ DOMAIN list = 1..N
      /\ Logs!Remaining = Walked[N] /\ \A n \in 0..N : Walked[n] = WalkStep(Walked, n)
  BY RemainingIs
<1> HIDE DEF N
<1>2. 0 \in T
  <2>1. Walked[0] = <<>>
    BY <1>1 DEF WalkStep
  <2>2. WalkedWell(<<>>, 0)
    BY DEF WalkedWell, Logs!IsInjective
  <2>3. QED
    BY <2>1, <2>2
<1>3. ASSUME NEW n \in T PROVE n + 1 \in T
  <2>1. n \in Nat
    OBVIOUS
  <2>2. ASSUME n + 1 <= N PROVE WalkedWell(Walked[n + 1], n + 1)
    <3>1. WalkedWell(Walked[n], n) /\ n + 1 \in 0..N /\ n + 1 \in 1..N
      BY <1>1, <1>3, <2>1, <2>2
    <3>2. WalkedWell(IF list[n + 1] \in removed THEN Walked[n]
                     ELSE Append(Walked[n], list[n + 1]), n + 1)
      BY <2>1, <3>1, WalkGrows DEF N
    <3>3. Walked[n + 1] = WalkStep(Walked, n + 1)
      BY <1>1, <3>1
    <3>4. WalkStep(Walked, n + 1)
            = IF list[n + 1] \in removed THEN Walked[n] ELSE Append(Walked[n], list[n + 1])
      BY <2>1 DEF WalkStep
    <3>5. QED
      BY <3>2, <3>3, <3>4
  <2>3. QED
    BY <2>1, <2>2
<1>4. N \in T
  <2> HIDE DEF T
  <2>1. T \subseteq Nat
    BY DEF T
  <2>2. T = Nat
    BY <1>2, <1>3, <2>1, AllNumbers
  <2>3. QED
    BY <1>1, <2>2
<1>5. WalkedWell(Logs!Remaining, N)
  BY <1>1, <1>4
<1>6. Logs!ToSet(Logs!Remaining) = Logs!ToSet(list) \ removed
  <2> DEFINE w == Logs!Remaining
  <2>1. /\ \A k \in DOMAIN w : w[k] \notin removed /\ \E i \in 1..N : w[k] = list[i]
        /\ \A i \in 1..N : list[i] \notin removed => \E k \in DOMAIN w : w[k] = list[i]
    BY <1>5 DEF WalkedWell
  <2> HIDE DEF w
  <2>2. \A k \in DOMAIN w : w[k] \in Logs!ToSet(list) \ removed
    BY <1>1, <2>1 DEF Logs!ToSet
  <2>3. \A i \in 1..N : list[i] \notin removed => list[i] \in Logs!ToSet(w)
    BY <2>1 DEF Logs!ToSet
  <2>4. Logs!ToSet(w) = Logs!ToSet(list) \ removed
    BY <1>1, <2>2, <2>3 DEF Logs!ToSet
  <2>5. QED
    BY <2>4 DEF w
<1>7. QED
  BY <1>5, <1>6 DEF WalkedWell

LogPlaces == {"idle", "level", "walk", "call"}

LogTyped ==
    /\ list \in Seq(Extractors) /\ removed \subseteq Extractors
    /\ reg \in [Extractors -> {"new", "live", "removing", "gone"}]
    /\ global \in Logs!All
    /\ lpc \in [Logging -> LogPlaces]
    /\ rest \in [Logging -> Seq(Extractors)] /\ fields \in [Logging -> Seq(Extractors)]
    /\ whole \in [Logging -> SUBSET Extractors]

\* The flags say what is being or has been unregistered, the list has the rest.
LogRegistry ==
    /\ \A e \in Extractors : e \in removed <=> reg[e] \in {"removing", "gone"}
    /\ Logs!RegistryKept

\* What a call at a place has collected, and what it has left, are parts of one list, in
\* which everything is that was live during the whole call.
CallOK(place, left, got, always) ==
    /\ always \subseteq Logs!Live
    /\ place \in {"walk", "call"} =>
          /\ Logs!IsInjective(got) /\ Logs!IsInjective(left)
          /\ \A e \in Logs!ToSet(left) : reg[e] # "new" /\ e \notin Logs!ToSet(got)
          /\ always \subseteq Logs!ToSet(got) \union Logs!ToSet(left)
    /\ place = "call" => left # <<>>
LogCalls == \A p \in Logging : CallOK(lpc[p], rest[p], fields[p], whole[p])

LogInv == LogTyped /\ LogRegistry /\ LogCalls

LEMMA NoneOf == Logs!ToSet(<<>>) = {} /\ Logs!IsInjective(<<>>)
BY DEF Logs!ToSet, Logs!IsInjective

LEMMA AddedLast ==
    ASSUME NEW s \in Seq(Extractors), NEW e \in Extractors
    PROVE  /\ Append(s, e) \in Seq(Extractors)
           /\ Logs!ToSet(Append(s, e)) = Logs!ToSet(s) \union {e}
           /\ Logs!IsInjective(s) /\ e \notin Logs!ToSet(s) => Logs!IsInjective(Append(s, e))
<1> DEFINE v == Append(s, e)
           l == Len(s) + 1
<1>1. /\ v \in Seq(Extractors) /\ DOMAIN s = 1..Len(s) /\ Len(s) \in Nat /\ Len(v) = l
      /\ v[l] = e /\ \A k \in DOMAIN s : v[k] = s[k]
  <2>1. /\ v \in Seq(Extractors) /\ Len(v) = Len(s) + 1
        /\ v[Len(s) + 1] = e /\ \A k \in 1..Len(s) : v[k] = s[k]
    BY AppendProperties
  <2>2. QED
    BY <2>1
<1> HIDE DEF v
<1>2. /\ DOMAIN v = 1..l /\ l \in DOMAIN v
      /\ \A k \in DOMAIN v : k \in DOMAIN s \/ k = l
      /\ \A k \in DOMAIN s : k \in DOMAIN v
  BY <1>1
<1> HIDE DEF l
<1>3. Logs!ToSet(v) = Logs!ToSet(s) \union {e}
  BY <1>1, <1>2 DEF Logs!ToSet
<1>4. ASSUME Logs!IsInjective(s), e \notin Logs!ToSet(s) PROVE Logs!IsInjective(v)
  <2>1. \A k \in DOMAIN s : s[k] # e
    BY <1>4 DEF Logs!ToSet
  <2>2. \A i, j \in DOMAIN s : s[i] = s[j] => i = j
    BY <1>4 DEF Logs!IsInjective
  <2>3. QED
    BY <1>1, <1>2, <2>1, <2>2 DEF Logs!IsInjective
<1>5. QED
  BY <1>1, <1>3, <1>4 DEF v

LEMMA TakenFirst ==
    ASSUME NEW s \in Seq(Extractors), s # <<>>
    PROVE  /\ Head(s) \in Extractors /\ Tail(s) \in Seq(Extractors)
           /\ Logs!ToSet(s) = {Head(s)} \union Logs!ToSet(Tail(s))
           /\ Logs!IsInjective(s) => /\ Logs!IsInjective(Tail(s))
                                     /\ Head(s) \notin Logs!ToSet(Tail(s))
<1> DEFINE t == Tail(s)
           n == Len(s)
<1>1. /\ n \in Nat /\ n > 0 /\ DOMAIN s = 1..n /\ Head(s) = s[1] /\ Head(s) \in Extractors
      /\ t \in Seq(Extractors) /\ Len(t) = n - 1
  OBVIOUS
<1>2. \A k \in 1..(n - 1) : t[k] = s[k + 1]
  BY <1>1
<1> HIDE DEF t, n
<1>3. /\ DOMAIN t = 1..(n - 1) /\ 1 \in DOMAIN s
      /\ \A k \in DOMAIN t : k + 1 \in DOMAIN s /\ k + 1 # 1 /\ t[k] = s[k + 1]
      /\ \A i \in DOMAIN s : i = 1 \/ (i - 1 \in DOMAIN t /\ t[i - 1] = s[i])
  BY <1>1, <1>2
<1>4. Logs!ToSet(s) = {Head(s)} \union Logs!ToSet(t)
  BY <1>1, <1>3 DEF Logs!ToSet
<1>5. ASSUME Logs!IsInjective(s) PROVE Logs!IsInjective(t) /\ Head(s) \notin Logs!ToSet(t)
  <2>1. \A i, j \in DOMAIN s : s[i] = s[j] => i = j
    BY <1>5 DEF Logs!IsInjective
  <2>2. Head(s) \notin Logs!ToSet(t)
    BY <1>1, <1>3, <2>1 DEF Logs!ToSet
  <2>3. ASSUME NEW i \in DOMAIN t, NEW j \in DOMAIN t, t[i] = t[j] PROVE i = j
    <3>1. i + 1 = j + 1
      BY <1>3, <2>1, <2>3
    <3>2. QED
      BY <1>3, <3>1
  <2>4. QED
    BY <2>2, <2>3 DEF Logs!IsInjective
<1>6. QED
  BY <1>1, <1>4, <1>5 DEF t

LEMMA LogStarts == Logs!Init => LogInv
<1> SUFFICES ASSUME Logs!Init PROVE LogInv
  OBVIOUS
<1>1. /\ list = <<>> /\ removed = {} /\ reg = [e \in Extractors |-> "new"] /\ global = First
      /\ lpc = [p \in Logging |-> "idle"] /\ rest = [p \in Logging |-> <<>>]
      /\ fields = [p \in Logging |-> <<>>] /\ whole = [p \in Logging |-> {}]
  BY DEF Logs!Init
<1>2. LogTyped
  BY <1>1 DEF LogTyped, LogPlaces, Logs!All
<1>3. LogRegistry
  BY <1>1, NoneOf DEF LogRegistry, Logs!RegistryKept, Logs!Live
<1>4. LogCalls
  BY <1>1 DEF LogCalls, CallOK
<1>5. QED
  BY <1>2, <1>3, <1>4 DEF LogInv

\* One action at a time.
LEMMA LogKeeps == LogInv /\ Logs!Next => LogInv'
<1> SUFFICES ASSUME LogInv, Logs!Next PROVE LogInv'
  OBVIOUS
<1>1. LogTyped /\ LogRegistry /\ LogCalls
  BY DEF LogInv
<1>2. /\ list \in Seq(Extractors) /\ removed \subseteq Extractors
      /\ reg \in [Extractors -> {"new", "live", "removing", "gone"}]
      /\ global \in Logs!All /\ lpc \in [Logging -> LogPlaces]
      /\ rest \in [Logging -> Seq(Extractors)] /\ fields \in [Logging -> Seq(Extractors)]
      /\ whole \in [Logging -> SUBSET Extractors]
  BY <1>1 DEF LogTyped
<1>3. /\ \A e \in Extractors : e \in removed <=> reg[e] \in {"removing", "gone"}
      /\ Logs!IsInjective(list) /\ Logs!Live \subseteq Logs!ToSet(list)
      /\ \A e \in Logs!ToSet(list) : reg[e] \notin {"new", "gone"}
  BY <1>1 DEF LogRegistry, Logs!RegistryKept
<1>4. Logs!ToSet(list) \subseteq Extractors
  BY <1>2 DEF Logs!ToSet
<1>5. ASSUME UNCHANGED <<list, removed, reg>> PROVE LogRegistry'
  BY <1>1, <1>5 DEF LogRegistry, Logs!RegistryKept, Logs!Live
<1>6. ASSUME UNCHANGED <<reg, lpc, rest, fields, whole>> PROVE LogCalls'
  BY <1>1, <1>6 DEF LogCalls, CallOK, Logs!Live
\* A step of one call.
<1>7. ASSUME NEW p \in Logging, UNCHANGED <<list, removed, reg>>, LogTyped',
             \A q \in Logging : q # p => /\ lpc'[q] = lpc[q] /\ rest'[q] = rest[q]
                                          /\ fields'[q] = fields[q] /\ whole'[q] = whole[q],
             CallOK(lpc'[p], rest'[p], fields'[p], whole'[p])
      PROVE  LogInv'
  <2>1. ASSUME NEW q \in Logging PROVE CallOK(lpc'[q], rest'[q], fields'[q], whole'[q])
    BY <1>1, <1>7 DEF LogCalls
  <2>2. LogCalls'
    BY <1>7, <2>1 DEF LogCalls, CallOK, Logs!Live
  <2>3. QED
    BY <1>5, <1>7, <2>2 DEF LogInv
<1>8. ASSUME NEW e \in Extractors, Logs!Register(e) PROVE LogInv'
  <2>1. /\ reg[e] = "new" /\ list' = Append(list, e) /\ reg' = [reg EXCEPT ![e] = "live"]
        /\ UNCHANGED <<removed, whole, global, lpc, rest, fields>>
    BY <1>8 DEF Logs!Register, Logs!outputs, Logs!calls
  <2>2. /\ reg' \in [Extractors -> {"new", "live", "removing", "gone"}]
        /\ \A x \in Extractors : reg'[x] = IF x = e THEN "live" ELSE reg[x]
    BY <1>2, <2>1
  <2>3. e \notin Logs!ToSet(list)
    BY <1>3, <2>1
  <2>4. /\ list' \in Seq(Extractors) /\ Logs!IsInjective(list')
        /\ Logs!ToSet(list') = Logs!ToSet(list) \union {e}
    BY <1>2, <1>3, <2>1, <2>3, AddedLast
  <2>5. Logs!Live' = Logs!Live \union {e}
    BY <2>2 DEF Logs!Live
  <2>6. LogTyped'
    BY <1>2, <2>1, <2>2, <2>4 DEF LogTyped
  <2>7. LogRegistry'
    <3>1. \A x \in Extractors : x \in removed' <=> reg'[x] \in {"removing", "gone"}
      BY <1>3, <2>1, <2>2
    <3>2. Logs!Live' \subseteq Logs!ToSet(list')
      BY <1>3, <2>4, <2>5
    <3>3. \A x \in Logs!ToSet(list') : reg'[x] \notin {"new", "gone"}
      BY <1>3, <1>4, <2>2, <2>4
    <3>4. QED
      BY <2>4, <3>1, <3>2, <3>3 DEF LogRegistry, Logs!RegistryKept
  <2>8. LogCalls'
    <3>1. ASSUME NEW p \in Logging PROVE CallOK(lpc[p], rest[p], fields[p], whole[p])'
      <4>1. CallOK(lpc[p], rest[p], fields[p], whole[p])
        BY <1>1 DEF LogCalls
      <4>2. Logs!ToSet(rest[p]) \subseteq Extractors
        BY <1>2 DEF Logs!ToSet
      <4>3. \A x \in Logs!ToSet(rest[p]) : reg[x] # "new" => reg'[x] # "new"
        BY <2>2, <4>2
      <4>4. QED
        BY <2>1, <2>5, <4>1, <4>3 DEF CallOK
    <3>2. QED
      BY <3>1 DEF LogCalls
  <2>9. QED
    BY <2>6, <2>7, <2>8 DEF LogInv
<1>9. ASSUME NEW e \in Extractors, Logs!Unregister(e) PROVE LogInv'
  <2>1. /\ reg[e] = "live" /\ removed' = removed \union {e}
        /\ reg' = [reg EXCEPT ![e] = "removing"]
        /\ whole' = [p \in Logging |-> whole[p] \ {e}]
        /\ UNCHANGED <<list, global, lpc, rest, fields>>
    BY <1>9 DEF Logs!Unregister, Logs!outputs, Logs!calls
  <2>2. /\ reg' \in [Extractors -> {"new", "live", "removing", "gone"}]
        /\ \A x \in Extractors : reg'[x] = IF x = e THEN "removing" ELSE reg[x]
    BY <1>2, <2>1
  <2>3. Logs!Live' = Logs!Live \ {e}
    BY <2>2 DEF Logs!Live
  <2>4. LogTyped'
    BY <1>2, <2>1, <2>2 DEF LogTyped
  <2>5. LogRegistry'
    <3>1. \A x \in Extractors : x \in removed' <=> reg'[x] \in {"removing", "gone"}
      BY <1>3, <2>1, <2>2
    <3>2. \A x \in Logs!ToSet(list') : reg'[x] \notin {"new", "gone"}
      BY <1>3, <1>4, <2>1, <2>2
    <3>3. QED
      BY <1>3, <2>1, <2>3, <3>1, <3>2 DEF LogRegistry, Logs!RegistryKept
  <2>6. LogCalls'
    <3>1. ASSUME NEW p \in Logging PROVE CallOK(lpc[p], rest[p], fields[p], whole[p])'
      <4>1. CallOK(lpc[p], rest[p], fields[p], whole[p])
        BY <1>1 DEF LogCalls
      <4>2. Logs!ToSet(rest[p]) \subseteq Extractors
        BY <1>2 DEF Logs!ToSet
      <4>3. \A x \in Logs!ToSet(rest[p]) : reg[x] # "new" => reg'[x] # "new"
        BY <2>2, <4>2
      <4>4. whole'[p] = whole[p] \ {e}
        BY <2>1
      <4>5. QED
        BY <2>1, <2>3, <4>1, <4>3, <4>4 DEF CallOK
    <3>2. QED
      BY <3>1 DEF LogCalls
  <2>7. QED
    BY <2>4, <2>5, <2>6 DEF LogInv
<1>10. ASSUME NEW e \in Extractors, Logs!Compact(e) PROVE LogInv'
  <2>1. /\ reg[e] = "removing" /\ list' = Logs!Remaining /\ reg' = [reg EXCEPT ![e] = "gone"]
        /\ UNCHANGED <<removed, whole, global, lpc, rest, fields>>
    BY <1>10 DEF Logs!Compact, Logs!outputs, Logs!calls
  <2>2. /\ reg' \in [Extractors -> {"new", "live", "removing", "gone"}]
        /\ \A x \in Extractors : reg'[x] = IF x = e THEN "gone" ELSE reg[x]
    BY <1>2, <2>1
  <2>3. /\ list' \in Seq(Extractors) /\ Logs!IsInjective(list')
        /\ Logs!ToSet(list') = Logs!ToSet(list) \ removed
    BY <1>2, <1>3, <2>1, RemainingWell
  <2>4. Logs!Live' = Logs!Live
    BY <2>1, <2>2 DEF Logs!Live
  <2>5. LogTyped'
    BY <1>2, <2>1, <2>2, <2>3 DEF LogTyped
  <2>6. LogRegistry'
    <3>1. \A x \in Extractors : x \in removed' <=> reg'[x] \in {"removing", "gone"}
      BY <1>3, <2>1, <2>2
    <3>2. Logs!Live' \subseteq Logs!ToSet(list')
      <4>1. \A x \in Logs!Live : x \notin removed
        BY <1>3 DEF Logs!Live
      <4>2. QED
        BY <1>3, <2>3, <2>4, <4>1
    <3>3. \A x \in Logs!ToSet(list') : reg'[x] \notin {"new", "gone"}
      <4>1. e \in removed
        BY <1>3, <2>1
      <4>2. QED
        BY <1>3, <1>4, <2>2, <2>3, <4>1
    <3>4. QED
      BY <2>3, <3>1, <3>2, <3>3 DEF LogRegistry, Logs!RegistryKept
  <2>7. LogCalls'
    <3>1. ASSUME NEW p \in Logging PROVE CallOK(lpc[p], rest[p], fields[p], whole[p])'
      <4>1. CallOK(lpc[p], rest[p], fields[p], whole[p])
        BY <1>1 DEF LogCalls
      <4>2. Logs!ToSet(rest[p]) \subseteq Extractors
        BY <1>2 DEF Logs!ToSet
      <4>3. \A x \in Logs!ToSet(rest[p]) : reg[x] # "new" => reg'[x] # "new"
        BY <2>2, <4>2
      <4>4. QED
        BY <2>1, <2>4, <4>1, <4>3 DEF CallOK
    <3>2. QED
      BY <3>1 DEF LogCalls
  <2>8. QED
    BY <2>5, <2>6, <2>7 DEF LogInv
<1>11. ASSUME NEW p \in Logging, Logs!Log(p) PROVE LogInv'
  <2>1. /\ lpc' = [lpc EXCEPT ![p] = "level"] /\ whole' = [whole EXCEPT ![p] = Logs!Live]
        /\ UNCHANGED <<list, removed, reg, global, rest, fields>>
    BY <1>11 DEF Logs!Log, Logs!registry, Logs!outputs
  <2>2. Logs!Live \subseteq Extractors
    BY DEF Logs!Live
  <2>3. LogTyped'
    BY <1>2, <2>1, <2>2 DEF LogTyped, LogPlaces
  <2>4. /\ lpc'[p] = "level" /\ whole'[p] = Logs!Live
        /\ \A q \in Logging : q # p => lpc'[q] = lpc[q] /\ whole'[q] = whole[q]
    BY <1>2, <2>1
  <2>5. CallOK(lpc'[p], rest'[p], fields'[p], whole'[p])
    BY <2>4 DEF CallOK
  <2>6. QED
    BY <1>7, <2>1, <2>3, <2>4, <2>5
<1>12. ASSUME NEW p \in Logging, Logs!Disabled(p) PROVE LogInv'
  <2>1. /\ lpc' = [lpc EXCEPT ![p] = "idle"]
        /\ UNCHANGED <<list, removed, reg, global, rest, fields, whole>>
    BY <1>12 DEF Logs!Disabled, Logs!registry, Logs!outputs
  <2>2. LogTyped'
    BY <1>2, <2>1 DEF LogTyped, LogPlaces
  <2>3. lpc'[p] = "idle" /\ \A q \in Logging : q # p => lpc'[q] = lpc[q]
    BY <1>2, <2>1
  <2>4. CallOK(lpc'[p], rest'[p], fields'[p], whole'[p])
    BY <1>1, <2>1, <2>3 DEF LogCalls, CallOK
  <2>5. QED
    BY <1>7, <2>1, <2>2, <2>3, <2>4
<1>13. ASSUME NEW p \in Logging, Logs!Snapshot(p) PROVE LogInv'
  <2>1. /\ rest' = [rest EXCEPT ![p] = list] /\ fields' = [fields EXCEPT ![p] = <<>>]
        /\ lpc' = [lpc EXCEPT ![p] = "walk"]
        /\ UNCHANGED <<list, removed, reg, global, whole>>
    BY <1>13 DEF Logs!Snapshot, Logs!registry, Logs!outputs
  <2>2. <<>> \in Seq(Extractors)
    OBVIOUS
  <2>3. LogTyped'
    BY <1>2, <2>1, <2>2 DEF LogTyped, LogPlaces
  <2>4. /\ lpc'[p] = "walk" /\ rest'[p] = list /\ fields'[p] = <<>>
        /\ \A q \in Logging : q # p => /\ lpc'[q] = lpc[q] /\ rest'[q] = rest[q]
                                        /\ fields'[q] = fields[q]
    BY <1>2, <2>1
  <2>5. whole[p] \subseteq Logs!Live
    BY <1>1 DEF LogCalls, CallOK
  <2>6. CallOK("walk", list, <<>>, whole[p])
    BY <1>3, <2>5, NoneOf DEF CallOK
  <2>7. CallOK(lpc'[p], rest'[p], fields'[p], whole'[p])
    BY <2>1, <2>4, <2>6
  <2>8. QED
    BY <1>7, <2>1, <2>3, <2>4, <2>7
<1>14. ASSUME NEW p \in Logging, Logs!Skip(p) PROVE LogInv'
  <2>1. /\ lpc[p] = "walk" /\ rest[p] # <<>> /\ Head(rest[p]) \in removed
        /\ rest' = [rest EXCEPT ![p] = Tail(rest[p])]
        /\ UNCHANGED <<list, removed, reg, global, lpc, fields, whole>>
    BY <1>14 DEF Logs!Skip, Logs!registry, Logs!outputs
  <2> DEFINE h == Head(rest[p])
             t == Tail(rest[p])
  <2>2. /\ h \in Extractors /\ t \in Seq(Extractors)
        /\ Logs!ToSet(rest[p]) = {h} \union Logs!ToSet(t)
        /\ Logs!IsInjective(rest[p]) => Logs!IsInjective(t)
    <3>1. rest[p] \in Seq(Extractors)
      BY <1>2
    <3>2. QED
      BY <2>1, <3>1, TakenFirst
  <2> HIDE DEF h, t
  <2>3. LogTyped'
    BY <1>2, <2>1, <2>2 DEF LogTyped, t
  <2>4. /\ rest'[p] = t /\ \A q \in Logging : q # p => rest'[q] = rest[q]
    BY <1>2, <2>1 DEF t
  <2>5. h \notin Logs!Live
    BY <1>3, <2>1, <2>2 DEF Logs!Live, h
  <2>6. CallOK("walk", rest[p], fields[p], whole[p])
    BY <1>1, <2>1 DEF LogCalls
  <2>7. CallOK("walk", t, fields[p], whole[p])
    BY <2>2, <2>5, <2>6 DEF CallOK
  <2>8. CallOK(lpc'[p], rest'[p], fields'[p], whole'[p])
    BY <2>1, <2>4, <2>7
  <2>9. QED
    BY <1>7, <2>1, <2>3, <2>4, <2>8
<1>15. ASSUME NEW p \in Logging, Logs!Passes(p) PROVE LogInv'
  <2>1. /\ lpc[p] = "walk" /\ rest[p] # <<>> /\ lpc' = [lpc EXCEPT ![p] = "call"]
        /\ UNCHANGED <<list, removed, reg, global, rest, fields, whole>>
    BY <1>15 DEF Logs!Passes, Logs!registry, Logs!outputs
  <2>2. LogTyped'
    BY <1>2, <2>1 DEF LogTyped, LogPlaces
  <2>3. lpc'[p] = "call" /\ \A q \in Logging : q # p => lpc'[q] = lpc[q]
    BY <1>2, <2>1
  <2>4. CallOK(lpc'[p], rest'[p], fields'[p], whole'[p])
    BY <1>1, <2>1, <2>3 DEF LogCalls, CallOK
  <2>5. QED
    BY <1>7, <2>1, <2>2, <2>3, <2>4
<1>16. ASSUME NEW p \in Logging, Logs!CallFn(p) PROVE LogInv'
  <2>1. /\ lpc[p] = "call"
        /\ fields' = [fields EXCEPT ![p] = Append(fields[p], Head(rest[p]))]
        /\ rest' = [rest EXCEPT ![p] = Tail(rest[p])] /\ lpc' = [lpc EXCEPT ![p] = "walk"]
        /\ UNCHANGED <<list, removed, reg, global, whole>>
    BY <1>16 DEF Logs!CallFn, Logs!registry, Logs!outputs
  <2> DEFINE h == Head(rest[p])
             t == Tail(rest[p])
             f == Append(fields[p], h)
  <2>2. CallOK("call", rest[p], fields[p], whole[p])
    BY <1>1, <2>1 DEF LogCalls
  <2>3. /\ h \in Extractors /\ t \in Seq(Extractors)
        /\ Logs!ToSet(rest[p]) = {h} \union Logs!ToSet(t)
        /\ Logs!IsInjective(t) /\ h \notin Logs!ToSet(t)
    <3>1. rest[p] \in Seq(Extractors) /\ rest[p] # <<>> /\ Logs!IsInjective(rest[p])
      BY <1>2, <2>2 DEF CallOK
    <3>2. QED
      BY <3>1, TakenFirst
  <2> HIDE DEF h, t
  <2>4. /\ f \in Seq(Extractors) /\ Logs!ToSet(f) = Logs!ToSet(fields[p]) \union {h}
        /\ Logs!IsInjective(f)
    <3>1. /\ fields[p] \in Seq(Extractors) /\ Logs!IsInjective(fields[p])
          /\ h \notin Logs!ToSet(fields[p])
      BY <1>2, <2>2, <2>3 DEF CallOK
    <3>2. QED
      BY <2>3, <3>1, AddedLast
  <2>5. fields' = [fields EXCEPT ![p] = f] /\ rest' = [rest EXCEPT ![p] = t]
    BY <2>1 DEF h, t
  <2> HIDE DEF f
  <2>6. LogTyped'
    <3>1. rest' \in [Logging -> Seq(Extractors)] /\ fields' \in [Logging -> Seq(Extractors)]
      BY <1>2, <2>3, <2>4, <2>5
    <3>2. lpc' \in [Logging -> LogPlaces]
      BY <1>2, <2>1 DEF LogPlaces
    <3>3. QED
      BY <1>2, <2>1, <3>1, <3>2 DEF LogTyped
  <2>7. /\ lpc'[p] = "walk" /\ rest'[p] = t /\ fields'[p] = f
        /\ \A q \in Logging : q # p => /\ lpc'[q] = lpc[q] /\ rest'[q] = rest[q]
                                        /\ fields'[q] = fields[q]
    BY <1>2, <2>1, <2>5
  <2>8. CallOK("walk", t, f, whole[p])
    BY <2>2, <2>3, <2>4 DEF CallOK
  <2>9. CallOK(lpc'[p], rest'[p], fields'[p], whole'[p])
    BY <2>1, <2>7, <2>8
  <2>10. QED
    BY <1>7, <2>1, <2>6, <2>7, <2>9
<1>17. ASSUME NEW p \in Logging, Logs!Write(p) PROVE LogInv'
  <2>1. /\ lpc' = [lpc EXCEPT ![p] = "idle"] /\ fields' = [fields EXCEPT ![p] = <<>>]
        /\ UNCHANGED <<list, removed, reg, global, rest, whole>>
    BY <1>17 DEF Logs!Write, Logs!registry
  <2>2. <<>> \in Seq(Extractors)
    OBVIOUS
  <2>3. LogTyped'
    BY <1>2, <2>1, <2>2 DEF LogTyped, LogPlaces
  <2>4. /\ lpc'[p] = "idle"
        /\ \A q \in Logging : q # p => lpc'[q] = lpc[q] /\ fields'[q] = fields[q]
    BY <1>2, <2>1
  <2>5. CallOK(lpc'[p], rest'[p], fields'[p], whole'[p])
    BY <1>1, <2>1, <2>4 DEF LogCalls, CallOK
  <2>6. QED
    BY <1>7, <2>1, <2>3, <2>4, <2>5
<1>18. ASSUME NEW l \in Logs!All, Logs!ReplaceGlobal(l) \/ Logs!Close(l) PROVE LogInv'
  <2>1. /\ global' \in {l, global}
        /\ UNCHANGED <<list, removed, reg, lpc, rest, fields, whole>>
    BY <1>18 DEF Logs!ReplaceGlobal, Logs!Close, Logs!registry, Logs!calls
  <2>2. LogTyped'
    BY <1>2, <2>1 DEF LogTyped, Logs!All
  <2>3. QED
    BY <1>5, <1>6, <2>1, <2>2 DEF LogInv
<1>19. QED
  BY <1>8, <1>9, <1>10, <1>11, <1>12, <1>13, <1>14, <1>15, <1>16, <1>17, <1>18
     DEF Logs!Next, Logs!All

LEMMA LogStays == LogInv /\ UNCHANGED lVars => LogInv'
<1> SUFFICES ASSUME LogInv, UNCHANGED lVars PROVE LogInv'
  OBVIOUS
<1>1. UNCHANGED <<list, removed, reg, global, lpc, rest, fields, whole>>
  BY DEF lVars
<1>2. LogTyped' /\ LogRegistry'
  BY <1>1 DEF LogInv, LogTyped, LogRegistry, Logs!RegistryKept, Logs!Live, Logs!All
<1>3. LogCalls'
  BY <1>1 DEF LogInv, LogCalls, CallOK, Logs!Live
<1>4. QED
  BY <1>2, <1>3 DEF LogInv

LEMMA LogImplies == LogInv => Logs!TypeOK /\ Logs!RegistryKept /\ Logs!FieldsWhole
<1> SUFFICES ASSUME LogInv PROVE Logs!TypeOK /\ Logs!RegistryKept /\ Logs!FieldsWhole
  OBVIOUS
<1>1. Logs!TypeOK
  BY DEF LogInv, LogTyped, LogPlaces, Logs!TypeOK
<1>2. Logs!RegistryKept
  BY DEF LogInv, LogRegistry
<1>3. Logs!FieldsWhole
  BY NoneOf DEF LogInv, LogCalls, CallOK, Logs!FieldsWhole
<1>4. QED
  BY <1>1, <1>2, <1>3

\* What was unregistered before a walk came to an entry is flagged since then, and the walk
\* has passed the flag of the entry that it calls.
LogGone ==
    /\ gone \in [Logging -> SUBSET removed]
    /\ \A p \in Logging : lpc[p] = "call" => Head(rest[p]) \notin gone[p]

LEMMA GoneStarts == Logs!Init => LogGone
BY DEF Logs!Init, LogGone

LEMMA GoneStays == LogGone /\ UNCHANGED lVars => LogGone'
BY DEF LogGone, lVars

LEMMA GoneKeeps == LogInv /\ LogGone /\ Logs!Next => LogGone'
<1> SUFFICES ASSUME LogInv, LogGone, Logs!Next PROVE LogGone'
  OBVIOUS
<1>1. /\ lpc \in [Logging -> LogPlaces] /\ removed \subseteq Extractors
      /\ gone \in [Logging -> SUBSET removed] /\ Logs!Unregistered \subseteq removed
      /\ \A p \in Logging : lpc[p] = "call" => Head(rest[p]) \notin gone[p]
  BY DEF LogInv, LogTyped, LogRegistry, LogGone, Logs!Unregistered
<1>2. ASSUME removed \subseteq removed', UNCHANGED <<lpc, rest, gone>> PROVE LogGone'
  BY <1>1, <1>2 DEF LogGone
<1>3. ASSUME NEW p \in Logging, UNCHANGED removed,
             gone' = [gone EXCEPT ![p] = Logs!Unregistered] \/ gone' = gone,
             \A q \in Logging : q # p => lpc'[q] = lpc[q] /\ rest'[q] = rest[q],
             lpc'[p] # "call"
      PROVE  LogGone'
  BY <1>1, <1>3 DEF LogGone
<1>4. CASE \E e \in Extractors : Logs!Register(e) \/ Logs!Unregister(e) \/ Logs!Compact(e)
  BY <1>2, <1>4 DEF Logs!Register, Logs!Unregister, Logs!Compact, Logs!calls
<1>5. CASE \E l \in Logs!All : Logs!ReplaceGlobal(l) \/ Logs!Close(l)
  BY <1>2, <1>5 DEF Logs!ReplaceGlobal, Logs!Close, Logs!calls, Logs!registry
<1>6. ASSUME NEW p \in Logging,
             \/ Logs!Log(p) \/ Logs!Disabled(p) \/ Logs!Snapshot(p) \/ Logs!Skip(p)
             \/ Logs!CallFn(p) \/ Logs!Write(p)
      PROVE  LogGone'
  <2>1. rest \in [Logging -> Seq(Extractors)]
    BY DEF LogInv, LogTyped
  <2>2. UNCHANGED removed /\ \A q \in Logging : q # p => lpc'[q] = lpc[q] /\ rest'[q] = rest[q]
    BY <1>1, <1>6, <2>1 DEF Logs!Log, Logs!Disabled, Logs!Snapshot, Logs!Skip, Logs!CallFn,
       Logs!Write, Logs!registry
  <2>3. lpc'[p] # "call"
    BY <1>1, <1>6 DEF Logs!Log, Logs!Disabled, Logs!Snapshot, Logs!Skip, Logs!CallFn, Logs!Write
  <2>4. gone' = [gone EXCEPT ![p] = Logs!Unregistered] \/ gone' = gone
    BY <1>6 DEF Logs!Log, Logs!Disabled, Logs!Snapshot, Logs!Skip, Logs!CallFn, Logs!Write
  <2>5. QED
    BY <1>3, <2>2, <2>3, <2>4
<1>7. ASSUME NEW p \in Logging, Logs!Passes(p) PROVE LogGone'
  <2>1. /\ UNCHANGED <<removed, rest, gone>> /\ lpc' = [lpc EXCEPT ![p] = "call"]
        /\ Head(rest[p]) \notin removed
    BY <1>7 DEF Logs!Passes, Logs!registry
  <2>2. QED
    BY <1>1, <2>1 DEF LogGone
<1>8. QED
  BY <1>4, <1>5, <1>6, <1>7 DEF Logs!Next, Logs!All

\* trace and logger, for any agents, configurations, extractors and loggers, one agent
\* after the other: no span that a provider has taken is lost at StopAgent, nothing of an
\* earlier agent stays open between the calls, and every agent has the service name of its
\* own configuration.  No registration of an extractor is lost or doubled in the
\* replacements of the list, an entry has the fields of all that were registered during the
\* whole call, each once, and a walk calls nobody who was unregistered before it came to
\* it.  (Who is unregistered between the flag's check and the call is called.)
THEOREM ObserversStayExact == MCSpec => ObserversExact
<1> DEFINE Inv == AgentInv /\ LogInv /\ LogGone
           Late == \A p \in Logging : lpc[p] = "call" /\ lpc'[p] = "walk"
                                       => Head(rest[p]) \notin gone[p]
<1>1. MCInit => Inv
  BY AgentStarts, LogStarts, GoneStarts DEF MCInit
<1>2. Inv /\ [MCNext]_<<which, vars, qVars, aVars, lVars>> => Inv'
  BY AgentKeeps, AgentStays, LogKeeps, LogStays, GoneKeeps, GoneStays DEF MCNext, Rests
<1>3. Inv => /\ Tracing!TypeOK /\ Tracing!NoSpanLost /\ Tracing!OnlyCurrentAlive
             /\ Tracing!OwnName
             /\ Logs!TypeOK /\ Logs!RegistryKept /\ Logs!FieldsWhole
  BY AgentImplies, LogImplies
<1>4. Inv => Late
  BY DEF LogGone
<1>5. MCSpec => Logs!NoneLate
  BY <1>1, <1>2, <1>4, PTL DEF MCSpec, Logs!NoneLate
<1>6. QED
  BY <1>1, <1>2, <1>3, <1>5, PTL DEF MCSpec, ObserversExact
=============================================================================
