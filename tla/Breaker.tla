------------------------------ MODULE Breaker ------------------------------
(***************************************************************************)
(* breaker.googleBreaker and its rollingWindow: a ring of Size buckets,    *)
(* each Interval ticks long, against the log of all events ever added;     *)
(* accept decides from a snapshot of the window, lets a probe through      *)
(* after a cool-down, and otherwise draws; the outcome of an accepted      *)
(* request is added to the window.  Goroutines interleave between the      *)
(* snapshot, the load of lastPass, the comparison, the clock read for its  *)
(* store, the store, the request and the report.                           *)
(* Probabilities become choices.                                           *)
(***************************************************************************)
EXTENDS Naturals, Integers, FiniteSets, FiniteSetsExt, Folds

CONSTANTS
    Size,       \* number of buckets
    Interval,   \* ticks per bucket
    Skew,       \* ticks that may pass between the clock reads of one add
    MaxTime,    \* bound on the clock
    MaxEvents,  \* bound on the number of events
    Procs,
    Protection,     \* requests in the window below which nothing is rejected
    ForcePass       \* forcePassDuration in ticks

ASSUME WindowAssumption ==
    /\ Size \in Nat \ {0} /\ Interval \in Nat \ {0}
    /\ Skew \in Nat /\ MaxTime \in Nat /\ MaxEvents \in Nat
ASSUME BreakerAssumption == Protection \in Nat /\ ForcePass \in Nat

VARIABLES
    now,        \* the clock; 0 when the window was created
    offset,     \* bucket being written
    lastTime,   \* start of the interval it stands for
    bkt,        \* buckets
    log,        \* history: for each instant, the events added then
    lastPass,   \* b.lastPass, 0 until first set
    pc,         \* where each goroutine is
    hist,       \* its snapshot
    nanos,      \* the value of lastPass it has loaded, then the one it will store
    passedAt,   \* history: when a request was last let through, 0 at creation
    soleAt      \* history: the time stored by the last probe that was alone, 0 for never

windowVars == <<now, offset, lastTime, bkt, log>>
vars == <<windowVars, lastPass, pc, hist, nanos, passedAt, soleAt>>

-----------------------------------------------------------------------------
(* The rolling window. *)

Kinds == {"success", "fail", "drop"}
Ring == 0..(Size - 1)
Empty == [e \in Kinds |-> 0]
Total(b) == b["success"] + b["fail"] + b["drop"]

WindowInit ==
    /\ now = 0
    /\ offset = 0
    /\ lastTime = 0
    /\ bkt = [i \in Ring |-> Empty]
    /\ log = [t \in 0..MaxTime |-> Empty]

Events == MapThenSumSet(LAMBDA t : Total(log[t]), 0..MaxTime)

\* Mutant: an idle window longer than its length counts as no time at all.
SpanWraps(t) == ((t - lastTime) \div Interval) % Size

\* Buckets elapsed since lastTime, capped at Size.
Span(t) ==
    LET n == (t - lastTime) \div Interval IN IF n < Size THEN n ELSE Size

\* The buckets updateOffset resets when sp intervals have passed.
Expired(sp) == {(offset + i + 1) % Size : i \in 0..(sp - 1)}

\* updateOffset reads the clock a second time to find the interval boundary.
Aligned(t2) == t2 - ((t2 - lastTime) % Interval)

\* rollingWindow.add under its lock: span() reads the clock at now, updateOffset
\* again d ticks later.
AddEvent(e, d) ==
    LET sp == Span(now)
        off == (offset + sp) % Size
        t2 == now + d
    IN  /\ t2 <= MaxTime
        /\ now' = t2
        /\ offset' = off
        /\ lastTime' = IF sp = 0 THEN lastTime ELSE Aligned(t2)
        /\ bkt' = [i \in Ring |->
              LET b == IF i \in Expired(sp) THEN Empty ELSE bkt[i]
              IN  IF i = off THEN [b EXCEPT ![e] = @ + 1] ELSE b]
        /\ log' = [log EXCEPT ![t2][e] = @ + 1]

Add(e) ==
    /\ Events < MaxEvents
    /\ \E d \in 0..Skew : AddEvent(e, d)

Tick ==
    /\ now < MaxTime
    /\ now' = now + 1
    /\ UNCHANGED <<offset, lastTime, bkt, log>>

-----------------------------------------------------------------------------
(* history: the buckets that have not expired, oldest first. *)

Visited ==
    LET sp == Span(now) IN
    [j \in 1..(Size - sp) |-> bkt[(offset + sp + j) % Size]]

\* aggregate: the two bucket counters depend on the order.
Aggregate(r, b) ==
    [accepts |-> r.accepts + b["success"],
     total |-> r.total + Total(b),
     working |-> IF b["fail"] > 0 THEN 0
                 ELSE IF b["success"] > 0 THEN r.working + 1 ELSE r.working,
     failing |-> IF b["success"] > 0 THEN 0
                 ELSE IF b["fail"] > 0 THEN r.failing + 1 ELSE r.failing]

Zero == [accepts |-> 0, total |-> 0, working |-> 0, failing |-> 0]

History ==
    LET h[n \in 0..Size] ==
          IF n = 0 THEN Zero
          ELSE IF n \in DOMAIN Visited THEN Aggregate(h[n - 1], Visited[n])
          ELSE h[n - 1]
    IN  h[Size]

-----------------------------------------------------------------------------
(* googleBreaker. *)

Init ==
    /\ WindowInit
    /\ lastPass = 0
    /\ pc = [p \in Procs |-> "idle"]
    /\ hist = [p \in Procs |-> Zero]
    /\ nanos = [p \in Procs |-> 0]
    /\ passedAt = 0
    /\ soleAt = 0

-----------------------------------------------------------------------------

\* k = 1.5 and minK = 1.1 in tenths, weighted by the share of failing buckets.
Weight(r) ==
    LET w == 15 * Size - 4 * r.failing
    IN  IF w > 11 * Size THEN w ELSE 11 * Size

\* dropRatio > 0.
Open(r) == (r.total - Protection) * 10 * Size > Weight(r) * r.accepts

Snapshot(p) ==
    /\ pc[p] = "idle"
    /\ IF Open(History)
       THEN /\ pc' = [pc EXCEPT ![p] = "open"]
            /\ hist' = [hist EXCEPT ![p] = History]
            /\ UNCHANGED passedAt
       ELSE pc' = [pc EXCEPT ![p] = "run"] /\ passedAt' = now /\ UNCHANGED hist
    /\ UNCHANGED <<windowVars, lastPass, nanos, soleAt>>

\* Half-open: the load of lastPass, the comparison with the clock...
LoadLastPass(p) ==
    /\ pc[p] = "open"
    /\ pc' = [pc EXCEPT ![p] = "loaded"]
    /\ nanos' = [nanos EXCEPT ![p] = lastPass]
    /\ UNCHANGED <<windowVars, lastPass, hist, passedAt, soleAt>>

CooledDown(p) == nanos[p] > 0 /\ now - nanos[p] > ForcePass

Compare(p) ==
    /\ pc[p] = "loaded"
    /\ pc' = [pc EXCEPT ![p] = IF CooledDown(p) THEN "force" ELSE "draw"]
    /\ nanos' = [nanos EXCEPT ![p] = 0]
    /\ UNCHANGED <<windowVars, lastPass, hist, passedAt, soleAt>>

\* ... and, for a probe as for a request that the draw lets through (always possible,
\* as dropRatio < 1), the clock read whose result is stored.
ReadClock(p) ==
    /\ pc[p] \in {"force", "draw"}
    /\ pc' = [pc EXCEPT ![p] = IF @ = "force" THEN "probe" ELSE "pass"]
    /\ nanos' = [nanos EXCEPT ![p] = now]
    /\ UNCHANGED <<windowVars, lastPass, hist, passedAt, soleAt>>

\* Nobody else stands between the load of lastPass and its store.
Alone(p) == \A q \in Procs \ {p} : pc[q] \notin {"loaded", "force", "draw", "probe", "pass"}

\* accept's variables are gone.
Returned(p) ==
    /\ hist' = [hist EXCEPT ![p] = Zero]
    /\ nanos' = [nanos EXCEPT ![p] = 0]

\* Mutant: a forced probe does not restart the cool-down.
ForceProbeWithoutSet(p) ==
    /\ pc[p] = "probe"
    /\ pc' = [pc EXCEPT ![p] = "run"]
    /\ soleAt' = IF Alone(p) THEN nanos[p] ELSE soleAt
    /\ Returned(p)
    /\ passedAt' = now
    /\ UNCHANGED <<windowVars, lastPass>>

ForceProbe(p) ==
    /\ pc[p] = "probe"
    /\ pc' = [pc EXCEPT ![p] = "run"]
    /\ lastPass' = nanos[p]
    /\ soleAt' = IF Alone(p) THEN nanos[p] ELSE soleAt
    /\ Returned(p)
    /\ passedAt' = now
    /\ UNCHANGED <<windowVars>>

Pass(p) ==
    /\ pc[p] = "pass"
    /\ pc' = [pc EXCEPT ![p] = "run"]
    /\ lastPass' = nanos[p]
    /\ Returned(p)
    /\ passedAt' = now
    /\ UNCHANGED <<windowVars, soleAt>>

\* The draw rejects: impossible when every bucket of the window is working.
Reject(p) ==
    /\ pc[p] = "draw"
    /\ hist[p].working < Size
    /\ Add("drop")
    /\ pc' = [pc EXCEPT ![p] = "idle"]
    /\ Returned(p)
    /\ UNCHANGED <<lastPass, passedAt, soleAt>>

\* markSuccess, or markFailure for an unacceptable error or a panic.
Report(p, e) ==
    /\ pc[p] = "run"
    /\ Add(e)
    /\ pc' = [pc EXCEPT ![p] = "idle"]
    /\ UNCHANGED <<lastPass, hist, nanos, passedAt, soleAt>>

ClockTick == Tick /\ UNCHANGED <<lastPass, pc, hist, nanos, passedAt, soleAt>>

Next ==
    \/ ClockTick
    \/ \E p \in Procs :
          \/ Snapshot(p) \/ LoadLastPass(p) \/ Compare(p) \/ ReadClock(p)
          \/ ForceProbe(p) \/ Pass(p) \/ Reject(p)
          \/ Report(p, "success") \/ Report(p, "fail")

Spec == Init /\ [][Next]_vars

-----------------------------------------------------------------------------

TypeOK ==
    /\ now \in 0..MaxTime
    /\ offset \in Ring
    /\ lastTime \in 0..now
    /\ bkt \in [Ring -> [Kinds -> 0..MaxEvents]]
    /\ log \in [0..MaxTime -> [Kinds -> 0..MaxEvents]]

\* Events of the bucket interval that began age intervals ago.
Logged(e, age) ==
    MapThenSumSet(LAMBDA t : log[t][e],
        {t \in 0..MaxTime : (now \div Interval) - (t \div Interval) = age})

\* "Writes advance offset automatically and reset expired buckets; reads
\* aggregate all non-expired buckets": the totals are those of the last Size
\* intervals, however long the window was idle.
HistoryExact ==
    /\ History.accepts =
          MapThenSumSet(LAMBDA a : Logged("success", a), 0..(Size - 1))
    /\ History.total =
          MapThenSumSet(LAMBDA a : Logged("success", a) + Logged("fail", a)
                                   + Logged("drop", a), 0..(Size - 1))

\* workingBuckets: with successes and without failures since the last failure.
RunLengths ==
    /\ History.working = Cardinality({a \in 0..(Size - 1) :
          Logged("success", a) > 0 /\ \A b \in 0..a : Logged("fail", b) = 0})
    /\ History.failing = Cardinality({a \in 0..(Size - 1) :
          Logged("fail", a) > 0 /\ \A b \in 0..a : Logged("success", b) = 0})

\* "Align to the interval boundary to avoid accumulating drift": nothing older
\* than the window's length is ever counted.
NothingOlderCounted ==
    History.total <=
        MapThenSumSet(LAMBDA t : Total(log[t]),
                      {t \in 0..MaxTime : now - t < Size * Interval})

\* Whoever has seen a lastPass and faces the draw all the same finds that some request
\* passed within the cool-down.
ProbedAfterCoolDown ==
    [][\A p \in Procs :
          pc[p] = "loaded" /\ pc'[p] = "draw" /\ nanos[p] > 0
             => now - passedAt <= ForcePass]_vars

\* "When nothing has passed for longer than this, one probe request is let
\* through": the same without the proviso.
AlwaysProbed ==
    [][\A p \in Procs :
          pc[p] = "loaded" /\ pc'[p] = "draw" => now - passedAt <= ForcePass]_vars

\* A probe that was alone between the load of lastPass and its store is the only one
\* for a cool-down, whoever asks meanwhile, and however late a clock value is stored.
ProbesApart ==
    [][\A p \in Procs :
          pc[p] = "loaded" /\ pc'[p] = "force"
             => soleAt = 0 \/ now - soleAt > ForcePass]_vars

\* "force one probe through": no two requests at a time are probes.
OneProbe ==
    \A p \in Procs : pc[p] \in {"force", "probe"}
        => \A q \in Procs \ {p} : pc[q] \notin {"force", "probe"}
=============================================================================
