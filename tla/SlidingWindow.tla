--------------------------- MODULE SlidingWindow ---------------------------
(***************************************************************************)
(* ratelimit.SlidingWindow and ratelimit.RedisSlidingWindow: the requests  *)
(* admitted within the last Window ticks, as a slice under a mutex or as a *)
(* ZSET in Redis that a script prunes, counts and extends, with the time   *)
(* the caller read before it sent the script.                              *)
(***************************************************************************)
EXTENDS Integers, FiniteSets, FiniteSetsExt

CONSTANTS
    Procs,      \* callers; over Redis each is a process with its own prefix
    Limit, Window,
    Grace,      \* what PEXPIRE adds to the window: a second
    MaxCalls,   \* bound on the calls of each caller
    MaxDelay,   \* bound on the time from reading the clock to the script
    MaxTime     \* bound on the clock

VARIABLES
    shared,     \* whether the window lives in Redis
    now,
    recs,       \* records kept: member and score
    deadline,   \* when Redis drops the ZSET
    count,      \* memberCounter of each process
    call,       \* per caller: the time it read, or Idle
    hint,       \* what RetryAfter last returned
    log         \* history: requests admitted, by the time they were made

vars == <<shared, now, recs, deadline, count, call, hint, log>>

Idle == -1
Panic == -1

Init ==
    /\ shared \in BOOLEAN
    /\ now = 0
    /\ recs = {}
    /\ deadline = 0
    /\ count = [p \in Procs |-> 0]
    /\ call = [p \in Procs |-> Idle]
    /\ hint = 0
    /\ log = [t \in 0..MaxTime |-> 0]

-----------------------------------------------------------------------------

\* Mutant: only the time identifies a request.
MemberByTime(p, t) == <<t>>

\* prefix:millisecond:counter.  A record of the slice has an identity of its own.
Member(p, t) == <<p, t, count[p]>>

\* pruneExpired, or ZREMRANGEBYSCORE -inf cutoff.
Kept(t) == {r \in recs : r.score > t - Window}

Admits(t) == Cardinality(Kept(t)) < Limit

\* Prune, count, and record the request if there is room.  ZADD of a member
\* that exists replaces it.
Decide(p, t) ==
    LET m == Member(p, t)
    IN  recs' = IF Admits(t)
                THEN {r \in Kept(t) : r.mem # m} \union {[mem |-> m, score |-> t]}
                ELSE Kept(t)

Admit(p, t) ==
    /\ Decide(p, t)
    /\ log' = [log EXCEPT ![t] = @ + IF Admits(t) THEN 1 ELSE 0]

\* SlidingWindow.Allow.
Allow(p) ==
    /\ ~shared
    /\ count[p] < MaxCalls
    /\ count' = [count EXCEPT ![p] = @ + 1]
    /\ Admit(p, now)
    /\ UNCHANGED <<now, deadline, call, hint>>

\* RedisSlidingWindow.AllowContext: the clock and the counter are read...
Send(p) ==
    /\ shared /\ call[p] = Idle
    /\ count[p] < MaxCalls
    /\ count' = [count EXCEPT ![p] = @ + 1]
    /\ call' = [call EXCEPT ![p] = now]
    /\ UNCHANGED <<now, recs, deadline, hint, log>>

TTL == Window + Grace

Extended(t) == IF Admits(t) THEN now + TTL ELSE deadline

\* ... and the script runs later.  A refusal does not extend the key's life.
Script(p) ==
    /\ call[p] # Idle
    /\ Admit(p, call[p])
    /\ deadline' = Extended(call[p])
    /\ call' = [call EXCEPT ![p] = Idle]
    /\ UNCHANGED <<now, count, hint>>

\* The call ends with an error: the script never ran, or its reply was lost.
Fails(p) ==
    /\ call[p] # Idle
    /\ \/ UNCHANGED <<recs, deadline>>
       \/ Decide(p, call[p]) /\ deadline' = Extended(call[p])
    /\ call' = [call EXCEPT ![p] = Idle]
    /\ UNCHANGED <<now, count, hint, log>>

Oldest == Min({r.score : r \in Kept(now)})

\* SlidingWindow.RetryAfter, which prunes too.  Indexing an empty slice panics.
RetryAfter ==
    /\ ~shared
    /\ recs' = Kept(now)
    /\ hint' = IF Cardinality(Kept(now)) < Limit THEN 0
               ELSE IF Kept(now) = {} THEN Panic
               ELSE Oldest + Window - now
    /\ UNCHANGED <<now, deadline, count, call, log>>

Tick ==
    /\ now < MaxTime
    /\ \A p \in Procs : call[p] # Idle => now - call[p] < MaxDelay
    /\ now' = now + 1
    /\ recs' = IF shared /\ now + 1 >= deadline THEN {} ELSE recs
    /\ hint' = 0
    /\ UNCHANGED <<deadline, count, call, log>>

Next ==
    /\ \/ Tick \/ RetryAfter
       \/ \E p \in Procs : Allow(p) \/ Send(p) \/ Script(p) \/ Fails(p)
    /\ UNCHANGED shared

Spec == Init /\ [][Next]_vars

-----------------------------------------------------------------------------

TypeOK ==
    /\ shared \in BOOLEAN
    /\ now \in 0..MaxTime
    /\ \A r \in recs : r.score \in 0..now
    /\ Cardinality(recs) <= Limit
    /\ deadline \in Nat
    /\ count \in [Procs -> 0..MaxCalls]
    /\ call \in [Procs -> {Idle} \union 0..now]
    /\ hint \in {Panic} \union 0..Window
    /\ log \in [0..MaxTime -> Nat]

\* "It allows at most limit requests within the given time window": any Window
\* consecutive ticks, whatever was pruned, refused or lost, and although Redis
\* may drop the whole key.
WindowBound ==
    \A a \in 0..MaxTime :
        MapThenSumSet(LAMBDA t : log[t],
                      {t \in 0..MaxTime : a <= t /\ t < a + Window}) <= Limit

\* "the time until the oldest record slides out of the window": a request made
\* then is admitted unless others came first, and none made earlier is.
HintHonest ==
    hint > 0 /\ recs # {} /\ Cardinality(recs) = Limit =>
        /\ Cardinality(Kept(now + hint)) < Limit
        /\ Cardinality(Kept(now + hint - 1)) = Limit

\* RetryAfter "returns 0 when the window is not full or holds no records".
HintDefined == hint # Panic
=============================================================================
