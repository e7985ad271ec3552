---------------------------- MODULE TokenBucket ----------------------------
(***************************************************************************)
(* ratelimit.TokenBucket and ratelimit.RedisTokenBucket.  The first decides *)
(* under its mutex; the second reads the client's clock, then runs a script *)
(* on state that all instances share and that Redis drops when idle.        *)
(* Tokens are counted in units: One units are a token, Rate units come per  *)
(* tick.                                                                    *)
(***************************************************************************)
EXTENDS Integers, FiniteSets, FiniteSetsExt

CONSTANTS
    Procs,      \* concurrent AllowContext calls on a shared bucket
    One, Rate, Burst,
    MinHint,    \* the millisecond RetryAfter rounds up to
    MaxDelay,   \* bound on the time from reading the clock to the script
    MaxTime     \* bound on the clock

VARIABLES
    shared,     \* whether the bucket lives in Redis
    now,        \* true time
    tokens, last,  \* the bucket; last = Never when Redis has no such key
    deadline,   \* when Redis drops the key
    call,       \* per caller: when it read its clock, or Idle
    log         \* history: requests admitted, by the time they were made

vars == <<shared, now, tokens, last, deadline, call, log>>

Never == -1
Idle == -1

Init ==
    /\ shared \in BOOLEAN
    /\ now = 0
    /\ tokens = Burst
    /\ last = IF shared THEN Never ELSE 0
    /\ deadline = 0
    /\ call = [p \in Procs |-> Idle]
    /\ log = [t \in 0..MaxTime |-> 0]

-----------------------------------------------------------------------------

Least(a, b) == IF a < b THEN a ELSE b

Elapsed(t) == IF t > last THEN t - last ELSE 0

\* Tokens at time t: an absent bucket is a full one.
Level(t) ==
    IF last = Never THEN Burst ELSE Least(Burst, tokens + Elapsed(t) * Rate)

Admits(t) == Level(t) >= One

\* Refill, then take a token if there is a whole one; last moves either way,
\* also backwards.
Charge(t) ==
    /\ tokens' = IF Admits(t) THEN Level(t) - One ELSE Level(t)
    /\ last' = t

Note(t) == log' = [log EXCEPT ![t] = @ + IF Admits(t) THEN 1 ELSE 0]

\* TokenBucket.Allow: the clock is read under the lock.
Allow ==
    /\ ~shared
    /\ Charge(now) /\ Note(now)
    /\ UNCHANGED <<now, deadline, call>>

\* The script's EXPIRE: ceil(burst / rate) + 1 seconds.
TTL == (Burst + Rate - 1) \div Rate + 1

\* RedisTokenBucket.AllowContext reads the clock...
Send(p) ==
    /\ shared /\ call[p] = Idle
    /\ call' = [call EXCEPT ![p] = now]
    /\ UNCHANGED <<now, tokens, last, deadline, log>>

\* ... and Redis runs the script later, with that time.
Script(p) ==
    /\ call[p] # Idle
    /\ Charge(call[p]) /\ Note(call[p])
    /\ deadline' = now + TTL
    /\ call' = [call EXCEPT ![p] = Idle]
    /\ UNCHANGED now

\* The call ends with an error: the script never ran, or its reply was lost.
Fails(p) ==
    /\ call[p] # Idle
    /\ \/ UNCHANGED <<tokens, last, deadline>>
       \/ Charge(call[p]) /\ deadline' = now + TTL
    /\ call' = [call EXCEPT ![p] = Idle]
    /\ UNCHANGED <<now, log>>

\* Time passes, and Redis drops a key whose time to live is over.
Tick ==
    /\ now < MaxTime
    /\ \A p \in Procs : call[p] # Idle => now - call[p] < MaxDelay
    /\ now' = now + 1
    /\ last' = IF shared /\ now + 1 >= deadline THEN Never ELSE last
    /\ UNCHANGED <<tokens, deadline, call, log>>

Next ==
    /\ Allow \/ Tick \/ \E p \in Procs : Send(p) \/ Script(p) \/ Fails(p)
    /\ UNCHANGED shared

Spec == Init /\ [][Next]_vars

-----------------------------------------------------------------------------

\* RetryAfter, truncated to a whole tick: the time to the next token, or, for
\* a shared bucket, the time one token takes.
RetryAfter ==
    LET have == tokens + Elapsed(now) * Rate
        wait == IF shared THEN One \div Rate ELSE (One - have) \div Rate
    IN  IF ~shared /\ have >= One THEN 0 ELSE IF wait < MinHint THEN MinHint ELSE wait

TypeOK ==
    /\ shared \in BOOLEAN
    /\ now \in 0..MaxTime
    /\ tokens \in 0..Burst
    /\ last \in Int /\ last >= Never
    /\ deadline \in Nat
    /\ call \in [Procs -> {Idle} \union 0..now]
    /\ log \in [0..MaxTime -> Nat]

\* "Tokens are generated at a fixed rate and consumed by requests, which allows
\* bursts": in no stretch of time are more requests let through than a full
\* bucket and the tokens generated meanwhile, across refusals, idle times and
\* the expiry of the key.
RateBound ==
    \A a, b \in 0..now : a <= b =>
        One * MapThenSumSet(LAMBDA t : log[t], a..b) <= Burst + (b - a) * Rate

\* RetryAfter is the time until the next token: a tick after it there is one
\* (the estimate is truncated to a tick), and for a local bucket not before.
HintHonest ==
    (\A p \in Procs : call[p] = Idle) =>
        /\ Level(now + RetryAfter + 1) >= One
        /\ ~shared /\ RetryAfter > MinHint => Level(now + RetryAfter - 1) < One
=============================================================================
