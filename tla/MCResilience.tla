---------------------------- MODULE MCResilience ----------------------------
(***************************************************************************)
(* The rolling window on its own, the breaker's decision over it, the      *)
(* registry of breakers, doRetry and the limiters of package ratelimit for *)
(* TLC, one after the other: which is the one that runs, the variables of  *)
(* the others keep their initial values.                                   *)
(***************************************************************************)
EXTENDS Breaker, TLC

CONSTANTS AskTime, AskEvents, Clients, Names, Reasons, MaxInst, MaxCalls, Width, MaxRetries,
          RetryConfigs, Limit, Callers, One, Rate, Burst, Window, Grace, MaxDelay, BucketTime, WindowTime

ASSUME RegistryAssumption ==
    IsFiniteSet(Clients) /\ MaxInst \in Nat /\ Reasons \in Nat \ {0}

\* A token costs something, it comes at some rate, and the bucket holds one.
ASSUME LimiterAssumption ==
    /\ One \in Nat \ {0} /\ Rate \in Nat \ {0} /\ Burst \in Nat /\ Burst >= One
    /\ Limit \in Nat /\ Window \in Nat /\ Grace \in Nat
    /\ MaxCalls \in Nat /\ MaxDelay \in Nat
    /\ BucketTime \in Nat /\ WindowTime \in Nat

VARIABLES which,
          breakers, inst, era, cpc, name, brk, tally, errWin, added, calls,
          c, rpc, attempt, delay, cancelled, result, execs, late,
          bShared, bNow, tokens, bLast, bDeadline, bCall, bLog,
          wShared, wNow, recs, wDeadline, count, wCall, hint, wLog

Registry == INSTANCE Breakers WITH
    Procs <- Clients, History <- Reasons, Middleware <- FALSE, pc <- cpc

\* A ceiling with a delay that is no power of two, with and without jitter and a
\* DelayFunc, and no ceiling, so that the shift saturates.
FewConfigs ==
    [maxRetries : {MaxRetries}, delay : {5}, maxDelay : {20},
     jitter : BOOLEAN, custom : BOOLEAN]
    \union {[maxRetries |-> MaxRetries, delay |-> 4, maxDelay |-> 0,
             jitter |-> FALSE, custom |-> FALSE]}

Retrying == INSTANCE Retry WITH Configs <- RetryConfigs, pc <- rpc

\* Durations fit their width; neither Delay nor MaxRetries is negative.
ASSUME ConfigAssumption ==
    /\ Width \in Nat \ {0}
    /\ RetryConfigs \subseteq
          [maxRetries : Nat, delay : 0..Retrying!MaxInt, maxDelay : Retrying!Durations,
           jitter : BOOLEAN, custom : BOOLEAN]

Bucket == INSTANCE TokenBucket WITH
    Procs <- Callers, MinHint <- 0, MaxTime <- BucketTime, shared <- bShared,
    now <- bNow, last <- bLast, deadline <- bDeadline, call <- bCall, log <- bLog

Sliding == INSTANCE SlidingWindow WITH
    Procs <- Callers, MaxTime <- WindowTime, shared <- wShared,
    now <- wNow, deadline <- wDeadline, call <- wCall, log <- wLog

cVars == <<breakers, inst, era, cpc, name, brk, tally, errWin, added, calls>>
rVars == <<c, rpc, attempt, delay, cancelled, result, execs, late>>
bVars == <<bShared, bNow, tokens, bLast, bDeadline, bCall, bLog>>
wVars == <<wShared, wNow, recs, wDeadline, count, wCall, hint, wLog>>

MCInit ==
    /\ which \in {"ring", "breaker", "registry", "retry", "bucket", "window"}
    /\ Init /\ Registry!Init /\ Retrying!Init
    /\ Bucket!Init /\ Sliding!Init
    /\ which # "retry" => c.maxDelay = 0
    /\ which # "bucket" => ~bShared
    /\ which # "window" => ~wShared

limiters == <<bVars, wVars>>

\* add at any time and with any event, whoever calls it.
RingStep ==
    /\ Tick \/ \E e \in Kinds : Add(e)
    /\ UNCHANGED <<lastPass, pc, hist, nanos, passedAt, soleAt>>

\* The breaker's goroutines, up to AskTime and AskEvents.
AskStep == Next /\ now' <= AskTime /\ Events' <= AskEvents

MCNext ==
    \/ which = "ring" /\ RingStep /\ UNCHANGED <<which, cVars, rVars, limiters>>
    \/ which = "breaker" /\ AskStep /\ UNCHANGED <<which, cVars, rVars, limiters>>
    \/ which = "registry" /\ Registry!Next /\ UNCHANGED <<which, vars, rVars, limiters>>
    \/ which = "retry" /\ Retrying!Next /\ UNCHANGED <<which, vars, cVars, limiters>>
    \/ which = "bucket" /\ Bucket!Next /\ UNCHANGED <<which, vars, cVars, rVars, wVars>>
    \/ which = "window" /\ Sliding!Next /\ UNCHANGED <<which, vars, cVars, rVars, bVars>>

MCSpec == MCInit /\ [][MCNext]_<<which, vars, cVars, rVars, limiters>>

\* Goroutines differ by their name only.
Symmetry == Permutations(Procs) \union Permutations(Clients)

\* history's totals and its runs of working and failing buckets are those of the
\* last Size intervals.
WindowExact == TypeOK /\ HistoryExact /\ RunLengths

\* Between goroutines that load lastPass, compare, read the clock and store: an open
\* breaker lets a probe through after the cool-down, and a probe whose request was
\* alone between load and store is the only one for a cool-down.
Probes == ProbedAfterCoolDown /\ ProbesApart

\* The registry: one breaker per name until it is replaced or removed, although
\* GetBreaker looks and creates under two locks; Do reports every admitted request
\* once, one that panics included; the reasons logged when a breaker opens are
\* the last ones, newest first.
RegistryExact ==
    /\ Registry!TypeOK
    /\ Registry!Shared
    /\ Registry!AllReported
    /\ Registry!NewestFirst

\* doRetry makes MaxRetries + 1 attempts before it reports ErrMaxRetries and at
\* most one after its context has ended; computeDelay stays within MaxDelay, never
\* makes zero of a Delay that is not, and without jitter never shrinks, although
\* the shift overflows.
RetryExact ==
    /\ [](/\ Retrying!TypeOK
          /\ Retrying!AllAttemptsMade
          /\ Retrying!CancelStops
          /\ Retrying!DelayBounded
          /\ Retrying!NoZeroInterval)
    /\ Retrying!BackoffGrows

\* TokenBucket's bound: no stretch of time lets through more requests than a
\* full bucket and the tokens generated meanwhile, over idle times, failures of
\* Redis and the expiry of its key.  SlidingWindow's: no window holds more than
\* Limit requests.  And the time that RetryAfter returns is the time to the next
\* token or free place.
LimitsExact ==
    /\ Bucket!TypeOK /\ Bucket!RateBound
    /\ Sliding!TypeOK /\ Sliding!WindowBound
    /\ Bucket!HintHonest /\ Sliding!HintHonest
=============================================================================
