------------------------------- MODULE Retry -------------------------------
(***************************************************************************)
(* retry.doRetry and its delays.  Durations are signed integers of Width   *)
(* bits that wrap around, as time.Duration does at 64.                     *)
(***************************************************************************)
EXTENDS Integers

CONSTANTS
    Width,
    Configs     \* the normalized Configs; custom is whether a DelayFunc is set

VARIABLES
    c,          \* the Config
    pc,         \* "check", "run", "failed", "delayed", "wait" or "done"
    attempt,    \* loop variable
    delay,      \* the delay computed last
    cancelled,  \* ctx has ended
    result,     \* what doRetry has returned
    execs,      \* history: how often fn was called
    late        \* history: how often it was called after ctx had ended

vars == <<c, pc, attempt, delay, cancelled, result, execs, late>>

Pow2[n \in Nat] == IF n = 0 THEN 1 ELSE 2 * Pow2[n - 1]
MaxInt == Pow2[Width - 1] - 1
Durations == (-MaxInt - 1)..MaxInt
Wrap(x) == ((x + MaxInt + 1) % Pow2[Width]) - MaxInt - 1

Init ==
    /\ c \in Configs
    /\ pc = "check"
    /\ attempt = 0
    /\ delay = 0
    /\ cancelled = FALSE
    /\ result = "none"
    /\ execs = 0
    /\ late = 0

-----------------------------------------------------------------------------
(* computeDelay and capDelay. *)

Capped(d) == IF c.maxDelay > 0 /\ d > c.maxDelay THEN c.maxDelay ELSE d

\* A random 0-50% on top, again below the ceiling.
WithJitter(d) ==
    IF c.jitter /\ d \div 2 > 0 THEN {Capped(Wrap(d + j)) : j \in 0..(d \div 2 - 1)} ELSE {d}

CapDelay(d) == WithJitter(IF Capped(d) < 0 THEN 0 ELSE Capped(d))

\* c.Delay << (n - 1), saturated when the result is smaller than Delay.
Backoff(n) ==
    LET d == Wrap(c.delay * Pow2[n - 1]) IN
    IF d >= c.delay THEN d ELSE IF c.maxDelay > 0 THEN c.maxDelay ELSE MaxInt

\* The delays computeDelay may return: a DelayFunc is arbitrary.
ComputeDelay(n) ==
    IF c.custom THEN UNION {CapDelay(d) : d \in Durations} ELSE CapDelay(Backoff(n))

-----------------------------------------------------------------------------
(* doRetry. *)

Return(r) == pc' = "done" /\ result' = r

Check ==
    /\ pc = "check"
    /\ IF cancelled THEN Return("cancelled") ELSE pc' = "run" /\ UNCHANGED result
    /\ UNCHANGED <<attempt, delay, cancelled, execs, late>>

RunOk ==
    /\ pc = "run"
    /\ execs' = execs + 1
    /\ late' = IF cancelled THEN late + 1 ELSE late
    /\ Return("ok")
    /\ UNCHANGED <<attempt, delay, cancelled>>

\* Mutant: one attempt less than configured.
RunFailsOneLess ==
    /\ pc = "run"
    /\ execs' = execs + 1
    /\ late' = IF cancelled THEN late + 1 ELSE late
    /\ IF attempt + 1 >= c.maxRetries THEN Return("max") ELSE pc' = "failed" /\ UNCHANGED result
    /\ UNCHANGED <<attempt, delay, cancelled>>

\* fn fails; the last attempt is not followed by a delay.
RunFails ==
    /\ pc = "run"
    /\ execs' = execs + 1
    /\ late' = IF cancelled THEN late + 1 ELSE late
    /\ IF attempt >= c.maxRetries THEN Return("max") ELSE pc' = "failed" /\ UNCHANGED result
    /\ UNCHANGED <<attempt, delay, cancelled>>

\* RetryIf says no.
NoRetry ==
    /\ pc = "failed"
    /\ Return("noretry")
    /\ UNCHANGED <<attempt, delay, cancelled, execs, late>>

\* RetryIf says yes: the delay, OnRetry and the timer.
Schedule ==
    /\ pc = "failed"
    /\ delay' \in ComputeDelay(attempt + 1)
    /\ pc' = "wait"
    /\ UNCHANGED <<attempt, cancelled, result, execs, late>>

\* The timer fires; select may prefer it to a context that has ended.
TimerFires ==
    /\ pc = "wait"
    /\ pc' = "check"
    /\ attempt' = attempt + 1
    /\ UNCHANGED <<delay, cancelled, result, execs, late>>

CtxDone ==
    /\ pc = "wait" /\ cancelled
    /\ Return("cancelled")
    /\ UNCHANGED <<attempt, delay, cancelled, execs, late>>

Cancel ==
    /\ ~cancelled /\ pc # "done"
    /\ cancelled' = TRUE
    /\ UNCHANGED <<c, pc, attempt, delay, result, execs, late>>

Step ==
    /\ Check \/ RunOk \/ RunFails \/ NoRetry \/ Schedule \/ TimerFires \/ CtxDone
    /\ UNCHANGED c

Next == Step \/ Cancel

Spec == Init /\ [][Next]_vars

\* fn returns and timers fire.
FairSpec == Spec /\ WF_vars(Step)

-----------------------------------------------------------------------------

TypeOK ==
    /\ c \in Configs
    /\ pc \in {"check", "run", "failed", "wait", "done"}
    /\ attempt \in 0..c.maxRetries
    /\ delay \in Durations
    /\ cancelled \in BOOLEAN
    /\ result \in {"none", "ok", "max", "noretry", "cancelled"}
    /\ execs \in Nat /\ late \in 0..execs

\* "Total executions = MaxRetries + 1 (the first execution plus the retries)",
\* and ErrMaxRetries is reported only after all of them.
AllAttemptsMade ==
    /\ execs <= c.maxRetries + 1
    /\ result = "max" => execs = c.maxRetries + 1

\* A cancelled context stops the retries: at most the call that had already
\* passed the check is still made, whichever channel select preferred.
CancelStops == late <= 1

\* "Exponential backoff never exceeds this value" (MaxDelay), with jitter, a
\* custom DelayFunc and a shift that overflows; nor is a delay negative.
DelayBounded == c.maxDelay > 0 => delay \in 0..c.maxDelay

\* Without jitter a delay is never shorter than the one before, also when
\* the shift runs over ("Saturate on a shift overflow (attempt too large)
\* instead of producing a bogus value").
BackoffGrows == [][~c.jitter /\ ~c.custom => delay' >= delay]_vars

\* A retry that was given a delay waits: the saturation keeps an unlimited
\* backoff from being "zeroed by capDelay and degenerate into retrying with no
\* interval at all".
NoZeroInterval == pc = "wait" /\ c.delay > 0 /\ ~c.custom => delay > 0

=============================================================================
