------------------------------ MODULE Admission ------------------------------
(***************************************************************************)
(* A limit on requests in progress: the MaxConns middleware                *)
(* (httpx/middleware/max_conns.go), ratelimit.Concurrency used by hand with*)
(* its Release, and ratelimit.Concurrency as the limiter of the RateLimit   *)
(* middleware (httpx/middleware/rate_limit.go).  The Timeout middleware may *)
(* sit between the limit and the handler; it then returns while the        *)
(* handler's goroutine goes on (TimeoutWriter).  Requests that RateLimit   *)
(* lets pass without asking (skipped paths, a failing limiter) are left     *)
(* out: they take no slot.                                                 *)
(***************************************************************************)
EXTENDS Integers, FiniteSets

CONSTANTS
    Procs,      \* requests
    Limit,      \* cap(sem), or Concurrency.limit
    Released    \* FALSE: through RateLimit, which never calls Release

ASSUME AdmissionAssumption ==
    /\ IsFiniteSet(Procs)
    /\ Limit \in Nat \ {0}
    /\ Released \in BOOLEAN

VARIABLES
    timeouts,   \* whether the Timeout middleware is inside
    slots,      \* len(sem), or Concurrency.current
    pc          \* where each request is

vars == <<timeouts, slots, pc>>

PCs == {"idle", "run", "refused", "left"}
Running == {p \in Procs : pc[p] = "run"}

Init ==
    /\ timeouts \in BOOLEAN
    /\ slots = 0
    /\ pc = [p \in Procs |-> "idle"]

Goto(p, from, to) == pc[p] = from /\ pc' = [pc EXCEPT ![p] = to]

-----------------------------------------------------------------------------

\* sem <- struct{}{}, or Allow.
Admit(p) ==
    /\ slots < Limit
    /\ Goto(p, "idle", "run")
    /\ slots' = slots + 1

\* The default case, or Allow's false: 503 or 429.
Refuse(p) ==
    /\ slots >= Limit
    /\ Goto(p, "idle", "refused")
    /\ UNCHANGED slots

\* <-m.sem, or Release, which stops at zero.
Release(s) == IF s > 0 THEN s - 1 ELSE s

Freed == slots' = IF Released THEN Release(slots) ELSE slots

Return(p) ==
    /\ Goto(p, "run", "idle")
    /\ Freed

\* Mutant: the slot is not freed by a deferred function.
PanicsHolding(p) ==
    /\ Goto(p, "run", "idle")
    /\ UNCHANGED slots

Panics(p) ==
    /\ Goto(p, "run", "idle")
    /\ Freed

\* Mutant: a timeout gives the slot back, and the deferred function once more.
TimesOutTwice(p) ==
    /\ timeouts
    /\ Goto(p, "run", "left")
    /\ slots' = Release(Release(slots))

\* The Timeout middleware answers 503 and returns, the handler goes on.
TimesOut(p) ==
    /\ timeouts
    /\ Goto(p, "run", "left")
    /\ Freed

\* A refused request, or a handler left behind, is over.
Over(p) ==
    /\ pc[p] \in {"refused", "left"}
    /\ pc' = [pc EXCEPT ![p] = "idle"]
    /\ UNCHANGED slots

Next ==
    /\ \E p \in Procs : \/ Admit(p) \/ Refuse(p)
                        \/ Return(p) \/ Panics(p) \/ TimesOut(p) \/ Over(p)
    /\ UNCHANGED timeouts

Spec == Init /\ [][Next]_vars

-----------------------------------------------------------------------------

TypeOK == timeouts \in BOOLEAN /\ slots \in 0..Limit /\ pc \in [Procs -> PCs]

\* A request is refused only while as many requests as the limit are in
\* progress ("when concurrency exceeds the limit it immediately returns 503"):
\* no panic, timeout or refusal leaks a slot.
RefusedOnlyWhenFull ==
    [][\A p \in Procs : pc[p] = "idle" /\ pc'[p] = "refused"
          => Cardinality(Running) >= Limit]_vars

\* "It limits the number of requests processed at the same time" (Concurrency):
\* no more requests are inside than the limit, panics and timeouts included.
\* (Handlers a timeout has left behind come on top.)
HandlersBounded == Cardinality(Running) <= Limit
=============================================================================
