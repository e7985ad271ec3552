------------------------------ MODULE Breakers ------------------------------
(***************************************************************************)
(* The registry of breakers by name (breaker/breakers.go), the facade that *)
(* keeps the last failure reasons (breaker/circuit.go) and its two users:  *)
(* Do and the HTTP middleware (httpx/middleware/breaker.go,                *)
(* route_breaker.go).  The decision to admit is Breaker's; here it is a    *)
(* choice.                                                                 *)
(***************************************************************************)
EXTENDS Integers, FiniteSets

CONSTANTS
    Procs,      \* goroutines that send requests
    Names,      \* breaker names (route templates)
    History,    \* numHistoryReasons
    Middleware, \* TRUE: requests come through the middleware, FALSE: through Do
    MaxInst,    \* bound on breakers created
    MaxCalls    \* bound on requests

VARIABLES
    breakers,   \* the registry: an instance for a name, or 0
    inst,       \* the instances: their name, its era, and whether it never trips
    era,        \* how often the entry of a name has been replaced or removed
    pc, name, brk,  \* where a request is, its breaker's name, its breaker
    tally,      \* per instance: admitted, reported as success, as failure
    errWin,     \* per instance: the ring of failure reasons
    added,      \* per instance: reasons added so far, which are numbered
    calls       \* requests so far

vars == <<breakers, inst, era, pc, name, brk, tally, errWin, added, calls>>

Instances == 1..MaxInst
ErrorWindow == [reasons : [0..(History - 1) -> Nat], index : 0..(History - 1), count : 0..History]

Init ==
    /\ breakers = [n \in Names |-> 0]
    /\ inst = <<>>
    /\ era = [n \in Names |-> 0]
    /\ pc = [p \in Procs |-> "idle"]
    /\ name \in [Procs -> Names]
    /\ brk = [p \in Procs |-> 0]
    /\ tally = [i \in Instances |-> [admitted |-> 0, ok |-> 0, failed |-> 0]]
    /\ errWin = [i \in Instances |->
                    [reasons |-> [k \in 0..(History - 1) |-> 0], index |-> 0, count |-> 0]]
    /\ added = [i \in Instances |-> 0]
    /\ calls = 0

-----------------------------------------------------------------------------
(* The registry. *)

Made == DOMAIN inst
New == Cardinality(Made) + 1
Register(n, nop) ==
    /\ New \in Instances
    /\ breakers' = [breakers EXCEPT ![n] = New]
    /\ inst' = [i \in Made \union {New} |->
                   IF i \in Made THEN inst[i] ELSE [name |-> n, era |-> era'[n], nop |-> nop]]

Call(p, n) ==
    /\ calls < MaxCalls
    /\ pc[p] = "idle"
    /\ pc' = [pc EXCEPT ![p] = "look"]
    /\ name' = [name EXCEPT ![p] = n]
    /\ calls' = calls + 1
    /\ UNCHANGED <<breakers, inst, era, brk, tally, errWin, added>>

\* GetBreaker, under the read lock.
GetBreaker(p) ==
    /\ pc[p] = "look"
    /\ brk' = [brk EXCEPT ![p] = breakers[name[p]]]
    /\ pc' = [pc EXCEPT ![p] = IF breakers[name[p]] = 0 THEN "make" ELSE "allow"]
    /\ UNCHANGED <<breakers, inst, era, name, tally, errWin, added, calls>>

\* Mutant: the second look is forgotten.
GetBreakerLockedBlind(p) ==
    /\ pc[p] = "make"
    /\ UNCHANGED era
    /\ Register(name[p], FALSE)
    /\ brk' = [brk EXCEPT ![p] = breakers'[name[p]]]
    /\ pc' = [pc EXCEPT ![p] = "allow"]
    /\ UNCHANGED <<name, tally, errWin, added, calls>>

\* GetBreaker, under the write lock.
GetBreakerLocked(p) ==
    /\ pc[p] = "make"
    /\ UNCHANGED era
    /\ IF breakers[name[p]] = 0 THEN Register(name[p], FALSE) ELSE UNCHANGED <<breakers, inst>>
    /\ brk' = [brk EXCEPT ![p] = breakers'[name[p]]]
    /\ pc' = [pc EXCEPT ![p] = "allow"]
    /\ UNCHANGED <<name, tally, errWin, added, calls>>

NoBreakerFor(n) ==
    /\ era' = [era EXCEPT ![n] = @ + 1]
    /\ Register(n, TRUE)
    /\ UNCHANGED <<pc, name, brk, tally, errWin, added, calls>>

RemoveBreaker(n) ==
    /\ breakers[n] # 0
    /\ era' = [era EXCEPT ![n] = @ + 1]
    /\ breakers' = [breakers EXCEPT ![n] = 0]
    /\ UNCHANGED <<inst, pc, name, brk, tally, errWin, added, calls>>

-----------------------------------------------------------------------------
(* A request and its report. *)

Trips(p) == ~inst[brk[p]].nop

\* A NopBreaker keeps no statistics and no reasons.
Count(p, what) ==
    tally' = IF Trips(p) THEN [tally EXCEPT ![brk[p]][what] = @ + 1] ELSE tally
Goto(p, from, to) == pc[p] = from /\ pc' = [pc EXCEPT ![p] = to]

\* The context is done already, or the breaker is open: fallback or 503.
Refused(p) ==
    /\ Goto(p, "allow", "idle")
    /\ Trips(p)
    /\ UNCHANGED <<breakers, inst, era, name, brk, tally, errWin, added, calls>>

Allow(p) ==
    /\ Goto(p, "allow", "run")
    /\ Count(p, "admitted")
    /\ UNCHANGED <<breakers, inst, era, name, brk, errWin, added, calls>>

\* An acceptable result, or a status below 500: Accept.
Accept(p) ==
    /\ Goto(p, "run", "idle")
    /\ Count(p, "ok")
    /\ UNCHANGED <<breakers, inst, era, name, brk, errWin, added, calls>>

\* errorWindow.add.
AddReason(w, r) ==
    [reasons |-> [w.reasons EXCEPT ![w.index] = r],
     index   |-> (w.index + 1) % History,
     count   |-> IF w.count < History THEN w.count + 1 ELSE w.count]

\* Reject: first the reason...
Reject(p) ==
    /\ Goto(p, "run", "reject")
    /\ IF Trips(p)
       THEN /\ added' = [added EXCEPT ![brk[p]] = @ + 1]
            /\ errWin' = [errWin EXCEPT ![brk[p]] = AddReason(@, added'[brk[p]])]
       ELSE UNCHANGED <<errWin, added>>
    /\ UNCHANGED <<breakers, inst, era, name, brk, tally, calls>>

\* ... then the count.
RejectCount(p) ==
    /\ Goto(p, "reject", "idle")
    /\ Count(p, "failed")
    /\ UNCHANGED <<breakers, inst, era, name, brk, errWin, added, calls>>

\* A panic: doReq's deferred function counts it, the middleware has none.
Panic(p) ==
    /\ Goto(p, "run", "idle")
    /\ IF Middleware THEN UNCHANGED tally ELSE Count(p, "failed")
    /\ UNCHANGED <<breakers, inst, era, name, brk, errWin, added, calls>>

\* errorWindow.String: newest first.
String(w) ==
    [k \in 1..w.count |-> w.reasons[(w.index - k + History) % History]]

Request(p) ==
    \/ \E n \in Names : Call(p, n)
    \/ GetBreaker(p) \/ GetBreakerLocked(p)
    \/ Refused(p) \/ Allow(p) \/ Accept(p) \/ Reject(p) \/ RejectCount(p) \/ Panic(p)

Next ==
    \/ \E p \in Procs : Request(p)
    \/ \E n \in Names : NoBreakerFor(n) \/ RemoveBreaker(n)

Spec == Init /\ [][Next]_vars

-----------------------------------------------------------------------------

TypeOK ==
    /\ breakers \in [Names -> {0} \union Made]
    /\ Made \subseteq Instances
    /\ \A i \in Made : inst[i] \in [name : Names, era : Nat, nop : BOOLEAN]
    /\ era \in [Names -> Nat]
    /\ pc \in [Procs -> {"idle", "look", "make", "allow", "run", "reject"}]
    /\ name \in [Procs -> Names]
    /\ brk \in [Procs -> {0} \union Made]
    /\ tally \in [Instances -> [admitted : Nat, ok : Nat, failed : Nat]]
    /\ errWin \in [Instances -> ErrorWindow]
    /\ added \in [Instances -> Nat]
    /\ \A n \in Names : breakers[n] # 0 => inst[breakers[n]].name = n

\* "Breakers with the same name are shared globally, which keeps the statistics
\* of the same target consistent" (GetBreaker): requests that look up a name at
\* the same time never get two breakers unless somebody replaced or removed one.
Shared ==
    \A i, j \in Made : inst[i].name = inst[j].name /\ inst[i].era = inst[j].era => i = j

\* "The caller must report the outcome after the request completes" (Promise):
\* whatever happens in a request, every admitted one that is over has been
\* counted once.
AllReported ==
    \A i \in Made : ~inst[i].nop =>
        tally[i].admitted =
            tally[i].ok + tally[i].failed
            + Cardinality({p \in Procs : brk[p] = i /\ pc[p] \in {"run", "reject"}})

\* The reasons logged when the breaker opens are the last ones reported, newest
\* first (errorWindow.String), however often the ring has gone round.
NewestFirst ==
    \A i \in Made :
        LET n == IF added[i] < History THEN added[i] ELSE History IN
        String(errWin[i]) = [k \in 1..n |-> added[i] - k + 1]
=============================================================================
