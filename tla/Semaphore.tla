----------------------------- MODULE Semaphore -----------------------------
(***************************************************************************)
(* syncx.Semaphore: a buffered channel as the pool of slots and a          *)
(* WaitGroup that counts acquirers from before they get a slot until after *)
(* they gave it back.                                                      *)
(***************************************************************************)
EXTENDS Naturals, FiniteSets

CONSTANTS
    Procs,      \* goroutines that acquire and release
    Waiters,    \* goroutines that call Wait
    Max         \* capacity

ASSUME MaxAssumption == Max \in Nat \ {0}   \* NewSemaphore clamps to 1
ASSUME ProcsAssumption == IsFiniteSet(Procs)

VARIABLES
    pool,       \* occupied slots: len(s.pool)
    wg,         \* WaitGroup counter
    pc,         \* where each goroutine is
    wt          \* each waiter: "idle", "waiting" or "woken"

vars == <<pool, wg, pc, wt>>

PCs == {"idle", "acquire", "try", "refused", "held", "release"}

\* Goroutines between wg.Add and wg.Done.
Counted == {p \in Procs : pc[p] # "idle"}

Init ==
    /\ pool = 0
    /\ wg = 0
    /\ pc = [p \in Procs |-> "idle"]
    /\ wt = [w \in Waiters |-> "idle"]

Goto(p, from, to) ==
    /\ pc[p] = from
    /\ pc' = [pc EXCEPT ![p] = to]

\* Acquire and TryAcquire: wg.Add(1)...
Add(p, how) ==
    /\ Goto(p, "idle", how)
    /\ wg' = wg + 1
    /\ UNCHANGED <<pool, wt>>

\* ... then a slot, which Acquire waits for.
Slot(p) ==
    /\ pool < Max
    /\ Goto(p, "acquire", "held") \/ Goto(p, "try", "held")
    /\ pool' = pool + 1
    /\ UNCHANGED <<wg, wt>>

\* The default of TryAcquire's select.
Refused(p) ==
    /\ pool = Max
    /\ Goto(p, "try", "refused")
    /\ UNCHANGED <<pool, wg, wt>>

\* Mutant: a slot comes back before the work is done.
TakeBackEarly(p) ==
    /\ Goto(p, "held", "held")
    /\ pool > 0
    /\ pool' = pool - 1
    /\ UNCHANGED <<wg, wt>>

\* Release: the slot first...
TakeBack(p) ==
    /\ Goto(p, "held", "release")
    /\ pool' = pool - 1
    /\ UNCHANGED <<wg, wt>>

\* Mutant: every Done wakes the waiters.
DoneWakes(p) ==
    /\ pc[p] \in {"release", "refused"}
    /\ pc' = [pc EXCEPT ![p] = "idle"]
    /\ wg' = wg - 1
    /\ wt' = [w \in Waiters |-> IF wt[w] = "waiting" THEN "woken" ELSE wt[w]]
    /\ UNCHANGED pool

\* ... then wg.Done(), which wakes the waiters when it reaches zero.
Done(p) ==
    /\ pc[p] \in {"release", "refused"}
    /\ pc' = [pc EXCEPT ![p] = "idle"]
    /\ wg' = wg - 1
    /\ wt' = [w \in Waiters |->
                 IF wt[w] = "waiting" /\ wg = 1 THEN "woken" ELSE wt[w]]
    /\ UNCHANGED pool

Wait(w) ==
    /\ wt[w] = "idle"
    /\ wt' = [wt EXCEPT ![w] = IF wg = 0 THEN "woken" ELSE "waiting"]
    /\ UNCHANGED <<pool, wg, pc>>

WaitReturns(w) ==
    /\ wt[w] = "woken"
    /\ wt' = [wt EXCEPT ![w] = "idle"]
    /\ UNCHANGED <<pool, wg, pc>>

Step(p) == Slot(p) \/ Refused(p) \/ TakeBack(p) \/ Done(p)

Next ==
    \/ \E p \in Procs : Add(p, "acquire") \/ Add(p, "try") \/ Step(p)
    \/ \E w \in Waiters : Wait(w) \/ WaitReturns(w)

Spec == Init /\ [][Next]_vars

\* Holders release, woken goroutines run, and a blocked send on a channel is
\* served in turn: strong fairness for Slot.
FairSpec ==
    /\ Spec
    /\ \A p \in Procs :
          /\ SF_vars(Slot(p))
          /\ WF_vars(Refused(p)) /\ WF_vars(TakeBack(p)) /\ WF_vars(Done(p))
    /\ \A w \in Waiters : WF_vars(WaitReturns(w))

-----------------------------------------------------------------------------

TypeOK ==
    /\ pool \in 0..Max
    /\ wg \in 0..Cardinality(Procs)
    /\ pc \in [Procs -> PCs]
    /\ wt \in [Waiters -> {"idle", "waiting", "woken"}]

\* The two counters agree with the goroutines at every moment: no slot leaks
\* or is given out twice, at most Max operations run.
CountsAgree ==
    /\ pool = Cardinality({p \in Procs : pc[p] = "held"})
    /\ wg = Cardinality(Counted)

\* "Wait blocks until every acquired slot has been released": since it counts
\* acquirers that still queue for a slot too, a Wait called after "sem.Acquire()"
\* began is not woken while that operation goes on.
WaitCovers ==
    [][\A w \in Waiters : wt[w] = "waiting" /\ wt'[w] = "woken"
          => \A p \in Procs : pc'[p] = "idle"]_vars

\* Nobody waits for a slot for ever.
AcquireServed == \A p \in Procs : pc[p] = "acquire" ~> pc[p] = "held"
=============================================================================
