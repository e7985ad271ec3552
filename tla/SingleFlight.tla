---------------------------- MODULE SingleFlight ----------------------------
(***************************************************************************)
(* syncx.SingleFlight: concurrent calls for one key run fn once and share  *)
(* the outcome.  A process is a goroutine inside Do or DoCtx; a cell is a  *)
(* heap-allocated singleFlightCall.  The mutex sections are single steps;  *)
(* between them every interleaving is possible.                            *)
(***************************************************************************)
EXTENDS FiniteSets

CONSTANTS
    Procs,      \* calling goroutines
    Keys,
    Cells,      \* addresses of singleFlightCall records
    NoCell,     \* nil
    Outcomes    \* what fn may do: a subset of AllOutcomes

\* "goexit" is runtime.Goexit (t.FailNow, for one) called by fn: deferred
\* functions run, recover returns nil, and the goroutine never comes back.
AllOutcomes == {"val", "err", "panic", "goexit"}

ASSUME NoCellAssumption == NoCell \notin Cells
ASSUME OutcomesAssumption == Outcomes \subseteq AllOutcomes

VARIABLES
    calls,      \* sf.calls: key -> cell, NoCell when the key is absent
    cell,       \* cell -> record fields
    pc,         \* where each goroutine is
    key,        \* the key of its call
    ref,        \* the cell it holds a pointer to
    ret,        \* what its last finished call returned
    forgotten,  \* history: cells that Forget has unlinked
    forgot      \* history: the keys Forget has unlinked one of

vars == <<calls, cell, pc, key, ref, ret, forgotten, forgot>>

\* val, err and panicVal of the record are one field: "unset" is the zero
\* value with a nil error.
Results == {"unset", "val", "err", "panic"}
Returns == Results \union {"none", "ctxerr"}

PCs == {"idle",     \* not inside a call
        "exec",     \* leader, running fn
        "recorded", \* leader, val/err/panicVal written, wg not yet done
        "unlink",   \* leader, run has returned, about to take mu again
        "wait",     \* Do, blocked in call.wg.Wait()
        "select",   \* DoCtx, blocked in select
        "dying",    \* leader whose fn called Goexit, deferred function pending
        "gone"}     \* goroutine ended

\* done: the lazily created channel: absent, open (helper waiting), closed.
CellRecord == [wgDone : BOOLEAN, out : Results, done : {"nil", "open", "closed"}]
NewCell == [wgDone |-> FALSE, out |-> "unset", done |-> "nil"]

Init ==
    /\ calls = [k \in Keys |-> NoCell]
    /\ cell = [c \in Cells |-> NewCell]
    /\ pc = [p \in Procs |-> "idle"]
    /\ key \in [Procs -> Keys]
    /\ ref = [p \in Procs |-> NoCell]
    /\ ret = [p \in Procs |-> "none"]
    /\ forgotten = {}
    /\ forgot = {}

-----------------------------------------------------------------------------

\* A cell can be allocated when nothing refers to it: not the map, not a
\* goroutine, not a helper goroutine waiting to close its channel.
Unreferenced(c) ==
    /\ \A k \in Keys : calls[k] # c
    /\ \A p \in Procs : ref[p] # c
    /\ cell[c].done # "open"

Enter(p, k, c, where) ==
    /\ pc' = [pc EXCEPT ![p] = where]
    /\ key' = [key EXCEPT ![p] = k]
    /\ ref' = [ref EXCEPT ![p] = c]
    /\ ret' = [ret EXCEPT ![p] = "none"]

\* Mutant: a new record is linked without looking for one in flight.
LeadUnchecked(p, k) ==
    /\ pc[p] = "idle"
    /\ \E c \in Cells :
          /\ Unreferenced(c)
          /\ cell' = [cell EXCEPT ![c] = NewCell]
          /\ calls' = [calls EXCEPT ![k] = c]
          /\ forgotten' = forgotten \ {c}
          /\ Enter(p, k, c, "exec")
    /\ UNCHANGED forgot

\* The miss branch shared by Do and DoCtx: allocate, link, unlock, call run.
Lead(p, k) ==
    /\ pc[p] = "idle"
    /\ calls[k] = NoCell
    /\ \E c \in Cells :
          /\ Unreferenced(c)
          /\ cell' = [cell EXCEPT ![c] = NewCell]
          /\ calls' = [calls EXCEPT ![k] = c]
          /\ forgotten' = forgotten \ {c}
          /\ Enter(p, k, c, "exec")
    /\ UNCHANGED forgot

DoJoin(p, k) ==
    /\ pc[p] = "idle"
    /\ calls[k] # NoCell
    /\ Enter(p, k, calls[k], "wait")
    /\ UNCHANGED <<calls, cell, forgotten, forgot>>

\* The fast path of DoCtx: an already cancelled context never takes the lock.
\* Contexts belong to the caller: that one ends is a choice of the environment,
\* made where DoCtx looks at it.
DoCtxRefused(p) ==
    /\ pc[p] = "idle"
    /\ ret' = [ret EXCEPT ![p] = "ctxerr"]
    /\ UNCHANGED <<calls, cell, pc, key, ref, forgotten, forgot>>

DoCtxJoin(p, k) ==
    /\ pc[p] = "idle"
    /\ calls[k] # NoCell
    /\ cell' = [cell EXCEPT ![calls[k]].done = IF @ = "nil" THEN "open" ELSE @]
    /\ Enter(p, k, calls[k], "select")
    /\ UNCHANGED <<calls, forgotten, forgot>>

\* Mutant: the deferred function does not record the panic value.
FnEndsPanicLost(p, out) ==
    /\ pc[p] = "exec"
    /\ out \in Outcomes
    /\ cell' = [cell EXCEPT ![ref[p]].out = IF out = "panic" THEN @ ELSE out]
    /\ pc' = [pc EXCEPT ![p] = "recorded"]
    /\ UNCHANGED <<calls, key, ref, ret, forgotten, forgot>>

\* run: fn ends and its outcome (a panic value included) is recorded...
FnEnds(p, out) ==
    /\ pc[p] = "exec"
    /\ out \in Outcomes
    /\ cell' = [cell EXCEPT ![ref[p]].out = IF out = "goexit" THEN @ ELSE out]
    /\ pc' = [pc EXCEPT ![p] = IF out = "goexit" THEN "dying" ELSE "recorded"]
    /\ UNCHANGED <<calls, key, ref, ret, forgotten, forgot>>

\* Mutant: wg.Done() is not deferred, so a panic skips it.
WgDoneNotDeferred(p) ==
    /\ pc[p] = "recorded"
    /\ cell' = [cell EXCEPT ![ref[p]].wgDone = cell[ref[p]].out # "panic"]
    /\ pc' = [pc EXCEPT ![p] = "unlink"]
    /\ UNCHANGED <<calls, key, ref, ret, forgotten, forgot>>

\* ... and only then the deferred wg.Done() wakes the waiters.
WgDone(p) ==
    /\ pc[p] \in {"recorded", "dying"}
    /\ cell' = [cell EXCEPT ![ref[p]].wgDone = TRUE]
    /\ pc' = [pc EXCEPT ![p] = IF @ = "recorded" THEN "unlink" ELSE "gone"]
    /\ UNCHANGED <<calls, key, ref, ret, forgotten, forgot>>

\* A call returns or re-panics with the outcome its record holds.
ReturnOutcome(p) ==
    /\ pc' = [pc EXCEPT ![p] = "idle"]
    /\ ret' = [ret EXCEPT ![p] = cell[ref[p]].out]
    /\ ref' = [ref EXCEPT ![p] = NoCell]

\* Mutant: repanic before the record is deleted.
UnlinkAfterRepanic(p) ==
    /\ pc[p] = "unlink"
    /\ calls' = IF cell[ref[p]].out = "panic" THEN calls
                                              ELSE [calls EXCEPT ![key[p]] = NoCell]
    /\ ReturnOutcome(p)
    /\ UNCHANGED <<cell, key, forgotten, forgot>>

\* The leader's last critical section deletes whatever the key maps to.
Unlink(p) ==
    /\ pc[p] = "unlink"
    /\ calls' = [calls EXCEPT ![key[p]] = NoCell]
    /\ ReturnOutcome(p)
    /\ UNCHANGED <<cell, key, forgotten, forgot>>

DoWake(p) ==
    /\ pc[p] = "wait"
    /\ cell[ref[p]].wgDone
    /\ ReturnOutcome(p)
    /\ UNCHANGED <<calls, cell, key, forgotten, forgot>>

\* The helper goroutine of a record: wg.Wait, then close(done).
HelperClose(c) ==
    /\ cell[c].done = "open"
    /\ cell[c].wgDone
    /\ cell' = [cell EXCEPT ![c].done = "closed"]
    /\ UNCHANGED <<calls, pc, key, ref, ret, forgotten, forgot>>

DoCtxWake(p) ==
    /\ pc[p] = "select"
    /\ cell[ref[p]].done = "closed"
    /\ ReturnOutcome(p)
    /\ UNCHANGED <<calls, cell, key, forgotten, forgot>>

\* select picks ctx.Done(), also when done is ready as well.
DoCtxLeave(p) ==
    /\ pc[p] = "select"
    /\ pc' = [pc EXCEPT ![p] = "idle"]
    /\ ref' = [ref EXCEPT ![p] = NoCell]
    /\ ret' = [ret EXCEPT ![p] = "ctxerr"]
    /\ UNCHANGED <<calls, cell, key, forgotten, forgot>>

Forget(k) ==
    /\ calls[k] # NoCell
    /\ forgotten' = forgotten \union {calls[k]}
    /\ forgot' = forgot \union {k}
    /\ calls' = [calls EXCEPT ![k] = NoCell]
    /\ UNCHANGED <<cell, pc, key, ref, ret>>

-----------------------------------------------------------------------------

Progress(p) ==
    \/ \E out \in Outcomes : FnEnds(p, out)
    \/ WgDone(p)
    \/ Unlink(p)
    \/ DoWake(p)
    \/ DoCtxWake(p)

ProcNext(p) ==
    \/ \E k \in Keys : Lead(p, k) \/ DoJoin(p, k) \/ DoCtxJoin(p, k)
    \/ DoCtxRefused(p)
    \/ DoCtxLeave(p)
    \/ Progress(p)

Next ==
    \/ \E p \in Procs : ProcNext(p)
    \/ \E c \in Cells : HelperClose(c)
    \/ \E k \in Keys : Forget(k)

Spec == Init /\ [][Next]_vars

\* The Go scheduler runs every runnable goroutine, and fn ends.
Fairness ==
    /\ \A p \in Procs : WF_vars(Progress(p))
    /\ \A c \in Cells : WF_vars(HelperClose(c))

FairSpec == Spec /\ Fairness

-----------------------------------------------------------------------------

TypeOK ==
    /\ calls \in [Keys -> Cells \union {NoCell}]
    /\ cell \in [Cells -> CellRecord]
    /\ pc \in [Procs -> PCs]
    /\ key \in [Procs -> Keys]
    /\ ref \in [Procs -> Cells \union {NoCell}]
    /\ ret \in [Procs -> Returns]
    /\ forgotten \subseteq Cells
    /\ forgot \subseteq Keys
    /\ \A p \in Procs : pc[p] = "idle" <=> ref[p] = NoCell

Leading == {"exec", "recorded", "unlink", "dying"}

Overlap(p, q) ==
    p # q /\ pc[p] = "exec" /\ pc[q] = "exec" /\ key[p] = key[q]

\* "Concurrent calls for the same key run only once": as long as nobody has
\* forgotten the key, two executions of fn for it never overlap.
OneExecution == \A p, q \in Procs : Overlap(p, q) => key[p] \in forgot

\* The same with Forget, which leaves calls in flight alone: two executions
\* overlap only when Forget has detached one of them.
OnlyForgottenOverlap ==
    \A p, q \in Procs : Overlap(p, q) => ref[p] \in forgotten \/ ref[q] \in forgotten

\* The outcome is on the record before anyone is woken, and a record is reused
\* by nobody while a waiter can still read it: no caller takes the zero value
\* with a nil error for a success (the comments on panicVal and on Do).
NoFalseSuccess == \A p \in Procs : ret[p] # "unset"

\* A record is reachable through the map only while the call that created it is
\* still in progress, so a later call never joins a flight that has landed.
LinkedIsInFlight ==
    \A k \in Keys : calls[k] # NoCell =>
        \E p \in Procs : pc[p] \in Leading /\ ref[p] = calls[k] /\ key[p] = k

\* No goroutine stays blocked in Do or DoCtx: a leader, a waiter and the helper
\* behind the shared channel all finish once fn does.
EveryCallReturns ==
    \A p \in Procs : pc[p] \notin {"idle", "gone"} ~> pc[p] \in {"idle", "gone"}
=============================================================================
