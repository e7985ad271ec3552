-------------------------------- MODULE Once --------------------------------
(***************************************************************************)
(* syncx.OnceValue and syncx.OnceError: a sync.Once around load, whose     *)
(* value, error or panic is kept for all callers.  An error is a value     *)
(* here; load may also panic.                                              *)
(***************************************************************************)
EXTENDS Naturals, FiniteSets

CONSTANTS
    Procs,
    Vals        \* what load may return

VARIABLES
    once,       \* "new", "running", "done"
    cached,     \* o.value, o.err and o.panicVal
    pc, ret,
    loads       \* history: how often load has begun, up to 2

vars == <<once, cached, pc, ret, loads>>

Zero == "zero"
Panic == "panic"

Init ==
    /\ once = "new"
    /\ cached = Zero
    /\ pc = [p \in Procs |-> "idle"]
    /\ ret = [p \in Procs |-> "none"]
    /\ loads = 0

\* The first caller of Get runs load...
Enter(p) ==
    /\ pc[p] = "idle" /\ once = "new"
    /\ once' = "running"
    /\ pc' = [pc EXCEPT ![p] = "load"]
    /\ loads' = IF loads < 2 THEN loads + 1 ELSE loads
    /\ ret' = [ret EXCEPT ![p] = "none"]
    /\ UNCHANGED cached

\* ... while the others block in once.Do.
Block(p) ==
    /\ pc[p] = "idle" /\ once # "new"
    /\ pc' = [pc EXCEPT ![p] = "blocked"]
    /\ ret' = [ret EXCEPT ![p] = "none"]
    /\ UNCHANGED <<once, cached, loads>>

\* load ends; the deferred recover keeps a panic, and once is done either way.
LoadEnds(p, o) ==
    /\ pc[p] = "load"
    /\ once' = "done"
    /\ cached' = o
    /\ pc' = [pc EXCEPT ![p] = "blocked"]
    /\ UNCHANGED <<ret, loads>>

\* Behind once.Do: panic with panicVal, or return the value.
Return(p) ==
    /\ pc[p] = "blocked" /\ once = "done"
    /\ ret' = [ret EXCEPT ![p] = cached]
    /\ pc' = [pc EXCEPT ![p] = "idle"]
    /\ UNCHANGED <<once, cached, loads>>

Next ==
    \E p \in Procs :
        \/ Enter(p) \/ Block(p) \/ Return(p)
        \/ \E o \in Vals \union {Panic} : LoadEnds(p, o)

Spec == Init /\ [][Next]_vars

-----------------------------------------------------------------------------

\* All callers of Get, first, concurrent or later, see one outcome of one load,
\* and none a half-written one.
OneOutcome ==
    /\ loads <= 1
    /\ \A p \in Procs : ret[p] # "none" => ret[p] = cached /\ cached # Zero

\* "If load panics, the panic propagates to the caller and the failed result is
\* not cached": a Get that comes afterwards loads again.
PanicNotCached ==
    [][\A p \in Procs : pc[p] = "idle" /\ pc'[p] # "idle" /\ cached = Panic
           => pc'[p] = "load"]_vars
=============================================================================
