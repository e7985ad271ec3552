------------------------------- MODULE OrDone -------------------------------
(***************************************************************************)
(* syncx.OrDone: a goroutine that passes values from src to out until src  *)
(* is closed or done is.  Channels are unbuffered, so a transfer is one    *)
(* step of both sides.  FanOut and Merge build on it, one stage per source *)
(* channel; the producer of each offers 1, 2, ..., N and closes.           *)
(***************************************************************************)
EXTENDS Naturals, Sequences

CONSTANTS
    Stages,     \* goroutines running the body of OrDone
    N           \* values each producer sends

VARIABLES
    next,       \* per source, the value its producer offers; N + 1: closed
    od,         \* per stage: where its goroutine is and the value it holds
    cancelled   \* done is closed

stageVars == <<next, od, cancelled>>

\* "select": in the outer select; "offer": in the inner one; "closed": returned.
StageStates == [pc : {"select", "offer", "closed"}, v : 0..N]

StageInit ==
    /\ next = [s \in Stages |-> 1]
    /\ od = [s \in Stages |-> [pc |-> "select", v |-> 0]]
    /\ cancelled = FALSE

\* v, ok := <-src.
Read(s) ==
    /\ od[s].pc = "select" /\ next[s] <= N
    /\ od' = [od EXCEPT ![s] = [pc |-> "offer", v |-> next[s]]]
    /\ next' = [next EXCEPT ![s] = @ + 1]
    /\ UNCHANGED cancelled

SrcClosed(s) ==
    /\ od[s].pc = "select" /\ next[s] > N
    /\ od' = [od EXCEPT ![s] = [pc |-> "closed", v |-> 0]]
    /\ UNCHANGED <<next, cancelled>>

Done(s) ==
    /\ od[s].pc = "select" /\ cancelled
    /\ od' = [od EXCEPT ![s] = [pc |-> "closed", v |-> 0]]
    /\ UNCHANGED <<next, cancelled>>

\* The inner select sees done: the value is gone, and the loop goes round.
Drop(s) ==
    /\ od[s].pc = "offer" /\ cancelled
    /\ od' = [od EXCEPT ![s] = [pc |-> "select", v |-> 0]]
    /\ UNCHANGED <<next, cancelled>>

\* out <- v, taken by whoever ranges over out.
Hand(s) ==
    /\ od[s].pc = "offer"
    /\ od' = [od EXCEPT ![s] = [pc |-> "select", v |-> 0]]
    /\ UNCHANGED <<next, cancelled>>

Cancel ==
    /\ ~cancelled
    /\ cancelled' = TRUE
    /\ UNCHANGED <<next, od>>

StageStep(s) == Read(s) \/ SrcClosed(s) \/ Done(s) \/ Drop(s)

StageTypeOK ==
    /\ next \in [Stages -> 1..(N + 1)]
    /\ od \in [Stages -> StageStates]
    /\ cancelled \in BOOLEAN
=============================================================================
