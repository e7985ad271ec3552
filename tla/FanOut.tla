------------------------------- MODULE FanOut -------------------------------
(***************************************************************************)
(* syncx.FanOut: every value that OrDone hands over is sent to all outputs *)
(* by one goroutine each, and the next value waits for all of them.        *)
(***************************************************************************)
EXTENDS OrDone, FiniteSets

CONSTANTS
    Outs,       \* output channels, each with its consumer
    Readers     \* consumers that keep receiving; the others may be slow

VARIABLES
    fo,         \* the broadcasting goroutine: "range", "send" or "closed"
    val,        \* the value being broadcast
    sending,    \* outputs whose sender goroutine has not finished
    got         \* what each consumer has received

vars == <<next, od, cancelled, fo, val, sending, got>>
outVars == <<fo, val, sending, got>>

\* The single OrDone stage in front of the broadcast.
In == CHOOSE s \in Stages : TRUE

Init ==
    /\ StageInit
    /\ fo = "range"
    /\ val = 0
    /\ sending = {}
    /\ got = [i \in Outs |-> <<>>]

Source == StageStep(In) /\ UNCHANGED outVars

CancelCtx == Cancel /\ UNCHANGED outVars

\* v := range: one sender goroutine per output.
Broadcast ==
    /\ fo = "range"
    /\ Hand(In)
    /\ fo' = "send"
    /\ val' = od[In].v
    /\ sending' = Outs
    /\ UNCHANGED got

Receive(i) ==
    /\ i \in sending
    /\ sending' = sending \ {i}
    /\ got' = [got EXCEPT ![i] = Append(@, val)]
    /\ UNCHANGED <<stageVars, fo, val>>

\* Mutant: the sender does not watch ctx.Done().
GiveUpNever(i) == FALSE /\ UNCHANGED vars

\* case <-ctx.Done() of a sender.
GiveUp(i) ==
    /\ i \in sending /\ cancelled
    /\ sending' = sending \ {i}
    /\ UNCHANGED <<stageVars, fo, val, got>>

\* wg.Wait() returns.
AllSent ==
    /\ fo = "send" /\ sending = {}
    /\ fo' = "range"
    /\ UNCHANGED <<stageVars, val, sending, got>>

\* The range ends; the deferred function closes all outputs.
CloseOuts ==
    /\ fo = "range" /\ od[In].pc = "closed"
    /\ fo' = "closed"
    /\ UNCHANGED <<stageVars, val, sending, got>>

Finished == fo = "closed" /\ UNCHANGED vars

Next ==
    \/ Source \/ CancelCtx \/ Broadcast \/ AllSent \/ CloseOuts
    \/ \E i \in Outs : Receive(i) \/ GiveUp(i)
    \/ Finished

Spec == Init /\ [][Next]_vars

\* Goroutines run, the producer goes on, and the Readers receive.
FairSpec ==
    /\ Spec
    /\ WF_vars(Source) /\ WF_vars(Broadcast) /\ WF_vars(AllSent) /\ WF_vars(CloseOuts)
    /\ \A i \in Outs : WF_vars(GiveUp(i))
    /\ \A i \in Readers : WF_vars(Receive(i))

-----------------------------------------------------------------------------

TypeOK ==
    /\ StageTypeOK
    /\ fo \in {"range", "send", "closed"}
    /\ val \in 0..N
    /\ sending \subseteq Outs
    /\ got \in [Outs -> Seq(1..N)]
    /\ fo # "send" => sending = {}

\* "Each output channel receives every value read from src": until ctx is
\* cancelled nobody has a gap; afterwards values may be missing, but never come
\* twice or out of order.
EveryValueInOrder ==
    \A i \in Outs : \A m, n \in DOMAIN got[i] :
        /\ m < n => got[i][m] < got[i][n]
        /\ ~cancelled => got[i][n] = n

\* "When the context is cancelled, every blocked send unblocks automatically":
\* all goroutines end and the outputs are closed, even if nobody receives.
CancelCloses == cancelled ~> fo = "closed"

\* "A slow consumer on one output channel never blocks consumers of the other
\* output channels": whoever keeps receiving gets everything.
SlowBlocksNobody ==
    \A i \in Readers : <>(cancelled \/ Len(got[i]) = N)
=============================================================================
