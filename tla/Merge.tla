------------------------------- MODULE Merge -------------------------------
(***************************************************************************)
(* syncx.Merge: one forwarder per source, each behind an OrDone stage, and *)
(* a goroutine that closes the result when all forwarders have returned.   *)
(***************************************************************************)
EXTENDS OrDone, FiniteSets

VARIABLES
    fw,         \* per source: "range", "offer" or "done", and the value held
    closed,     \* close(out)
    got         \* what the consumer has received, with its source

vars == <<next, od, cancelled, fw, closed, got>>

Init ==
    /\ StageInit
    /\ fw = [s \in Stages |-> [pc |-> "range", v |-> 0]]
    /\ closed = FALSE
    /\ got = <<>>

Source(s) == StageStep(s) /\ UNCHANGED <<fw, closed, got>>

CancelCtx == Cancel /\ UNCHANGED <<fw, closed, got>>

\* The next value of the range.
Take(s) ==
    /\ fw[s].pc = "range"
    /\ Hand(s)
    /\ fw' = [fw EXCEPT ![s] = [pc |-> "offer", v |-> od[s].v]]
    /\ UNCHANGED <<closed, got>>

\* out <- v.
Forward(s) ==
    /\ fw[s].pc = "offer"
    /\ got' = Append(got, <<s, fw[s].v>>)
    /\ fw' = [fw EXCEPT ![s] = [pc |-> "range", v |-> 0]]
    /\ UNCHANGED <<stageVars, closed>>

\* Mutant: a plain send.
GiveUpNever(s) == FALSE /\ UNCHANGED vars

\* case <-ctx.Done(): return.
GiveUp(s) ==
    /\ fw[s].pc = "offer" /\ cancelled
    /\ fw' = [fw EXCEPT ![s] = [pc |-> "done", v |-> 0]]
    /\ UNCHANGED <<stageVars, closed, got>>

RangeEnds(s) ==
    /\ fw[s].pc = "range" /\ od[s].pc = "closed"
    /\ fw' = [fw EXCEPT ![s] = [pc |-> "done", v |-> 0]]
    /\ UNCHANGED <<stageVars, closed, got>>

\* Mutant: the result is closed with the first source.
CloseFirst ==
    /\ ~closed
    /\ \E s \in Stages : fw[s].pc = "done"
    /\ closed' = TRUE
    /\ UNCHANGED <<stageVars, fw, got>>

\* wg.Wait(), close(out).
Close ==
    /\ ~closed
    /\ \A s \in Stages : fw[s].pc = "done"
    /\ closed' = TRUE
    /\ UNCHANGED <<stageVars, fw, got>>

Finished == closed /\ UNCHANGED vars

FwStep(s) == Take(s) \/ GiveUp(s) \/ RangeEnds(s)

Next ==
    \/ \E s \in Stages : Source(s) \/ FwStep(s) \/ Forward(s)
    \/ Close \/ CancelCtx \/ Finished

Spec == Init /\ [][Next]_vars

\* Goroutines run and producers go on; the consumer may stop receiving, and
\* only the consumer of an uncancelled Merge is expected to go on.
FairSpec ==
    /\ Spec
    /\ WF_vars(Close)
    /\ \A s \in Stages : WF_vars(Source(s)) /\ WF_vars(FwStep(s))

-----------------------------------------------------------------------------

TypeOK ==
    /\ StageTypeOK
    /\ fw \in [Stages -> [pc : {"range", "offer", "done"}, v : 0..N]]
    /\ closed \in BOOLEAN
    /\ got \in Seq(Stages \X (1..N))
    /\ \A s \in Stages : fw[s].pc = "offer" <=> fw[s].v # 0

\* Nothing is sent on the closed result (which would panic), and unless ctx
\* was cancelled it is closed only after every value of every source arrived.
CloseIsLast ==
    closed => /\ \A s \in Stages : fw[s].pc = "done"
              /\ cancelled \/ Len(got) = N * Cardinality(Stages)

\* Values of one source keep their order, without duplicates.
SourceOrder ==
    \A m, n \in DOMAIN got :
        m < n /\ got[m][1] = got[n][1] => got[m][2] < got[n][2]

\* A cancelled Merge closes its result even if nobody receives any more.
CancelCloses == cancelled ~> closed
=============================================================================
