------------------------- MODULE SingleFlightProof -------------------------
(***************************************************************************)
(* Proofs about SingleFlight, for any number of goroutines, keys and       *)
(* records.                                                                *)
(***************************************************************************)
EXTENDS SingleFlight, TLAPS

\* A leader's record is its own, and is the one its key maps to unless Forget has
\* been called for the key.
LeaderOwnsKey ==
    /\ \A p \in Procs : pc[p] \in Leading => key[p] \in forgot \/ calls[key[p]] = ref[p]
    /\ \A p, q \in Procs :
          pc[p] \in Leading /\ pc[q] \in Leading /\ ref[p] = ref[q] => p = q

\* The order run writes in: an outcome precedes wg.Done, which precedes
\* close(done), which precedes every return.
RecordedFirst ==
    /\ \A c \in Cells : cell[c].wgDone => cell[c].out # "unset"
    /\ \A c \in Cells : cell[c].done = "closed" => cell[c].wgDone
    /\ \A p \in Procs : pc[p] \in {"recorded", "unlink"} => cell[ref[p]].out # "unset"
    /\ \A p \in Procs : pc[p] \notin {"dying", "gone"}

NoGoexit == "goexit" \notin Outcomes

\* TypeOK holds in every reachable state, whatever fn does.
THEOREM TypeCorrect == Spec => []TypeOK
<1>1. Init => TypeOK
  BY NoCellAssumption DEF Init, TypeOK, CellRecord, NewCell, Results, Returns, PCs
<1>2. TypeOK /\ [Next]_vars => TypeOK'
  <2> SUFFICES ASSUME TypeOK, [Next]_vars PROVE TypeOK'
    OBVIOUS
  <2> USE NoCellAssumption, OutcomesAssumption
          DEF TypeOK, CellRecord, NewCell, Results, Returns, PCs, AllOutcomes
  <2>1. ASSUME NEW p \in Procs, NEW k \in Keys, Lead(p, k) PROVE TypeOK'
    BY <2>1 DEF Lead, Enter
  <2>2. ASSUME NEW p \in Procs, NEW k \in Keys, DoJoin(p, k) PROVE TypeOK'
    BY <2>2 DEF DoJoin, Enter
  <2>3. ASSUME NEW p \in Procs, NEW k \in Keys, DoCtxJoin(p, k) PROVE TypeOK'
    <3>1. cell' \in [Cells -> CellRecord]
      BY <2>3 DEF DoCtxJoin
    <3>2. QED
      BY <2>3, <3>1 DEF DoCtxJoin, Enter
  <2>4. ASSUME NEW p \in Procs, DoCtxRefused(p) PROVE TypeOK'
    BY <2>4 DEF DoCtxRefused
  <2>5. ASSUME NEW p \in Procs, DoCtxLeave(p) PROVE TypeOK'
    BY <2>5 DEF DoCtxLeave
  <2>6. ASSUME NEW p \in Procs, NEW out \in Outcomes, FnEnds(p, out) PROVE TypeOK'
    <3>1. cell' \in [Cells -> CellRecord]
      BY <2>6 DEF FnEnds
    <3>2. QED
      BY <2>6, <3>1 DEF FnEnds
  <2>7. ASSUME NEW p \in Procs, WgDone(p) PROVE TypeOK'
    <3>0. ref[p] \in Cells
      BY <2>7 DEF WgDone
    <3>1. [cell[ref[p]] EXCEPT !.wgDone = TRUE] \in CellRecord
      <4> HIDE DEF TypeOK
      <4>1. cell[ref[p]] \in CellRecord
        BY <3>0 DEF TypeOK
      <4>2. QED
        BY <4>1
    <3>2. cell' = [cell EXCEPT ![ref[p]] = [cell[ref[p]] EXCEPT !.wgDone = TRUE]]
      BY <2>7 DEF WgDone
    <3>3. cell' \in [Cells -> CellRecord]
      <4> HIDE DEF CellRecord
      <4>1. QED
        BY <3>1, <3>2
    <3>4. QED
      BY <2>7, <3>3 DEF WgDone
  <2>8. ASSUME NEW p \in Procs, Unlink(p) PROVE TypeOK'
    BY <2>8 DEF Unlink, ReturnOutcome
  <2>9. ASSUME NEW p \in Procs, DoWake(p) PROVE TypeOK'
    BY <2>9 DEF DoWake, ReturnOutcome
  <2>10. ASSUME NEW p \in Procs, DoCtxWake(p) PROVE TypeOK'
    BY <2>10 DEF DoCtxWake, ReturnOutcome
  <2>11. ASSUME NEW c \in Cells, HelperClose(c) PROVE TypeOK'
    BY <2>11 DEF HelperClose
  <2>12. ASSUME NEW k \in Keys, Forget(k) PROVE TypeOK'
    BY <2>12 DEF Forget
  <2>13. CASE UNCHANGED vars
    BY <2>13 DEF vars
  <2>14. QED
    BY <2>1, <2>2, <2>3, <2>4, <2>5, <2>6, <2>7, <2>8, <2>9, <2>10, <2>11, <2>12,
       <2>13
       DEF Next, ProcNext, Progress
<1>3. QED
  BY <1>1, <1>2, PTL DEF Spec

\* "Concurrent calls for the same key run only once": until somebody calls Forget
\* for a key no two executions of fn for it overlap, even if fn panics or exits its
\* goroutine.
THEOREM OneExecutionPerKey == Spec => []OneExecution
<1>1. Init => LeaderOwnsKey
  BY DEF Init, LeaderOwnsKey, Leading
<1>2. TypeOK /\ LeaderOwnsKey /\ [Next]_vars => LeaderOwnsKey'
  <2> SUFFICES ASSUME TypeOK, LeaderOwnsKey, [Next]_vars PROVE LeaderOwnsKey'
    OBVIOUS
  <2> USE NoCellAssumption DEF TypeOK, LeaderOwnsKey, Leading, PCs
  <2>1. ASSUME NEW p \in Procs, NEW k \in Keys, Lead(p, k) PROVE LeaderOwnsKey'
    BY <2>1 DEF Lead, Enter, Unreferenced
  <2>2. ASSUME NEW p \in Procs, NEW k \in Keys, DoJoin(p, k) PROVE LeaderOwnsKey'
    BY <2>2 DEF DoJoin, Enter
  <2>3. ASSUME NEW p \in Procs, NEW k \in Keys, DoCtxJoin(p, k) PROVE LeaderOwnsKey'
    BY <2>3 DEF DoCtxJoin, Enter
  <2>4. ASSUME NEW p \in Procs, DoCtxRefused(p) PROVE LeaderOwnsKey'
    BY <2>4 DEF DoCtxRefused
  <2>5. ASSUME NEW p \in Procs, DoCtxLeave(p) PROVE LeaderOwnsKey'
    BY <2>5 DEF DoCtxLeave
  <2>6. ASSUME NEW p \in Procs, NEW out \in Outcomes, FnEnds(p, out)
        PROVE LeaderOwnsKey'
    BY <2>6 DEF FnEnds
  <2>7. ASSUME NEW p \in Procs, WgDone(p) PROVE LeaderOwnsKey'
    BY <2>7 DEF WgDone
  <2>8. ASSUME NEW p \in Procs, Unlink(p) PROVE LeaderOwnsKey'
    BY <2>8 DEF Unlink, ReturnOutcome
  <2>9. ASSUME NEW p \in Procs, DoWake(p) PROVE LeaderOwnsKey'
    BY <2>9 DEF DoWake, ReturnOutcome
  <2>10. ASSUME NEW p \in Procs, DoCtxWake(p) PROVE LeaderOwnsKey'
    BY <2>10 DEF DoCtxWake, ReturnOutcome
  <2>11. ASSUME NEW c \in Cells, HelperClose(c) PROVE LeaderOwnsKey'
    BY <2>11 DEF HelperClose
  <2>12. ASSUME NEW k \in Keys, Forget(k) PROVE LeaderOwnsKey'
    BY <2>12 DEF Forget
  <2>13. CASE UNCHANGED vars
    BY <2>13 DEF vars
  <2>14. QED
    BY <2>1, <2>2, <2>3, <2>4, <2>5, <2>6, <2>7, <2>8, <2>9, <2>10, <2>11, <2>12,
       <2>13
       DEF Next, ProcNext, Progress
<1>3. LeaderOwnsKey => OneExecution
  BY DEF LeaderOwnsKey, OneExecution, Overlap, Leading
<1>4. QED
  BY <1>1, <1>2, <1>3, TypeCorrect, PTL DEF Spec

\* "No caller can mistake a zero value + nil error for a success": the outcome
\* is on the record before a waiter or the helper goroutine is woken, provided
\* fn returns or panics.
THEOREM OutcomeBeforeWake == ASSUME NoGoexit PROVE Spec => []NoFalseSuccess
<1> DEFINE IInv == RecordedFirst /\ NoFalseSuccess
<1>1. Init => IInv
  BY DEF Init, RecordedFirst, NoFalseSuccess, NewCell
<1>2. TypeOK /\ IInv /\ [Next]_vars => IInv'
  <2> SUFFICES ASSUME TypeOK, IInv, [Next]_vars PROVE IInv'
    OBVIOUS
  <2> USE NoGoexit, NoCellAssumption, OutcomesAssumption
          DEF TypeOK, RecordedFirst, NoFalseSuccess, PCs, AllOutcomes, NoGoexit
  <2>1. ASSUME NEW p \in Procs, NEW k \in Keys, Lead(p, k) PROVE IInv'
    BY <2>1 DEF Lead, Enter, Unreferenced, NewCell
  <2>2. ASSUME NEW p \in Procs, NEW k \in Keys, DoJoin(p, k) PROVE IInv'
    BY <2>2 DEF DoJoin, Enter
  <2>3. ASSUME NEW p \in Procs, NEW k \in Keys, DoCtxJoin(p, k) PROVE IInv'
    BY <2>3 DEF DoCtxJoin, Enter, CellRecord
  <2>4. ASSUME NEW p \in Procs, DoCtxRefused(p) PROVE IInv'
    BY <2>4 DEF DoCtxRefused
  <2>5. ASSUME NEW p \in Procs, DoCtxLeave(p) PROVE IInv'
    BY <2>5 DEF DoCtxLeave
  <2>6. ASSUME NEW p \in Procs, NEW out \in Outcomes, FnEnds(p, out) PROVE IInv'
    BY <2>6 DEF FnEnds, CellRecord
  <2>7. ASSUME NEW p \in Procs, WgDone(p) PROVE IInv'
    BY <2>7 DEF WgDone, CellRecord
  <2>8. ASSUME NEW p \in Procs, Unlink(p) PROVE IInv'
    BY <2>8 DEF Unlink, ReturnOutcome
  <2>9. ASSUME NEW p \in Procs, DoWake(p) PROVE IInv'
    BY <2>9 DEF DoWake, ReturnOutcome
  <2>10. ASSUME NEW p \in Procs, DoCtxWake(p) PROVE IInv'
    BY <2>10 DEF DoCtxWake, ReturnOutcome
  <2>11. ASSUME NEW c \in Cells, HelperClose(c) PROVE IInv'
    BY <2>11 DEF HelperClose, CellRecord
  <2>12. ASSUME NEW k \in Keys, Forget(k) PROVE IInv'
    BY <2>12 DEF Forget
  <2>13. CASE UNCHANGED vars
    BY <2>13 DEF vars
  <2>14. QED
    BY <2>1, <2>2, <2>3, <2>4, <2>5, <2>6, <2>7, <2>8, <2>9, <2>10, <2>11, <2>12,
       <2>13
       DEF Next, ProcNext, Progress
<1>3. QED
  BY <1>1, <1>2, TypeCorrect, PTL DEF Spec

\* A record stays in sf.calls only as long as the call that created it: a new
\* call never joins a flight whose leader has left, provided fn returns or
\* panics.
THEOREM LandedIsUnlinked == ASSUME NoGoexit PROVE Spec => []LinkedIsInFlight
<1> DEFINE Alive == \A p \in Procs : pc[p] \notin {"dying", "gone"}
           IInv == Alive /\ LinkedIsInFlight
<1>1. Init => IInv
  BY DEF Init, LinkedIsInFlight
<1>2. TypeOK /\ IInv /\ [Next]_vars => IInv'
  <2> SUFFICES ASSUME TypeOK, IInv, [Next]_vars PROVE IInv'
    OBVIOUS
  <2> USE NoGoexit, NoCellAssumption, OutcomesAssumption
          DEF TypeOK, LinkedIsInFlight, Leading, PCs, AllOutcomes, NoGoexit
  <2>1. ASSUME NEW p \in Procs, NEW k \in Keys, Lead(p, k) PROVE IInv'
    BY <2>1 DEF Lead, Enter, Unreferenced
  <2>2. ASSUME NEW p \in Procs, NEW k \in Keys, DoJoin(p, k) PROVE IInv'
    BY <2>2 DEF DoJoin, Enter
  <2>3. ASSUME NEW p \in Procs, NEW k \in Keys, DoCtxJoin(p, k) PROVE IInv'
    BY <2>3 DEF DoCtxJoin, Enter
  <2>4. ASSUME NEW p \in Procs, DoCtxRefused(p) PROVE IInv'
    BY <2>4 DEF DoCtxRefused
  <2>5. ASSUME NEW p \in Procs, DoCtxLeave(p) PROVE IInv'
    BY <2>5 DEF DoCtxLeave
  <2>6. ASSUME NEW p \in Procs, NEW out \in Outcomes, FnEnds(p, out) PROVE IInv'
    BY <2>6 DEF FnEnds
  <2>7. ASSUME NEW p \in Procs, WgDone(p) PROVE IInv'
    BY <2>7 DEF WgDone
  <2>8. ASSUME NEW p \in Procs, Unlink(p) PROVE IInv'
    <3>1. Alive'
      BY <2>8 DEF Unlink, ReturnOutcome
    <3>2. ASSUME NEW k \in Keys, calls'[k] # NoCell
          PROVE \E q \in Procs : /\ pc'[q] \in Leading
                                 /\ ref'[q] = calls'[k] /\ key'[q] = k
      <4>1. k # key[p] /\ calls'[k] = calls[k]
        BY <2>8, <3>2 DEF Unlink
      <4>2. PICK q \in Procs : pc[q] \in Leading /\ ref[q] = calls[k] /\ key[q] = k
        BY <3>2, <4>1
      <4>3. q # p
        BY <4>1, <4>2
      <4>4. QED
        BY <2>8, <4>1, <4>2, <4>3 DEF Unlink, ReturnOutcome
    <3>3. QED
      BY <3>1, <3>2
  <2>9. ASSUME NEW p \in Procs, DoWake(p) PROVE IInv'
    BY <2>9 DEF DoWake, ReturnOutcome
  <2>10. ASSUME NEW p \in Procs, DoCtxWake(p) PROVE IInv'
    BY <2>10 DEF DoCtxWake, ReturnOutcome
  <2>11. ASSUME NEW c \in Cells, HelperClose(c) PROVE IInv'
    BY <2>11 DEF HelperClose
  <2>12. ASSUME NEW k \in Keys, Forget(k) PROVE IInv'
    BY <2>12 DEF Forget
  <2>13. CASE UNCHANGED vars
    BY <2>13 DEF vars
  <2>14. QED
    BY <2>1, <2>2, <2>3, <2>4, <2>5, <2>6, <2>7, <2>8, <2>9, <2>10, <2>11, <2>12,
       <2>13
       DEF Next, ProcNext, Progress
<1>3. QED
  BY <1>1, <1>2, TypeCorrect, PTL DEF Spec
=============================================================================
