------------------------------ MODULE MCSyncx ------------------------------
(***************************************************************************)
(* Semaphore, FanOut, Merge, OnceValue and ConcurrentMap for TLC, one      *)
(* after the other: which is the one that runs, the variables of the       *)
(* others keep their initial values.                                       *)
(***************************************************************************)
EXTENDS Semaphore

CONSTANTS Outs, Sources, FanOutCount, MergeCount, Callers, Vals,
          Keys, MapVals, ShardCount, ShardOf, Setters, Walkers

ASSUME StagesAssumption ==
    FanOutCount \in Nat /\ MergeCount \in Nat /\ IsFiniteSet(Sources)

\* load returns something.
ASSUME ValsAssumption == "zero" \notin Vals

\* getShard: hashKey(key) % size.
ASSUME MapAssumption ==
    /\ ShardCount \in Nat \ {0} /\ ShardOf \in [Keys -> 1 .. ShardCount]
    /\ Setters \intersect Walkers = {}

VARIABLES which,
          fNext, fOd, fCancelled, fo, val, sending, fGot,
          mNext, mOd, mCancelled, fw, closed, mGot,
          once, cached, opc, ret, loads,
          pairs, cpc, op, kind, at, seen, throughout, sometime

\* Nobody is assumed to receive.
Fan == INSTANCE FanOut WITH
    Stages <- {"src"}, N <- FanOutCount, Readers <- {},
    next <- fNext, od <- fOd, cancelled <- fCancelled, got <- fGot

Merging == INSTANCE Merge WITH
    Stages <- Sources, N <- MergeCount,
    next <- mNext, od <- mOd, cancelled <- mCancelled, got <- mGot

Lazy == INSTANCE Once WITH Procs <- Callers, pc <- opc

Map == INSTANCE ConcurrentMap WITH
    Vals <- MapVals, Writers <- Setters, NestedReads <- FALSE, pc <- cpc

\* Three keys, two of which share a shard: ShardOf for TLC.
TwoShards == [k \in Keys |-> IF k = 3 THEN 2 ELSE 1]

fVars == <<fNext, fOd, fCancelled, fo, val, sending, fGot>>
mVars == <<mNext, mOd, mCancelled, fw, closed, mGot>>
oVars == <<once, cached, opc, ret, loads>>
cVars == <<pairs, cpc, op, kind, at, seen, throughout, sometime>>

MCInit ==
    /\ which \in {"semaphore", "fanout", "merge", "once", "map"}
    /\ Init /\ Fan!Init /\ Merging!Init /\ Lazy!Init /\ Map!Init

MCNext ==
    \/ which = "semaphore" /\ Next /\ UNCHANGED <<which, fVars, mVars, oVars, cVars>>
    \/ which = "fanout" /\ Fan!Next /\ UNCHANGED <<which, vars, mVars, oVars, cVars>>
    \/ which = "merge" /\ Merging!Next /\ UNCHANGED <<which, vars, fVars, oVars, cVars>>
    \/ which = "once" /\ Lazy!Next /\ UNCHANGED <<which, vars, fVars, mVars, cVars>>
    \/ which = "map" /\ Map!Next /\ UNCHANGED <<which, vars, fVars, mVars, oVars>>

\* The fairness of Semaphore, FanOut, Merge and ConcurrentMap, for the one that runs.
Fairness ==
    /\ \A p \in Procs :
          /\ SF_vars(which = "semaphore" /\ Slot(p))
          /\ WF_vars(which = "semaphore" /\ Refused(p))
          /\ WF_vars(which = "semaphore" /\ TakeBack(p))
          /\ WF_vars(which = "semaphore" /\ Done(p))
    /\ WF_fVars(which = "fanout" /\ Fan!Source)
    /\ WF_fVars(which = "fanout" /\ Fan!Broadcast)
    /\ WF_fVars(which = "fanout" /\ (Fan!AllSent \/ Fan!CloseOuts))
    /\ \A i \in Outs : WF_fVars(which = "fanout" /\ Fan!GiveUp(i))
    /\ WF_mVars(which = "merge" /\ Merging!Close)
    /\ \A s \in Sources :
          /\ WF_mVars(which = "merge" /\ Merging!Source(s))
          /\ WF_mVars(which = "merge" /\ Merging!FwStep(s))
    /\ \A p \in Setters : SF_cVars(which = "map" /\ Map!Write(p))
    /\ \A p \in Walkers :
          SF_cVars(which = "map" /\ Map!ClearShard(p)) /\ WF_cVars(which = "map" /\ Map!Step(p))

MCSpec == MCInit /\ [][MCNext]_<<which, vars, fVars, mVars, oVars, cVars>> /\ Fairness

\* Until ctx is cancelled every output of FanOut gets every value in order, and
\* afterwards none twice or out of order; Merge keeps the order of each source
\* and closes its result after everything that is sent on it.
StagesOrdered ==
    /\ Fan!TypeOK /\ Fan!EveryValueInOrder
    /\ Merging!TypeOK /\ Merging!SourceOrder /\ Merging!CloseIsLast

\* Nobody waits for a slot of the Semaphore for ever, a cancelled FanOut or Merge
\* closes its outputs although nobody receives, and walks over a ConcurrentMap
\* and its writers end.
NobodyStuck ==
    /\ AcquireServed
    /\ Fan!CancelCloses /\ Merging!CancelCloses
    /\ Map!MapMoves

\* What callers share is what they see: a walk over a ConcurrentMap all that was
\* there the whole time and nothing that never was, although writers come between
\* its shards; every caller of OnceValue.Get the one outcome of the one load.
SharedExact ==
    /\ Map!TypeOK /\ Map!WalkExact
    /\ Lazy!OneOutcome
=============================================================================
