--------------------------- MODULE SyncxProof ---------------------------
(***************************************************************************)
(* Proofs about Semaphore, OnceValue, ConcurrentMap, FanOut and Merge, for *)
(* any number of goroutines, slots, keys, shards, channels and values.     *)
(***************************************************************************)
EXTENDS MCSyncx, Sequences, FiniteSetTheorems, TLAPS

Held == {p \in Procs : pc[p] = "held"}

\* What the proofs need of TypeOK, and the counters.
IInv ==
    /\ pc \in [Procs -> PCs]
    /\ wt \in [Waiters -> {"idle", "waiting", "woken"}]
    /\ pool = Cardinality(Held)
    /\ pool <= Max
    /\ wg = Cardinality(Counted)

\* The sets of goroutines are finite: their cardinalities are numbers.
LEMMA FiniteSubsets ==
    ASSUME NEW S \in SUBSET Procs
    PROVE  IsFiniteSet(S) /\ Cardinality(S) \in Nat
           /\ Cardinality(S) <= Cardinality(Procs)
BY ProcsAssumption, FS_Subset, FS_CardinalityType

\* A set of goroutines gains or loses a member.
LEMMA OneMore ==
    ASSUME NEW S \in SUBSET Procs, NEW p \in Procs, p \notin S
    PROVE  Cardinality(S \union {p}) = Cardinality(S) + 1
BY FiniteSubsets, FS_AddElement

LEMMA OneLess ==
    ASSUME NEW S \in SUBSET Procs, NEW p \in S
    PROVE  Cardinality(S \ {p}) = Cardinality(S) - 1 /\ Cardinality(S) > 0
<1>1. Cardinality(S \ {p}) = Cardinality(S) - 1
  BY FiniteSubsets, FS_RemoveElement
<1>2. Cardinality(S \ {p}) \in Nat /\ Cardinality(S) \in Nat
  BY FiniteSubsets
<1>3. QED
  BY <1>1, <1>2

\* IInv is inductive.
LEMMA Inductive == IInv /\ [Next]_vars => IInv'
<1> SUFFICES ASSUME IInv, [Next]_vars PROVE IInv'
  OBVIOUS
<1> USE MaxAssumption
<1>1. Held \in SUBSET Procs /\ Counted \in SUBSET Procs
  BY DEF Held, Counted
<1>2. pool \in Nat /\ wg \in Nat
  BY <1>1, FiniteSubsets DEF IInv
<1>3. ASSUME NEW p \in Procs, NEW how \in {"acquire", "try"}, Add(p, how) PROVE IInv'
  <2>1. Held' = Held /\ Counted' = Counted \union {p} /\ p \notin Counted
    BY <1>3 DEF Add, Goto, IInv, PCs, Held, Counted
  <2>2. QED
    BY <1>1, <1>3, <2>1, OneMore DEF Add, Goto, IInv, PCs
<1>4. ASSUME NEW p \in Procs, Slot(p) PROVE IInv'
  <2>1. Held' = Held \union {p} /\ Counted' = Counted /\ p \notin Held
    BY <1>4 DEF Slot, Goto, IInv, PCs, Held, Counted
  <2>2. Cardinality(Held') = pool + 1
    BY <1>1, <2>1, OneMore DEF IInv
  <2>3. QED
    BY <1>2, <1>4, <2>1, <2>2 DEF Slot, Goto, IInv, PCs
<1>5. ASSUME NEW p \in Procs, Refused(p) PROVE IInv'
  <2>1. Held' = Held /\ Counted' = Counted
    BY <1>5 DEF Refused, Goto, IInv, PCs, Held, Counted
  <2>2. QED
    BY <1>5, <2>1 DEF Refused, Goto, IInv, PCs
<1>6. ASSUME NEW p \in Procs, TakeBack(p) PROVE IInv'
  <2>1. Held' = Held \ {p} /\ Counted' = Counted /\ p \in Held
    BY <1>6 DEF TakeBack, Goto, IInv, PCs, Held, Counted
  <2>2. Cardinality(Held') = pool - 1
    BY <1>1, <2>1, OneLess DEF IInv
  <2>3. QED
    BY <1>2, <1>6, <2>1, <2>2 DEF TakeBack, Goto, IInv, PCs
<1>7. ASSUME NEW p \in Procs, Done(p) PROVE IInv'
  <2>1. Held' = Held /\ Counted' = Counted \ {p} /\ p \in Counted
    BY <1>7 DEF Done, IInv, PCs, Held, Counted
  <2>2. Cardinality(Counted') = wg - 1
    BY <1>1, <2>1, OneLess DEF IInv
  <2>3. wt' \in [Waiters -> {"idle", "waiting", "woken"}]
    BY <1>7 DEF Done, IInv
  <2>4. QED
    BY <1>7, <2>1, <2>2, <2>3 DEF Done, IInv, PCs
<1>8. ASSUME NEW w \in Waiters, Wait(w) \/ WaitReturns(w) PROVE IInv'
  BY <1>8 DEF Wait, WaitReturns, IInv, Held, Counted
<1>9. CASE UNCHANGED vars
  BY <1>9 DEF vars, IInv, Held, Counted
<1>10. QED
  BY <1>3, <1>4, <1>5, <1>6, <1>7, <1>8, <1>9 DEF Next, Step

LEMMA Initial == Init => IInv
<1> SUFFICES ASSUME Init PROVE IInv
  OBVIOUS
<1>1. Held = {} /\ Counted = {}
  BY DEF Init, Held, Counted
<1>2. QED
  BY <1>1, FS_EmptySet, MaxAssumption DEF Init, IInv, PCs

\* Acquire, TryAcquire and Release keep the channel's length and the wait group's
\* counter equal to the numbers of goroutines that hold a slot and that are
\* between Add and Done: no slot is lost or given out twice.
THEOREM CountersExact == Spec => []CountsAgree
<1>1. IInv => CountsAgree
  BY DEF IInv, CountsAgree, Held
<1>2. QED
  BY <1>1, Initial, Inductive, PTL DEF Spec

\* TypeOK of Semaphore: in particular never more than Max slots are taken.
THEOREM SemaphoreTypeCorrect == Spec => []TypeOK
<1>1. IInv => TypeOK
  <2> SUFFICES ASSUME IInv PROVE TypeOK
    OBVIOUS
  <2>1. Held \in SUBSET Procs /\ Counted \in SUBSET Procs
    BY DEF Held, Counted
  <2>2. pool \in 0..Max /\ wg \in 0..Cardinality(Procs)
    BY <2>1, FiniteSubsets, ProcsAssumption, FS_CardinalityType, MaxAssumption DEF IInv
  <2>3. QED
    BY <2>2 DEF IInv, TypeOK
<1>2. QED
  BY <1>1, Initial, Inductive, PTL DEF Spec

\* Wait is woken only when nobody is between Acquire and the end of Release: the
\* step that brings the wait group to zero is the last goroutine's.
THEOREM WaitCoversAll == Spec => WaitCovers
<1> DEFINE Woken == \A w \in Waiters : wt[w] = "waiting" /\ wt'[w] = "woken"
                       => \A p \in Procs : pc'[p] = "idle"
<1>1. IInv /\ [Next]_vars => [Woken]_vars
  <2> SUFFICES ASSUME IInv, Next, NEW w \in Waiters,
                      wt[w] = "waiting", wt'[w] = "woken",
                      NEW q \in Procs
               PROVE  pc'[q] = "idle"
    BY DEF vars
  <2>1. PICK p \in Procs : Done(p) /\ wg = 1
    BY DEF Next, Step, Add, Slot, Refused, TakeBack, Done, Wait, WaitReturns, IInv
  <2>2. Counted \in SUBSET Procs /\ p \in Counted /\ Counted \ {p} \in SUBSET Procs
    BY <2>1 DEF Done, Counted
  <2>3. Cardinality(Counted \ {p}) = 0
    <3>1. Cardinality(Counted \ {p}) = Cardinality(Counted) - 1
      BY <2>2, OneLess
    <3>2. Cardinality(Counted) = 1
      BY <2>1 DEF IInv
    <3>3. QED
      BY <3>1, <3>2
  <2>4. Counted \ {p} = {}
    BY <2>2, <2>3, FiniteSubsets, FS_EmptySet
  <2>5. QED
    BY <2>1, <2>4 DEF Done, Counted, IInv
<1>2. QED
  BY <1>1, Initial, Inductive, PTL DEF Spec, WaitCovers

-----------------------------------------------------------------------------
(* OnceValue and OnceError. *)

\* There is one load, by one caller, and nobody returns before it has ended.
OnceInv ==
    /\ once \in {"new", "running", "done"}
    /\ loads = IF once = "new" THEN 0 ELSE 1
    /\ opc \in [Callers -> {"idle", "load", "blocked"}]
    /\ ret \in [Callers -> Vals \union {"none", "panic"}]
    /\ \A p \in Callers : opc[p] = "load" => once = "running"
    /\ \A p, q \in Callers : opc[p] = "load" /\ opc[q] = "load" => p = q
    /\ once = "done" => cached \in Vals \union {"panic"}
    /\ \A p \in Callers : ret[p] # "none" => once = "done" /\ ret[p] = cached

LEMMA OnceStep == OnceInv /\ [Lazy!Next]_oVars => OnceInv'
<1> SUFFICES ASSUME OnceInv, [Lazy!Next]_oVars PROVE OnceInv'
  OBVIOUS
<1> USE DEF OnceInv
<1>1. ASSUME NEW p \in Callers, Lazy!Enter(p) PROVE OnceInv'
  BY <1>1 DEF Lazy!Enter
<1>2. ASSUME NEW p \in Callers, Lazy!Block(p) PROVE OnceInv'
  BY <1>2 DEF Lazy!Block
<1>3. ASSUME NEW p \in Callers, Lazy!Return(p) PROVE OnceInv'
  BY <1>3 DEF Lazy!Return
<1>4. ASSUME NEW p \in Callers, NEW o \in Vals \union {"panic"}, Lazy!LoadEnds(p, o)
      PROVE  OnceInv'
  BY <1>4 DEF Lazy!LoadEnds
<1>5. CASE UNCHANGED oVars
  BY <1>5 DEF oVars
<1>6. QED
  BY <1>1, <1>2, <1>3, <1>4, <1>5 DEF Lazy!Next, Lazy!Panic

-----------------------------------------------------------------------------
(* ConcurrentMap. *)

\* Writers only wait for the lock, and a walk that waits or reads is at a shard.
PlaceInv ==
    /\ pairs \subseteq Keys \X MapVals
    /\ cpc \in [Setters \union Walkers -> {"idle", "lock", "rlock", "walk", "in", "get"}]
    /\ op \in [Setters -> Map!Ops \union {Map!NoOp}]
    /\ \A p \in Setters : cpc[p] = "idle" \/ (cpc[p] = "lock" /\ op[p] \in Map!Ops)
    /\ kind \in [Walkers -> {"none", "len", "range", "clear"}]
    /\ at \in [Walkers -> 1 .. ShardCount + 1]
    /\ \A p \in Walkers :
          /\ cpc[p] \in {"lock", "rlock", "in", "get"} => at[p] <= ShardCount
          /\ cpc[p] = "lock" => kind[p] = "clear"
          /\ cpc[p] \in {"rlock", "in", "get"} => kind[p] # "clear"

\* A walk has dealt with the shards behind it: whatever was there all the time has
\* been seen (Len, Range), nothing of it is left (Clear).
WalkInv ==
    /\ seen \in [Walkers -> SUBSET (Keys \X MapVals)]
    /\ throughout \in [Walkers -> SUBSET (Keys \X MapVals)]
    /\ sometime \in [Walkers -> SUBSET (Keys \X MapVals)]
    /\ \A p \in Walkers :
          /\ throughout[p] \subseteq pairs
          /\ seen[p] \subseteq sometime[p]
          /\ cpc[p] # "idle" => pairs \subseteq sometime[p]
          /\ cpc[p] = "idle" => throughout[p] = {} /\ seen[p] = {}
          /\ \A e \in throughout[p] : ShardOf[e[1]] < at[p] =>
                kind[p] # "clear" /\ e \in seen[p]

\* Unlock wakes walkers that wait in RLock, and touches nobody else.
LEMMA UnlockWakes ==
    ASSUME PlaceInv, NEW p \in Setters \union Walkers, NEW s \in 1 .. ShardCount,
           NEW then \in {"idle", "walk"}, Map!Unlocked(p, s, then)
    PROVE  /\ cpc' \in [Setters \union Walkers -> {"idle", "lock", "rlock", "walk", "in", "get"}]
           /\ cpc'[p] = then
           /\ \A q \in Setters : q # p => cpc'[q] = cpc[q]
           /\ \A q \in Walkers : q # p =>
                 cpc'[q] = cpc[q] \/ (cpc[q] = "rlock" /\ cpc'[q] = "in")
<1>1. Map!Unlocked(p, s, then) <=>
        cpc' = [q \in DOMAIN cpc |-> IF q = p THEN then
                    ELSE IF cpc[q] = "rlock" /\ at[q] = s THEN "in" ELSE cpc[q]]
  BY DEF Map!Unlocked
<1>2. DOMAIN cpc = Setters \union Walkers
  BY DEF PlaceInv
<1>3. ASSUME NEW q \in Setters \union Walkers
      PROVE  cpc'[q] = IF q = p THEN then
                       ELSE IF cpc[q] = "rlock" /\ at[q] = s THEN "in" ELSE cpc[q]
  BY <1>1, <1>2
<1>4. cpc' \in [Setters \union Walkers -> {"idle", "lock", "rlock", "walk", "in", "get"}]
  BY <1>1, <1>2 DEF PlaceInv
<1>5. \A q \in Setters : cpc[q] # "rlock"
  BY DEF PlaceInv
<1>6. cpc'[p] = then
  BY <1>3
<1>7. ASSUME NEW q \in Setters, q # p PROVE cpc'[q] = cpc[q]
  BY <1>3, <1>5, <1>7
<1>8. ASSUME NEW q \in Walkers, q # p
      PROVE  cpc'[q] = cpc[q] \/ (cpc[q] = "rlock" /\ cpc'[q] = "in")
  BY <1>3, <1>8
<1>9. QED
  BY <1>4, <1>6, <1>7, <1>8

\* The contents change under the walks.
LEMMA ContentsChange ==
    ASSUME PlaceInv, WalkInv, NEW new \in SUBSET (Keys \X MapVals), Map!Becomes(new),
           UNCHANGED <<seen, kind>>,
           \A p \in Walkers : cpc'[p] = "idle" <=> cpc[p] = "idle",
           at' \in [Walkers -> 1 .. ShardCount + 1],
           \A p \in Walkers : \/ at'[p] = at[p]
                              \/ /\ at'[p] = at[p] + 1 /\ kind[p] = "clear"
                                 /\ \A e \in new : ShardOf[e[1]] # at[p]
    PROVE  WalkInv'
<1> USE MapAssumption DEF PlaceInv, WalkInv, Map!Becomes
<1>1. /\ pairs' = new /\ seen' = seen
      /\ throughout' \in [Walkers -> SUBSET (Keys \X MapVals)]
      /\ sometime' \in [Walkers -> SUBSET (Keys \X MapVals)]
  OBVIOUS
<1>2. ASSUME NEW p \in Walkers
      PROVE  /\ throughout'[p] = throughout[p] \intersect new
             /\ sometime'[p] = IF cpc[p] = "idle" THEN {} ELSE sometime[p] \union new
  OBVIOUS
<1>3. ASSUME NEW p \in Walkers
      PROVE  /\ throughout'[p] \subseteq pairs'
             /\ seen'[p] \subseteq sometime'[p]
             /\ cpc'[p] # "idle" => pairs' \subseteq sometime'[p]
             /\ cpc'[p] = "idle" => throughout'[p] = {} /\ seen'[p] = {}
  BY <1>1, <1>2
<1>4. ASSUME NEW p \in Walkers, NEW e \in throughout'[p], ShardOf[e[1]] < at'[p]
      PROVE  kind'[p] # "clear" /\ e \in seen'[p]
  <2>1. e \in throughout[p] /\ e \in new /\ e[1] \in Keys
    BY <1>2, <1>4
  <2>2. ShardOf[e[1]] \in 1 .. ShardCount /\ at[p] \in 1 .. ShardCount + 1
    BY <2>1
  <2>3. ShardOf[e[1]] < at[p]
    BY <1>4, <2>1, <2>2
  <2>4. QED
    BY <1>1, <2>1, <2>3
<1>5. QED
  BY <1>1, <1>3, <1>4

LEMMA MapStep == PlaceInv /\ WalkInv /\ [Map!Next]_cVars => PlaceInv' /\ WalkInv'
<1> SUFFICES ASSUME PlaceInv, WalkInv, [Map!Next]_cVars PROVE PlaceInv' /\ WalkInv'
  OBVIOUS
<1> USE MapAssumption
<1>1. ASSUME NEW p \in Setters, NEW o \in Map!Ops, Map!Call(p, o) PROVE PlaceInv' /\ WalkInv'
  <2>1. PlaceInv'
    BY <1>1 DEF Map!Call, PlaceInv
  <2>2. QED
    BY <1>1, <2>1 DEF Map!Call, PlaceInv, WalkInv
<1>2. ASSUME NEW p \in Setters, Map!Write(p) PROVE PlaceInv' /\ WalkInv'
  <2> DEFINE k == op[p].key
             s == ShardOf[k]
  <2>1. cpc[p] = "lock" /\ op[p] \in Map!Ops
    BY <1>2 DEF PlaceInv, Map!Write
  <2>2. k \in Keys /\ op[p].val \in MapVals /\ s \in 1 .. ShardCount
    BY <2>1 DEF Map!Ops
  <2>3. PICK new \in SUBSET (Keys \X MapVals) : Map!Becomes(new)
    <3>1. pairs \in SUBSET (Keys \X MapVals) /\ Map!Without(k) \in SUBSET (Keys \X MapVals)
      BY DEF PlaceInv, Map!Without
    <3>2. Map!Without(k) \union {<<k, op[p].val>>} \in SUBSET (Keys \X MapVals)
      BY <2>2, <3>1
    <3>3. QED
      BY <1>2, <3>1, <3>2 DEF Map!Write
  <2>4. /\ Map!Unlocked(p, s, "idle")
        /\ op' = [op EXCEPT ![p] = Map!NoOp]
        /\ UNCHANGED <<kind, at, seen>>
    BY <1>2 DEF Map!Write
  <2>5. /\ cpc' \in [Setters \union Walkers -> {"idle", "lock", "rlock", "walk", "in", "get"}]
        /\ cpc'[p] = "idle"
        /\ \A q \in Setters : q # p => cpc'[q] = cpc[q]
        /\ \A q \in Walkers :
              cpc'[q] = cpc[q] \/ (cpc[q] = "rlock" /\ cpc'[q] = "in")
    BY <2>2, <2>4, UnlockWakes
  <2>6. PlaceInv'
    <3>1. pairs' \subseteq Keys \X MapVals
      BY <2>3 DEF Map!Becomes
    <3>2. op' \in [Setters -> Map!Ops \union {Map!NoOp}]
      BY <2>4 DEF PlaceInv
    <3>3. \A q \in Setters : cpc'[q] = "idle" \/ (cpc'[q] = "lock" /\ op'[q] \in Map!Ops)
      <4>1. \A q \in Setters : q # p => op'[q] = op[q]
        BY <2>4 DEF PlaceInv
      <4>2. \A q \in Setters : cpc[q] = "idle" \/ (cpc[q] = "lock" /\ op[q] \in Map!Ops)
        BY DEF PlaceInv
      <4>3. ASSUME NEW q \in Setters, q # p
            PROVE  cpc'[q] = "idle" \/ (cpc'[q] = "lock" /\ op'[q] \in Map!Ops)
        <5>1. cpc'[q] = cpc[q] /\ op'[q] = op[q]
          BY <2>5, <4>1, <4>3
        <5>2. QED
          BY <4>2, <5>1
      <4>4. QED
        BY <2>5, <4>3
    <3>4. QED
      BY <2>4, <2>5, <3>1, <3>2, <3>3 DEF PlaceInv
  <2>7. \A q \in Walkers : (cpc'[q] = "idle" <=> cpc[q] = "idle") /\ at'[q] = at[q]
    BY <2>4, <2>5
  <2>8. WalkInv'
    BY <2>3, <2>4, <2>7, ContentsChange DEF PlaceInv
  <2>9. QED
    BY <2>6, <2>8
<1>3. ASSUME NEW p \in Walkers, NEW w \in {"len", "range", "clear"}, Map!Begin(p, w)
      PROVE  PlaceInv' /\ WalkInv'
  <2>1. PlaceInv'
    BY <1>3 DEF Map!Begin, PlaceInv
  <2>2. \A q \in Walkers : q # p =>
           /\ UNCHANGED <<cpc[q], kind[q], at[q], seen[q], throughout[q], sometime[q]>>
    BY <1>3 DEF Map!Begin, PlaceInv, WalkInv
  <2>3. /\ kind'[p] = w /\ at'[p] = 1 /\ cpc'[p] = "walk" /\ pairs' = pairs
        /\ seen'[p] = {} /\ throughout'[p] = pairs /\ sometime'[p] = pairs
    BY <1>3 DEF Map!Begin, PlaceInv, WalkInv
  <2>4. \A e \in pairs : ShardOf[e[1]] \in 1 .. ShardCount
    BY DEF PlaceInv
  <2>5. /\ seen' \in [Walkers -> SUBSET (Keys \X MapVals)]
        /\ throughout' \in [Walkers -> SUBSET (Keys \X MapVals)]
        /\ sometime' \in [Walkers -> SUBSET (Keys \X MapVals)]
    BY <1>3 DEF Map!Begin, PlaceInv, WalkInv
  <2>6. WalkInv'
    BY <2>2, <2>3, <2>4, <2>5 DEF WalkInv
  <2>7. QED
    BY <2>1, <2>6
<1>4. ASSUME NEW p \in Walkers, Map!ClearCall(p) \/ Map!RLock(p) \/ Map!NestedGet(p)
      PROVE  PlaceInv' /\ WalkInv'
  <2>1. PlaceInv'
    BY <1>4 DEF Map!ClearCall, Map!RLock, Map!NestedGet, Map!OnWay, PlaceInv
  <2>2. \A q \in Walkers : cpc'[q] = "idle" <=> cpc[q] = "idle"
    BY <1>4 DEF Map!ClearCall, Map!RLock, Map!NestedGet, Map!OnWay, PlaceInv
  <2>3. UNCHANGED <<pairs, kind, at, seen, throughout, sometime>>
    BY <1>4 DEF Map!ClearCall, Map!RLock, Map!NestedGet
  <2>4. QED
    BY <2>1, <2>2, <2>3 DEF WalkInv
<1>5. ASSUME NEW p \in Walkers, Map!ClearShard(p) PROVE PlaceInv' /\ WalkInv'
  <2> DEFINE new == pairs \ Map!Shard(at[p])
  <2>1. cpc[p] = "lock" /\ kind[p] = "clear" /\ at[p] \in 1 .. ShardCount
    BY <1>5 DEF Map!ClearShard, PlaceInv
  <2>2. new \in SUBSET (Keys \X MapVals) /\ \A e \in new : ShardOf[e[1]] # at[p]
    BY DEF Map!Shard, PlaceInv
  <2>3. /\ Map!Becomes(new) /\ Map!Unlocked(p, at[p], "walk")
        /\ at' = [at EXCEPT ![p] = @ + 1]
        /\ UNCHANGED <<op, kind, seen>>
    BY <1>5 DEF Map!ClearShard
  <2>4. /\ cpc' \in [Setters \union Walkers -> {"idle", "lock", "rlock", "walk", "in", "get"}]
        /\ cpc'[p] = "walk"
        /\ \A q \in Setters : cpc'[q] = cpc[q]
        /\ \A q \in Walkers : q # p =>
              cpc'[q] = cpc[q] \/ (cpc[q] = "rlock" /\ cpc'[q] = "in")
    BY <2>1, <2>3, UnlockWakes
  <2>5. /\ at' \in [Walkers -> 1 .. ShardCount + 1]
        /\ at'[p] = at[p] + 1
        /\ \A q \in Walkers : q # p => at'[q] = at[q]
    BY <2>1, <2>3 DEF PlaceInv
  <2>6. PlaceInv'
    <3>1. pairs' \subseteq Keys \X MapVals
      BY <2>2, <2>3 DEF Map!Becomes
    <3>2. QED
      BY <2>1, <2>3, <2>4, <2>5, <3>1 DEF PlaceInv
  <2>7. \A q \in Walkers : cpc'[q] = "idle" <=> cpc[q] = "idle"
    BY <2>1, <2>4
  <2>8. WalkInv'
    <3> HIDE DEF new
    <3>1. QED
      BY <2>1, <2>2, <2>3, <2>5, <2>7, ContentsChange
  <2>9. QED
    BY <2>6, <2>8
<1>6. ASSUME NEW p \in Walkers, Map!Visit(p) PROVE PlaceInv' /\ WalkInv'
  <2>1. PlaceInv'
    BY <1>6 DEF Map!Visit, PlaceInv
  <2>2. PICK es \in SUBSET pairs : seen' = [seen EXCEPT ![p] = @ \union es]
    BY <1>6 DEF Map!Visit, Map!Shard
  <2>3. /\ UNCHANGED <<pairs, kind, at, throughout, sometime>>
        /\ cpc[p] = "in"
        /\ \A q \in Walkers : cpc'[q] = "idle" <=> cpc[q] = "idle"
    BY <1>6 DEF Map!Visit, PlaceInv
  <2>4. WalkInv'
    BY <2>2, <2>3 DEF WalkInv, PlaceInv
  <2>5. QED
    BY <2>1, <2>4
<1>7. ASSUME NEW p \in Walkers, Map!RUnlock(p) PROVE PlaceInv' /\ WalkInv'
  <2>1. PlaceInv'
    BY <1>7 DEF Map!RUnlock, PlaceInv
  <2>2. /\ cpc[p] = "in" /\ kind[p] # "clear" /\ Map!Shard(at[p]) \subseteq seen[p]
        /\ at[p] \in 1 .. ShardCount /\ at'[p] = at[p] + 1
        /\ \A q \in Walkers : q # p => at'[q] = at[q]
        /\ \A q \in Walkers : cpc'[q] = "idle" <=> cpc[q] = "idle"
        /\ UNCHANGED <<pairs, kind, seen, throughout, sometime>>
    BY <1>7 DEF Map!RUnlock, PlaceInv
  <2>3. ASSUME NEW e \in throughout[p], ShardOf[e[1]] < at[p] + 1 PROVE e \in seen[p]
    <3>1. ShardOf[e[1]] \in 1 .. ShardCount
      BY DEF WalkInv
    <3>2. CASE ShardOf[e[1]] = at[p]
      BY <2>2, <3>2 DEF WalkInv, Map!Shard
    <3>3. CASE ShardOf[e[1]] < at[p]
      BY <3>3 DEF WalkInv
    <3>4. QED
      BY <2>2, <2>3, <3>1, <3>2, <3>3
  <2>4. WalkInv'
    BY <2>2, <2>3 DEF WalkInv
  <2>5. QED
    BY <2>1, <2>4
<1>8. ASSUME NEW p \in Walkers, Map!End(p) PROVE PlaceInv' /\ WalkInv'
  <2>1. PlaceInv'
    BY <1>8 DEF Map!End, PlaceInv
  <2>2. /\ pairs' = pairs
        /\ throughout'[p] = {} /\ seen'[p] = {} /\ sometime'[p] = {} /\ cpc'[p] = "idle"
        /\ \A q \in Walkers : q # p =>
              UNCHANGED <<cpc[q], kind[q], at[q], seen[q], throughout[q], sometime[q]>>
    BY <1>8 DEF Map!End, PlaceInv, WalkInv
  <2>3. /\ seen' \in [Walkers -> SUBSET (Keys \X MapVals)]
        /\ throughout' \in [Walkers -> SUBSET (Keys \X MapVals)]
        /\ sometime' \in [Walkers -> SUBSET (Keys \X MapVals)]
    BY <1>8 DEF Map!End, WalkInv
  <2>4. WalkInv'
    BY <2>2, <2>3 DEF WalkInv
  <2>5. QED
    BY <2>1, <2>4
<1>9. CASE UNCHANGED cVars
  BY <1>9 DEF cVars, PlaceInv, WalkInv
<1>10. QED
  BY <1>1, <1>2, <1>3, <1>4, <1>5, <1>6, <1>7, <1>8, <1>9
     DEF Map!Next, Map!Step, Map!Stopped, Map!Return

LEMMA MapInitial == Map!Init => PlaceInv /\ WalkInv
<1> SUFFICES ASSUME Map!Init PROVE PlaceInv /\ WalkInv
  OBVIOUS
<1>1. PlaceInv
  <2>1. /\ pairs \subseteq Keys \X MapVals
        /\ cpc \in [Setters \union Walkers -> {"idle", "lock", "rlock", "walk", "in", "get"}]
        /\ op \in [Setters -> Map!Ops \union {Map!NoOp}]
        /\ kind \in [Walkers -> {"none", "len", "range", "clear"}]
    BY DEF Map!Init
  <2>2. at \in [Walkers -> 1 .. ShardCount + 1]
    BY MapAssumption DEF Map!Init
  <2>3. \A p \in Setters \union Walkers : cpc[p] = "idle"
    BY DEF Map!Init
  <2>4. QED
    BY <2>1, <2>2, <2>3 DEF PlaceInv
<1>2. WalkInv
  BY MapAssumption DEF Map!Init, WalkInv
<1>3. QED
  BY <1>1, <1>2

\* syncx.OnceValue and syncx.ConcurrentMap, for any callers, keys and shards: Get
\* returns the one outcome of the one load; a walk over the shards, with writers in
\* between, sees all that stays and nothing that never was.
THEOREM SharedStaysExact == MCSpec => []SharedExact
<1> DEFINE I == OnceInv /\ PlaceInv /\ WalkInv
<1>1. MCInit => I
  <2>1. Lazy!Init => OnceInv
    BY DEF Lazy!Init, OnceInv
  <2>2. QED
    BY <2>1, MapInitial DEF MCInit
<1>2. I /\ [MCNext]_<<which, vars, fVars, mVars, oVars, cVars>> => I'
  <2>1. [MCNext]_<<which, vars, fVars, mVars, oVars, cVars>> =>
           [Lazy!Next]_oVars /\ [Map!Next]_cVars
    BY DEF MCNext
  <2>2. QED
    BY <2>1, OnceStep, MapStep
<1>3. I => SharedExact
  <2> SUFFICES ASSUME I PROVE SharedExact
    OBVIOUS
  <2>1. Lazy!OneOutcome
    BY ValsAssumption DEF OnceInv, Lazy!OneOutcome, Lazy!Zero
  <2>2. Map!TypeOK
    BY DEF PlaceInv, Map!TypeOK
  <2>3. ASSUME NEW p \in Walkers, Map!Ended(p)
        PROVE  \A e \in throughout[p] : kind[p] # "clear" /\ e \in seen[p]
    <3>1. at[p] \in 1 .. ShardCount + 1 /\ at[p] > ShardCount
      BY <2>3 DEF Map!Ended, PlaceInv
    <3>2. \A e \in throughout[p] : ShardOf[e[1]] \in 1 .. ShardCount
      BY MapAssumption DEF WalkInv
    <3>3. \A e \in throughout[p] : ShardOf[e[1]] < at[p]
      BY <3>1, <3>2, MapAssumption
    <3>4. QED
      BY <3>3 DEF WalkInv
  <2>4. Map!WalkExact
    BY <2>3 DEF Map!WalkExact, WalkInv
  <2>5. QED
    BY <2>1, <2>2, <2>4 DEF SharedExact
<1>4. QED
  BY <1>1, <1>2, <1>3, PTL DEF MCSpec

-----------------------------------------------------------------------------
(* FanOut. *)

\* The value that OrDone offers is the last one it has read; what is broadcast
\* is behind it; what a consumer has is behind that, without gaps unless done.
FanInv ==
    LET d == fOd["src"]
    IN /\ fNext \in [{"src"} -> 1..(FanOutCount + 1)]
       /\ fOd \in [{"src"} -> Fan!StageStates]
       /\ fCancelled \in BOOLEAN
       /\ fo \in {"range", "send", "closed"}
       /\ val \in 0..FanOutCount
       /\ sending \subseteq Outs
       /\ fGot \in [Outs -> Seq(1..FanOutCount)]
       /\ fo # "send" => sending = {}
       /\ fo = "send" => val # 0
       /\ val < fNext["src"]
       /\ d.pc = "offer" => d.v = fNext["src"] - 1 /\ val < d.v
       /\ ~fCancelled =>
             val = IF d.pc = "offer" THEN fNext["src"] - 2 ELSE fNext["src"] - 1

\* What consumer i has received.
Received(i) ==
    /\ \A m, n \in DOMAIN fGot[i] : m < n => fGot[i][m] < fGot[i][n]
    /\ \A n \in DOMAIN fGot[i] :
          /\ fGot[i][n] <= val
          /\ i \in sending => fGot[i][n] < val
          /\ ~fCancelled => fGot[i][n] = n
    /\ ~fCancelled => Len(fGot[i]) = IF i \in sending THEN val - 1 ELSE val

LEMMA FanSource == ASSUME FanInv, Fan!Source PROVE FanInv' /\ UNCHANGED <<val, sending, fGot, fCancelled>>
<1> USE StagesAssumption DEF FanInv, Fan!StageStates
<1>1. Fan!In = "src"
  BY DEF Fan!In
<1>2. Fan!StageStep("src") /\ UNCHANGED <<fo, val, sending, fGot>>
  BY <1>1 DEF Fan!Source, Fan!outVars
<1>3. CASE Fan!Read("src")
  BY <1>2, <1>3 DEF Fan!Read
<1>4. CASE Fan!SrcClosed("src") \/ Fan!Done("src")
  BY <1>2, <1>4 DEF Fan!SrcClosed, Fan!Done
<1>5. CASE Fan!Drop("src")
  BY <1>2, <1>5 DEF Fan!Drop
<1>6. QED
  BY <1>2, <1>3, <1>4, <1>5 DEF Fan!StageStep

LEMMA FanStep ==
    FanInv /\ (\A i \in Outs : Received(i)) /\ [Fan!Next]_fVars
        => FanInv' /\ (\A i \in Outs : Received(i)')
<1> SUFFICES ASSUME FanInv, \A i \in Outs : Received(i), [Fan!Next]_fVars
             PROVE  FanInv' /\ (\A i \in Outs : Received(i)')
  OBVIOUS
<1> USE StagesAssumption
<1>1. Fan!In = "src"
  BY DEF Fan!In
<1>2. CASE Fan!Source
  <2>1. FanInv' /\ UNCHANGED <<val, sending, fGot, fCancelled>>
    BY <1>2, FanSource
  <2>2. QED
    BY <2>1 DEF Received
<1>3. CASE Fan!CancelCtx
  <2>1. FanInv' /\ UNCHANGED <<val, sending, fGot>> /\ fCancelled'
    BY <1>3 DEF Fan!CancelCtx, Fan!Cancel, Fan!outVars, FanInv
  <2>2. QED
    BY <2>1 DEF Received
<1>4. CASE Fan!Broadcast
  <2>1. /\ fOd["src"].pc = "offer" /\ fOd' = [fOd EXCEPT !["src"] = [pc |-> "select", v |-> 0]]
        /\ fo = "range" /\ fo' = "send" /\ val' = fOd["src"].v /\ sending' = Outs
        /\ UNCHANGED <<fNext, fCancelled, fGot>>
    BY <1>1, <1>4 DEF Fan!Broadcast, Fan!Hand
  <2>2. FanInv'
    BY <2>1 DEF FanInv, Fan!StageStates
  <2>3. /\ val \in Nat /\ val' \in Nat /\ val < val' /\ sending = {}
        /\ ~fCancelled => val' = val + 1
    BY <2>1 DEF FanInv, Fan!StageStates
  <2>4. ASSUME NEW i \in Outs PROVE Received(i)'
    <3>1. fGot[i] \in Seq(Nat) /\ \A n \in DOMAIN fGot[i] : fGot[i][n] \in Nat
      BY DEF FanInv
    <3>2. QED
      BY <2>1, <2>3, <3>1 DEF Received
  <2>5. QED
    BY <2>2, <2>4
<1>5. ASSUME NEW j \in Outs, Fan!Receive(j) PROVE FanInv' /\ (\A i \in Outs : Received(i)')
  <2>1. /\ j \in sending /\ sending' = sending \ {j}
        /\ fGot' = [fGot EXCEPT ![j] = Append(@, val)]
        /\ UNCHANGED <<fNext, fOd, fCancelled, fo, val>>
    BY <1>5 DEF Fan!Receive, Fan!stageVars
  <2>2. val \in 1..FanOutCount /\ fGot[j] \in Seq(1..FanOutCount)
    BY <2>1 DEF FanInv
  <2>3. FanInv'
    BY <2>1, <2>2 DEF FanInv
  <2>4. ASSUME NEW i \in Outs, i # j PROVE Received(i)'
    <3>1. fGot'[i] = fGot[i] /\ (i \in sending' <=> i \in sending)
      BY <2>1, <2>4 DEF FanInv
    <3>2. QED
      BY <2>1, <3>1 DEF Received
  <2>5. Received(j)'
    <3> DEFINE g == fGot[j]
               l == Len(g)
    <3>1. g \in Seq(Nat) /\ l \in Nat /\ DOMAIN g = 1..l /\ \A n \in 1..l : g[n] \in Nat
      BY <2>2
    <3>2. fGot'[j] = Append(g, val)
      BY <2>1 DEF FanInv
    <3>3. /\ Len(fGot'[j]) = l + 1 /\ DOMAIN fGot'[j] = 1..(l + 1)
          /\ fGot'[j][l + 1] = val /\ \A n \in 1..l : fGot'[j][n] = g[n]
      BY <2>2, <3>1, <3>2
    <3>4. /\ \A n \in 1..l : g[n] < val
          /\ \A m, n \in 1..l : m < n => g[m] < g[n]
          /\ ~fCancelled => l = val - 1 /\ \A n \in 1..l : g[n] = n
      BY <2>1, <3>1 DEF Received
    <3> HIDE DEF g, l
    <3>5. \A m, n \in 1..(l + 1) : m < n => fGot'[j][m] < fGot'[j][n]
      <4> SUFFICES ASSUME NEW m \in 1..(l + 1), NEW n \in 1..(l + 1), m < n
                   PROVE  fGot'[j][m] < fGot'[j][n]
        OBVIOUS
      <4>1. m \in 1..l /\ fGot'[j][m] = g[m]
        BY <3>1, <3>3
      <4>2. CASE n = l + 1
        BY <3>3, <3>4, <4>1, <4>2
      <4>3. CASE n \in 1..l
        BY <3>3, <3>4, <4>1, <4>3
      <4>4. QED
        BY <3>1, <4>2, <4>3
    <3>6. \A n \in 1..(l + 1) : fGot'[j][n] <= val /\ (~fCancelled => fGot'[j][n] = n)
      <4> SUFFICES ASSUME NEW n \in 1..(l + 1)
                   PROVE  fGot'[j][n] <= val /\ (~fCancelled => fGot'[j][n] = n)
        OBVIOUS
      <4>1. CASE n = l + 1
        BY <2>2, <3>3, <3>4, <4>1
      <4>2. CASE n \in 1..l
        BY <2>2, <3>1, <3>3, <3>4, <4>2
      <4>3. QED
        BY <3>1, <4>1, <4>2
    <3>7. ~fCancelled => Len(fGot'[j]) = val
      BY <2>2, <3>1, <3>3, <3>4
    <3>8. QED
      BY <2>1, <3>3, <3>5, <3>6, <3>7 DEF Received
  <2>6. QED
    BY <2>3, <2>4, <2>5
<1>6. ASSUME NEW j \in Outs, Fan!GiveUp(j) PROVE FanInv' /\ (\A i \in Outs : Received(i)')
  BY <1>6 DEF Fan!GiveUp, Fan!stageVars, FanInv, Received
<1>7. CASE Fan!AllSent \/ Fan!CloseOuts
  BY <1>1, <1>7 DEF Fan!AllSent, Fan!CloseOuts, Fan!stageVars, FanInv, Received
<1>8. CASE UNCHANGED fVars
  BY <1>8 DEF fVars, FanInv, Received
<1>9. QED
  BY <1>2, <1>3, <1>4, <1>5, <1>6, <1>7, <1>8 DEF Fan!Next, Fan!Finished, Fan!vars, fVars

-----------------------------------------------------------------------------
(* Merge. *)

\* As in FanOut, for a source and its forwarder.
SourceInv(s) ==
    /\ fw[s].pc = "offer" <=> fw[s].v # 0
    /\ fw[s].v < mNext[s]
    /\ mOd[s].pc = "offer" => mOd[s].v = mNext[s] - 1 /\ mOd[s].v # 0 /\ fw[s].v < mOd[s].v
    /\ ~mCancelled /\ mOd[s].pc = "closed" => mNext[s] = MergeCount + 1
    /\ ~mCancelled /\ fw[s].pc = "done" => mOd[s].pc = "closed"
    /\ closed => fw[s].pc = "done"

MergeInv ==
    /\ mNext \in [Sources -> 1..(MergeCount + 1)]
    /\ mOd \in [Sources -> Merging!StageStates]
    /\ mCancelled \in BOOLEAN
    /\ fw \in [Sources -> [pc : {"range", "offer", "done"}, v : 0..MergeCount]]
    /\ closed \in BOOLEAN
    /\ mGot \in Seq(Sources \X (1..MergeCount))
    /\ \A s \in Sources : SourceInv(s)

\* A value of a source that has not arrived yet: it has to be read, or is held by
\* OrDone or the forwarder.
Coming(s, v) ==
    \/ v >= mNext[s]
    \/ mOd[s].pc = "offer" /\ v = mOd[s].v
    \/ fw[s].pc = "offer" /\ v = fw[s].v

\* What has arrived is behind what is still coming, and nothing is lost unless done.
ArrivedInv ==
    /\ Merging!SourceOrder
    /\ \A m \in DOMAIN mGot : LET s == mGot[m][1]
                              IN /\ mGot[m][2] < mNext[s]
                                 /\ mOd[s].pc = "offer" => mGot[m][2] < mOd[s].v
                                 /\ fw[s].pc = "offer" => mGot[m][2] < fw[s].v
    /\ ~mCancelled => \A s \in Sources, v \in 1..MergeCount :
          Coming(s, v) \/ \E m \in DOMAIN mGot : mGot[m] = <<s, v>>

\* The numbers of a source.
LEMMA SourceTypes ==
    ASSUME MergeInv, NEW s \in Sources
    PROVE  /\ mNext[s] \in 1..(MergeCount + 1) /\ mNext[s] \in Nat /\ MergeCount \in Nat
           /\ mOd[s].pc \in {"select", "offer", "closed"}
           /\ mOd[s].v \in 0..MergeCount /\ mOd[s].v \in Nat
           /\ fw[s].pc \in {"range", "offer", "done"}
           /\ fw[s].v \in 0..MergeCount /\ fw[s].v \in Nat
           /\ SourceInv(s)
BY StagesAssumption DEF MergeInv, Merging!StageStates

\* A step of one source: the others stay as they are.
LEMMA OneSource ==
    ASSUME MergeInv, NEW s \in Sources, SourceInv(s)',
           mNext' \in [Sources -> 1..(MergeCount + 1)],
           mOd' \in [Sources -> Merging!StageStates],
           fw' \in [Sources -> [pc : {"range", "offer", "done"}, v : 0..MergeCount]],
           mGot' \in Seq(Sources \X (1..MergeCount)),
           UNCHANGED <<mCancelled, closed>>,
           \A r \in Sources : r # s =>
               mNext'[r] = mNext[r] /\ mOd'[r] = mOd[r] /\ fw'[r] = fw[r]
    PROVE  MergeInv'
<1>1. ASSUME NEW r \in Sources PROVE SourceInv(r)'
  <2>1. CASE r = s
    BY <2>1
  <2>2. CASE r # s
    <3>1. SourceInv(r)
      BY DEF MergeInv
    <3>2. QED
      BY <2>2, <3>1 DEF SourceInv
  <2>3. QED
    BY <2>1, <2>2
<1>2. QED
  BY <1>1 DEF MergeInv

\* A step that delivers nothing: what was coming is coming, and behind it the same.
LEMMA NothingArrives ==
    ASSUME MergeInv, ArrivedInv, NEW s \in Sources, UNCHANGED mGot,
           mNext' \in [Sources -> 1..(MergeCount + 1)],
           mNext[s] <= mNext'[s],
           mOd'[s].pc = "offer" => mOd'[s].v >= mNext[s] \/ (mOd[s].pc = "offer" /\ mOd'[s].v = mOd[s].v),
           mOd'[s].pc = "offer" => mOd'[s].v \in Nat,
           fw'[s].pc = "offer" => \/ fw[s].pc = "offer" /\ fw'[s].v = fw[s].v
                                  \/ mOd[s].pc = "offer" /\ fw'[s].v = mOd[s].v,
           \A r \in Sources : r # s =>
               mNext'[r] = mNext[r] /\ mOd'[r] = mOd[r] /\ fw'[r] = fw[r],
           ~mCancelled' => ~mCancelled /\ \A v \in 1..MergeCount : Coming(s, v) => Coming(s, v)'
    PROVE  ArrivedInv'
<1>1. Merging!SourceOrder'
  BY DEF ArrivedInv, Merging!SourceOrder
<1>2. ASSUME NEW m \in DOMAIN mGot
      PROVE  LET r == mGot[m][1]
             IN /\ mGot[m][2] < mNext'[r]
                /\ mOd'[r].pc = "offer" => mGot[m][2] < mOd'[r].v
                /\ fw'[r].pc = "offer" => mGot[m][2] < fw'[r].v
  <2> DEFINE r == mGot[m][1]
             v == mGot[m][2]
  <2>1. r \in Sources /\ v \in Nat
    BY DEF MergeInv
  <2>2. /\ v < mNext[r]
        /\ mOd[r].pc = "offer" => v < mOd[r].v
        /\ fw[r].pc = "offer" => v < fw[r].v
    BY DEF ArrivedInv
  <2>3. mNext[r] \in Nat /\ mNext'[r] \in Nat
    <3>1. mNext[r] \in Nat
      BY <2>1, SourceTypes
    <3>2. mNext'[r] \in 1..(MergeCount + 1)
      BY <2>1
    <3>3. QED
      BY <3>1, <3>2, StagesAssumption
  <2> HIDE DEF r, v
  <2>4. v < mNext'[r] /\ (mOd'[r].pc = "offer" => v < mOd'[r].v)
                      /\ (fw'[r].pc = "offer" => v < fw'[r].v)
    <3>1. CASE r = s
      BY <2>1, <2>2, <2>3, <3>1
    <3>2. CASE r # s
      BY <2>1, <2>2, <2>3, <3>2
    <3>3. QED
      BY <3>1, <3>2
  <2>5. QED
    BY <2>4 DEF r, v
<1>3. ASSUME ~mCancelled', NEW r \in Sources, NEW v \in 1..MergeCount
      PROVE  Coming(r, v)' \/ \E m \in DOMAIN mGot : mGot[m] = <<r, v>>
  <2>1. Coming(r, v) \/ \E m \in DOMAIN mGot : mGot[m] = <<r, v>>
    BY <1>3 DEF ArrivedInv
  <2>2. Coming(r, v) => Coming(r, v)'
    BY <1>3 DEF Coming
  <2>3. QED
    BY <2>1, <2>2
<1>4. QED
  BY <1>1, <1>2, <1>3 DEF ArrivedInv

\* out <- v: the value that the forwarder holds arrives.
LEMMA OneArrives ==
    ASSUME MergeInv, ArrivedInv, NEW s \in Sources, Merging!Forward(s)
    PROVE  MergeInv' /\ ArrivedInv'
<1> DEFINE x == fw[s].v
           g == mGot
           l == Len(mGot)
<1> USE StagesAssumption
<1>1. /\ fw[s].pc = "offer" /\ x \in 1..MergeCount
      /\ mGot' = Append(mGot, <<s, x>>)
      /\ fw' = [fw EXCEPT ![s] = [pc |-> "range", v |-> 0]]
      /\ UNCHANGED <<mNext, mOd, mCancelled, closed>>
  BY SourceTypes DEF Merging!Forward, Merging!stageVars, SourceInv
<1>2. MergeInv'
  <2>1. mGot' \in Seq(Sources \X (1..MergeCount))
    BY <1>1 DEF MergeInv
  <2>2. fw' \in [Sources -> [pc : {"range", "offer", "done"}, v : 0..MergeCount]]
    BY <1>1 DEF MergeInv
  <2>3. SourceInv(s)'
    <3>1. fw'[s] = [pc |-> "range", v |-> 0]
      BY <1>1 DEF MergeInv
    <3>2. QED
      BY <1>1, <3>1, SourceTypes DEF SourceInv
  <2>4. QED
    BY <1>1, <2>1, <2>2, <2>3, OneSource DEF MergeInv
<1>3. /\ l \in Nat /\ DOMAIN g = 1..l /\ DOMAIN mGot' = 1..(l + 1)
      /\ mGot'[l + 1] = <<s, x>> /\ \A m \in 1..l : mGot'[m] = g[m]
      /\ \A m \in 1..l : g[m][1] \in Sources /\ g[m][2] \in Nat
  <2>1. g \in Seq(Sources \X (1..MergeCount)) /\ <<s, x>> \in Sources \X (1..MergeCount)
    BY <1>1 DEF MergeInv
  <2>2. \A m \in 1..l : g[m] \in Sources \X (1..MergeCount)
    BY <2>1
  <2>3. QED
    BY <1>1, <2>1, <2>2
<1>4. \A m \in 1..l : /\ g[m][2] < mNext[g[m][1]]
                      /\ mOd[g[m][1]].pc = "offer" => g[m][2] < mOd[g[m][1]].v
                      /\ fw[g[m][1]].pc = "offer" => g[m][2] < fw[g[m][1]].v
  BY <1>3 DEF ArrivedInv
<1>5. x < mNext[s] /\ (mOd[s].pc = "offer" => x < mOd[s].v)
  BY <1>1, SourceTypes DEF SourceInv
<1>6. \A m, n \in 1..l : m < n /\ g[m][1] = g[n][1] => g[m][2] < g[n][2]
  BY <1>3 DEF ArrivedInv, Merging!SourceOrder
<1>7. /\ fw'[s].pc = "range"
      /\ \A r \in Sources : r # s => fw'[r] = fw[r]
  BY <1>1 DEF MergeInv
<1>8. ~mCancelled => \A r \in Sources, v \in 1..MergeCount :
          Coming(r, v)' \/ \E m \in DOMAIN mGot' : mGot'[m] = <<r, v>>
  <2> SUFFICES ASSUME ~mCancelled, NEW r \in Sources, NEW v \in 1..MergeCount, ~Coming(r, v)'
               PROVE  \E m \in DOMAIN mGot' : mGot'[m] = <<r, v>>
    OBVIOUS
  <2>1. CASE Coming(r, v)
    <3>1. r = s /\ v = x
      BY <1>1, <1>7, <2>1 DEF Coming
    <3>2. l + 1 \in DOMAIN mGot'
      BY <1>3
    <3>3. QED
      BY <1>3, <3>1, <3>2
  <2>2. CASE ~Coming(r, v)
    <3>1. PICK m \in DOMAIN mGot : mGot[m] = <<r, v>>
      BY <2>2 DEF ArrivedInv
    <3>2. m \in DOMAIN mGot' /\ mGot'[m] = <<r, v>>
      BY <1>3, <3>1
    <3>3. QED
      BY <3>2
  <2>3. QED
    BY <2>1, <2>2
<1> HIDE DEF x, g, l
<1>9. ASSUME NEW m \in 1..(l + 1)
      PROVE  LET r == mGot'[m][1]
             IN /\ mGot'[m][2] < mNext'[r]
                /\ mOd'[r].pc = "offer" => mGot'[m][2] < mOd'[r].v
                /\ fw'[r].pc = "offer" => mGot'[m][2] < fw'[r].v
  <2>1. CASE m = l + 1
    BY <1>1, <1>3, <1>5, <1>7, <2>1
  <2>2. CASE m \in 1..l
    BY <1>1, <1>3, <1>4, <1>7, <2>2
  <2>3. QED
    BY <1>3, <2>1, <2>2
<1>10. Merging!SourceOrder'
  <2> SUFFICES ASSUME NEW m \in 1..(l + 1), NEW n \in 1..(l + 1), m < n,
                      mGot'[m][1] = mGot'[n][1]
               PROVE  mGot'[m][2] < mGot'[n][2]
    BY <1>3 DEF Merging!SourceOrder
  <2>1. m \in 1..l /\ mGot'[m] = g[m]
    BY <1>3
  <2>2. CASE n = l + 1
    <3>1. g[m][1] = s
      BY <1>3, <2>1, <2>2
    <3>2. g[m][2] < fw[s].v
      BY <1>1, <1>4, <2>1, <3>1
    <3>3. QED
      BY <1>3, <2>1, <2>2, <3>2 DEF x
  <2>3. CASE n \in 1..l
    BY <1>3, <1>6, <2>1, <2>3
  <2>4. QED
    BY <1>3, <2>2, <2>3
<1>11. QED
  BY <1>1, <1>2, <1>3, <1>8, <1>9, <1>10 DEF ArrivedInv

LEMMA MergeStep == MergeInv /\ ArrivedInv /\ [Merging!Next]_mVars => MergeInv' /\ ArrivedInv'
<1> SUFFICES ASSUME MergeInv, ArrivedInv, [Merging!Next]_mVars PROVE MergeInv' /\ ArrivedInv'
  OBVIOUS
<1> USE StagesAssumption
<1>1. ASSUME NEW s \in Sources, Merging!Source(s) PROVE MergeInv' /\ ArrivedInv'
  <2>1. Merging!StageStep(s) /\ UNCHANGED <<fw, closed, mGot>>
    BY <1>1 DEF Merging!Source
  <2>2. CASE Merging!Read(s)
    <3>1. /\ mOd[s].pc = "select" /\ mNext[s] \in 1..MergeCount
          /\ mOd'[s] = [pc |-> "offer", v |-> mNext[s]] /\ mNext'[s] = mNext[s] + 1
          /\ mNext' \in [Sources -> 1..(MergeCount + 1)]
          /\ mOd' \in [Sources -> Merging!StageStates]
          /\ \A r \in Sources : r # s => mNext'[r] = mNext[r] /\ mOd'[r] = mOd[r]
          /\ UNCHANGED mCancelled
      BY <2>2 DEF Merging!Read, MergeInv, Merging!StageStates
    <3>2. SourceInv(s)'
      BY <2>1, <3>1, SourceTypes DEF SourceInv
    <3>3. MergeInv'
      BY <2>1, <3>1, <3>2, OneSource DEF MergeInv
    <3>4. \A v \in 1..MergeCount : Coming(s, v) => Coming(s, v)'
      BY <2>1, <3>1 DEF Coming
    <3>5. QED
      BY <2>1, <3>1, <3>3, <3>4, NothingArrives
  <2>3. CASE Merging!SrcClosed(s) \/ Merging!Done(s) \/ Merging!Drop(s)
    <3>1. /\ mOd'[s].v = 0 /\ mOd'[s].pc \in {"select", "closed"}
          /\ ~mCancelled => mOd[s].pc = "select" /\ mOd'[s].pc = "closed" /\ mNext[s] = MergeCount + 1
          /\ mOd[s].pc # "closed"
          /\ mOd' \in [Sources -> Merging!StageStates]
          /\ \A r \in Sources : r # s => mOd'[r] = mOd[r]
          /\ UNCHANGED <<mCancelled, mNext>>
      <4>1. mOd[s].pc # "closed" /\ UNCHANGED <<mCancelled, mNext>>
        BY <2>3 DEF Merging!SrcClosed, Merging!Done, Merging!Drop
      <4>2. \/ mOd' = [mOd EXCEPT ![s] = [pc |-> "closed", v |-> 0]]
            \/ mOd' = [mOd EXCEPT ![s] = [pc |-> "select", v |-> 0]]
        BY <2>3 DEF Merging!SrcClosed, Merging!Done, Merging!Drop
      <4>3. /\ mOd'[s].v = 0 /\ mOd'[s].pc \in {"select", "closed"}
            /\ mOd' \in [Sources -> Merging!StageStates]
            /\ \A r \in Sources : r # s => mOd'[r] = mOd[r]
        <5>1. CASE mOd' = [mOd EXCEPT ![s] = [pc |-> "closed", v |-> 0]]
          BY <5>1 DEF MergeInv, Merging!StageStates
        <5>2. CASE mOd' = [mOd EXCEPT ![s] = [pc |-> "select", v |-> 0]]
          BY <5>2 DEF MergeInv, Merging!StageStates
        <5>3. QED
          BY <4>2, <5>1, <5>2
      <4>4. ASSUME ~mCancelled
            PROVE  mOd[s].pc = "select" /\ mOd'[s].pc = "closed" /\ mNext[s] = MergeCount + 1
        <5>1. Merging!SrcClosed(s)
          BY <2>3, <4>4 DEF Merging!Done, Merging!Drop
        <5>2. QED
          BY <5>1, SourceTypes DEF Merging!SrcClosed, MergeInv
      <4>5. QED
        BY <4>1, <4>3, <4>4
    <3>2. SourceInv(s)'
      BY <2>1, <3>1, SourceTypes DEF SourceInv
    <3>3. MergeInv'
      BY <2>1, <3>1, <3>2, OneSource DEF MergeInv
    <3>4. ~mCancelled => \A v \in 1..MergeCount : Coming(s, v) => Coming(s, v)'
      BY <2>1, <3>1 DEF Coming
    <3>5. mNext[s] \in Nat /\ mNext' \in [Sources -> 1..(MergeCount + 1)]
      BY <3>1 DEF MergeInv
    <3>6. QED
      BY <2>1, <3>1, <3>3, <3>4, <3>5, NothingArrives
  <2>4. QED
    BY <2>1, <2>2, <2>3 DEF Merging!StageStep
<1>2. ASSUME NEW s \in Sources, Merging!Take(s) PROVE MergeInv' /\ ArrivedInv'
  <2>1. /\ mOd[s].pc = "offer" /\ fw[s].pc = "range"
        /\ mOd'[s] = [pc |-> "select", v |-> 0]
        /\ fw'[s] = [pc |-> "offer", v |-> mOd[s].v]
        /\ mOd' \in [Sources -> Merging!StageStates]
        /\ fw' \in [Sources -> [pc : {"range", "offer", "done"}, v : 0..MergeCount]]
        /\ \A r \in Sources : r # s => mOd'[r] = mOd[r] /\ fw'[r] = fw[r]
        /\ UNCHANGED <<mNext, mCancelled, closed, mGot>>
    BY <1>2 DEF Merging!Take, Merging!Hand, MergeInv, Merging!StageStates
  <2>2. SourceInv(s)'
    BY <2>1, SourceTypes DEF SourceInv
  <2>3. MergeInv'
    BY <2>1, <2>2, OneSource DEF MergeInv
  <2>4. \A v \in 1..MergeCount : Coming(s, v) => Coming(s, v)'
    BY <2>1 DEF Coming
  <2>5. mNext[s] \in Nat /\ mNext' \in [Sources -> 1..(MergeCount + 1)]
    BY <2>1 DEF MergeInv
  <2>6. QED
    BY <2>1, <2>3, <2>4, <2>5, NothingArrives
<1>3. ASSUME NEW s \in Sources, Merging!GiveUp(s) \/ Merging!RangeEnds(s)
      PROVE  MergeInv' /\ ArrivedInv'
  <2>1. /\ fw'[s] = [pc |-> "done", v |-> 0]
        /\ ~mCancelled => fw[s].pc = "range" /\ mOd[s].pc = "closed"
        /\ fw' \in [Sources -> [pc : {"range", "offer", "done"}, v : 0..MergeCount]]
        /\ \A r \in Sources : r # s => fw'[r] = fw[r]
        /\ UNCHANGED <<mNext, mOd, mCancelled, closed, mGot>>
    <3>1. /\ fw' = [fw EXCEPT ![s] = [pc |-> "done", v |-> 0]]
          /\ UNCHANGED <<mNext, mOd, mCancelled, closed, mGot>>
      BY <1>3 DEF Merging!GiveUp, Merging!RangeEnds, Merging!stageVars
    <3>2. ~mCancelled => fw[s].pc = "range" /\ mOd[s].pc = "closed"
      BY <1>3 DEF Merging!GiveUp, Merging!RangeEnds
    <3>3. QED
      BY <3>1, <3>2 DEF MergeInv
  <2>2. SourceInv(s)'
    BY <2>1, SourceTypes DEF SourceInv
  <2>3. MergeInv'
    BY <2>1, <2>2, OneSource DEF MergeInv
  <2>4. ~mCancelled => \A v \in 1..MergeCount : Coming(s, v) => Coming(s, v)'
    BY <2>1 DEF Coming
  <2>5. mNext[s] \in Nat /\ mNext' \in [Sources -> 1..(MergeCount + 1)]
        /\ (mOd[s].pc = "offer" => mOd[s].v \in Nat)
    BY <2>1 DEF MergeInv, Merging!StageStates
  <2>6. QED
    BY <2>1, <2>3, <2>4, <2>5, NothingArrives
<1>4. ASSUME NEW s \in Sources, Merging!Forward(s) PROVE MergeInv' /\ ArrivedInv'
  BY <1>4, OneArrives
<1>5. CASE Merging!Close
  BY <1>5 DEF Merging!Close, Merging!stageVars, MergeInv, SourceInv, ArrivedInv, Merging!SourceOrder, Coming
<1>6. CASE Merging!CancelCtx
  BY <1>6 DEF Merging!CancelCtx, Merging!Cancel, MergeInv, SourceInv, ArrivedInv, Merging!SourceOrder, Coming
<1>7. CASE UNCHANGED mVars
  BY <1>7 DEF mVars, MergeInv, SourceInv, ArrivedInv, Merging!SourceOrder, Coming
<1>8. QED
  BY <1>1, <1>2, <1>3, <1>4, <1>5, <1>6, <1>7
     DEF Merging!Next, Merging!FwStep, Merging!Finished, Merging!vars, mVars

\* Merge closes its result only when everything has arrived, and once each: as many
\* values as there are.
LEMMA AllArrived ==
    ASSUME MergeInv, ArrivedInv, closed, ~mCancelled
    PROVE  Len(mGot) = MergeCount * Cardinality(Sources)
<1> USE StagesAssumption
<1> DEFINE All == Sources \X (1..MergeCount)
<1>1. Len(mGot) \in Nat /\ DOMAIN mGot = 1..Len(mGot) /\ mGot \in [1..Len(mGot) -> All]
  BY DEF MergeInv
<1>2. \A e \in All : \E m \in 1..Len(mGot) : mGot[m] = e
  <2> SUFFICES ASSUME NEW e \in All PROVE \E m \in 1..Len(mGot) : mGot[m] = e
    OBVIOUS
  <2>1. PICK s \in Sources, v \in 1..MergeCount : e = <<s, v>>
    OBVIOUS
  <2>2. fw[s].pc = "done" /\ mOd[s].pc = "closed" /\ mNext[s] = MergeCount + 1
    BY SourceTypes DEF SourceInv
  <2>3. ~Coming(s, v)
    BY <2>2 DEF Coming
  <2>4. QED
    BY <1>1, <2>1, <2>3 DEF ArrivedInv
<1>3. \A m, n \in 1..Len(mGot) : mGot[m] = mGot[n] => m = n
  <2> SUFFICES ASSUME NEW m \in 1..Len(mGot), NEW n \in 1..Len(mGot), m < n, mGot[m] = mGot[n]
               PROVE  FALSE
    BY <1>1
  <2>1. mGot[m] \in All
    BY <1>1
  <2>2. mGot[m][2] < mGot[n][2] /\ mGot[m][2] \in Nat
    BY <1>1, <2>1 DEF ArrivedInv, Merging!SourceOrder
  <2>3. QED
    BY <2>2
<1>4. ExistsBijection(1..Len(mGot), All)
  BY <1>1, <1>2, <1>3 DEF ExistsBijection, Bijection, Injection, Surjection, IsInjective
<1>5. Cardinality(All) = Len(mGot)
  BY <1>1, <1>4, FS_CountingElements
<1>6. Cardinality(All) = Cardinality(Sources) * MergeCount
  <2>1. IsFiniteSet(1..MergeCount) /\ Cardinality(1..MergeCount) = MergeCount
    BY FS_Interval
  <2>2. QED
    BY <2>1, FS_Product
<1>7. Cardinality(Sources) \in Nat
  BY FS_CardinalityType
<1>8. QED
  BY <1>5, <1>6, <1>7

\* Merge has FiniteSets under a name of its own.
LEMMA SameCardinality == Merging!Cardinality(Sources) = Cardinality(Sources)
BY DEF Merging!Cardinality, Cardinality

\* syncx.FanOut and syncx.Merge behind OrDone, for any number of channels and
\* values: until ctx is cancelled every output of FanOut gets every value in order,
\* afterwards none twice or out of order; Merge keeps the order of each source, and
\* closes its result when all forwarders have returned, with nothing lost.
THEOREM StagesStayOrdered == MCSpec => []StagesOrdered
<1> DEFINE I == /\ FanInv /\ (\A i \in Outs : Received(i))
                /\ MergeInv /\ ArrivedInv
<1> USE StagesAssumption
<1>1. MCInit => I
  <2> SUFFICES ASSUME MCInit PROVE I
    OBVIOUS
  <2>1. FanInv
    <3>1. /\ fNext \in [{"src"} -> 1..(FanOutCount + 1)] /\ fNext["src"] = 1
          /\ fOd["src"] = [pc |-> "select", v |-> 0]
      BY DEF MCInit, Fan!Init, Fan!StageInit
    <3>2. fOd \in [{"src"} -> Fan!StageStates]
      BY DEF MCInit, Fan!Init, Fan!StageInit, Fan!StageStates
    <3>3. fGot \in [Outs -> Seq(1..FanOutCount)]
      BY DEF MCInit, Fan!Init
    <3>4. QED
      <4>1. fCancelled = FALSE /\ fo = "range" /\ val = 0 /\ sending = {}
        BY DEF MCInit, Fan!Init, Fan!StageInit
      <4>2. fOd["src"].pc = "select"
        BY <3>1
      <4>3. fCancelled \in BOOLEAN /\ ~fCancelled
        BY <4>1
      <4>4. val \in 0..FanOutCount /\ val < fNext["src"] /\ val = fNext["src"] - 1
        BY <3>1, <4>1
      <4>5. QED
        BY <3>1, <3>2, <3>3, <4>1, <4>2, <4>3, <4>4 DEF FanInv
  <2>2. \A i \in Outs : Received(i)
    BY DEF MCInit, Fan!Init, Received
  <2>3. MergeInv
    <3>1. \A s \in Sources : SourceInv(s)
      BY DEF MCInit, Merging!Init, Merging!StageInit, SourceInv
    <3>2. QED
      <4>1. /\ mNext \in [Sources -> 1..(MergeCount + 1)]
            /\ mOd \in [Sources -> Merging!StageStates]
        BY DEF MCInit, Merging!Init, Merging!StageInit, Merging!StageStates
      <4>2. fw \in [Sources -> [pc : {"range", "offer", "done"}, v : 0..MergeCount]]
        BY DEF MCInit, Merging!Init
      <4>3. mGot \in Seq(Sources \X (1..MergeCount))
        BY DEF MCInit, Merging!Init
      <4>4. QED
        BY <3>1, <4>1, <4>2, <4>3 DEF MCInit, Merging!Init, Merging!StageInit, MergeInv
  <2>4. ArrivedInv
    BY DEF MCInit, Merging!Init, Merging!StageInit, ArrivedInv, Merging!SourceOrder, Coming
  <2>5. QED
    BY <2>2, <2>3, <2>4, <2>1
<1>2. I /\ [MCNext]_<<which, vars, fVars, mVars, oVars, cVars>> => I'
  <2>1. [MCNext]_<<which, vars, fVars, mVars, oVars, cVars>> =>
           [Fan!Next]_fVars /\ [Merging!Next]_mVars
    BY DEF MCNext
  <2>2. QED
    BY <2>1, FanStep, MergeStep
<1>3. I => StagesOrdered
  <2> SUFFICES ASSUME I PROVE StagesOrdered
    OBVIOUS
  <2>1. Fan!TypeOK /\ Fan!EveryValueInOrder
    BY DEF FanInv, Received, Fan!TypeOK, Fan!StageTypeOK, Fan!EveryValueInOrder
  <2>2. Merging!TypeOK
    BY SourceTypes DEF MergeInv, SourceInv, Merging!TypeOK, Merging!StageTypeOK
  <2>3. Merging!SourceOrder /\ Merging!CloseIsLast
    <3>1. closed => \A s \in Sources : fw[s].pc = "done"
      BY SourceTypes DEF SourceInv
    <3>2. closed => mCancelled \/ Len(mGot) = MergeCount * Cardinality(Sources)
      BY AllArrived
    <3>3. QED
      BY <3>1, <3>2, SameCardinality DEF ArrivedInv, Merging!CloseIsLast
  <2>4. QED
    BY <2>1, <2>2, <2>3 DEF StagesOrdered
<1>4. QED
  BY <1>1, <1>2, <1>3, PTL DEF MCSpec
=============================================================================
