--------------------------- MODULE ConcurrentMap ---------------------------
(***************************************************************************)
(* syncx.ConcurrentMap: keys spread over shards, each behind its RWMutex.  *)
(* An operation on one key holds the lock of its shard only; Len, Range    *)
(* (and Keys and Values, which are Range) and Clear walk the shards one    *)
(* lock at a time, so writers come between.  Range runs its callback under *)
(* the read lock of the shard.                                             *)
(***************************************************************************)
EXTENDS Naturals, FiniteSets

CONSTANTS
    Keys, Vals,
    ShardCount,     \* m.size
    ShardOf,        \* hashKey(key) % size, in 1 .. ShardCount
    Writers,        \* goroutines that call Set, GetOrSet, GetAndDelete, Delete
    Walkers,        \* goroutines that call Len, Range and Clear
    NestedReads     \* Range's callback calls Get with the key it is given

VARIABLES
    pairs,          \* the contents of all shards, at most one pair per key
    pc,             \* "idle"; "lock" or "rlock" while it waits for the lock;
                    \* "walk" between two shards, "in" and "get" with read lock
    op,             \* of a writer: the operation that waits for the lock
    kind, at,       \* of a walker: which walk, and the shard that is next
    seen,           \* what the walk has counted, or given to its callback
    throughout,     \* history: pairs that were there during all of the walk...
    sometime        \* ... and at some time of it

mapVars == <<pairs, pc, op, kind, at, seen, throughout, sometime>>

NoOp == [do |-> "none"]
Ops == [do : {"set", "getOrSet", "getAndDelete", "delete"}, key : Keys, val : Vals]

\* getShard: the pairs of a shard.
Shard(s) == {e \in pairs : ShardOf[e[1]] = s}

Has(k) == \E e \in pairs : e[1] = k

\* Who has called Lock on s, and who holds its read lock.
Waiting(s) ==
    {p \in Writers : pc[p] = "lock" /\ ShardOf[op[p].key] = s}
    \union {p \in Walkers : pc[p] = "lock" /\ at[p] = s}
Readers(s) == {p \in Walkers : pc[p] \in {"in", "get"} /\ at[p] = s}

\* sync.RWMutex: Lock waits for the readers, RLock for whoever has called Lock,
\* and Unlock lets all in that wait in RLock, before the next writer.
CanLock(s) == Readers(s) = {}
CanRLock(s) == Waiting(s) = {}
Unlocked(p, s, then) ==
    pc' = [q \in DOMAIN pc |->
              IF q = p THEN then
              ELSE IF pc[q] = "rlock" /\ at[q] = s THEN "in"
              ELSE pc[q]]

Init ==
    /\ pairs = {}
    /\ pc = [p \in Writers \union Walkers |-> "idle"]
    /\ op = [p \in Writers |-> NoOp]
    /\ kind = [p \in Walkers |-> "none"]
    /\ at = [p \in Walkers |-> 1]
    /\ seen = [p \in Walkers |-> {}]
    /\ throughout = [p \in Walkers |-> {}]
    /\ sometime = [p \in Walkers |-> {}]

\* The contents change under the walks that are on their way.
Becomes(new) ==
    /\ pairs' = new
    /\ throughout' = [p \in Walkers |-> throughout[p] \intersect new]
    /\ sometime' = [p \in Walkers |->
           IF pc[p] = "idle" THEN {} ELSE sometime[p] \union new]

Without(k) == {e \in pairs : e[1] # k}

\* A writer calls Lock...
Call(p, o) ==
    /\ pc[p] = "idle"
    /\ pc' = [pc EXCEPT ![p] = "lock"]
    /\ op' = [op EXCEPT ![p] = o]
    /\ UNCHANGED <<pairs, kind, at, seen, throughout, sometime>>

\* ... gets it, does its work on the key, and unlocks.
Write(p) ==
    LET k == op[p].key
        do == op[p].do
    IN /\ pc[p] = "lock" /\ CanLock(ShardOf[k])
       /\ Becomes(CASE do = "getOrSet" /\ Has(k) -> pairs
                    [] do \in {"set", "getOrSet"} -> Without(k) \union {<<k, op[p].val>>}
                    [] OTHER -> Without(k))
       /\ Unlocked(p, ShardOf[k], "idle")
       /\ op' = [op EXCEPT ![p] = NoOp]
       /\ UNCHANGED <<kind, at, seen>>

\* Mutant: the walk begins behind the first shard.
BeginAtSecond(p, w) ==
    /\ pc[p] = "idle"
    /\ pc' = [pc EXCEPT ![p] = "walk"]
    /\ kind' = [kind EXCEPT ![p] = w]
    /\ at' = [at EXCEPT ![p] = 2]
    /\ seen' = [seen EXCEPT ![p] = {}]
    /\ throughout' = [throughout EXCEPT ![p] = pairs]
    /\ sometime' = [sometime EXCEPT ![p] = pairs]
    /\ UNCHANGED <<pairs, op>>

\* Len, Range or Clear begins.
Begin(p, w) ==
    /\ pc[p] = "idle"
    /\ pc' = [pc EXCEPT ![p] = "walk"]
    /\ kind' = [kind EXCEPT ![p] = w]
    /\ at' = [at EXCEPT ![p] = 1]
    /\ seen' = [seen EXCEPT ![p] = {}]
    /\ throughout' = [throughout EXCEPT ![p] = pairs]
    /\ sometime' = [sometime EXCEPT ![p] = pairs]
    /\ UNCHANGED <<pairs, op>>

OnWay(p) == pc[p] = "walk" /\ at[p] <= ShardCount

\* Clear: Lock, a new map for the shard, Unlock.
ClearCall(p) ==
    /\ OnWay(p) /\ kind[p] = "clear"
    /\ pc' = [pc EXCEPT ![p] = "lock"]
    /\ UNCHANGED <<pairs, op, kind, at, seen, throughout, sometime>>

ClearShard(p) ==
    /\ pc[p] = "lock" /\ CanLock(at[p])
    /\ Becomes(pairs \ Shard(at[p]))
    /\ Unlocked(p, at[p], "walk")
    /\ at' = [at EXCEPT ![p] = @ + 1]
    /\ UNCHANGED <<op, kind, seen>>

\* Len and Range: RLock...
RLock(p) ==
    /\ OnWay(p) /\ kind[p] # "clear"
    /\ pc' = [pc EXCEPT ![p] = IF CanRLock(at[p]) THEN "in" ELSE "rlock"]
    /\ UNCHANGED <<pairs, op, kind, at, seen, throughout, sometime>>

\* ... Len counts the shard, Range runs its callback once for every pair...
Visit(p) ==
    /\ pc[p] = "in"
    /\ \E es \in SUBSET (Shard(at[p]) \ seen[p]) :
          /\ es # {}
          /\ kind[p] = "len" => es = Shard(at[p])
          /\ kind[p] = "range" => Cardinality(es) = 1
          /\ seen' = [seen EXCEPT ![p] = @ \union es]
    /\ pc' = [pc EXCEPT ![p] =
                 IF NestedReads /\ kind[p] = "range" THEN "get" ELSE "in"]
    /\ UNCHANGED <<pairs, op, kind, at, throughout, sometime>>

\* (whose Get wants the read lock that Range holds already)
NestedGet(p) ==
    /\ pc[p] = "get" /\ CanRLock(at[p])
    /\ pc' = [pc EXCEPT ![p] = "in"]
    /\ UNCHANGED <<pairs, op, kind, at, seen, throughout, sometime>>

\* ... RUnlock, and the next shard.
RUnlock(p) ==
    /\ pc[p] = "in" /\ Shard(at[p]) \subseteq seen[p]
    /\ pc' = [pc EXCEPT ![p] = "walk"]
    /\ at' = [at EXCEPT ![p] = @ + 1]
    /\ UNCHANGED <<pairs, op, kind, seen, throughout, sometime>>

End(p) ==
    /\ pc' = [pc EXCEPT ![p] = "idle"]
    /\ kind' = [kind EXCEPT ![p] = "none"]
    /\ at' = [at EXCEPT ![p] = 1]
    /\ seen' = [seen EXCEPT ![p] = {}]
    /\ throughout' = [throughout EXCEPT ![p] = {}]
    /\ sometime' = [sometime EXCEPT ![p] = {}]
    /\ UNCHANGED <<pairs, op>>

\* The callback returns false: RUnlock and return.
Stopped(p) ==
    /\ pc[p] = "in" /\ kind[p] = "range" /\ ~(Shard(at[p]) \subseteq seen[p])
    /\ End(p)

Ended(p) == pc[p] = "walk" /\ at[p] > ShardCount
Return(p) == Ended(p) /\ End(p)

\* What a walk does once it has begun.
Step(p) ==
    \/ ClearCall(p) \/ ClearShard(p)
    \/ RLock(p) \/ Visit(p) \/ NestedGet(p) \/ RUnlock(p)
    \/ Return(p)

Next ==
    \/ \E p \in Writers : Write(p) \/ \E o \in Ops : Call(p, o)
    \/ \E p \in Walkers :
          \/ Step(p) \/ Stopped(p)
          \/ \E w \in {"len", "range", "clear"} : Begin(p, w)

\* Goroutines run, and sync.RWMutex hands its lock on.  A writer may be overtaken
\* by another one at the same lock, but not for ever.
Fairness ==
    /\ \A p \in Writers : SF_mapVars(Write(p))
    /\ \A p \in Walkers : SF_mapVars(ClearShard(p)) /\ WF_mapVars(Step(p))

Spec == Init /\ [][Next]_mapVars /\ Fairness

-----------------------------------------------------------------------------

TypeOK ==
    /\ pairs \subseteq Keys \X Vals
    /\ pc \in [Writers \union Walkers -> {"idle", "lock", "rlock", "walk", "in", "get"}]
    /\ at \in [Walkers -> 1 .. ShardCount + 1]

\* Although writers come between its shards, a walk that is not stopped sees
\* every pair that was there all the time, none that never was, and Len counts
\* accordingly; Clear leaves nothing that was there when it began, unless
\* somebody has stored it again.
WalkExact ==
    \A p \in Walkers : Ended(p) =>
        IF kind[p] = "clear" THEN throughout[p] = {}
        ELSE /\ throughout[p] \subseteq seen[p]
             /\ seen[p] \subseteq sometime[p]

\* "Each shard's read lock is held while that shard is traversed, so no writes
\* should be performed during the traversal" (concurrent_map.go:138): without
\* writes from the callback, every walk and every writer ends.
MapMoves ==
    \A p \in Writers \union Walkers : (pc[p] # "idle") ~> (pc[p] = "idle")
=============================================================================
