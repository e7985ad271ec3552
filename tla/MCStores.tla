------------------------------ MODULE MCStores ------------------------------
(***************************************************************************)
(* What is kept under a key for others to find, for TLC, one after the     *)
(* other: the lock in Redis, in a world where everything fails and in a    *)
(* timely one; a MemCache without a limit and one with; and two nodes with *)
(* a RedisCache.                                                           *)
(* which is the one that runs, the variables of the others keep their      *)
(* initial values.                                                         *)
(***************************************************************************)
EXTENDS RedisLock

CONSTANTS Nodes, Keys, Vals,
          Procs, NoProc, MemVals,
          LruProcs, LruKeys, LruLimit

\* notFoundPlaceholder, "*", is no JSON.
ASSUME ValsAssumption == Vals \intersect {"absent", "placeholder", "raw"} = {}

VARIABLES which,
          timely,               \* whether the world is timely
          redis, take, last,
          data, lru, recent, dead, scan, scanning, closed,
          pc, op, arg, out, flight

Free == INSTANCE MemCache WITH
    Vals <- MemVals, Limit <- 0, DefaultExpire <- TRUE

ASSUME LimitAssumption == LruLimit \in Nat \ {0}

Limited == INSTANCE MemCache WITH
    Procs <- LruProcs, Keys <- LruKeys, Vals <- MemVals, Limit <- LruLimit, DefaultExpire <- TRUE

Remote == INSTANCE RedisCache

lVars == <<timely, vars>>
rVars == <<redis, take, last>>
mVars == <<data, lru, recent, dead, scan, scanning, closed,
           pc, op, arg, out, flight>>

MCInit ==
    /\ which \in {"lock", "free", "limited", "redis"}
    /\ Init /\ timely \in BOOLEAN
    /\ Remote!Init
    /\ IF which = "limited" THEN Limited!Init ELSE Free!Init
    /\ which # "lock" => ~timely

\* Clients may have no further use for the lock.
Rests == which = "lock" /\ UNCHANGED <<which, lVars, rVars, mVars>>

MCNext ==
    \/ which = "lock" /\ timely /\ TimelyNext /\ UNCHANGED <<which, timely, rVars, mVars>>
    \/ which = "lock" /\ ~timely /\ Next /\ UNCHANGED <<which, timely, rVars, mVars>>
    \/ which = "free" /\ Free!Next /\ UNCHANGED <<which, lVars, rVars>>
    \/ which = "limited" /\ Limited!Next /\ UNCHANGED <<which, lVars, rVars>>
    \/ which = "redis" /\ Remote!Next /\ UNCHANGED <<which, lVars, mVars>>
    \/ Rests

\* The fairness of RedisLock, in the world that is not timely, and of MemCache, for
\* the unlimited one.
Fairness ==
    /\ WF_vars(which = "lock" /\ ~timely /\ Tick)
    /\ \A t \in Tokens :
          /\ SF_vars(which = "lock" /\ ~timely /\ RenewStop(t))
          /\ WF_vars(which = "lock" /\ ~timely /\ RenewTick(t))
          /\ WF_vars(which = "lock" /\ ~timely /\ RenewError(t))
    /\ WF_mVars(which = "free" /\ Free!ScanStep)
    /\ \A p \in Procs : WF_mVars(which = "free" /\ Free!ProcStep(p))

MCSpec == MCInit /\ [][MCNext]_<<which, lVars, rVars, mVars>> /\ Fairness

\* WithAutoRenew covers business logic of any length in a timely world.
TimelyHeldIsOwned == TypeOK /\ (timely => HeldIsOwned)

\* A renewal is given up only when the key is gone, and a key nobody holds any more
\* expires.
OrphansExpire == RenewalPersists /\ (~timely => OrphanExpires)

\* A placeholder never replaces a value that another node stores meanwhile.
PlaceholderYields == Remote!PlaceholderYields

\* Get and the scan delete only what has expired, although they look under one lock
\* and delete under another; the scan keeps expired entries from staying, and Take
\* returns when fetch does, although it fails.
MemCacheLive ==
    /\ [](which = "free" => Free!TypeOK)
    /\ [][which = "free" => Free!CollectsOnlyExpired]_mVars
    /\ which = "free" => Free!ExpiredCollected
    /\ \A p \in Procs :
          (which = "free" /\ pc[p] # "idle") ~> (which = "free" => pc[p] = "idle")

\* The map and the LRU list of a MemCache with a limit hold the same keys, at most
\* as many as the limit, the list is in the order of the last uses, and Get and the
\* scan delete only what has expired.
MemCacheExact ==
    /\ [](which = "limited" => Limited!TypeOK /\ Limited!MapMatchesLru /\ Limited!LruOrder)
    /\ [][which = "limited" => Limited!CollectsOnlyExpired]_mVars
=============================================================================
