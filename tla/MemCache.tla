------------------------------ MODULE MemCache ------------------------------
(***************************************************************************)
(* cache.MemCache: a map with lazy and scanned expiry, an optional LRU     *)
(* bound, and Take behind a SingleFlight barrier.                          *)
(*                                                                         *)
(* Time is abstracted to what the code asks of it: an entry never expires, *)
(* is fresh, or is past expireAt; Lapse moves it from one to the other, at *)
(* any moment (the jitter of unstable leaves the moment open).             *)
(***************************************************************************)
EXTENDS Naturals, Sequences, FiniteSets, SequencesExt

CONSTANTS
    Procs,          \* calling goroutines
    Keys,
    Vals,
    Limit,          \* WithLimit: 0 is unlimited (emptyLru, noLimit)
    DefaultExpire,  \* whether NewMemCache was given expire > 0
    NoProc

VARIABLES
    data,       \* c.data; exp = "none" is an absent key
    lru,        \* keyLru.evicts, front first
    recent,     \* history: every key by its last recorded use, latest first
    dead,       \* history: keys whose current value has been past its expireAt
    scan,       \* keys the running scan found past expireAt; {} between scans
    scanning,   \* scanExpired has read the clock and waits for the lock
    closed,     \* c.stop is closed
    pc, op, arg,  \* each goroutine: where it is, in which operation, its key
    out,        \* the value a Take leader carries, or its error
    flight      \* c.barrier: key -> leading goroutine

vars == <<data, lru, recent, dead, scan, scanning, closed, pc, op, arg, out, flight>>
procVars == <<pc, op, arg, out, flight>>
scanVars == <<scanning, closed>>

Err == "err"
Nil == "nil"
Entry == [val : Vals \union {Nil}, exp : {"none", "never", "fresh", "expired"}]
Absent == [val |-> Nil, exp |-> "none"]
PCs == {"idle",
        "read",     \* about to call doGet
        "upgrade",  \* noLimit: saw an expired entry under the read lock
        "join",     \* Take, before c.barrier.Do
        "wait",     \* waiting for the leader of the key
        "fetch",    \* leader, inside fetch
        "store",    \* leader, fetch has returned a value
        "land"}     \* leader, fn has returned

Present == {k \in Keys : data[k].exp # "none"}
IsExpired(k) == data[k].exp = "expired"

Init ==
    /\ data = [k \in Keys |-> Absent]
    /\ lru = <<>>
    /\ recent = <<>>
    /\ dead = {}
    /\ scan = {}
    /\ scanning = FALSE
    /\ closed = FALSE
    /\ pc = [p \in Procs |-> "idle"]
    /\ op = [p \in Procs |-> "get"]
    /\ arg \in [Procs -> Keys]
    /\ out = [p \in Procs |-> Nil]
    /\ flight = [k \in Keys |-> NoProc]

-----------------------------------------------------------------------------
(* keyLru. *)

\* The list after the removal of its elements in ks.
Without(s, ks) ==
    LET kept[n \in 0..Len(s)] ==
          IF n = 0 THEN <<>>
          ELSE IF s[n] \in ks THEN kept[n - 1] ELSE Append(kept[n - 1], s[n])
    IN  kept[Len(s)]

ToFront(s, k) == <<k>> \o Without(s, {k})

\* The key lru.add(k) evicts, if any.
Evicted(k) ==
    IF Limit > 0 /\ k \notin Range(lru) /\ Len(lru) >= Limit THEN {Last(lru)} ELSE {}

\* Mutant: a known key keeps its place in the list.
LruAddNoMove(k) ==
    IF Limit = 0 \/ k \in Range(lru) THEN lru
    ELSE Without(<<k>> \o lru, Evicted(k))

LruAdd(k) ==
    IF Limit = 0 THEN lru ELSE Without(ToFront(lru, k), Evicted(k))

LruDrop(ks) == Without(lru, ks)

\* data after k := e and lru.add(k), whose eviction calls back into data.
Stored(k, e) ==
    [x \in Keys |-> IF x = k THEN e ELSE IF x \in Evicted(k) THEN Absent ELSE data[x]]

Write(k, e) ==
    /\ data' = Stored(k, e)
    /\ lru' = LruAdd(k)
    /\ recent' = ToFront(recent, k)
    /\ dead' = dead \ ({k} \union Evicted(k))
    /\ scan' = scan \ {k}

Drop(ks) ==
    /\ data' = [k \in Keys |-> IF k \in ks THEN Absent ELSE data[k]]
    /\ lru' = LruDrop(ks)
    /\ dead' = dead \ ks
    /\ UNCHANGED recent

-----------------------------------------------------------------------------
(* Operations that are one critical section. *)

\* SetEx: a ttl <= 0 falls back to the default, which may be "never".
\* Set is SetEx with the default.
ExpiryFor(ttl) == IF ttl \/ DefaultExpire THEN "fresh" ELSE "never"

SetEx(k, v, ttl) ==
    /\ Write(k, [val |-> v, exp |-> ExpiryFor(ttl)])
    /\ UNCHANGED <<scanVars, procVars>>

Delete(ks) ==
    /\ Drop(ks)
    /\ UNCHANGED <<scan, scanVars, procVars>>

\* addDelta: a missing or expired key starts anew with the default expiry, a
\* numeric one keeps its expiry; addToValue refuses anything else.
Increment(k, v) ==
    /\ IF data[k].exp \in {"none", "expired"}
       THEN Write(k, [val |-> v, exp |-> ExpiryFor(FALSE)])
       ELSE Write(k, [data[k] EXCEPT !.val = v])
    /\ UNCHANGED <<scanVars, procVars>>

\* Expire looks at presence only, and does not touch the access order.
Expire(k, ttl) ==
    /\ k \in Present
    /\ IF ttl
       THEN /\ data' = [data EXCEPT ![k].exp = "fresh"]
            /\ scan' = scan \ {k}
            /\ UNCHANGED <<lru, recent, dead>>
       ELSE Drop({k}) /\ UNCHANGED scan
    /\ UNCHANGED <<scanVars, procVars>>

Lapse(k) ==
    /\ data[k].exp = "fresh"
    /\ data' = [data EXCEPT ![k].exp = "expired"]
    /\ dead' = dead \union {k}
    /\ UNCHANGED <<lru, recent, scan, scanVars, procVars>>

\* scanLoop: the clock is read before the lock is taken.
ScanBegin ==
    /\ DefaultExpire /\ ~closed /\ ~scanning
    /\ scanning' = TRUE
    /\ scan' = {k \in Keys : IsExpired(k)}
    /\ UNCHANGED <<data, lru, recent, dead, closed, procVars>>

ScanDelete ==
    /\ scanning
    /\ scanning' = FALSE
    /\ scan' = {}
    /\ Drop(scan)
    /\ UNCHANGED <<closed, procVars>>

\* Close (or the end of the construction context).
Close ==
    /\ ~closed
    /\ closed' = TRUE
    /\ UNCHANGED <<data, lru, recent, dead, scan, scanning, procVars>>

-----------------------------------------------------------------------------
(* Get, Take and the doGet inside them. *)

Call(p, k, o) ==
    /\ pc[p] = "idle"
    /\ pc' = [pc EXCEPT ![p] = "read"]
    /\ op' = [op EXCEPT ![p] = o]
    /\ arg' = [arg EXCEPT ![p] = k]
    /\ UNCHANGED <<data, lru, recent, dead, scan, scanVars, out, flight>>

\* What follows doGet: Get returns; Take goes on to the barrier on a miss; the
\* leader's second look ends the flight or starts the fetch.
Hit(p, v) ==
    /\ pc' = [pc EXCEPT ![p] = IF op[p] = "lead" THEN "land" ELSE "idle"]
    /\ out' = [out EXCEPT ![p] = IF op[p] = "lead" THEN v ELSE @]
Missed(p) ==
    /\ pc' = [pc EXCEPT ![p] = CASE op[p] = "get" -> "idle"
                                 [] op[p] = "take" -> "join"
                                 [] op[p] = "lead" -> "fetch"]
    /\ UNCHANGED out

\* With a limit: one critical section under the write lock.
DoGetLru(p) ==
    LET k == arg[p] IN
    /\ Limit > 0 /\ pc[p] = "read"
    /\ IF k \in Present /\ ~IsExpired(k)
       THEN /\ lru' = LruAdd(k)
            /\ recent' = ToFront(recent, k)
            /\ Hit(p, data[k].val)
            /\ UNCHANGED <<data, dead>>
       ELSE Drop({k}) /\ Missed(p)
    /\ UNCHANGED <<scan, scanVars, op, arg, flight>>

\* Without: a read-locked look...
DoGetRead(p) ==
    LET k == arg[p] IN
    /\ Limit = 0 /\ pc[p] = "read"
    /\ \/ k \in Present /\ ~IsExpired(k) /\ Hit(p, data[k].val)
       \/ k \notin Present /\ Missed(p)
       \/ IsExpired(k) /\ pc' = [pc EXCEPT ![p] = "upgrade"] /\ UNCHANGED out
    /\ UNCHANGED <<data, lru, recent, dead, scan, scanVars, op, arg, flight>>

\* ... and, for an expired entry, a second look under the write lock: it may be
\* gone or have been written again in between.
DoGetUpgrade(p) ==
    LET k == arg[p] IN
    /\ pc[p] = "upgrade"
    /\ IF k \in Present /\ ~IsExpired(k)
       THEN Hit(p, data[k].val) /\ UNCHANGED <<data, lru, recent, dead>>
       ELSE Drop({k}) /\ Missed(p)
    /\ UNCHANGED <<scan, scanVars, op, arg, flight>>

TakeLead(p) ==
    LET k == arg[p] IN
    /\ pc[p] = "join"
    /\ flight[k] = NoProc
    /\ flight' = [flight EXCEPT ![k] = p]
    /\ op' = [op EXCEPT ![p] = "lead"]
    /\ pc' = [pc EXCEPT ![p] = "read"]
    /\ UNCHANGED <<data, lru, recent, dead, scan, scanVars, arg, out>>

TakeWait(p) ==
    /\ pc[p] = "join"
    /\ flight[arg[p]] # NoProc
    /\ pc' = [pc EXCEPT ![p] = "wait"]
    /\ UNCHANGED <<data, lru, recent, dead, scan, scanVars, op, arg, out, flight>>

FetchOk(p, v) ==
    /\ pc[p] = "fetch"
    /\ pc' = [pc EXCEPT ![p] = "store"]
    /\ out' = [out EXCEPT ![p] = v]
    /\ UNCHANGED <<data, lru, recent, dead, scan, scanVars, op, arg, flight>>

FetchErr(p) ==
    /\ pc[p] = "fetch"
    /\ pc' = [pc EXCEPT ![p] = "land"]
    /\ out' = [out EXCEPT ![p] = Err]
    /\ UNCHANGED <<data, lru, recent, dead, scan, scanVars, op, arg, flight>>

\* c.Set of the fetched value: it overwrites whatever is there by now.
TakeStore(p) ==
    /\ pc[p] = "store"
    /\ pc' = [pc EXCEPT ![p] = "land"]
    /\ Write(arg[p], [val |-> out[p], exp |-> ExpiryFor(FALSE)])
    /\ UNCHANGED <<scanVars, op, arg, out, flight>>

\* Mutant: only the leader gets the result.
TakeLandAlone(p) ==
    /\ pc[p] = "land"
    /\ pc' = [pc EXCEPT ![p] = "idle"]
    /\ out' = [out EXCEPT ![p] = Nil]
    /\ flight' = [flight EXCEPT ![arg[p]] = NoProc]
    /\ UNCHANGED <<data, lru, recent, dead, scan, scanVars, op, arg>>

\* The flight ends: leader and waiters return its outcome (SingleFlight).
TakeLand(p) ==
    LET done == {q \in Procs : q = p \/ (pc[q] = "wait" /\ arg[q] = arg[p])} IN
    /\ pc[p] = "land"
    /\ pc' = [q \in Procs |-> IF q \in done THEN "idle" ELSE pc[q]]
    /\ out' = [out EXCEPT ![p] = Nil]
    /\ flight' = [flight EXCEPT ![arg[p]] = NoProc]
    /\ UNCHANGED <<data, lru, recent, dead, scan, scanVars, op, arg>>

-----------------------------------------------------------------------------

ProcStep(p) ==
    \/ DoGetLru(p) \/ DoGetRead(p) \/ DoGetUpgrade(p)
    \/ TakeLead(p) \/ TakeWait(p) \/ TakeStore(p) \/ TakeLand(p)
    \/ FetchErr(p)
    \/ \E v \in Vals : FetchOk(p, v)

ScanStep == ScanBegin \/ ScanDelete

Next ==
    \/ \E k \in Keys, v \in Vals :
          Increment(k, v) \/ \E ttl \in BOOLEAN : SetEx(k, v, ttl)
    \/ \E k \in Keys :
          Delete({k}) \/ Lapse(k) \/ \E ttl \in BOOLEAN : Expire(k, ttl)
    \/ \E p \in Procs, k \in Keys : Call(p, k, "get") \/ Call(p, k, "take")
    \/ \E p \in Procs : ProcStep(p)
    \/ ScanStep
    \/ Close

Spec == Init /\ [][Next]_vars

\* Goroutines run, fetch ends, and the scan ticker keeps firing.
FairSpec ==
    /\ Spec
    /\ WF_vars(ScanStep)
    /\ \A p \in Procs : WF_vars(ProcStep(p))

-----------------------------------------------------------------------------

TypeOK ==
    /\ data \in [Keys -> Entry]
    /\ \A k \in Keys : data[k].exp = "none" <=> data[k] = Absent
    /\ lru \in Seq(Keys) /\ recent \in Seq(Keys)
    /\ scan \subseteq Keys /\ dead \subseteq Present
    /\ scanning \in BOOLEAN /\ closed \in BOOLEAN
    /\ pc \in [Procs -> PCs]
    /\ op \in [Procs -> {"get", "take", "lead"}]
    /\ arg \in [Procs -> Keys]
    /\ out \in [Procs -> Vals \union {Nil, Err}]
    /\ flight \in [Keys -> Procs \union {NoProc}]

\* The map and the list of the bounded cache never drift apart, whichever of
\* expiry, deletion, scan, eviction and rewriting removed or added a key, and
\* the cache never outgrows its limit.
MapMatchesLru ==
    Limit > 0 => /\ Range(lru) = Present
                 /\ Len(lru) = Cardinality(Present)
                 /\ Len(lru) <= Limit

\* "Beyond it the least recently used key is evicted" (WithLimit): the list is
\* the order of the last recorded uses of the keys still cached.
LruOrder ==
    Limit > 0 => lru = Without(recent, Keys \ Present)

\* Readers, scans and lazy deletion remove only what has expired: an entry that
\* is not past its expireAt when the lock is taken survives, even if it was
\* rewritten between an observation and the deletion it led to.
CollectsOnlyExpired ==
    \A k \in Keys :
        (data[k].exp \in {"fresh", "never"} /\ data'[k].exp = "none")
            => ~(ScanDelete \/ \E p \in Procs : DoGetRead(p) \/ DoGetUpgrade(p)
                                                \/ DoGetLru(p))

\* Of every step.
OnlyExpiredCollected == [][CollectsOnlyExpired]_vars

\* Get "returns ErrNotFound ... when the entry has expired", and Expire on "a
\* missing key returns ErrNotFound": an expired entry comes back only by being
\* written anew.
ExpiredStaysExpired == \A k \in dead : data[k].exp = "expired"

\* The periodic scan keeps expired keys "from lingering": each is collected or
\* replaced unless the cache has been closed.
ExpiredCollected ==
    \A k \in Keys : IsExpired(k) ~> (~IsExpired(k) \/ closed)

\* No Take is left behind at the barrier, even if fetch fails.
TakeReturns == \A p \in Procs : pc[p] # "idle" ~> pc[p] = "idle"
=============================================================================
