----------------------------- MODULE RedisCache -----------------------------
(***************************************************************************)
(* cache.RedisCache on several nodes that share one Redis.  Each node has  *)
(* its own SingleFlight barrier, so per node and key there is at most one  *)
(* Take in flight (SingleFlight); callers that join it see its outcome.    *)
(* Any Redis command may fail, and a write that failed may have run.       *)
(***************************************************************************)
EXTENDS Naturals, FiniteSets

CONSTANTS
    Nodes,
    Keys,
    Vals        \* JSON values

VARIABLES
    redis,      \* key -> what Redis stores and whether it has a time to live
    take,       \* node -> key -> the flight of Take
    last        \* the last Get, Increment or Expire: what it saw and returned

vars == <<redis, take, last>>

\* "placeholder" is notFoundPlaceholder, "raw" a value some other component
\* wrote that is not JSON.
Contents == Vals \union {"absent", "placeholder", "raw"}
Slot == [is : Contents, mortal : BOOLEAN]
Gone == [is |-> "absent", mortal |-> FALSE]

\* Outcomes of Take: a value, ErrNotFound, another error of fetch, a Redis error.
Outcomes == Vals \union {"none", "notfound", "fetcherr", "rediserr"}
Flight == [pc : {"off", "get", "fetch", "store", "mark", "land"},
           out : Outcomes]
NoFlight == [pc |-> "off", out |-> "none"]
Results == {"ok", "notfound", "rediserr", "notnumber"}
Last == [op : {"none", "get", "incr", "expire", "del"}, saw : Contents, res : Results]

Init ==
    /\ redis = [k \in Keys |-> Gone]
    /\ take = [n \in Nodes |-> [k \in Keys |-> NoFlight]]
    /\ last = [op |-> "none", saw |-> "absent", res |-> "ok"]

-----------------------------------------------------------------------------
(* doGet. *)

\* A stored value that does not decode counts as a miss, and is left alone.
Readable(k) == redis[k].is \in Vals

Misses(k) == redis[k].is \in {"absent", "raw"}

Note(op, k, res) == last' = [op |-> op, saw |-> redis[k].is, res |-> res]

Get(k) ==
    /\ \/ Note("get", k, IF Readable(k) THEN "ok" ELSE "notfound")
       \/ Note("get", k, "rediserr")
    /\ UNCHANGED <<redis, take>>

-----------------------------------------------------------------------------
(* Writers outside Take. *)

SetEx(k, v) ==
    /\ redis' = [redis EXCEPT ![k] = [is |-> v, mortal |-> TRUE]]
    /\ UNCHANGED <<take, last>>

Delete(k) ==
    /\ redis' = [redis EXCEPT ![k] = Gone]
    /\ UNCHANGED <<take, last>>

\* Another component writes a raw string.
WriteRaw(k) ==
    /\ redis' = [redis EXCEPT ![k] = [is |-> "raw", mortal |-> FALSE]]
    /\ UNCHANGED <<take, last>>

\* A command that failed: Redis may have run it all the same.
Unanswered(op, k, after) ==
    /\ redis' \in {redis, after}
    /\ Note(op, k, "rediserr")
    /\ UNCHANGED take

\* INCRBY: creates the key without a time to live, keeps the one it has, and
\* refuses a value that is no integer.
Increment(k, v) ==
    \/ /\ redis[k].is \in Vals \union {"absent"}
       /\ redis' = [redis EXCEPT ![k].is = v]
       /\ Note("incr", k, "ok")
       /\ UNCHANGED take
    \/ /\ redis[k].is # "absent"
       /\ Note("incr", k, "notnumber")
       /\ UNCHANGED <<redis, take>>
    \/ /\ redis[k].is \in Vals \union {"absent"}
       /\ Unanswered("incr", k, [redis EXCEPT ![k].is = v])

\* Expire: DEL for ttl <= 0, EXPIRE otherwise.
Expire(k, ttl) ==
    \/ /\ ~ttl
       /\ redis' = [redis EXCEPT ![k] = Gone]
       /\ Note("del", k, "ok")
       /\ UNCHANGED take
    \/ /\ ttl
       /\ redis' = [redis EXCEPT ![k].mortal = redis[k].is # "absent"]
       /\ Note("expire", k, IF redis[k].is = "absent" THEN "notfound" ELSE "ok")
       /\ UNCHANGED take
    \/ /\ ttl
       /\ Unanswered("expire", k, [redis EXCEPT ![k].mortal = redis[k].is # "absent"])
    \/ /\ ~ttl
       /\ Unanswered("del", k, [redis EXCEPT ![k] = Gone])

\* Redis drops a key whose time to live is over.
Lapse(k) ==
    /\ redis[k].mortal
    /\ redis' = [redis EXCEPT ![k] = Gone]
    /\ UNCHANGED <<take, last>>

-----------------------------------------------------------------------------
(* Take, run by the leader of (n, k). *)

Go(n, k, from, to, out) ==
    /\ take[n][k].pc = from
    /\ take' = [take EXCEPT ![n][k] = [pc |-> to, out |-> out]]

TakeBegin(n, k) ==
    /\ Go(n, k, "off", "get", "none")
    /\ UNCHANGED <<redis, last>>

TakeHit(n, k) ==
    /\ Readable(k)
    /\ Go(n, k, "get", "land", redis[k].is)
    /\ UNCHANGED <<redis, last>>

TakeKnownAbsent(n, k) ==
    /\ redis[k].is = "placeholder"
    /\ Go(n, k, "get", "land", "notfound")
    /\ UNCHANGED <<redis, last>>

TakeMiss(n, k) ==
    /\ Misses(k)
    /\ Go(n, k, "get", "fetch", "none")
    /\ UNCHANGED <<redis, last>>

\* Fail fast.
TakeGetFails(n, k) ==
    /\ Go(n, k, "get", "land", "rediserr")
    /\ UNCHANGED <<redis, last>>

FetchOk(n, k, v) ==
    /\ Go(n, k, "fetch", "store", v)
    /\ UNCHANGED <<redis, last>>

FetchNotFound(n, k) ==
    /\ Go(n, k, "fetch", "mark", "notfound")
    /\ UNCHANGED <<redis, last>>

FetchFails(n, k) ==
    /\ Go(n, k, "fetch", "land", "fetcherr")
    /\ UNCHANGED <<redis, last>>

\* SetEx of the fetched value; a failure is logged, whether or not Redis ran
\* the command.
TakeStore(n, k) ==
    /\ Go(n, k, "store", "land", take[n][k].out)
    /\ \/ redis' = [redis EXCEPT ![k] = [is |-> take[n][k].out, mortal |-> TRUE]]
       \/ UNCHANGED redis
    /\ UNCHANGED last

\* Mutant: the placeholder is written with a plain SET.
TakeMarkOverwrites(n, k) ==
    /\ Go(n, k, "mark", "land", "notfound")
    /\ redis' = [redis EXCEPT ![k] = [is |-> "placeholder", mortal |-> TRUE]]
    /\ UNCHANGED last

\* setNotFound: SET NX, so it yields to whatever was written meanwhile.
TakeMark(n, k) ==
    /\ Go(n, k, "mark", "land", "notfound")
    /\ \/ /\ redis[k].is = "absent"
          /\ redis' = [redis EXCEPT ![k] = [is |-> "placeholder", mortal |-> TRUE]]
       \/ UNCHANGED redis
    /\ UNCHANGED last

TakeLand(n, k) ==
    /\ Go(n, k, "land", "off", "none")
    /\ UNCHANGED <<redis, last>>

-----------------------------------------------------------------------------

TakeStep(n, k) ==
    \/ TakeBegin(n, k) \/ TakeHit(n, k) \/ TakeKnownAbsent(n, k)
    \/ TakeMiss(n, k) \/ TakeGetFails(n, k)
    \/ FetchNotFound(n, k) \/ FetchFails(n, k) \/ \E v \in Vals : FetchOk(n, k, v)
    \/ TakeStore(n, k) \/ TakeMark(n, k) \/ TakeLand(n, k)

Next ==
    \/ \E n \in Nodes, k \in Keys : TakeStep(n, k)
    \/ \E k \in Keys :
          \/ Get(k) \/ Delete(k) \/ WriteRaw(k) \/ Lapse(k)
          \/ Expire(k, TRUE) \/ Expire(k, FALSE)
          \/ \E v \in Vals : SetEx(k, v) \/ Increment(k, v)

Spec == Init /\ [][Next]_vars

-----------------------------------------------------------------------------

TypeOK ==
    /\ redis \in [Keys -> Slot]
    /\ take \in [Nodes -> [Keys -> Flight]]
    /\ last \in Last

\* The not-found mark of one node never replaces a value that another node or
\* a writer stored while fetch was running.
PlaceholderYields ==
    [][\A k \in Keys :
          redis'[k].is = "placeholder" => redis[k].is \in {"absent", "placeholder"}]_vars

\* "A missing key is initialized to delta" (Increment): whenever Get would
\* answer ErrNotFound for want of data, Increment succeeds.
IncrementInitializes ==
    last.op = "incr" /\ last.saw \in {"absent", "placeholder"}
        => last.res \in {"ok", "rediserr"}

\* "A missing key returns ErrNotFound" (Expire), also for ttl <= 0.
ExpireReportsMissing ==
    last.op \in {"expire", "del"} /\ last.saw = "absent"
        => last.res \in {"notfound", "rediserr"}
=============================================================================
