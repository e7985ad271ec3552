----------------------------- MODULE RedisLock -----------------------------
(***************************************************************************)
(* redisx.Lock: one lock key in Redis, acquired with SET NX PX, renewed    *)
(* and released by scripts that compare the caller's token.  Each TryLock  *)
(* draws a fresh token, so a token stands for one attempt: its business    *)
(* goroutine (lk) and its renewal goroutine (rn).  Requests and replies    *)
(* travel separately: they may be delayed, lost, or, for requests, sent    *)
(* again by the go-redis client.  The Redis server is external.            *)
(***************************************************************************)
EXTENDS Naturals, FiniteSets

CONSTANTS
    Tokens,     \* one per TryLock attempt
    NoToken,    \* the key is absent
    TTL,        \* lc.ttl in ticks; a tick is minLockTTL
    AutoRenew   \* lc.autoRenew

ASSUME TokenAssumption == NoToken \notin Tokens
ASSUME TTLAssumption == TTL \in Nat \ {0}     \* validateLockTTL
ASSUME AutoRenewAssumption == AutoRenew \in BOOLEAN

VARIABLES
    owner,      \* value of the key
    left,       \* ticks until the key expires
    lk,         \* business goroutine of each attempt
    rn,         \* renewLoop of each attempt
    wait,       \* ticks until its ticker fires
    net,        \* requests on their way to Redis
    rep         \* replies on their way back

vars == <<owner, left, lk, rn, wait, net, rep>>

\* Mutant: the ticker runs with the TTL itself.
IntervalWholeTTL == TTL

\* The interval of renewLoop: ttl/3, at least minLockTTL.
Interval == IF TTL \div 3 < 1 THEN 1 ELSE TTL \div 3

LkStates == {"unused", "asking", "failed", "held", "releasing", "released",
             "mismatch",   \* Unlock returned ErrLockOwnershipMismatch
             "unsure",     \* Unlock returned an error
             "crashed"}
Ops == {"setnx", "renew", "del"}
Requests == [op : Ops, tok : Tokens]
Replies == [op : Ops, tok : Tokens, ok : BOOLEAN]

\* Somebody waits for the reply to such a command.
Waiting(op, t) ==
    \/ op = "setnx" /\ lk[t] = "asking"
    \/ op = "renew" /\ rn[t] = "asked"
    \/ op = "del" /\ lk[t] = "releasing"

Req(op, t) == [op |-> op, tok |-> t]
Rep(op, t, ok) == [op |-> op, tok |-> t, ok |-> ok]

\* Once a command has returned, further replies to it find a closed connection.
Without(op, t) == {r \in rep : ~(r.op = op /\ r.tok = t)}
Answer(op, t, ok) ==
    rep' = IF Waiting(op, t) THEN rep \union {Rep(op, t, ok)} ELSE rep

Init ==
    /\ owner = NoToken
    /\ left = 0
    /\ lk = [t \in Tokens |-> "unused"]
    /\ rn = [t \in Tokens |-> "off"]
    /\ wait = [t \in Tokens |-> 0]
    /\ net = {}
    /\ rep = {}

-----------------------------------------------------------------------------
(* TryLock. *)

Ask(t) ==
    /\ lk[t] = "unused"
    /\ lk' = [lk EXCEPT ![t] = "asking"]
    /\ net' = net \union {Req("setnx", t)}
    /\ UNCHANGED <<owner, left, rn, wait, rep>>

Acquired(t) ==
    /\ lk[t] = "asking"
    /\ Rep("setnx", t, TRUE) \in rep
    /\ rep' = Without("setnx", t)
    /\ lk' = [lk EXCEPT ![t] = "held"]
    /\ IF AutoRenew
       THEN /\ rn' = [rn EXCEPT ![t] = "idle"]
            /\ wait' = [wait EXCEPT ![t] = Interval]
       ELSE UNCHANGED <<rn, wait>>
    /\ UNCHANGED <<owner, left, net>>

\* ErrLockNotAcquired: Lock retries after its ticker, with another token.
NotAcquired(t) ==
    /\ lk[t] = "asking"
    /\ Rep("setnx", t, FALSE) \in rep
    /\ rep' = Without("setnx", t)
    /\ lk' = [lk EXCEPT ![t] = "failed"]
    /\ UNCHANGED <<owner, left, rn, wait, net>>

\* SetNX returned an error: no reply in time, or ctx ended.
AskError(t) ==
    /\ lk[t] = "asking"
    /\ lk' = [lk EXCEPT ![t] = "failed"]
    /\ rep' = Without("setnx", t)
    /\ UNCHANGED <<owner, left, rn, wait, net>>

-----------------------------------------------------------------------------
(* renewLoop. *)

\* The ticker fires.  select may prefer it to a done channel that is closed.
RenewTick(t) ==
    /\ rn[t] = "idle"
    /\ wait[t] = 0
    /\ rn' = [rn EXCEPT ![t] = "asked"]
    /\ wait' = [wait EXCEPT ![t] = Interval]
    /\ net' = net \union {Req("renew", t)}
    /\ UNCHANGED <<owner, left, lk, rep>>

\* A zero result ends the loop: somebody else holds the key, or nobody.
RenewReply(t, ok) ==
    /\ rn[t] = "asked"
    /\ Rep("renew", t, ok) \in rep
    /\ rep' = Without("renew", t)
    /\ rn' = [rn EXCEPT ![t] = IF ok THEN "idle" ELSE "off"]
    /\ UNCHANGED <<owner, left, lk, wait, net>>

\* An error is logged and the loop keeps trying.
RenewError(t) ==
    /\ rn[t] = "asked"
    /\ rn' = [rn EXCEPT ![t] = "idle"]
    /\ rep' = Without("renew", t)
    /\ UNCHANGED <<owner, left, lk, wait, net>>

\* Mutant: Unlock closes done only after Redis has answered.
RenewStopAfterReply(t) ==
    /\ rn[t] = "idle"
    /\ lk[t] \in {"released", "mismatch"}
    /\ rn' = [rn EXCEPT ![t] = "off"]
    /\ UNCHANGED <<owner, left, lk, wait, net, rep>>

\* <-l.done, closed by Unlock.
RenewStop(t) ==
    /\ rn[t] = "idle"
    /\ lk[t] \in {"releasing", "released", "mismatch", "unsure"}
    /\ rn' = [rn EXCEPT ![t] = "off"]
    /\ UNCHANGED <<owner, left, lk, wait, net, rep>>

\* <-l.ctx.Done(): renewal ends although the caller may still hold the lock.
RenewCtxDone(t) ==
    /\ rn[t] = "idle"
    /\ rn' = [rn EXCEPT ![t] = "off"]
    /\ UNCHANGED <<owner, left, lk, wait, net, rep>>

-----------------------------------------------------------------------------
(* Unlock; SetNXWithLock calls it when fn returns. *)

\* A caller may call Unlock again after an error; doneOnce allows it.
Unlock(t) ==
    /\ lk[t] \in {"held", "unsure"}
    /\ lk' = [lk EXCEPT ![t] = "releasing"]
    /\ net' = net \union {Req("del", t)}
    /\ UNCHANGED <<owner, left, rn, wait, rep>>

UnlockReply(t, ok) ==
    /\ lk[t] = "releasing"
    /\ Rep("del", t, ok) \in rep
    /\ rep' = Without("del", t)
    /\ lk' = [lk EXCEPT ![t] = IF ok THEN "released" ELSE "mismatch"]
    /\ UNCHANGED <<owner, left, rn, wait, net>>

UnlockError(t) ==
    /\ lk[t] = "releasing"
    /\ lk' = [lk EXCEPT ![t] = "unsure"]
    /\ rep' = Without("del", t)
    /\ UNCHANGED <<owner, left, rn, wait, net>>

-----------------------------------------------------------------------------
(* Redis and the network (external). *)

\* Mutant: Unlock deletes the key without comparing the token.
ScriptIgnoresToken(op, t) == op = "del" \/ owner = t

\* Both scripts act only when the key still holds the caller's token.
ScriptMatches(op, t) == owner = t

RunSetNX(t) ==
    /\ owner' = IF owner = NoToken THEN t ELSE owner
    /\ left' = IF owner = NoToken THEN TTL ELSE left
    /\ Answer("setnx", t, owner = NoToken)

RunRenew(t) ==
    /\ owner' = owner
    /\ left' = IF ScriptMatches("renew", t) THEN TTL ELSE left
    /\ Answer("renew", t, ScriptMatches("renew", t))

RunDel(t) ==
    /\ owner' = IF ScriptMatches("del", t) THEN NoToken ELSE owner
    /\ left' = IF ScriptMatches("del", t) THEN 0 ELSE left
    /\ Answer("del", t, ScriptMatches("del", t))

Run(r) ==
    /\ r \in net
    /\ net' = net \ {r}
    /\ \/ r.op = "setnx" /\ RunSetNX(r.tok)
       \/ r.op = "renew" /\ RunRenew(r.tok)
       \/ r.op = "del" /\ RunDel(r.tok)
    /\ UNCHANGED <<lk, rn, wait>>

Lose(r) ==
    /\ r \in net
    /\ net' = net \ {r}
    /\ UNCHANGED <<owner, left, lk, rn, wait, rep>>

\* go-redis repeats a command whose reply it did not get.
Resend(op, t) ==
    /\ Waiting(op, t)
    /\ net' = net \union {Req(op, t)}
    /\ rep' = Without(op, t)
    /\ UNCHANGED <<owner, left, lk, rn, wait>>

Crash(t) ==
    /\ lk[t] \in {"asking", "held", "releasing"}
    /\ lk' = [lk EXCEPT ![t] = "crashed"]
    /\ rn' = [rn EXCEPT ![t] = "off"]
    /\ rep' = {r \in rep : r.tok # t}
    /\ UNCHANGED <<owner, left, wait, net>>

\* A tick of time: tickers advance, and the key expires when its time is up.
Tick ==
    /\ \E t \in Tokens : lk[t] # "unused"
    /\ wait' = [t \in Tokens |-> IF wait[t] > 0 THEN wait[t] - 1 ELSE 0]
    /\ left' = IF left > 0 THEN left - 1 ELSE 0
    /\ owner' = IF left <= 1 THEN NoToken ELSE owner
    /\ UNCHANGED <<lk, rn, net, rep>>

-----------------------------------------------------------------------------

ClientStep(t) ==
    \/ Ask(t) \/ Acquired(t) \/ NotAcquired(t)
    \/ RenewTick(t) \/ RenewStop(t)
    \/ \E ok \in BOOLEAN : RenewReply(t, ok) \/ UnlockReply(t, ok)
    \/ Unlock(t)

Failure(t) ==
    \/ AskError(t) \/ RenewError(t) \/ UnlockError(t) \/ RenewCtxDone(t) \/ Crash(t)
    \/ \E op \in Ops : Resend(op, t)

Next ==
    \/ \E t \in Tokens : ClientStep(t) \/ Failure(t)
    \/ \E r \in Requests : Run(r) \/ Lose(r)
    \/ Tick

Spec == Init /\ [][Next]_vars

\* Redis keeps time, and renewal goroutines that may run do.  select picks at
\* random among ready channels, so a closed done channel wins in the end even if
\* the ticker keeps firing: strong fairness.
FairSpec ==
    /\ Spec
    /\ WF_vars(Tick)
    /\ \A t \in Tokens :
          /\ SF_vars(RenewStop(t)) /\ WF_vars(RenewTick(t))
          /\ WF_vars(RenewError(t))

\* A timely world: nothing fails, and whatever can be delivered, answered or
\* renewed is, before time moves on.
Due ==
    \/ net # {} \/ rep # {}
    \/ \E t \in Tokens : rn[t] = "idle" /\ wait[t] = 0

TimelyNext ==
    \/ \E t \in Tokens : ClientStep(t)
    \/ \E r \in Requests : Run(r)
    \/ ~Due /\ Tick

TimelySpec == Init /\ [][TimelyNext]_vars

-----------------------------------------------------------------------------

TypeOK ==
    /\ owner \in Tokens \union {NoToken}
    /\ left \in 0..TTL
    /\ owner = NoToken <=> left = 0
    /\ lk \in [Tokens -> LkStates]
    /\ rn \in [Tokens -> {"off", "idle", "asked"}]
    /\ wait \in [Tokens -> 0..Interval]
    /\ net \subseteq Requests
    /\ rep \subseteq Replies

\* How far an attempt is, to those who only know the lease.
Use(state) ==
    IF state = "unused" THEN "before"
    ELSE IF state \in {"asking", "held"} THEN "during" ELSE "after"

L == INSTANCE Lease WITH
    Clients <- Tokens, NoOne <- NoToken, Term <- TTL, use <- [t \in Tokens |-> Use(lk[t])]

\* "Only the owner of the lock can release it" (Unlock), and nothing takes the key
\* over: whatever is late, repeated or lost, the key is a lease.  A release or a
\* renewal that comes when the key belongs to somebody else leaves it and its expiry
\* as they are, a renewal does not bring a key back, and no key is deleted while its
\* owner is at work.
ImplementsLease == L!Spec

\* In the timely world a caller that holds a Lock owns the key: mutual
\* exclusion for as long as it likes ("business logic that runs longer than the
\* lock expiry is covered", WithAutoRenew).
HeldIsOwned == \A t \in Tokens : lk[t] = "held" => owner = t

\* "If Redis stays unavailable ... the lock expires", and so does one left by a
\* crash, by an Unlock that failed, or by a SET whose reply never came: a key
\* nobody holds any more does not stay.
OrphanExpires ==
    \A t \in Tokens :
        [](lk[t] \in {"failed", "released", "mismatch", "unsure", "crashed"})
            ~> (owner # t)

\* A renewal failure is retried: while the lock is held and its context lives,
\* only a reply of zero ends the renewal.
RenewalPersists ==
    [][\A t \in Tokens :
          lk[t] = "held" /\ rn[t] = "asked" /\ rn'[t] = "off" /\ lk'[t] = "held"
              => Rep("renew", t, FALSE) \in rep]_vars
=============================================================================
