---------------------------- MODULE StoresProof ----------------------------
(***************************************************************************)
(* redisx.Lock implements Lease, for any number of attempts and any TTL;   *)
(* and in a timely world whoever holds the lock owns the key, for every    *)
(* TTL but the smallest.  The first invariant says what may be on its way  *)
(* to Redis: nothing of an attempt that has not begun, and a release only  *)
(* of one that is over.  And RedisCache never lets a placeholder replace a *)
(* value, for any number of instances and callers.  Last, a MemCache with  *)
(* a limit: that its map and its LRU list never drift apart rests on       *)
(* lemmas about lists without some of their elements, by induction over    *)
(* the list.                                                               *)
(***************************************************************************)
EXTENDS MCStores, FiniteSetTheorems, SequenceTheorems, NaturalsInduction, WellFoundedInduction,
        TLAPS

USE TokenAssumption, TTLAssumption, AutoRenewAssumption

\* The requests of an attempt are not ahead of it.
NetBehind ==
    \A r \in net :
        /\ lk[r.tok] # "unused"
        /\ r.op = "del" => Use(lk[r.tok]) = "after"

IInv ==
    /\ owner \in Tokens \union {NoToken}
    /\ left \in 0..TTL
    /\ owner = NoToken <=> left = 0
    /\ lk \in [Tokens -> LkStates]
    /\ rn \in [Tokens -> {"off", "idle", "asked"}]
    /\ net \subseteq Requests
    /\ \A t \in Tokens : rn[t] # "off" => lk[t] # "unused"
    /\ NetBehind

\* An attempt that goes on is the beginning or the end of a use, or neither.
LEMMA Progress ==
    ASSUME IInv, NEW t \in Tokens, NEW s \in LkStates, lk' = [lk EXCEPT ![t] = s],
           UNCHANGED <<owner, left>>,
           \/ Use(s) = Use(lk[t])
           \/ Use(lk[t]) = "before" /\ Use(s) = "during"
           \/ Use(lk[t]) = "during" /\ Use(s) = "after"
    PROVE  [L!Next]_L!vars
<1> DEFINE use == [x \in Tokens |-> Use(lk[x])]
<1> DEFINE usep == [x \in Tokens |-> Use(lk'[x])]
<1>1. usep = [use EXCEPT ![t] = Use(s)]
  BY DEF IInv
<1>2. CASE Use(s) = Use(lk[t])
  <2>1. usep = use
    BY <1>1, <1>2
  <2> QED BY <2>1 DEF L!vars
<1>3. CASE Use(lk[t]) = "before" /\ Use(s) = "during"
  <2>1. L!Begin(t)
    BY <1>1, <1>3 DEF L!Begin
  <2> QED BY <2>1 DEF L!Next
<1>4. CASE Use(lk[t]) = "during" /\ Use(s) = "after"
  <2>1. L!End(t)
    BY <1>1, <1>4 DEF L!End
  <2> QED BY <2>1 DEF L!Next
<1> QED BY <1>2, <1>3, <1>4

\* What the business goroutine of an attempt does.
Business(t) ==
    \/ Ask(t) \/ Acquired(t) \/ NotAcquired(t) \/ AskError(t)
    \/ Unlock(t) \/ UnlockError(t) \/ Crash(t)
    \/ \E ok \in BOOLEAN : UnlockReply(t, ok)

\* What its renewal goroutine and go-redis do.
Renewal(t) ==
    \/ RenewTick(t) \/ RenewStop(t) \/ RenewError(t) \/ RenewCtxDone(t)
    \/ \E ok \in BOOLEAN : RenewReply(t, ok)
    \/ \E o \in Ops : Resend(o, t)

LEMMA BusinessStep ==
    ASSUME IInv, NEW t \in Tokens, Business(t)
    PROVE  IInv' /\ [L!Next]_L!vars
<1>1. UNCHANGED <<owner, left>>
  BY DEF Business, Ask, Acquired, NotAcquired, AskError, Unlock, UnlockError, Crash, UnlockReply
<1>2. PICK s \in LkStates :
        /\ lk' = [lk EXCEPT ![t] = s]
        /\ \/ lk[t] = "unused" /\ s = "asking"
           \/ lk[t] = "asking" /\ s = "held"
           \/ Use(lk[t]) # "before" /\ Use(s) = "after"
  BY DEF Business, Ask, Acquired, NotAcquired, AskError, Unlock, UnlockError, Crash, UnlockReply,
         LkStates, Use
<1>3. lk[t] \in LkStates
  BY DEF IInv
<1>4. [L!Next]_L!vars
  <2>1. \/ Use(s) = Use(lk[t])
        \/ Use(lk[t]) = "before" /\ Use(s) = "during"
        \/ Use(lk[t]) = "during" /\ Use(s) = "after"
    BY <1>2, <1>3 DEF Use, LkStates
  <2> QED BY <1>1, <1>2, <2>1, Progress
<1>5. rn' \in [Tokens -> {"off", "idle", "asked"}] /\ \A x \in Tokens : rn'[x] # "off" => lk'[x] # "unused"
  BY DEF Business, Ask, Acquired, NotAcquired, AskError, Unlock, UnlockError, Crash, UnlockReply,
         IInv, LkStates
<1>6. net' \subseteq Requests /\ NetBehind'
  <2>1. \/ net' = net
        \/ s = "asking" /\ net' = net \union {Req("setnx", t)}
        \/ s = "releasing" /\ net' = net \union {Req("del", t)}
    BY <1>2 DEF Business, Ask, Acquired, NotAcquired, AskError, Unlock, UnlockError, Crash,
                UnlockReply, IInv, LkStates
  <2>2. \A r \in net : lk'[r.tok] # "unused" /\ (Use(lk[r.tok]) = "after" => Use(lk'[r.tok]) = "after")
    BY <1>2 DEF IInv, NetBehind, Requests, Use
  <2> QED BY <1>2, <2>1, <2>2 DEF IInv, NetBehind, Requests, Req, Ops, Use
<1> QED BY <1>1, <1>2, <1>4, <1>5, <1>6 DEF IInv

LEMMA RenewalStep ==
    ASSUME IInv, NEW t \in Tokens, Renewal(t)
    PROVE  IInv' /\ [L!Next]_L!vars
<1>1. UNCHANGED <<owner, left, lk>>
  BY DEF Renewal, RenewTick, RenewStop, RenewError, RenewCtxDone, RenewReply, Resend
<1>2. rn' \in [Tokens -> {"off", "idle", "asked"}] /\ \A x \in Tokens : rn'[x] # "off" => rn[x] # "off"
  BY DEF Renewal, RenewTick, RenewStop, RenewError, RenewCtxDone, RenewReply, Resend, IInv
<1>3. net' \subseteq Requests /\ NetBehind'
  <2>1. CASE RenewTick(t)
    BY <2>1 DEF RenewTick, IInv, NetBehind, Requests, Req, Ops
  <2>2. ASSUME NEW o \in Ops, Resend(o, t) PROVE net' \subseteq Requests /\ NetBehind'
    <3>1. lk[t] # "unused" /\ (o = "del" => Use(lk[t]) = "after")
      BY <2>2 DEF Resend, Waiting, IInv, Use, Ops
    <3> QED BY <1>1, <2>2, <3>1 DEF Resend, IInv, NetBehind, Requests, Req
  <2>3. CASE net' = net
    BY <1>1, <2>3 DEF IInv, NetBehind
  <2> QED
    BY <2>1, <2>2, <2>3 DEF Renewal, RenewStop, RenewError, RenewCtxDone, RenewReply
<1>4. IInv'
  BY <1>1, <1>2, <1>3 DEF IInv
<1> QED BY <1>1, <1>4 DEF L!vars

\* A command that Redis executes grants, prolongs or releases the lease of its
\* own attempt, or changes nothing.
LEMMA RunStep ==
    ASSUME IInv, NEW r \in Requests, Run(r)
    PROVE  IInv' /\ [L!Next]_L!vars
<1> DEFINE t == r.tok
<1>1. t \in Tokens /\ UNCHANGED <<lk, rn>> /\ net' = net \ {r} /\ r \in net
  BY DEF Run, Requests
<1>2. lk[t] # "unused" /\ (r.op = "del" => Use(lk[t]) = "after")
  BY <1>1 DEF IInv, NetBehind
<1>3. net' \subseteq Requests /\ NetBehind'
  BY <1>1 DEF IInv, NetBehind
<1>4. /\ owner' \in Tokens \union {NoToken}
      /\ left' \in 0..TTL
      /\ owner' = NoToken <=> left' = 0
  BY <1>1 DEF Run, RunSetNX, RunRenew, RunDel, ScriptMatches, IInv
<1>5. IInv'
  BY <1>1, <1>3, <1>4 DEF IInv
<1>6. Use(lk[t]) # "before"
  BY <1>2 DEF Use
<1>7. CASE UNCHANGED <<owner, left>>
  BY <1>1, <1>5, <1>7 DEF L!vars
<1>8. CASE ~UNCHANGED <<owner, left>>
  <2>1. CASE r.op = "setnx"
    <3>1. L!Grant(t)
      BY <1>1, <1>6, <1>8, <2>1 DEF Run, RunSetNX, L!Grant
    <3> QED BY <1>1, <1>5, <3>1 DEF L!Next
  <2>2. CASE r.op = "renew"
    <3>1. L!Prolong(t)
      BY <1>1, <1>6, <1>8, <2>2 DEF Run, RunRenew, ScriptMatches, L!Prolong
    <3> QED BY <1>1, <1>5, <3>1 DEF L!Next
  <2>3. CASE r.op = "del"
    <3>1. L!Release(t)
      BY <1>1, <1>2, <1>8, <2>3 DEF Run, RunDel, ScriptMatches, L!Release
    <3> QED BY <1>1, <1>5, <3>1 DEF L!Next
  <2> QED BY <2>1, <2>2, <2>3 DEF Run
<1> QED BY <1>7, <1>8

LEMMA TickStep ==
    ASSUME IInv, Tick
    PROVE  IInv' /\ [L!Next]_L!vars
<1>1. IInv'
  BY DEF Tick, IInv, NetBehind
<1>2. CASE owner = NoToken
  BY <1>1, <1>2 DEF Tick, IInv, L!vars
<1>3. CASE owner # NoToken
  <2>1. left > 0 /\ left \in Nat
    BY <1>3 DEF IInv
  <2>2. L!Age
    BY <1>3, <2>1 DEF Tick, L!Age
  <2> QED BY <1>1, <2>2 DEF L!Next
<1> QED BY <1>2, <1>3

LEMMA Step ==
    ASSUME IInv, [Next]_vars
    PROVE  IInv' /\ [L!Next]_L!vars
<1>1. ASSUME NEW t \in Tokens, ClientStep(t) \/ Failure(t) PROVE IInv' /\ [L!Next]_L!vars
  <2>1. Business(t) \/ Renewal(t)
    BY <1>1 DEF ClientStep, Failure, Business, Renewal
  <2> QED BY <2>1, BusinessStep, RenewalStep
<1>2. ASSUME NEW r \in Requests, Lose(r) PROVE IInv' /\ [L!Next]_L!vars
  <2>1. IInv'
    BY <1>2 DEF Lose, IInv, NetBehind
  <2> QED BY <1>2, <2>1 DEF Lose, L!vars
<1>3. CASE UNCHANGED vars
  <2>1. IInv'
    BY <1>3 DEF vars, IInv, NetBehind
  <2> QED BY <1>3, <2>1 DEF vars, L!vars
<1> QED BY <1>1, <1>2, <1>3, RunStep, TickStep DEF Next

\* redisx.Lock implements a lease: whatever is delayed, lost, repeated or crashes,
\* SET NX and the two scripts grant the key when it is free, to an attempt that was
\* made, prolong it for its owner alone, and delete it only when the owner's work is
\* over; otherwise it ends with its time.
THEOREM LockIsALease == Spec => ImplementsLease
<1>1. Init => IInv /\ L!Init
  <2> SUFFICES ASSUME Init PROVE IInv /\ L!Init
    OBVIOUS
  <2>1. IInv
    BY DEF Init, IInv, NetBehind, LkStates
  <2>2. L!Init
    BY DEF Init, L!Init, Use
  <2> QED BY <2>1, <2>2
<1>2. IInv /\ [Next]_vars => IInv' /\ [L!Next]_L!vars
  BY Step
<1> QED BY <1>1, <1>2, PTL DEF Spec, ImplementsLease, L!Spec

-----------------------------------------------------------------------------
(* The timely world. *)

ReplyTypes == wait \in [Tokens -> 0..Interval] /\ rep \subseteq Replies

\* A held lock: its key has time to live beyond the next tick of the renewal, or
\* a renewal is on its way, or has just been answered.
Covered(t) ==
    /\ owner = t /\ rn[t] # "off"
    /\ rn[t] = "idle" => left + Interval >= TTL + wait[t]
    /\ rn[t] = "asked" => Req("renew", t) \in net \/ Rep("renew", t, TRUE) \in rep
    /\ Rep("renew", t, TRUE) \in rep => left = TTL
    /\ Rep("renew", t, FALSE) \notin rep

TimelyInv ==
    /\ \A t \in Tokens : lk[t] \in {"unused", "asking"} => rn[t] = "off"
    /\ \A r \in rep : Waiting(r.op, r.tok)
    /\ \A t \in Tokens :
          lk[t] = "asking" /\ Rep("setnx", t, TRUE) \in rep => owner = t /\ left = TTL
    /\ \A t \in Tokens : lk[t] = "held" => Covered(t)

AllInv == IInv /\ ReplyTypes /\ (timely => TimelyInv)

LEMMA IntervalShort == Interval \in Nat /\ Interval >= 1 /\ (TTL >= 2 => Interval < TTL)
BY DEF Interval

LEMMA RepliesTyped == IInv /\ ReplyTypes /\ [Next]_vars => ReplyTypes'
<1> SUFFICES ASSUME IInv, ReplyTypes, [Next]_vars PROVE ReplyTypes'
  OBVIOUS
<1> USE IntervalShort DEF ReplyTypes, Without
<1>1. ASSUME NEW t \in Tokens, ClientStep(t) PROVE ReplyTypes'
  <2>1. CASE Ask(t) \/ NotAcquired(t) \/ RenewStop(t) \/ Unlock(t)
    BY <2>1 DEF Ask, NotAcquired, RenewStop, Unlock
  <2>2. CASE Acquired(t)
    BY <2>2 DEF Acquired
  <2>3. CASE RenewTick(t)
    BY <2>3 DEF RenewTick
  <2>4. ASSUME NEW ok \in BOOLEAN, RenewReply(t, ok) \/ UnlockReply(t, ok) PROVE ReplyTypes'
    BY <2>4 DEF RenewReply, UnlockReply
  <2>5. QED
    BY <1>1, <2>1, <2>4, <2>2, <2>3 DEF ClientStep
<1>2. ASSUME NEW t \in Tokens, Failure(t) PROVE ReplyTypes'
  BY <1>2 DEF Failure, AskError, RenewError, UnlockError, RenewCtxDone, Crash, Resend
<1>3. ASSUME NEW r \in Requests, Run(r) PROVE ReplyTypes'
  <2>1. /\ RunSetNX(r.tok) \/ RunRenew(r.tok) \/ RunDel(r.tok)
        /\ r.tok \in Tokens
    BY <1>3 DEF Run, Requests
  <2>2. ASSUME NEW o \in Ops, NEW ok \in BOOLEAN, Answer(o, r.tok, ok) PROVE rep' \subseteq Replies
    BY <2>1, <2>2 DEF Answer, Rep, Replies
  <2>3. rep' \subseteq Replies
    BY <2>1, <2>2 DEF RunSetNX, RunRenew, RunDel, ScriptMatches, Ops
  <2>4. QED
    BY <1>3, <2>3 DEF Run
<1>4. ASSUME NEW r \in Requests, Lose(r) PROVE ReplyTypes'
  BY <1>4 DEF Lose
<1>5. CASE Tick
  BY <1>5 DEF Tick
<1>6. CASE UNCHANGED vars
  BY <1>6 DEF vars
<1>7. QED
  BY <1>1, <1>2, <1>3, <1>4, <1>5, <1>6 DEF Next

LEMMA TimelyStep ==
    ASSUME TTL >= 2, AutoRenew, IInv, ReplyTypes, TimelyInv, TimelyNext
    PROVE  TimelyInv'
<1> USE IntervalShort DEF IInv, ReplyTypes, TimelyInv, Covered, LkStates, Without, Rep, Req, Replies, Waiting
<1>1. ASSUME NEW t \in Tokens, Ask(t) PROVE TimelyInv'
  BY <1>1 DEF Ask
<1>2. ASSUME NEW t \in Tokens, Acquired(t) PROVE TimelyInv'
  BY <1>2 DEF Acquired
<1>3. ASSUME NEW t \in Tokens, NotAcquired(t) PROVE TimelyInv'
  BY <1>3 DEF NotAcquired
<1>4. ASSUME NEW t \in Tokens, RenewTick(t) PROVE TimelyInv'
  BY <1>4 DEF RenewTick
<1>5. ASSUME NEW t \in Tokens, RenewStop(t) PROVE TimelyInv'
  BY <1>5 DEF RenewStop
<1>6. ASSUME NEW t \in Tokens, Unlock(t) PROVE TimelyInv'
  BY <1>6 DEF Unlock
<1>7. ASSUME NEW t \in Tokens, NEW ok \in BOOLEAN, RenewReply(t, ok) PROVE TimelyInv'
  BY <1>7 DEF RenewReply
<1>8. ASSUME NEW t \in Tokens, NEW ok \in BOOLEAN, UnlockReply(t, ok) PROVE TimelyInv'
  BY <1>8 DEF UnlockReply
<1>9. ASSUME NEW r \in Requests, Run(r) PROVE TimelyInv'
  <2> DEFINE t == r.tok
  <2>1. /\ t \in Tokens /\ r \in net /\ net' = net \ {r} /\ UNCHANGED <<lk, rn, wait>>
        /\ \A o \in Ops, x \in Tokens : Req(o, x) = r <=> o = r.op /\ x = t
    BY <1>9 DEF Run, Requests
  <2>2. CASE r.op = "setnx" /\ RunSetNX(t)
    <3>1. \A x \in Tokens : Req("renew", x) \in net' <=> Req("renew", x) \in net
      BY <2>1, <2>2 DEF Ops
    <3>2. CASE owner = NoToken
      <4>1. owner' = t /\ left' = TTL
        BY <2>2, <3>2 DEF RunSetNX
      <4>2. \/ rep' = rep
            \/ lk[t] = "asking" /\ rep' = rep \union {Rep("setnx", t, TRUE)}
        BY <2>2, <3>2 DEF RunSetNX, Answer
      <4>3. \A x \in Tokens : lk[x] # "held" /\ ~(lk[x] = "asking" /\ Rep("setnx", x, TRUE) \in rep)
        BY <3>2
      <4>4. \A x \in Tokens : lk'[x] = "asking" /\ Rep("setnx", x, TRUE) \in rep' => x = t
        BY <2>1, <4>2, <4>3
      <4>5. \A q \in rep' : Waiting(q.op, q.tok)'
        BY <2>1, <4>2
      <4>6. QED
        BY <2>1, <4>1, <4>3, <4>4, <4>5
    <3>3. CASE owner # NoToken
      <4>1. UNCHANGED <<owner, left>>
        BY <2>2, <3>3 DEF RunSetNX
      <4>2. \/ rep' = rep
            \/ lk[t] = "asking" /\ rep' = rep \union {Rep("setnx", t, FALSE)}
        BY <2>2, <3>3 DEF RunSetNX, Answer
      <4>3. QED
        BY <2>1, <3>1, <4>1, <4>2
    <3>4. QED
      BY <3>2, <3>3
  <2>3. CASE r.op = "renew" /\ RunRenew(t)
    <3>1. owner' = owner /\ left' = IF owner = t THEN TTL ELSE left
      BY <2>3 DEF RunRenew, ScriptMatches
    <3>2. \A x \in Tokens : x # t => (Req("renew", x) \in net' <=> Req("renew", x) \in net)
      BY <2>1, <2>3 DEF Ops
    <3>3. CASE owner = t
      <4>1. \/ rep' = rep /\ rn[t] # "asked"
            \/ rn[t] = "asked" /\ rep' = rep \union {Rep("renew", t, TRUE)}
        BY <2>3, <3>3 DEF RunRenew, Answer, ScriptMatches
      <4>2. QED
        BY <2>1, <3>1, <3>2, <3>3, <4>1
    <3>4. CASE owner # t
      <4>1. \/ rep' = rep
            \/ rn[t] = "asked" /\ rep' = rep \union {Rep("renew", t, FALSE)}
        BY <2>3, <3>4 DEF RunRenew, Answer, ScriptMatches
      <4>2. QED
        BY <2>1, <3>1, <3>2, <3>4, <4>1
    <3>5. QED
      BY <3>3, <3>4
  <2>4. CASE r.op = "del" /\ RunDel(t)
    BY <2>1, <2>4 DEF RunDel, Answer, ScriptMatches, NetBehind, Use, Ops
  <2>5. QED
    BY <1>9, <2>2, <2>3, <2>4 DEF Run
<1>10. CASE ~Due /\ Tick
  BY <1>10 DEF Due, Tick
<1>11. QED
  BY <1>1, <1>2, <1>3, <1>4, <1>5, <1>6, <1>7, <1>8, <1>9, <1>10 DEF TimelyNext, ClientStep

\* redisx.Lock with WithAutoRenew, for every TTL of at least two minLockTTL: while
\* nothing fails and everything is delivered before time moves on, a caller that
\* holds a Lock owns the key, however long its business logic takes.  (Failures
\* are not part of this world; TypeOK holds in both.)
THEOREM HeldMeansOwned == ASSUME TTL >= 2, AutoRenew PROVE MCSpec => []TimelyHeldIsOwned
<1>1. MCInit => AllInv
  <2> SUFFICES ASSUME Init PROVE IInv /\ ReplyTypes /\ TimelyInv
    BY DEF MCInit, AllInv
  <2>1. IInv
    BY DEF Init, IInv, NetBehind, LkStates
  <2>2. ReplyTypes
    BY IntervalShort DEF Init, ReplyTypes
  <2>3. TimelyInv
    BY DEF Init, TimelyInv
  <2>4. QED
    BY <2>1, <2>2, <2>3
<1>2. AllInv /\ [MCNext]_<<which, lVars, rVars, mVars>> => AllInv'
  <2> SUFFICES ASSUME AllInv, [MCNext]_<<which, lVars, rVars, mVars>> PROVE AllInv'
    OBVIOUS
  <2>1. CASE timely /\ TimelyNext /\ UNCHANGED timely
    <3>1. [Next]_vars
      BY <2>1 DEF TimelyNext, Next
    <3>2. IInv' /\ ReplyTypes'
      BY <3>1, Step, RepliesTyped DEF AllInv
    <3>3. QED
      BY <2>1, <3>2, TimelyStep DEF AllInv
  <2>2. CASE ~timely /\ Next /\ UNCHANGED timely
    <3>1. IInv' /\ ReplyTypes'
      BY <2>2, Step, RepliesTyped DEF AllInv
    <3>2. QED
      BY <2>2, <3>1 DEF AllInv
  <2>3. CASE UNCHANGED lVars
    <3>1. UNCHANGED vars /\ UNCHANGED timely
      BY <2>3 DEF lVars
    <3>2. IInv' /\ ReplyTypes'
      BY <3>1, Step, RepliesTyped DEF AllInv
    <3>3. TimelyInv => TimelyInv'
      BY <3>1 DEF vars, TimelyInv, Covered, Waiting
    <3>4. QED
      BY <3>1, <3>2, <3>3 DEF AllInv
  <2>4. QED
    BY <2>1, <2>2, <2>3 DEF MCNext, Rests
<1>3. AllInv => TimelyHeldIsOwned
  BY DEF AllInv, IInv, ReplyTypes, TimelyInv, Covered, TimelyHeldIsOwned, TypeOK, HeldIsOwned
<1>4. QED
  BY <1>1, <1>2, <1>3, PTL DEF MCSpec

-----------------------------------------------------------------------------
(* RedisCache. *)

\* What a flight is about to store is a value, and what Redis has is known.
CacheInv ==
    /\ redis \in [Keys -> Remote!Slot]
    /\ take \in [Nodes -> [Keys -> Remote!Flight]]
    /\ \A n \in Nodes, k \in Keys : take[n][k].pc = "store" => take[n][k].out \in Vals

\* One step of Take, in terms of the flight it moves.
LEMMA FlightStep ==
    ASSUME CacheInv, NEW n \in Nodes, NEW k \in Keys, NEW from, NEW to, NEW o,
           Remote!Go(n, k, from, to, o), [pc |-> to, out |-> o] \in Remote!Flight,
           to = "store" => o \in Vals
    PROVE  /\ take' \in [Nodes -> [Keys -> Remote!Flight]]
           /\ \A m \in Nodes, x \in Keys : take'[m][x].pc = "store" => take'[m][x].out \in Vals
BY DEF CacheInv, Remote!Go

\* What the steps do to Redis.
LEMMA CacheStep ==
    ASSUME CacheInv, Remote!Next
    PROVE  /\ CacheInv'
           /\ \A k \in Keys :
                 redis'[k].is = "placeholder" => redis[k].is \in {"absent", "placeholder"}
<1> DEFINE Yields == \A k \in Keys :
                 redis'[k].is = "placeholder" => redis[k].is \in {"absent", "placeholder"}
           Slots == redis' \in [Keys -> Remote!Slot]
<1> USE ValsAssumption
<1>1. ASSUME NEW n \in Nodes, NEW k \in Keys, Remote!TakeStep(n, k) PROVE CacheInv' /\ Yields
  <2>1. CASE UNCHANGED redis
    <3>1. \E from, to, o : /\ Remote!Go(n, k, from, to, o)
                           /\ [pc |-> to, out |-> o] \in Remote!Flight
                           /\ to = "store" => o \in Vals
      BY <1>1 DEF Remote!TakeStep, Remote!TakeBegin, Remote!TakeHit, Remote!TakeKnownAbsent,
             Remote!TakeMiss, Remote!TakeGetFails, Remote!FetchNotFound, Remote!FetchFails,
             Remote!FetchOk, Remote!TakeStore, Remote!TakeMark, Remote!TakeLand, Remote!Readable,
             Remote!Flight, Remote!Outcomes, CacheInv
    <3>2. CacheInv'
      BY <2>1, <3>1, FlightStep DEF CacheInv
    <3>3. QED
      BY <2>1, <3>2
  <2>2. CASE ~UNCHANGED redis
    <3>1. CASE Remote!TakeStore(n, k)
      <4>1. Remote!Go(n, k, "store", "land", take[n][k].out)
        BY <3>1 DEF Remote!TakeStore
      <4>2. take[n][k].out \in Vals
        BY <4>1 DEF CacheInv, Remote!Go
      <4>3. redis' = [redis EXCEPT ![k] = [is |-> take[n][k].out, mortal |-> TRUE]]
        BY <2>2, <3>1 DEF Remote!TakeStore
      <4>4. [pc |-> "land", out |-> take[n][k].out] \in Remote!Flight
        BY <4>2 DEF Remote!Flight, Remote!Outcomes
      <4>5. Slots /\ Yields
        BY <4>2, <4>3 DEF CacheInv, Remote!Slot, Remote!Contents
      <4>6. QED
        BY <4>1, <4>4, <4>5, FlightStep DEF CacheInv
    <3>2. CASE Remote!TakeMark(n, k)
      <4>1. Remote!Go(n, k, "mark", "land", "notfound")
        BY <3>2 DEF Remote!TakeMark
      <4>2. /\ redis[k].is = "absent"
            /\ redis' = [redis EXCEPT ![k] = [is |-> "placeholder", mortal |-> TRUE]]
        BY <2>2, <3>2 DEF Remote!TakeMark
      <4>3. [pc |-> "land", out |-> "notfound"] \in Remote!Flight
        BY DEF Remote!Flight, Remote!Outcomes
      <4>4. Slots /\ Yields
        BY <4>2 DEF CacheInv, Remote!Slot, Remote!Contents
      <4>5. QED
        BY <4>1, <4>3, <4>4, FlightStep DEF CacheInv
    <3>3. QED
      BY <1>1, <2>2, <3>1, <3>2 DEF Remote!TakeStep, Remote!TakeBegin, Remote!TakeHit,
         Remote!TakeKnownAbsent, Remote!TakeMiss, Remote!TakeGetFails, Remote!FetchNotFound,
         Remote!FetchFails, Remote!FetchOk, Remote!TakeLand
  <2>3. QED
    BY <2>1, <2>2
<1>2. ASSUME UNCHANGED take, Slots, Yields PROVE CacheInv' /\ Yields
  BY <1>2 DEF CacheInv
<1>3. ASSUME NEW k \in Keys,
             Remote!Get(k) \/ Remote!Delete(k) \/ Remote!WriteRaw(k) \/ Remote!Lapse(k)
      PROVE  UNCHANGED take /\ Slots /\ Yields
  <2>1. /\ UNCHANGED take
        /\ \/ redis' = redis
           \/ redis' = [redis EXCEPT ![k] = [is |-> "absent", mortal |-> FALSE]]
           \/ redis' = [redis EXCEPT ![k] = [is |-> "raw", mortal |-> FALSE]]
    BY <1>3 DEF Remote!Get, Remote!Delete, Remote!WriteRaw, Remote!Lapse, Remote!Gone
  <2>2. CASE redis' = redis
    BY <2>1, <2>2 DEF CacheInv
  <2>3. CASE redis' = [redis EXCEPT ![k] = [is |-> "absent", mortal |-> FALSE]]
    BY <2>1, <2>3 DEF CacheInv, Remote!Slot, Remote!Contents
  <2>4. CASE redis' = [redis EXCEPT ![k] = [is |-> "raw", mortal |-> FALSE]]
    BY <2>1, <2>4 DEF CacheInv, Remote!Slot, Remote!Contents
  <2>5. QED
    BY <2>1, <2>2, <2>3, <2>4
<1>4. ASSUME NEW k \in Keys, NEW ttl \in BOOLEAN, Remote!Expire(k, ttl)
      PROVE  UNCHANGED take /\ Slots /\ Yields
  <2>1. /\ UNCHANGED take
        /\ \/ redis' = redis
           \/ redis' = [redis EXCEPT ![k] = Remote!Gone]
           \/ redis' = [redis EXCEPT ![k].mortal = redis[k].is # "absent"]
    BY <1>4 DEF Remote!Expire, Remote!Unanswered
  <2>2. CASE redis' = redis
    BY <2>1, <2>2 DEF CacheInv
  <2>3. CASE redis' = [redis EXCEPT ![k] = Remote!Gone]
    BY <2>1, <2>3 DEF CacheInv, Remote!Gone, Remote!Slot, Remote!Contents
  <2>4. CASE redis' = [redis EXCEPT ![k].mortal = redis[k].is # "absent"]
    <3>1. CASE redis[k].is = "absent"
      <4>1. redis' = [redis EXCEPT ![k] = [redis[k] EXCEPT !.mortal = FALSE]]
        BY <2>4, <3>1
      <4>2. QED
        BY <2>1, <3>1, <4>1 DEF CacheInv, Remote!Slot
    <3>2. CASE redis[k].is # "absent"
      <4>1. redis' = [redis EXCEPT ![k] = [redis[k] EXCEPT !.mortal = TRUE]]
        BY <2>4, <3>2
      <4>2. QED
        <5>1. Slots
          BY <4>1 DEF CacheInv, Remote!Slot
        <5>2. \A x \in Keys : redis'[x].is = redis[x].is
          BY <4>1 DEF CacheInv, Remote!Slot
        <5>3. QED
          BY <2>1, <5>1, <5>2
    <3>3. QED
      BY <3>1, <3>2
  <2>5. QED
    BY <2>1, <2>2, <2>3, <2>4
<1>5. ASSUME NEW k \in Keys, NEW v \in Vals, Remote!SetEx(k, v) \/ Remote!Increment(k, v)
      PROVE  UNCHANGED take /\ Slots /\ Yields
  <2>1. /\ UNCHANGED take
        /\ \/ redis' = redis
           \/ redis' = [redis EXCEPT ![k] = [is |-> v, mortal |-> TRUE]]
           \/ redis' = [redis EXCEPT ![k].is = v]
    BY <1>5 DEF Remote!SetEx, Remote!Increment, Remote!Unanswered
  <2>2. CASE redis' = redis
    BY <2>1, <2>2 DEF CacheInv
  <2>3. CASE redis' = [redis EXCEPT ![k] = [is |-> v, mortal |-> TRUE]]
    BY <2>1, <2>3 DEF CacheInv, Remote!Slot, Remote!Contents
  <2>4. CASE redis' = [redis EXCEPT ![k].is = v]
    BY <2>1, <2>4 DEF CacheInv, Remote!Slot, Remote!Contents
  <2>5. QED
    BY <2>1, <2>2, <2>3, <2>4
<1>6. QED
  BY <1>1, <1>2, <1>3, <1>4, <1>5 DEF Remote!Next

\* cache.RedisCache, for any number of nodes that share one Redis and any
\* interleaving of their Takes with other writers: the not-found placeholder that
\* setNotFound writes never replaces a value somebody stored while fetch ran.
THEOREM PlaceholdersYield == MCSpec => PlaceholderYields
<1>1. MCInit => CacheInv
  BY DEF MCInit, Remote!Init, Remote!Gone, Remote!NoFlight, CacheInv, Remote!Slot,
     Remote!Contents, Remote!Flight, Remote!Outcomes
<1>2. CacheInv /\ [MCNext]_<<which, lVars, rVars, mVars>> =>
        /\ CacheInv'
        /\ [\A k \in Keys : redis'[k].is = "placeholder"
                => redis[k].is \in {"absent", "placeholder"}]_(Remote!vars)
  <2> SUFFICES ASSUME CacheInv, [MCNext]_<<which, lVars, rVars, mVars>>
               PROVE  /\ CacheInv'
                      /\ [\A k \in Keys : redis'[k].is = "placeholder"
                             => redis[k].is \in {"absent", "placeholder"}]_(Remote!vars)
    OBVIOUS
  <2>1. CASE Remote!Next
    BY <2>1, CacheStep
  <2>2. CASE UNCHANGED rVars
    BY <2>2 DEF rVars, Remote!vars, CacheInv
  <2>3. QED
    BY <2>1, <2>2 DEF MCNext, Rests
<1>3. QED
  BY <1>1, <1>2, PTL DEF MCSpec, PlaceholderYields, Remote!PlaceholderYields

-----------------------------------------------------------------------------
(* Lists without some of their elements.                                    *)

\* A set of numbers has a least one.
LEMMA LeastOf ==
    ASSUME NEW T, T \subseteq Nat, T # {}
    PROVE  \E m \in T : \A k \in T : m <= k
<1> DEFINE Less == OpToRel(<, Nat)
<1>1. \A x, y \in Nat : x < y => <<x, y>> \in Less
  BY DEF OpToRel
<1>2. IsWellFoundedOn(Less, Nat)
  BY NatLessThanWellFounded
<1> HIDE DEF Less
<1>3. \E m \in T : \A k \in T : <<k, m>> \notin Less
  BY <1>2, WFMin
<1>4. PICK m \in T : \A k \in T : <<k, m>> \notin Less
  BY <1>3
<1>5. \A k \in T : ~(k < m)
  BY <1>1, <1>4
<1>6. \A k \in T : m <= k
  BY <1>5
<1>7. QED
  BY <1>6

\* Induction: a set with 0 and with the successor of each of its numbers.
LEMMA AllNumbers ==
    ASSUME NEW T, T \subseteq Nat, 0 \in T, \A n \in T : n + 1 \in T
    PROVE  T = Nat
<1> SUFFICES ASSUME T # Nat PROVE FALSE
  OBVIOUS
<1>1. PICK m \in Nat \ T : \A k \in Nat \ T : m <= k
  BY LeastOf
<1>2. m # 0 /\ m - 1 \in Nat
  BY <1>1
<1>3. m - 1 \in T
  BY <1>1, <1>2
<1>4. QED
  BY <1>1, <1>2, <1>3

\* What is kept of the first n elements, step by step.
KeptStep(s, ks, h, n) == IF n = 0 THEN <<>>
                         ELSE IF s[n] \in ks THEN h[n - 1] ELSE Append(h[n - 1], s[n])
Kept(s, ks) == CHOOSE h : h = [n \in 0..Len(s) |-> KeptStep(s, ks, h, n)]

\* The recursion of Without has a solution: by induction over the list.
LEMMA KeptIs ==
    ASSUME NEW s, Len(s) \in Nat, NEW ks
    PROVE  /\ Limited!Without(s, ks) = Kept(s, ks)[Len(s)]
           /\ Kept(s, ks)[0] = <<>>
           /\ \A n \in 0..Len(s) : n + 1 \in 0..Len(s) =>
                 Kept(s, ks)[n + 1] = IF s[n + 1] \in ks THEN Kept(s, ks)[n]
                                      ELSE Append(Kept(s, ks)[n], s[n + 1])
<1> DEFINE H == CHOOSE h : h = [n \in 0..Len(s) |->
                  IF n = 0 THEN <<>>
                  ELSE IF s[n] \in ks THEN h[n - 1] ELSE Append(h[n - 1], s[n])]
           W == Kept(s, ks)
           T == {m \in Nat : \E h : h = [n \in 0..m |-> KeptStep(s, ks, h, n)]}
<1>1. Limited!Without(s, ks) = H[Len(s)]
  BY DEF Limited!Without
<1>2. H = W
  BY DEF Kept, KeptStep
<1> HIDE DEF H
<1>3. 0 \in T
  <2> DEFINE h == [n \in 0..0 |-> <<>>]
  <2>1. \A n \in 0..0 : KeptStep(s, ks, h, n) = <<>>
    BY DEF KeptStep
  <2>2. h = [n \in 0..0 |-> KeptStep(s, ks, h, n)]
    BY <2>1
  <2> HIDE DEF h
  <2>3. QED
    BY <2>2
<1>4. ASSUME NEW m \in T PROVE m + 1 \in T
  <2>1. m \in Nat /\ \E h : h = [n \in 0..m |-> KeptStep(s, ks, h, n)]
    OBVIOUS
  <2>2. PICK h : h = [n \in 0..m |-> KeptStep(s, ks, h, n)]
    BY <2>1
  <2> DEFINE g == [n \in 0..(m + 1) |-> KeptStep(s, ks, h, n)]
  <2>3. \A n \in 0..m : n \in 0..(m + 1) /\ g[n] = h[n]
    <3>1. \A n \in 0..m : n \in 0..(m + 1)
      BY <2>1
    <3>2. \A n \in 0..m : h[n] = KeptStep(s, ks, h, n)
      BY <2>2, Zenon
    <3>3. QED
      BY <3>1, <3>2, Zenon
  <2>4. ASSUME NEW n \in 0..(m + 1) PROVE KeptStep(s, ks, g, n) = KeptStep(s, ks, h, n)
    <3>1. CASE n = 0
      BY <3>1 DEF KeptStep
    <3>2. CASE n # 0
      <4>1. n - 1 \in 0..m
        BY <2>1, <3>2
      <4>2. g[n - 1] = h[n - 1]
        BY <2>3, <4>1
      <4> HIDE DEF g
      <4>3. QED
        BY <3>2, <4>2 DEF KeptStep
    <3>3. QED
      BY <3>1, <3>2
  <2>5. g = [n \in 0..(m + 1) |-> KeptStep(s, ks, g, n)]
    BY <2>4
  <2> HIDE DEF g
  <2>6. QED
    BY <2>1, <2>5
<1>5. Len(s) \in T
  <2> HIDE DEF T
  <2>1. T \subseteq Nat
    BY DEF T
  <2>2. T = Nat
    BY <1>3, <1>4, <2>1, AllNumbers
  <2>3. QED
    BY <2>2
<1>6. W = [n \in 0..Len(s) |-> KeptStep(s, ks, W, n)]
  BY <1>5 DEF Kept
<1> HIDE DEF W
<1>7. \A n \in 0..Len(s) : W[n] = KeptStep(s, ks, W, n)
  BY <1>6, Zenon
<1>8. W[0] = <<>>
  <2>1. 0 \in 0..Len(s)
    OBVIOUS
  <2>2. QED
    BY <1>7, <2>1 DEF KeptStep
<1>9. ASSUME NEW n \in 0..Len(s), n + 1 \in 0..Len(s)
      PROVE  W[n + 1] = IF s[n + 1] \in ks THEN W[n] ELSE Append(W[n], s[n + 1])
  <2>1. W[n + 1] = KeptStep(s, ks, W, n + 1)
    BY <1>7, <1>9
  <2>2. n + 1 # 0 /\ (n + 1) - 1 = n
    OBVIOUS
  <2>3. QED
    BY <2>1, <2>2 DEF KeptStep
<1>10. QED
  BY <1>1, <1>2, <1>8, <1>9 DEF W

EachOnce(s) == \A i, j \in DOMAIN s : s[i] = s[j] => i = j

\* What is kept of the first n: each of them that is not to be removed, once if the list
\* has it once.
KeptWell(K, s, ks, w, n) ==
    /\ w \in Seq(K)
    /\ \A k \in DOMAIN w : w[k] \notin ks /\ \E i \in 1..n : w[k] = s[i]
    /\ \A i \in 1..n : s[i] \notin ks => \E k \in DOMAIN w : w[k] = s[i]
    /\ EachOnce(s) => EachOnce(w)

LEMMA KeptGrows ==
    ASSUME NEW K, NEW s \in Seq(K), NEW ks, NEW n \in Nat, n + 1 \in 1..Len(s), NEW w,
           KeptWell(K, s, ks, w, n)
    PROVE  KeptWell(K, s, ks, IF s[n + 1] \in ks THEN w ELSE Append(w, s[n + 1]), n + 1)
<1> DEFINE e == s[n + 1]
<1>1. e \in K /\ w \in Seq(K) /\ DOMAIN s = 1..Len(s) /\ Len(s) \in Nat
  BY DEF KeptWell
<1>2. \A i \in 1..(n + 1) : i \in 1..n \/ i = n + 1
  OBVIOUS
<1>3. \A i \in 1..n : i \in 1..(n + 1)
  OBVIOUS
<1>4. CASE e \in ks
  BY <1>2, <1>3, <1>4 DEF KeptWell
<1>5. CASE e \notin ks
  <2> DEFINE v == Append(w, e)
             l == Len(w) + 1
  <2>1. /\ v \in Seq(K) /\ DOMAIN w = 1..Len(w) /\ Len(w) \in Nat /\ Len(v) = l
        /\ v[l] = e /\ \A k \in DOMAIN w : v[k] = w[k]
    <3>1. /\ v \in Seq(K) /\ Len(v) = Len(w) + 1
          /\ v[Len(w) + 1] = e /\ \A k \in 1..Len(w) : v[k] = w[k]
      BY <1>1, AppendProperties
    <3>2. QED
      BY <1>1, <3>1
  <2> HIDE DEF v, e
  <2>2. /\ DOMAIN v = 1..l /\ l \in DOMAIN v
        /\ \A k \in DOMAIN v : k \in DOMAIN w \/ k = l
        /\ \A k \in DOMAIN w : k \in DOMAIN v
    BY <2>1
  <2>3. \A k \in DOMAIN v : v[k] \notin ks /\ \E i \in 1..(n + 1) : v[k] = s[i]
    <3>1. \A k \in DOMAIN w : w[k] \notin ks /\ \E i \in 1..n : w[k] = s[i]
      BY DEF KeptWell
    <3>2. e = s[n + 1] /\ n + 1 \in 1..(n + 1)
      BY DEF e
    <3>3. QED
      BY <1>3, <1>5, <2>1, <2>2, <3>1, <3>2
  <2>4. ASSUME NEW i \in 1..(n + 1), s[i] \notin ks PROVE \E k \in DOMAIN v : v[k] = s[i]
    <3>1. CASE i = n + 1
      BY <2>1, <2>2, <3>1 DEF e
    <3>2. CASE i \in 1..n
      <4>1. PICK k \in DOMAIN w : w[k] = s[i]
        BY <2>4, <3>2 DEF KeptWell
      <4>2. QED
        BY <2>1, <2>2, <4>1
    <3>3. QED
      BY <1>2, <3>1, <3>2
  <2>5. ASSUME EachOnce(s) PROVE EachOnce(v)
    <3>1. \A i, j \in DOMAIN s : s[i] = s[j] => i = j
      BY <2>5 DEF EachOnce
    <3>2. \A i, j \in DOMAIN w : w[i] = w[j] => i = j
      BY <2>5 DEF KeptWell, EachOnce
    <3>3. \A k \in DOMAIN w : w[k] # e
      <4>1. SUFFICES ASSUME NEW k \in DOMAIN w, w[k] = e PROVE FALSE
        OBVIOUS
      <4>2. PICK i \in 1..n : w[k] = s[i]
        BY DEF KeptWell
      <4>3. i \in DOMAIN s /\ n + 1 \in DOMAIN s /\ i # n + 1
        BY <1>1
      <4>4. QED
        BY <3>1, <4>1, <4>2, <4>3 DEF e
    <3>4. QED
      BY <2>1, <2>2, <3>2, <3>3 DEF EachOnce
  <2>6. KeptWell(K, s, ks, v, n + 1)
    BY <2>1, <2>3, <2>4, <2>5 DEF KeptWell
  <2>7. QED
    BY <1>5, <2>6 DEF v, e
<1>6. QED
  BY <1>4, <1>5

Elems(s) == {s[i] : i \in DOMAIN s}

\* Without removes these elements, and nothing else.
LEMMA WithoutWell ==
    ASSUME NEW K, NEW s \in Seq(K), NEW ks
    PROVE  /\ Limited!Without(s, ks) \in Seq(K)
           /\ Elems(Limited!Without(s, ks)) = Elems(s) \ ks
           /\ EachOnce(s) => EachOnce(Limited!Without(s, ks))
           /\ \A n \in 0..Len(s) : Kept(s, ks)[n] \in Seq(K)
<1> DEFINE N == Len(s)
           W == Kept(s, ks)
           T == {n \in Nat : n <= N => KeptWell(K, s, ks, W[n], n)}
<1>1. /\ N \in Nat /\ DOMAIN s = 1..N
      /\ Limited!Without(s, ks) = W[N] /\ W[0] = <<>>
      /\ \A n \in 0..N : n + 1 \in 0..N =>
            W[n + 1] = IF s[n + 1] \in ks THEN W[n] ELSE Append(W[n], s[n + 1])
  <2>1. N \in Nat /\ DOMAIN s = 1..N
    OBVIOUS
  <2>2. QED
    BY <2>1, KeptIs
<1> HIDE DEF N, W
<1>2. 0 \in T
  <2>1. KeptWell(K, s, ks, <<>>, 0)
    BY DEF KeptWell, EachOnce
  <2>2. QED
    BY <1>1, <2>1
<1>3. ASSUME NEW n \in T PROVE n + 1 \in T
  <2>1. n \in Nat
    OBVIOUS
  <2>2. ASSUME n + 1 <= N PROVE KeptWell(K, s, ks, W[n + 1], n + 1)
    <3>1. KeptWell(K, s, ks, W[n], n) /\ n \in 0..N /\ n + 1 \in 0..N /\ n + 1 \in 1..N
      BY <1>1, <1>3, <2>1, <2>2
    <3>2. KeptWell(K, s, ks, IF s[n + 1] \in ks THEN W[n] ELSE Append(W[n], s[n + 1]), n + 1)
      BY <2>1, <3>1, KeptGrows DEF N
    <3>3. W[n + 1] = IF s[n + 1] \in ks THEN W[n] ELSE Append(W[n], s[n + 1])
      BY <1>1, <3>1
    <3>4. QED
      BY <3>2, <3>3
  <2>3. QED
    BY <2>1, <2>2
<1>4. T = Nat
  <2> HIDE DEF T
  <2>1. T \subseteq Nat
    BY DEF T
  <2>2. QED
    BY <1>2, <1>3, <2>1, AllNumbers
<1>5. \A n \in 0..N : KeptWell(K, s, ks, W[n], n)
  BY <1>1, <1>4
<1>6. KeptWell(K, s, ks, W[N], N)
  BY <1>1, <1>5
<1>7. Elems(W[N]) = Elems(s) \ ks
  <2> DEFINE w == W[N]
  <2>1. /\ \A k \in DOMAIN w : w[k] \notin ks /\ \E i \in 1..N : w[k] = s[i]
        /\ \A i \in 1..N : s[i] \notin ks => \E k \in DOMAIN w : w[k] = s[i]
    BY <1>6 DEF KeptWell
  <2> HIDE DEF w
  <2>2. \A k \in DOMAIN w : w[k] \in Elems(s) \ ks
    BY <1>1, <2>1 DEF Elems
  <2>3. \A i \in 1..N : s[i] \notin ks => s[i] \in Elems(w)
    BY <2>1 DEF Elems
  <2>4. Elems(w) = Elems(s) \ ks
    BY <1>1, <2>2, <2>3 DEF Elems
  <2>5. QED
    BY <2>4 DEF w
<1>8. QED
  BY <1>1, <1>5, <1>6, <1>7 DEF KeptWell, W, N

LEMMA WithoutEmpty == \A ks : Limited!Without(<<>>, ks) = <<>>
<1> TAKE ks
<1>1. Len(<<>>) = 0
  OBVIOUS
<1>2. QED
  BY <1>1, KeptIs

\* Without over an append.
LEMMA WithoutAppend ==
    ASSUME NEW K, NEW s \in Seq(K), NEW x \in K, NEW ks
    PROVE  Limited!Without(Append(s, x), ks)
             = IF x \in ks THEN Limited!Without(s, ks) ELSE Append(Limited!Without(s, ks), x)
<1> DEFINE t == Append(s, x)
           N == Len(s)
           V == Kept(t, ks)
           W == Kept(s, ks)
           T == {n \in Nat : n <= N => V[n] = W[n]}
<1>1. /\ N \in Nat /\ Len(t) = N + 1 /\ t[N + 1] = x /\ \A i \in 1..N : t[i] = s[i]
  BY AppendProperties
<1>2. /\ Limited!Without(t, ks) = V[N + 1] /\ V[0] = <<>>
      /\ \A n \in 0..(N + 1) : n + 1 \in 0..(N + 1) =>
            V[n + 1] = IF t[n + 1] \in ks THEN V[n] ELSE Append(V[n], t[n + 1])
  <2> HIDE DEF t
  <2>1. Len(t) \in Nat
    BY <1>1
  <2>2. /\ Limited!Without(t, ks) = V[Len(t)] /\ V[0] = <<>>
        /\ \A n \in 0..Len(t) : n + 1 \in 0..Len(t) =>
              V[n + 1] = IF t[n + 1] \in ks THEN V[n] ELSE Append(V[n], t[n + 1])
    BY <2>1, KeptIs
  <2>3. QED
    BY <1>1, <2>2
<1>3. /\ Limited!Without(s, ks) = W[N] /\ W[0] = <<>>
      /\ \A n \in 0..N : n + 1 \in 0..N =>
            W[n + 1] = IF s[n + 1] \in ks THEN W[n] ELSE Append(W[n], s[n + 1])
  BY <1>1, KeptIs
<1> HIDE DEF t, N, V, W
<1>4. T = Nat
  <2>1. 0 \in T
    BY <1>2, <1>3
  <2>2. ASSUME NEW n \in T PROVE n + 1 \in T
    <3>1. n \in Nat
      OBVIOUS
    <3>2. ASSUME n + 1 <= N PROVE V[n + 1] = W[n + 1]
      <4>1. V[n] = W[n] /\ n \in 0..N /\ n + 1 \in 0..N /\ n + 1 \in 1..N
            /\ n \in 0..(N + 1) /\ n + 1 \in 0..(N + 1)
        BY <1>1, <2>2, <3>1, <3>2
      <4>2. t[n + 1] = s[n + 1]
        BY <1>1, <4>1
      <4>3. QED
        BY <1>2, <1>3, <4>1, <4>2
    <3>3. QED
      BY <3>1, <3>2
  <2> HIDE DEF T
  <2>3. T \subseteq Nat
    BY DEF T
  <2>4. QED
    BY <2>1, <2>2, <2>3, AllNumbers
<1>5. V[N] = W[N]
  BY <1>1, <1>4
<1>6. V[N + 1] = IF x \in ks THEN V[N] ELSE Append(V[N], x)
  BY <1>1, <1>2
<1>7. QED
  BY <1>2, <1>3, <1>5, <1>6 DEF t

\* Removing twice.
LEMMA WithoutTwice ==
    ASSUME NEW K, NEW s \in Seq(K), NEW ks, NEW more
    PROVE  Limited!Without(Limited!Without(s, ks), more) = Limited!Without(s, ks \union more)
<1> DEFINE N == Len(s)
           V == Kept(s, ks \union more)
           W == Kept(s, ks)
           T == {n \in Nat : n <= N => Limited!Without(W[n], more) = V[n]}
<1>1. /\ N \in Nat /\ \A n \in 0..N : W[n] \in Seq(K)
      /\ \A i \in 1..N : s[i] \in K
  BY WithoutWell
<1>2. /\ Limited!Without(s, ks) = W[N] /\ W[0] = <<>>
      /\ \A n \in 0..N : n + 1 \in 0..N =>
            W[n + 1] = IF s[n + 1] \in ks THEN W[n] ELSE Append(W[n], s[n + 1])
  BY <1>1, KeptIs
<1>3. /\ Limited!Without(s, ks \union more) = V[N] /\ V[0] = <<>>
      /\ \A n \in 0..N : n + 1 \in 0..N =>
            V[n + 1] = IF s[n + 1] \in ks \union more THEN V[n] ELSE Append(V[n], s[n + 1])
  <2> DEFINE both == ks \union more
  <2> HIDE DEF both
  <2>1. /\ Limited!Without(s, both) = Kept(s, both)[N] /\ Kept(s, both)[0] = <<>>
        /\ \A n \in 0..N : n + 1 \in 0..N =>
              Kept(s, both)[n + 1] = IF s[n + 1] \in both THEN Kept(s, both)[n]
                                     ELSE Append(Kept(s, both)[n], s[n + 1])
    BY <1>1, KeptIs
  <2>2. QED
    BY <2>1 DEF both
<1> HIDE DEF N, V, W
<1>4. T = Nat
  <2>1. 0 \in T
    BY <1>2, <1>3, WithoutEmpty
  <2>2. ASSUME NEW n \in T PROVE n + 1 \in T
    <3>1. n \in Nat
      OBVIOUS
    <3>2. ASSUME n + 1 <= N PROVE Limited!Without(W[n + 1], more) = V[n + 1]
      <4> DEFINE x == s[n + 1]
                 w == W[n]
      <4>1. /\ Limited!Without(w, more) = V[n] /\ n \in 0..N /\ n + 1 \in 0..N
            /\ w \in Seq(K) /\ x \in K
        BY <1>1, <2>2, <3>1, <3>2
      <4>2. /\ W[n + 1] = IF x \in ks THEN w ELSE Append(w, x)
            /\ V[n + 1] = IF x \in ks \union more THEN V[n] ELSE Append(V[n], x)
        BY <1>2, <1>3, <4>1
      <4> HIDE DEF x, w
      <4>3. Limited!Without(Append(w, x), more)
              = IF x \in more THEN Limited!Without(w, more) ELSE Append(Limited!Without(w, more), x)
        BY <4>1, WithoutAppend
      <4>4. QED
        BY <4>1, <4>2, <4>3
    <3>3. QED
      BY <3>1, <3>2
  <2> HIDE DEF T
  <2>3. T \subseteq Nat
    BY DEF T
  <2>4. QED
    BY <2>1, <2>2, <2>3, AllNumbers
<1>5. Limited!Without(W[N], more) = V[N]
  BY <1>1, <1>4
<1>6. QED
  BY <1>2, <1>3, <1>5

\* Removing others than the first.
LEMMA WithoutFirst ==
    ASSUME NEW K, NEW s \in Seq(K), NEW x \in K, NEW ks, x \notin ks
    PROVE  Limited!Without(<<x>> \o s, ks) = <<x>> \o Limited!Without(s, ks)
<1> DEFINE t == <<x>> \o s
           N == Len(s)
           V == Kept(t, ks)
           W == Kept(s, ks)
           T == {n \in Nat : n <= N => V[n + 1] = <<x>> \o W[n]}
<1>1. /\ N \in Nat /\ Len(t) = N + 1 /\ t[1] = x /\ \A i \in 1..N : t[i + 1] = s[i] /\ s[i] \in K
  <2>1. <<x>> \in Seq(K) /\ Len(<<x>>) = 1 /\ <<x>>[1] = x
    OBVIOUS
  <2>2. Len(t) = 1 + N /\ \A i \in 1..(1 + N) : t[i] = IF i <= 1 THEN <<x>>[i] ELSE s[i - 1]
    BY <2>1, ConcatProperties
  <2>3. N \in Nat /\ \A i \in 1..N : s[i] \in K
    OBVIOUS
  <2> HIDE DEF t, N
  <2>4. t[1] = x /\ \A i \in 1..N : t[i + 1] = s[i]
    BY <2>1, <2>2, <2>3
  <2>5. QED
    BY <2>2, <2>3, <2>4
<1>2. /\ Limited!Without(t, ks) = V[N + 1] /\ V[0] = <<>>
      /\ \A n \in 0..(N + 1) : n + 1 \in 0..(N + 1) =>
            V[n + 1] = IF t[n + 1] \in ks THEN V[n] ELSE Append(V[n], t[n + 1])
  <2> HIDE DEF t
  <2>1. Len(t) \in Nat
    BY <1>1
  <2>2. /\ Limited!Without(t, ks) = V[Len(t)] /\ V[0] = <<>>
        /\ \A n \in 0..Len(t) : n + 1 \in 0..Len(t) =>
              V[n + 1] = IF t[n + 1] \in ks THEN V[n] ELSE Append(V[n], t[n + 1])
    BY <2>1, KeptIs
  <2>3. QED
    BY <1>1, <2>2
<1>3. /\ Limited!Without(s, ks) = W[N] /\ W[0] = <<>>
      /\ \A n \in 0..N : n + 1 \in 0..N =>
            W[n + 1] = IF s[n + 1] \in ks THEN W[n] ELSE Append(W[n], s[n + 1])
      /\ \A n \in 0..N : W[n] \in Seq(K)
  <2>1. \A n \in 0..N : W[n] \in Seq(K)
    BY WithoutWell
  <2>2. /\ Limited!Without(s, ks) = W[N] /\ W[0] = <<>>
        /\ \A n \in 0..N : n + 1 \in 0..N =>
              W[n + 1] = IF s[n + 1] \in ks THEN W[n] ELSE Append(W[n], s[n + 1])
    <3>1. Len(s) \in Nat
      OBVIOUS
    <3>2. QED
      BY <3>1, KeptIs
  <2>3. QED
    BY <2>1, <2>2
<1> HIDE DEF t, N, V, W
<1>4. T = Nat
  <2>1. 0 \in T
    <3>1. 0 \in 0..(N + 1) /\ 0 + 1 \in 0..(N + 1) /\ 0 + 1 = 1
      BY <1>1
    <3>2. V[0 + 1] = IF t[0 + 1] \in ks THEN V[0] ELSE Append(V[0], t[0 + 1])
      BY <1>2, <3>1
    <3>3. V[0 + 1] = Append(<<>>, x)
      BY <1>1, <1>2, <3>1, <3>2
    <3>4. Append(<<>>, x) = <<x>> \o <<>>
      OBVIOUS
    <3>5. V[0 + 1] = <<x>> \o W[0]
      BY <1>3, <3>3, <3>4
    <3>6. QED
      BY <3>5
  <2>2. ASSUME NEW n \in T PROVE n + 1 \in T
    <3>1. n \in Nat
      OBVIOUS
    <3>2. ASSUME n + 1 <= N PROVE V[(n + 1) + 1] = <<x>> \o W[n + 1]
      <4> DEFINE y == s[n + 1]
                 w == W[n]
      <4>1. /\ V[n + 1] = <<x>> \o w /\ n \in 0..N /\ n + 1 \in 0..N /\ n + 1 \in 1..N
            /\ n + 1 \in 0..(N + 1) /\ (n + 1) + 1 \in 0..(N + 1)
            /\ w \in Seq(K) /\ y \in K /\ t[(n + 1) + 1] = y
        BY <1>1, <1>3, <2>2, <3>1, <3>2
      <4>2. /\ W[n + 1] = IF y \in ks THEN w ELSE Append(w, y)
            /\ V[(n + 1) + 1] = IF y \in ks THEN V[n + 1] ELSE Append(V[n + 1], y)
        BY <1>2, <1>3, <4>1
      <4> HIDE DEF y, w
      <4>3. Append(<<x>> \o w, y) = <<x>> \o Append(w, y)
        BY <4>1
      <4>4. QED
        BY <4>1, <4>2, <4>3
    <3>3. QED
      BY <3>1, <3>2
  <2> HIDE DEF T
  <2>3. T \subseteq Nat
    BY DEF T
  <2>4. QED
    BY <2>1, <2>2, <2>3, AllNumbers
<1>5. V[N + 1] = <<x>> \o W[N]
  <2>1. N \in T
    BY <1>1, <1>4
  <2>2. N <= N => V[N + 1] = <<x>> \o W[N]
    BY <2>1, Zenon
  <2>3. QED
    BY <1>1, <2>2
<1>6. QED
  BY <1>2, <1>3, <1>5 DEF t

\* A list with each element once is as long as the set of its elements is large.
LEMMA CountOnce ==
    ASSUME NEW K, NEW s \in Seq(K), EachOnce(s)
    PROVE  IsFiniteSet(Elems(s)) /\ Cardinality(Elems(s)) = Len(s)
<1>1. Len(s) \in Nat /\ DOMAIN s = 1..Len(s) /\ s \in [1..Len(s) -> K]
  OBVIOUS
<1>2. s \in [1..Len(s) -> Elems(s)]
  BY <1>1 DEF Elems
<1>3. s \in Surjection(1..Len(s), Elems(s))
  BY <1>1, <1>2 DEF Surjection, Elems
<1>4. s \in Injection(1..Len(s), Elems(s))
  BY <1>1, <1>2 DEF Injection, IsInjective, EachOnce
<1>5. IsFiniteSet(1..Len(s)) /\ Cardinality(1..Len(s)) = Len(s)
  BY <1>1, FS_Interval
<1>6. QED
  BY <1>3, <1>4, <1>5, FS_Surjection

-----------------------------------------------------------------------------
(* cache.MemCache with a limit.                                             *)

\* Cardinality of the instance is that of the lemmas.
LEMMA SameCardinality == \A S : Limited!Cardinality(S) = Cardinality(S)
BY DEF Limited!Cardinality, Cardinality, Limited!IsFiniteSet, IsFiniteSet

\* The map, typed.
MapOK ==
    /\ data \in [LruKeys -> Limited!Entry]
    /\ \A k \in LruKeys : data[k].exp = "none" <=> data[k] = Limited!Absent

\* Every key of the map has been used, the list is what the uses leave of the map's keys,
\* and there are no more of them than the limit.
ListInv ==
    /\ recent \in Seq(LruKeys)
    /\ EachOnce(recent)
    /\ Limited!Present \subseteq Elems(recent)
    /\ lru = Limited!Without(recent, LruKeys \ Limited!Present)
    /\ Cardinality(Limited!Present) <= LruLimit

\* The scan is about to delete only what has expired or is gone.
CachedInv ==
    /\ MapOK
    /\ ListInv
    /\ scan \subseteq LruKeys
    /\ dead \subseteq Limited!Present
    /\ \A k \in scan : data[k].exp \in {"none", "expired"}

\* A leader stores what fetch gave it.
CallsInv ==
    /\ scanning \in BOOLEAN /\ closed \in BOOLEAN
    /\ pc \in [LruProcs -> Limited!PCs]
    /\ op \in [LruProcs -> {"get", "take", "lead"}]
    /\ arg \in [LruProcs -> LruKeys]
    /\ out \in [LruProcs -> MemVals \union {Limited!Nil, Limited!Err}]
    /\ flight \in [LruKeys -> LruProcs \union {NoProc}]
    /\ \A p \in LruProcs : pc[p] = "store" => out[p] \in MemVals

LimitedInv == CachedInv /\ CallsInv

LEMMA ListMatches ==
    ASSUME ListInv
    PROVE  /\ lru \in Seq(LruKeys) /\ Elems(lru) = Limited!Present
           /\ Len(lru) \in Nat /\ Len(lru) = Cardinality(Limited!Present)
           /\ IsFiniteSet(Limited!Present)
           /\ Len(lru) <= LruLimit /\ Limited!Range(lru) = Elems(lru)
           /\ Limited!Present \subseteq LruKeys
<1> DEFINE P == Limited!Present
           rest == LruKeys \ P
<1>1. P \subseteq LruKeys
  BY DEF Limited!Present
<1> HIDE DEF P, rest
<1>2. /\ recent \in Seq(LruKeys) /\ EachOnce(recent) /\ P \subseteq Elems(recent)
      /\ lru = Limited!Without(recent, rest) /\ Cardinality(P) <= LruLimit
  BY DEF ListInv, P, rest
<1>3. /\ lru \in Seq(LruKeys) /\ Elems(lru) = Elems(recent) \ rest
      /\ EachOnce(lru)
  BY <1>2, WithoutWell
<1>4. Elems(recent) \subseteq LruKeys
  BY <1>2 DEF Elems
<1>5. Elems(lru) = P
  BY <1>1, <1>2, <1>3, <1>4 DEF rest
<1>6. IsFiniteSet(P) /\ Cardinality(P) = Len(lru)
  BY <1>3, <1>5, CountOnce
<1>7. Limited!Range(lru) = Elems(lru)
  BY DEF Limited!Range, Elems
<1>8. Len(lru) \in Nat
  BY <1>3
<1>9. QED
  BY <1>1, <1>2, <1>3, <1>5, <1>6, <1>7, <1>8 DEF P

\* Deletion, whatever it is for.
LEMMA DropKeeps ==
    ASSUME MapOK, ListInv, NEW ks, ks \subseteq LruKeys,
           data' = [k \in LruKeys |-> IF k \in ks THEN Limited!Absent ELSE data[k]],
           lru' = Limited!Without(lru, ks), recent' = recent
    PROVE  MapOK' /\ ListInv' /\ Limited!Present' = Limited!Present \ ks
<1> DEFINE P == Limited!Present
           Q == Limited!Present'
<1>1. Q = P \ ks
  BY DEF Limited!Present, Limited!Absent
<1>2. MapOK'
  BY DEF MapOK, Limited!Absent, Limited!Entry
<1>3. P \subseteq LruKeys
  BY DEF Limited!Present
<1>4. IsFiniteSet(P)
  BY ListMatches
<1> HIDE DEF P, Q
<1>5. /\ recent \in Seq(LruKeys) /\ EachOnce(recent) /\ P \subseteq Elems(recent)
      /\ lru = Limited!Without(recent, LruKeys \ P) /\ Cardinality(P) <= LruLimit
  BY DEF ListInv, P
<1>6. lru' = Limited!Without(recent, (LruKeys \ P) \union ks)
  BY <1>5, WithoutTwice
<1>7. (LruKeys \ P) \union ks = LruKeys \ Q
  BY <1>1, <1>3
<1>8. Cardinality(Q) <= LruLimit
  <2>1. IsFiniteSet(Q) /\ Cardinality(Q) <= Cardinality(P)
    BY <1>1, <1>4, FS_Subset
  <2>2. Cardinality(Q) \in Nat /\ Cardinality(P) \in Nat
    BY <1>4, <2>1, FS_CardinalityType
  <2>3. QED
    BY <1>5, <2>1, <2>2, LimitAssumption
<1>9. ListInv'
  BY <1>1, <1>5, <1>6, <1>7, <1>8 DEF ListInv, Q
<1>10. QED
  BY <1>1, <1>2, <1>9 DEF P, Q

\* keyLru.add evicts the last of the list, which is another key, and leaves room.
LEMMA Evicts ==
    ASSUME ListInv, NEW k \in LruKeys
    PROVE  LET P == Limited!Present
               Q == (P \union {k}) \ Limited!Evicted(k)
           IN  /\ k \notin Limited!Evicted(k)
               /\ Limited!Evicted(k) \subseteq P
               /\ IsFiniteSet(Q) /\ Cardinality(Q) <= LruLimit
<1> DEFINE P == Limited!Present
           E == Limited!Evicted(k)
           Q == (P \union {k}) \ E
<1> SUFFICES k \notin E /\ E \subseteq P /\ IsFiniteSet(Q) /\ Cardinality(Q) <= LruLimit
  OBVIOUS
<1>1. /\ lru \in Seq(LruKeys) /\ Elems(lru) = P /\ Len(lru) \in Nat
      /\ Len(lru) = Cardinality(P) /\ IsFiniteSet(P)
      /\ Len(lru) <= LruLimit /\ Limited!Range(lru) = P /\ LruLimit \in Nat /\ LruLimit > 0
  BY ListMatches, LimitAssumption
<1>2. E = IF k \notin P /\ Len(lru) >= LruLimit THEN {Limited!Last(lru)} ELSE {}
  BY <1>1 DEF Limited!Evicted
<1> HIDE DEF P, E
<1> HIDE DEF Q
<1>3. CASE k \in P
  <2>1. E = {} /\ Q = P
    BY <1>2, <1>3 DEF Q
  <2>2. QED
    BY <1>1, <2>1
<1>4. CASE k \notin P /\ Len(lru) >= LruLimit
  <2> DEFINE z == Limited!Last(lru)
  <2>1. z = lru[Len(lru)] /\ Len(lru) \in DOMAIN lru
    BY <1>1, <1>4 DEF Limited!Last
  <2>2. z \in P
    BY <1>1, <2>1 DEF Elems
  <2> HIDE DEF z
  <2>3. E = {z} /\ z # k
    BY <1>2, <1>4, <2>2 DEF z
  <2>4. Q = (P \ {z}) \union {k} /\ k \notin P \ {z}
    BY <1>4, <2>3 DEF Q
  <2>5. IsFiniteSet(P \ {z}) /\ Cardinality(P \ {z}) = Cardinality(P) - 1
    BY <1>1, <2>2, FS_RemoveElement
  <2>6. IsFiniteSet(Q) /\ Cardinality(Q) = Cardinality(P \ {z}) + 1
    <3> DEFINE R == P \ {z}
    <3> HIDE DEF R
    <3>1. Q = R \union {k} /\ k \notin R /\ IsFiniteSet(R)
      BY <2>4, <2>5 DEF R
    <3>2. IsFiniteSet(R \union {k}) /\ Cardinality(R \union {k}) = Cardinality(R) + 1
      BY <3>1, FS_AddElement
    <3>3. QED
      BY <3>1, <3>2 DEF R
  <2>7. QED
    BY <1>1, <2>2, <2>3, <2>5, <2>6
<1>5. CASE k \notin P /\ ~(Len(lru) >= LruLimit)
  <2>1. E = {} /\ Q = P \union {k}
    BY <1>2, <1>5 DEF Q
  <2>2. IsFiniteSet(Q) /\ Cardinality(Q) = Cardinality(P) + 1
    BY <1>1, <1>5, <2>1, FS_AddElement
  <2>3. QED
    BY <1>1, <1>5, <2>1, <2>2
<1>6. QED
  BY <1>3, <1>4, <1>5

\* A recorded use moves the key to the front of the uses and of the list.
LEMMA WriteKeeps ==
    ASSUME MapOK, ListInv, NEW k \in LruKeys, NEW e \in Limited!Entry, e.exp # "none",
           data' = Limited!Stored(k, e), lru' = Limited!LruAdd(k),
           recent' = Limited!ToFront(recent, k)
    PROVE  /\ MapOK' /\ ListInv' /\ k \notin Limited!Evicted(k)
           /\ Limited!Present' = (Limited!Present \union {k}) \ Limited!Evicted(k)
           /\ k \in Limited!Present => data' = [data EXCEPT ![k] = e]
<1> DEFINE P == Limited!Present
           Q == Limited!Present'
           E == Limited!Evicted(k)
           rest == LruKeys \ P
           used == Limited!Without(recent, {k})
<1>1. k \notin E /\ E \subseteq P /\ IsFiniteSet((P \union {k}) \ E)
      /\ Cardinality((P \union {k}) \ E) <= LruLimit
  BY Evicts
<1>2. data' = [x \in LruKeys |-> IF x = k THEN e ELSE IF x \in E THEN Limited!Absent ELSE data[x]]
  BY DEF Limited!Stored
<1>3. k \in P => E = {}
  BY ListMatches DEF Limited!Evicted
<1>4. P = {x \in LruKeys : data[x].exp # "none"} /\ Q = {x \in LruKeys : data'[x].exp # "none"}
  BY DEF Limited!Present
<1> HIDE DEF P, Q, E
<1>5. Q = (P \union {k}) \ E
  <2>1. \A x \in LruKeys : data'[x].exp # "none" <=> x \in (P \union {k}) \ E
    BY <1>1, <1>2, <1>4 DEF Limited!Absent
  <2>2. QED
    BY <1>4, <2>1
<1>6. MapOK'
  BY <1>2 DEF MapOK, Limited!Absent, Limited!Entry
<1>7. P \subseteq LruKeys /\ E \subseteq LruKeys /\ LruLimit > 0
  BY <1>1, <1>4, LimitAssumption
<1>8. /\ recent \in Seq(LruKeys) /\ EachOnce(recent) /\ P \subseteq Elems(recent)
      /\ lru = Limited!Without(recent, rest) /\ Elems(recent) \subseteq LruKeys
  BY DEF ListInv, P, Elems
<1>9. /\ used \in Seq(LruKeys) /\ EachOnce(used) /\ Elems(used) = Elems(recent) \ {k}
      /\ recent' = <<k>> \o used
  BY <1>8, WithoutWell DEF Limited!ToFront
<1>10. recent' \in Seq(LruKeys) /\ EachOnce(recent') /\ Elems(recent') = Elems(recent) \union {k}
  <2>1. /\ <<k>> \in Seq(LruKeys) /\ Len(<<k>>) = 1 /\ <<k>>[1] = k
    OBVIOUS
  <2>2. /\ recent' \in Seq(LruKeys) /\ Len(recent') = 1 + Len(used) /\ Len(used) \in Nat
        /\ \A i \in 1..(1 + Len(used)) : recent'[i] = IF i <= 1 THEN <<k>>[i] ELSE used[i - 1]
    BY <1>9, <2>1, ConcatProperties
  <2> HIDE DEF used
  <2>3. DOMAIN recent' = 1..(1 + Len(used)) /\ DOMAIN used = 1..Len(used)
    BY <1>9, <2>2
  <2>4. /\ 1 \in DOMAIN recent' /\ recent'[1] = k
        /\ \A i \in DOMAIN recent' : i = 1 \/ (i - 1 \in DOMAIN used /\ recent'[i] = used[i - 1])
        /\ \A i \in DOMAIN used : i + 1 \in DOMAIN recent' /\ recent'[i + 1] = used[i]
    BY <2>1, <2>2, <2>3
  <2>5. Elems(recent') = Elems(used) \union {k}
    BY <2>4 DEF Elems
  <2>6. \A i \in DOMAIN used : used[i] # k
    BY <1>9 DEF Elems
  <2>7. EachOnce(recent')
    <3>1. SUFFICES ASSUME NEW i \in DOMAIN recent', NEW j \in DOMAIN recent', recent'[i] = recent'[j]
                   PROVE  i = j
      BY DEF EachOnce
    <3>2. i \in Nat /\ j \in Nat
      BY <2>2, <2>3
    <3>3. CASE i = 1 \/ j = 1
      BY <2>4, <2>6, <3>1, <3>3
    <3>4. CASE i # 1 /\ j # 1
      <4>1. i - 1 \in DOMAIN used /\ j - 1 \in DOMAIN used /\ used[i - 1] = used[j - 1]
        BY <2>4, <3>1, <3>4
      <4>2. i - 1 = j - 1
        BY <1>9, <4>1 DEF EachOnce
      <4>3. QED
        BY <3>2, <4>2
    <3>5. QED
      BY <3>3, <3>4
  <2>8. Elems(used) \union {k} = Elems(recent) \union {k}
    BY <1>9
  <2>9. QED
    BY <2>2, <2>5, <2>7, <2>8
<1>11. Q \subseteq Elems(recent')
  BY <1>5, <1>8, <1>10
<1>12. lru' = Limited!Without(recent', LruKeys \ Q)
  <2> DEFINE both == {k} \union (LruKeys \ Q)
  <2>1. /\ lru' = Limited!Without(Limited!ToFront(lru, k), E)
    BY <1>7 DEF Limited!LruAdd, E
  <2>2. Limited!Without(lru, {k}) = Limited!Without(recent, rest \union {k})
    BY <1>8, WithoutTwice
  <2>3. Limited!Without(lru, {k}) \in Seq(LruKeys)
    BY <1>8, <2>2, WithoutWell
  <2>4. lru' = <<k>> \o Limited!Without(Limited!Without(lru, {k}), E)
    BY <1>1, <2>1, <2>3, WithoutFirst DEF Limited!ToFront
  <2>5. Limited!Without(Limited!Without(recent, rest \union {k}), E)
          = Limited!Without(recent, (rest \union {k}) \union E)
    BY <1>8, WithoutTwice
  <2>6. (rest \union {k}) \union E = both
    BY <1>1, <1>5, <1>7
  <2>7. lru' = <<k>> \o Limited!Without(recent, both)
    BY <2>2, <2>4, <2>5, <2>6
  <2>8. k \notin LruKeys \ Q
    BY <1>1, <1>5
  <2>9. Limited!Without(recent', LruKeys \ Q) = <<k>> \o Limited!Without(used, LruKeys \ Q)
    <3> DEFINE gone == LruKeys \ Q
    <3> HIDE DEF gone, used
    <3>1. k \notin gone
      BY <2>8 DEF gone
    <3>2. Limited!Without(<<k>> \o used, gone) = <<k>> \o Limited!Without(used, gone)
      BY <1>9, <3>1, WithoutFirst
    <3>3. QED
      BY <1>9, <3>2 DEF gone
  <2>10. Limited!Without(used, LruKeys \ Q) = Limited!Without(recent, both)
    <3> DEFINE gone == LruKeys \ Q
    <3> HIDE DEF gone
    <3>1. Limited!Without(Limited!Without(recent, {k}), gone)
            = Limited!Without(recent, {k} \union gone)
      BY <1>8, WithoutTwice
    <3>2. QED
      BY <3>1 DEF gone
  <2>11. QED
    BY <2>7, <2>9, <2>10
<1>13. Cardinality(Q) <= LruLimit
  BY <1>1, <1>5
<1>14. ListInv'
  BY <1>10, <1>11, <1>12, <1>13 DEF ListInv, Q
<1>15. k \in P => data' = [data EXCEPT ![k] = e]
  BY <1>2, <1>3 DEF MapOK
<1>16. QED
  BY <1>1, <1>5, <1>6, <1>14, <1>15 DEF P, Q, E

\* What is written is typed, and it is not what the scan has seen.
LEMMA WriteStep ==
    ASSUME CachedInv, NEW k \in LruKeys, NEW e \in Limited!Entry, e.exp # "none",
           Limited!Write(k, e)
    PROVE  CachedInv'
<1>1. /\ data' = Limited!Stored(k, e) /\ lru' = Limited!LruAdd(k)
      /\ recent' = Limited!ToFront(recent, k)
      /\ dead' = dead \ ({k} \union Limited!Evicted(k)) /\ scan' = scan \ {k}
  BY DEF Limited!Write
<1>2. MapOK' /\ ListInv' /\ Limited!Present' = (Limited!Present \union {k}) \ Limited!Evicted(k)
  BY <1>1, WriteKeeps DEF CachedInv
<1>3. dead' \subseteq Limited!Present'
  BY <1>1, <1>2 DEF CachedInv
<1>4. ASSUME NEW x \in scan' PROVE x \in LruKeys /\ data'[x].exp \in {"none", "expired"}
  <2>1. x # k /\ x \in LruKeys /\ data[x].exp \in {"none", "expired"}
    BY <1>1 DEF CachedInv
  <2>2. data'[x] = data[x] \/ data'[x] = Limited!Absent
    BY <1>1, <2>1 DEF Limited!Stored
  <2>3. QED
    BY <2>1, <2>2 DEF Limited!Absent
<1>5. QED
  BY <1>2, <1>3, <1>4 DEF CachedInv

LEMMA DropStep ==
    ASSUME CachedInv, NEW ks, ks \subseteq LruKeys, Limited!Drop(ks), scan' \subseteq scan
    PROVE  CachedInv'
<1>1. /\ data' = [k \in LruKeys |-> IF k \in ks THEN Limited!Absent ELSE data[k]]
      /\ lru' = Limited!Without(lru, ks) /\ recent' = recent /\ dead' = dead \ ks
  BY DEF Limited!Drop, Limited!LruDrop
<1>2. MapOK' /\ ListInv' /\ Limited!Present' = Limited!Present \ ks
  BY <1>1, DropKeeps DEF CachedInv
<1>3. \A x \in scan' : x \in LruKeys /\ data'[x].exp \in {"none", "expired"}
  BY <1>1 DEF CachedInv, Limited!Absent
<1>4. QED
  BY <1>1, <1>2, <1>3 DEF CachedInv

\* An entry grows old, or is given longer to live.
LEMMA AgeStep ==
    ASSUME CachedInv, NEW k \in LruKeys, data[k].exp # "none",
           NEW x \in {"fresh", "expired"}, data' = [data EXCEPT ![k].exp = x],
           lru' = lru, recent' = recent,
           dead' \subseteq dead \union {k}, scan' \subseteq scan, x = "fresh" => k \notin scan'
    PROVE  CachedInv'
<1>1. /\ data' = [data EXCEPT ![k] = [data[k] EXCEPT !.exp = x]]
      /\ data \in [LruKeys -> Limited!Entry] /\ data[k] \in Limited!Entry
  BY DEF CachedInv, MapOK
<1>2. /\ data' \in [LruKeys -> Limited!Entry] /\ data'[k].exp = x
      /\ \A y \in LruKeys : y # k => data'[y] = data[y]
  <2>1. [data[k] EXCEPT !.exp = x] \in Limited!Entry
    BY <1>1 DEF Limited!Entry
  <2>2. [data[k] EXCEPT !.exp = x].exp = x
    BY <1>1 DEF Limited!Entry
  <2> DEFINE e == [data[k] EXCEPT !.exp = x]
  <2> HIDE DEF e
  <2>3. data' = [data EXCEPT ![k] = e] /\ e \in Limited!Entry /\ e.exp = x
    BY <1>1, <2>1, <2>2 DEF e
  <2>4. QED
    BY <1>1, <2>3
<1>3. MapOK'
  BY <1>2 DEF MapOK, CachedInv, Limited!Absent
<1>4. Limited!Present' = Limited!Present /\ k \in Limited!Present
  BY <1>2 DEF Limited!Present
<1>5. ListInv'
  BY <1>4 DEF ListInv, CachedInv
<1>6. \A y \in scan' : y \in LruKeys /\ data'[y].exp \in {"none", "expired"}
  BY <1>2 DEF CachedInv
<1>7. QED
  BY <1>3, <1>4, <1>5, <1>6 DEF CachedInv

LEMMA SetExStep ==
    ASSUME LimitedInv, NEW k \in LruKeys, NEW v \in MemVals, NEW ttl \in BOOLEAN,
           Limited!SetEx(k, v, ttl)
    PROVE  LimitedInv'
<1> DEFINE e == [val |-> v, exp |-> Limited!ExpiryFor(ttl)]
<1>1. e \in Limited!Entry /\ e.exp # "none"
  BY DEF Limited!Entry, Limited!ExpiryFor
<1>2. Limited!Write(k, e) /\ UNCHANGED <<scanning, closed, pc, op, arg, out, flight>>
  BY DEF Limited!SetEx, Limited!scanVars, Limited!procVars
<1> HIDE DEF e
<1>3. CachedInv'
  BY <1>1, <1>2, WriteStep DEF LimitedInv
<1>4. QED
  BY <1>2, <1>3 DEF LimitedInv, CallsInv

LEMMA IncrementStep ==
    ASSUME LimitedInv, NEW k \in LruKeys, NEW v \in MemVals, Limited!Increment(k, v)
    PROVE  LimitedInv'
<1> DEFINE new == [val |-> v, exp |-> Limited!ExpiryFor(FALSE)]
           old == [data[k] EXCEPT !.val = v]
<1>1. new \in Limited!Entry /\ new.exp # "none"
  BY DEF Limited!Entry, Limited!ExpiryFor
<1>2. data[k] \in Limited!Entry
  BY DEF LimitedInv, CachedInv, MapOK
<1>3. old \in Limited!Entry /\ old.exp = data[k].exp
  BY <1>2 DEF Limited!Entry
<1>4. /\ IF data[k].exp \in {"none", "expired"} THEN Limited!Write(k, new) ELSE Limited!Write(k, old)
      /\ UNCHANGED <<scanning, closed, pc, op, arg, out, flight>>
  BY DEF Limited!Increment, Limited!scanVars, Limited!procVars
<1> HIDE DEF new, old
<1>5. CachedInv'
  <2>1. CASE Limited!Write(k, new)
    BY <1>1, <2>1, WriteStep DEF LimitedInv
  <2>2. CASE Limited!Write(k, old) /\ data[k].exp # "none"
    BY <1>3, <2>2, WriteStep DEF LimitedInv
  <2>3. QED
    BY <1>4, <2>1, <2>2
<1>6. QED
  BY <1>4, <1>5 DEF LimitedInv, CallsInv

LEMMA KeyStep ==
    ASSUME LimitedInv, NEW k \in LruKeys,
           \/ Limited!Delete({k}) \/ Limited!Lapse(k)
           \/ \E ttl \in BOOLEAN : Limited!Expire(k, ttl)
    PROVE  LimitedInv'
<1>1. UNCHANGED <<scanning, closed, pc, op, arg, out, flight>>
  BY DEF Limited!Delete, Limited!Lapse, Limited!Expire, Limited!scanVars, Limited!procVars
<1>2. CallsInv'
  BY <1>1 DEF LimitedInv, CallsInv
<1>3. CASE Limited!Delete({k})
  <2>1. Limited!Drop({k}) /\ scan' = scan
    BY <1>3 DEF Limited!Delete
  <2>2. QED
    BY <1>2, <2>1, DropStep DEF LimitedInv
<1>4. CASE Limited!Lapse(k)
  <2>1. /\ data[k].exp = "fresh" /\ data' = [data EXCEPT ![k].exp = "expired"]
        /\ dead' = dead \union {k} /\ lru' = lru /\ recent' = recent /\ scan' = scan
    BY <1>4 DEF Limited!Lapse
  <2>2. CachedInv'
    BY <2>1, AgeStep DEF LimitedInv
  <2>3. QED
    BY <1>2, <2>2 DEF LimitedInv
<1>5. ASSUME NEW ttl \in BOOLEAN, Limited!Expire(k, ttl) PROVE LimitedInv'
  <2>1. CASE ttl
    <3>1. /\ data[k].exp # "none" /\ data' = [data EXCEPT ![k].exp = "fresh"]
          /\ dead' = dead /\ lru' = lru /\ recent' = recent /\ scan' = scan \ {k}
      BY <1>5, <2>1 DEF Limited!Expire, Limited!Present
    <3>2. CachedInv'
      BY <3>1, AgeStep DEF LimitedInv
    <3>3. QED
      BY <1>2, <3>2 DEF LimitedInv
  <2>2. CASE ~ttl
    <3>1. Limited!Drop({k}) /\ scan' = scan
      BY <1>5, <2>2 DEF Limited!Expire
    <3>2. QED
      BY <1>2, <3>1, DropStep DEF LimitedInv
  <2>3. QED
    BY <2>1, <2>2
<1>6. QED
  BY <1>3, <1>4, <1>5

LEMMA CachedStays ==
    ASSUME CachedInv, UNCHANGED <<data, lru, recent, dead, scan>> PROVE CachedInv'
<1>1. Limited!Present' = Limited!Present
  BY DEF Limited!Present
<1>2. QED
  BY <1>1 DEF CachedInv, MapOK, ListInv

LEMMA ScanKeeps == ASSUME LimitedInv, Limited!ScanStep \/ Limited!Close PROVE LimitedInv'
<1>1. UNCHANGED <<pc, op, arg, out, flight>> /\ scanning' \in BOOLEAN /\ closed' \in BOOLEAN
  BY DEF Limited!ScanStep, Limited!ScanBegin, Limited!ScanDelete, Limited!Close, Limited!procVars,
     LimitedInv, CallsInv
<1>2. CallsInv'
  BY <1>1 DEF LimitedInv, CallsInv
<1>3. CASE Limited!ScanBegin
  <2>1. UNCHANGED <<data, lru, recent, dead>> /\ scan' = {k \in LruKeys : data[k].exp = "expired"}
    BY <1>3 DEF Limited!ScanBegin, Limited!IsExpired
  <2>2. Limited!Present' = Limited!Present
    BY <2>1 DEF Limited!Present
  <2>3. CachedInv'
    BY <2>1, <2>2 DEF LimitedInv, CachedInv, MapOK, ListInv
  <2>4. QED
    BY <1>2, <2>3 DEF LimitedInv
<1>4. CASE Limited!ScanDelete
  <2>1. Limited!Drop(scan) /\ scan' \subseteq scan /\ scan \subseteq LruKeys
    BY <1>4 DEF Limited!ScanDelete, LimitedInv, CachedInv
  <2>2. CachedInv'
    BY <2>1, DropStep DEF LimitedInv
  <2>3. QED
    BY <1>2, <2>2 DEF LimitedInv
<1>5. CASE Limited!Close
  <2>1. UNCHANGED <<data, lru, recent, dead, scan>>
    BY <1>5 DEF Limited!Close
  <2>2. QED
    BY <1>2, <2>1, CachedStays DEF LimitedInv
<1>6. QED
  BY <1>3, <1>4, <1>5 DEF Limited!ScanStep

LEMMA CallStep ==
    ASSUME LimitedInv, NEW p \in LruProcs, NEW k \in LruKeys,
           Limited!Call(p, k, "get") \/ Limited!Call(p, k, "take")
    PROVE  LimitedInv'
<1>1. /\ UNCHANGED <<data, lru, recent, dead, scan, scanning, closed, out, flight>>
      /\ pc' = [pc EXCEPT ![p] = "read"] /\ arg' = [arg EXCEPT ![p] = k]
      /\ \E o \in {"get", "take", "lead"} : op' = [op EXCEPT ![p] = o]
  BY DEF Limited!Call, Limited!scanVars
<1>2. CallsInv'
  BY <1>1 DEF LimitedInv, CallsInv, Limited!PCs
<1>3. QED
  BY <1>1, <1>2, CachedStays DEF LimitedInv

\* After doGet: where the call goes on, and what a leader carries.
Answers(p) ==
    /\ UNCHANGED <<scanning, closed, op, arg, flight>>
    /\ \E c \in Limited!PCs \ {"store"} : pc' = [pc EXCEPT ![p] = c]
    /\ \E v \in MemVals \union {Limited!Nil, Limited!Err} : out' = [out EXCEPT ![p] = v]

LEMMA Answered ==
    ASSUME CallsInv, NEW p \in LruProcs, Answers(p) PROVE CallsInv'
BY DEF Answers, CallsInv

LEMMA HitOrMissed ==
    ASSUME LimitedInv, NEW p \in LruProcs,
           \/ Limited!Hit(p, data[arg[p]].val)
           \/ Limited!Missed(p),
           UNCHANGED <<scanning, closed, op, arg, flight>>
    PROVE  CallsInv'
<1>1. data[arg[p]].val \in MemVals \union {Limited!Nil}
  BY DEF LimitedInv, CachedInv, CallsInv, MapOK, Limited!Entry
<1>2. /\ out[p] \in MemVals \union {Limited!Nil, Limited!Err} /\ out = [out EXCEPT ![p] = out[p]]
      /\ op[p] \in {"get", "take", "lead"}
  BY DEF LimitedInv, CallsInv
<1>3. CASE Limited!Hit(p, data[arg[p]].val)
  <2> DEFINE v == data[arg[p]].val
  <2>1. /\ pc' = [pc EXCEPT ![p] = IF op[p] = "lead" THEN "land" ELSE "idle"]
        /\ out' = [out EXCEPT ![p] = IF op[p] = "lead" THEN v ELSE out[p]]
    BY <1>3 DEF Limited!Hit
  <2>2. \E c \in Limited!PCs \ {"store"} : pc' = [pc EXCEPT ![p] = c]
    <3>1. (IF op[p] = "lead" THEN "land" ELSE "idle") \in Limited!PCs \ {"store"}
      BY DEF Limited!PCs
    <3>2. QED
      BY <2>1, <3>1
  <2>3. (IF op[p] = "lead" THEN v ELSE out[p]) \in MemVals \union {Limited!Nil, Limited!Err}
    BY <1>1, <1>2
  <2>4. Answers(p)
    BY <2>1, <2>2, <2>3 DEF Answers
  <2>5. QED
    BY <2>4, Answered DEF LimitedInv
<1>4. CASE Limited!Missed(p)
  <2>1. \E c \in Limited!PCs \ {"store"} : pc' = [pc EXCEPT ![p] = c]
    BY <1>2, <1>4 DEF Limited!Missed, Limited!PCs
  <2>2. out' = [out EXCEPT ![p] = out[p]]
    BY <1>2, <1>4 DEF Limited!Missed
  <2>3. Answers(p)
    BY <1>2, <2>1, <2>2 DEF Answers
  <2>4. QED
    BY <2>3, Answered DEF LimitedInv
<1>5. QED
  BY <1>3, <1>4

LEMMA GetStep ==
    ASSUME LimitedInv, NEW p \in LruProcs,
           Limited!DoGetLru(p) \/ Limited!DoGetRead(p) \/ Limited!DoGetUpgrade(p)
    PROVE  LimitedInv'
<1> DEFINE k == arg[p]
<1>1. k \in LruKeys /\ data[k] \in Limited!Entry
  BY DEF LimitedInv, CallsInv, CachedInv, MapOK
<1>2. /\ UNCHANGED <<scan, scanning, closed, op, arg, flight>>
      /\ Limited!Hit(p, data[k].val) \/ Limited!Missed(p)
  BY LimitAssumption
     DEF Limited!DoGetLru, Limited!DoGetRead, Limited!DoGetUpgrade, Limited!scanVars
<1>3. CallsInv'
  BY <1>2, HitOrMissed
<1>4. \/ /\ k \in Limited!Present /\ UNCHANGED <<data, dead>>
         /\ lru' = Limited!LruAdd(k) /\ recent' = Limited!ToFront(recent, k)
      \/ UNCHANGED <<data, lru, recent, dead>>
      \/ Limited!Drop({k})
  BY LimitAssumption DEF Limited!DoGetLru, Limited!DoGetRead, Limited!DoGetUpgrade
<1> HIDE DEF k
<1>5. CASE /\ k \in Limited!Present /\ UNCHANGED <<data, dead>>
           /\ lru' = Limited!LruAdd(k) /\ recent' = Limited!ToFront(recent, k)
  <2>1. Limited!Evicted(k) = {}
    BY <1>5, ListMatches DEF Limited!Evicted, LimitedInv, CachedInv
  <2>2. data[k].exp # "none" /\ data \in [LruKeys -> Limited!Entry]
    BY <1>5 DEF Limited!Present, LimitedInv, CachedInv, MapOK
  <2>3. data' = Limited!Stored(k, data[k])
    BY <1>5, <2>1, <2>2 DEF Limited!Stored
  <2>4. ListInv'
    BY <1>1, <1>5, <2>2, <2>3, WriteKeeps DEF LimitedInv, CachedInv
  <2>5. Limited!Present' = Limited!Present
    BY <1>5 DEF Limited!Present
  <2>6. CachedInv'
    BY <1>2, <1>5, <2>4, <2>5 DEF LimitedInv, CachedInv, MapOK
  <2>7. QED
    BY <1>3, <2>6 DEF LimitedInv
<1>6. CASE UNCHANGED <<data, lru, recent, dead>>
  BY <1>2, <1>3, <1>6, CachedStays DEF LimitedInv
<1>7. CASE Limited!Drop({k})
  BY <1>1, <1>2, <1>3, <1>7, DropStep DEF LimitedInv
<1>8. QED
  BY <1>4, <1>5, <1>6, <1>7

LEMMA TakeStep ==
    ASSUME LimitedInv, NEW p \in LruProcs,
           \/ Limited!TakeLead(p) \/ Limited!TakeWait(p) \/ Limited!TakeLand(p)
           \/ Limited!FetchErr(p) \/ \E v \in MemVals : Limited!FetchOk(p, v)
    PROVE  LimitedInv'
<1>1. UNCHANGED <<data, lru, recent, dead, scan, scanning, closed, arg>>
  BY DEF Limited!TakeLead, Limited!TakeWait, Limited!TakeLand, Limited!FetchErr, Limited!FetchOk,
     Limited!scanVars
<1>2. CASE Limited!TakeLead(p)
  BY <1>1, <1>2, CachedStays DEF Limited!TakeLead, LimitedInv, CallsInv, Limited!PCs
<1>3. CASE Limited!TakeWait(p)
  BY <1>1, <1>3, CachedStays DEF Limited!TakeWait, LimitedInv, CallsInv, Limited!PCs
<1>4. CASE Limited!TakeLand(p)
  BY <1>1, <1>4, CachedStays DEF Limited!TakeLand, LimitedInv, CallsInv, Limited!PCs
<1>5. CASE Limited!FetchErr(p)
  BY <1>1, <1>5, CachedStays DEF Limited!FetchErr, LimitedInv, CallsInv, Limited!PCs
<1>6. ASSUME NEW v \in MemVals, Limited!FetchOk(p, v) PROVE LimitedInv'
  BY <1>1, <1>6, CachedStays DEF Limited!FetchOk, LimitedInv, CallsInv, Limited!PCs
<1>7. QED
  BY <1>2, <1>3, <1>4, <1>5, <1>6

LEMMA StoreStep ==
    ASSUME LimitedInv, NEW p \in LruProcs, Limited!TakeStore(p) PROVE LimitedInv'
<1> DEFINE e == [val |-> out[p], exp |-> Limited!ExpiryFor(FALSE)]
<1>1. /\ pc[p] = "store" /\ pc' = [pc EXCEPT ![p] = "land"] /\ Limited!Write(arg[p], e)
      /\ UNCHANGED <<scanning, closed, op, arg, out, flight>>
  BY DEF Limited!TakeStore, Limited!scanVars
<1>2. e \in Limited!Entry /\ e.exp # "none" /\ arg[p] \in LruKeys
  BY <1>1 DEF LimitedInv, CallsInv, Limited!Entry, Limited!ExpiryFor
<1> HIDE DEF e
<1>3. CachedInv'
  BY <1>1, <1>2, WriteStep DEF LimitedInv
<1>4. CallsInv'
  BY <1>1 DEF LimitedInv, CallsInv, Limited!PCs
<1>5. QED
  BY <1>3, <1>4 DEF LimitedInv

LEMMA LimitedStep == ASSUME LimitedInv, Limited!Next PROVE LimitedInv'
<1>1. ASSUME NEW k \in LruKeys, NEW v \in MemVals,
             Limited!Increment(k, v) \/ \E ttl \in BOOLEAN : Limited!SetEx(k, v, ttl)
      PROVE  LimitedInv'
  BY <1>1, IncrementStep, SetExStep
<1>2. ASSUME NEW k \in LruKeys,
             \/ Limited!Delete({k}) \/ Limited!Lapse(k)
             \/ \E ttl \in BOOLEAN : Limited!Expire(k, ttl)
      PROVE  LimitedInv'
  BY <1>2, KeyStep
<1>3. ASSUME NEW p \in LruProcs, NEW k \in LruKeys,
             Limited!Call(p, k, "get") \/ Limited!Call(p, k, "take")
      PROVE  LimitedInv'
  BY <1>3, CallStep
<1>4. ASSUME NEW p \in LruProcs, Limited!ProcStep(p) PROVE LimitedInv'
  BY <1>4, GetStep, TakeStep, StoreStep DEF Limited!ProcStep
<1>5. CASE Limited!ScanStep \/ Limited!Close
  BY <1>5, ScanKeeps
<1>6. QED
  BY <1>1, <1>2, <1>3, <1>4, <1>5 DEF Limited!Next

\* What a look or the scan takes away had expired.
LEMMA OnlyExpired == LimitedInv => Limited!CollectsOnlyExpired
<1> SUFFICES ASSUME LimitedInv, NEW k \in LruKeys,
                    data[k].exp \in {"fresh", "never"}, data'[k].exp = "none",
                    \/ Limited!ScanDelete
                    \/ \E p \in LruProcs : \/ Limited!DoGetRead(p) \/ Limited!DoGetUpgrade(p)
                                           \/ Limited!DoGetLru(p)
             PROVE  FALSE
  BY DEF Limited!CollectsOnlyExpired
<1>1. k \in Limited!Present /\ ~Limited!IsExpired(k) /\ k \notin scan
  BY DEF Limited!Present, Limited!IsExpired, LimitedInv, CachedInv
<1>2. ASSUME NEW ks, Limited!Drop(ks), k \notin ks PROVE FALSE
  <2>1. data'[k] = data[k]
    BY <1>2 DEF Limited!Drop
  <2>2. QED
    BY <2>1
<1>3. CASE Limited!ScanDelete
  BY <1>1, <1>2, <1>3 DEF Limited!ScanDelete
<1>4. ASSUME NEW p \in LruProcs,
             Limited!DoGetRead(p) \/ Limited!DoGetUpgrade(p) \/ Limited!DoGetLru(p)
      PROVE  FALSE
  <2>1. \/ data' = data
        \/ (arg[p] \notin Limited!Present \/ Limited!IsExpired(arg[p])) /\ Limited!Drop({arg[p]})
    BY <1>4 DEF Limited!DoGetRead, Limited!DoGetUpgrade, Limited!DoGetLru
  <2>2. QED
    BY <1>1, <1>2, <2>1
<1>5. QED
  BY <1>3, <1>4

LEMMA LimitedTells ==
    LimitedInv => Limited!TypeOK /\ Limited!MapMatchesLru /\ Limited!LruOrder
<1> SUFFICES ASSUME LimitedInv PROVE Limited!TypeOK /\ Limited!MapMatchesLru /\ Limited!LruOrder
  OBVIOUS
<1>1. ListInv /\ lru \in Seq(LruKeys) /\ Elems(lru) = Limited!Present
      /\ Len(lru) = Cardinality(Limited!Present) /\ Len(lru) <= LruLimit
      /\ Limited!Range(lru) = Elems(lru)
  BY ListMatches DEF LimitedInv, CachedInv
<1>2. Limited!TypeOK
  BY <1>1 DEF Limited!TypeOK, LimitedInv, CachedInv, CallsInv, MapOK, ListInv
<1>3. Limited!MapMatchesLru
  BY <1>1, SameCardinality DEF Limited!MapMatchesLru
<1>4. Limited!LruOrder
  BY <1>1 DEF Limited!LruOrder, ListInv
<1>5. QED
  BY <1>2, <1>3, <1>4

LEMMA LimitedStart == Limited!Init => LimitedInv
<1> SUFFICES ASSUME Limited!Init PROVE LimitedInv
  OBVIOUS
<1>1. Limited!Present = {}
  BY DEF Limited!Init, Limited!Present, Limited!Absent
<1>2. Limited!Without(<<>>, LruKeys \ Limited!Present) = <<>>
  BY WithoutEmpty
<1>3. Cardinality({}) = 0 /\ LruLimit \in Nat
  BY FS_EmptySet, LimitAssumption
<1>4. recent = <<>> /\ lru = <<>>
  BY DEF Limited!Init
<1>5. ListInv
  BY <1>1, <1>2, <1>3, <1>4 DEF ListInv, EachOnce
<1>6. MapOK
  BY DEF Limited!Init, MapOK, Limited!Absent, Limited!Entry
<1>7. CallsInv
  BY DEF Limited!Init, CallsInv, Limited!PCs
<1>8. CachedInv
  BY <1>5, <1>6 DEF Limited!Init, CachedInv
<1>9. QED
  BY <1>7, <1>8 DEF LimitedInv

\* A MemCache with a limit, for any number of goroutines and keys and any limit: keyLru and
\* the map hold the same keys, at most as many as the limit, in the order of their last
\* uses, so that the one evicted is the least recently used; and neither Get nor the scan,
\* which read the clock before they take the lock, delete what has not expired.
THEOREM CacheStaysExact == MCSpec => MemCacheExact
<1> DEFINE Inv == which = "limited" => LimitedInv
<1>1. MCInit => Inv
  BY LimitedStart DEF MCInit
<1>2. Inv /\ [MCNext]_<<which, lVars, rVars, mVars>> => Inv'
  <2> SUFFICES ASSUME Inv, [MCNext]_<<which, lVars, rVars, mVars>>, which' = "limited"
               PROVE  LimitedInv'
    OBVIOUS
  <2>1. which = "limited" /\ LimitedInv /\ (Limited!Next \/ UNCHANGED mVars)
    BY DEF MCNext, Rests
  <2>2. CASE Limited!Next
    BY <2>1, <2>2, LimitedStep
  <2>3. CASE UNCHANGED mVars
    <3>1. UNCHANGED <<data, lru, recent, dead, scan>>
      BY <2>3 DEF mVars
    <3>2. CachedInv'
      BY <2>1, <3>1, CachedStays DEF LimitedInv
    <3>3. CallsInv'
      BY <2>1, <2>3 DEF LimitedInv, CallsInv, mVars
    <3>4. QED
      BY <3>2, <3>3 DEF LimitedInv
  <2>4. QED
    BY <2>1, <2>2, <2>3
<1>3. Inv => (which = "limited" => Limited!TypeOK /\ Limited!MapMatchesLru /\ Limited!LruOrder)
  BY LimitedTells
<1>4. Inv => [which = "limited" => Limited!CollectsOnlyExpired]_mVars
  BY OnlyExpired
<1>5. QED
  BY <1>1, <1>2, <1>3, <1>4, PTL DEF MCSpec, MemCacheExact
=============================================================================
