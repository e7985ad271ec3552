-------------------------- MODULE ResilienceProof --------------------------
(***************************************************************************)
(* Proofs about Breakers, for any number of goroutines, names, instances   *)
(* and failure reasons; about the probes and the rolling window of         *)
(* Breaker, for any window and cool-down; about the limiters, for any      *)
(* rate, burst, limit and window; and about Retry, for any width and       *)
(* configuration.                                                          *)
(***************************************************************************)
EXTENDS MCResilience, FiniteSetTheorems, TLAPS

USE RegistryAssumption

Made == DOMAIN inst
Active(i) == {p \in Clients : brk[p] = i /\ cpc[p] \in {"run", "reject"}}

\* The registry: the instances are numbered, and the one of a name's present era is
\* the one that is registered.
RegisterInv ==
    /\ breakers \in [Names -> {0} \union Made]
    /\ \E k \in 0..MaxInst : Made = 1..k
    /\ \A i \in Made : inst[i] \in [name : Names, era : Nat, nop : BOOLEAN]
    /\ era \in [Names -> Nat]
    /\ \A n \in Names : breakers[n] # 0 => inst[breakers[n]].name = n
    /\ \A i \in Made :
          /\ inst[i].era <= era[inst[i].name]
          /\ inst[i].era = era[inst[i].name] => breakers[inst[i].name] = i
    /\ Registry!Shared

\* A request that has got its breaker.
RequestInv ==
    /\ cpc \in [Clients -> {"idle", "look", "make", "allow", "run", "reject"}]
    /\ name \in [Clients -> Names]
    /\ brk \in [Clients -> {0} \union Made]
    /\ \A p \in Clients : cpc[p] \in {"allow", "run", "reject"} => brk[p] # 0

\* The statistics, also of the instances to come.
Reported(i) ==
    (i \in Made => ~inst[i].nop) =>
        tally[i].admitted = tally[i].ok + tally[i].failed + Cardinality(Active(i))

TallyInv ==
    /\ tally \in [1..MaxInst -> [admitted : Nat, ok : Nat, failed : Nat]]
    /\ \A i \in 1..MaxInst : Reported(i)

\* The ring w after a reasons, numbered from 1: the slot k places before index holds
\* the k-th last one.
RingHolds(w, a) ==
    /\ w.count = IF a < Reasons THEN a ELSE Reasons
    /\ \A k \in 1..w.count : w.reasons[(w.index - k + Reasons) % Reasons] = a - k + 1

RingInv ==
    /\ errWin \in [1..MaxInst -> Registry!ErrorWindow]
    /\ added \in [1..MaxInst -> Nat]
    /\ \A i \in 1..MaxInst : RingHolds(errWin[i], added[i])

-----------------------------------------------------------------------------
(* The ring of reasons. *)

LEMMA ModBelow ==
    ASSUME NEW H \in Nat \ {0}, NEW x \in 0..(H - 1)
    PROVE  x % H = x
OBVIOUS

LEMMA ModOnce ==
    ASSUME NEW H \in Nat \ {0}, NEW x \in H..(2 * H - 1)
    PROVE  x % H = x - H
OBVIOUS

\* One place on, and k places back, in a ring of H.
LEMMA OnePlaceOn ==
    ASSUME NEW H \in Nat \ {0}, NEW x \in 0..(H - 1)
    PROVE  (x + 1) % H = IF x = H - 1 THEN 0 ELSE x + 1
<1>1. CASE x = H - 1
  BY <1>1, ModOnce
<1>2. CASE x # H - 1
  BY <1>2, ModBelow
<1>3. QED
  BY <1>1, <1>2

LEMMA PlacesBack ==
    ASSUME NEW H \in Nat \ {0}, NEW x \in 0..(H - 1), NEW k \in 1..H
    PROVE  (x - k + H) % H = IF x < k THEN x - k + H ELSE x - k
<1>1. CASE x < k
  BY <1>1, ModBelow
<1>2. CASE ~(x < k)
  BY <1>2, ModOnce
<1>3. QED
  BY <1>1, <1>2

\* What lay k - 1 places back lies k places back once the ring has moved on.
LEMMA PlacesShift ==
    ASSUME NEW H \in Nat \ {0}, NEW x \in 0..(H - 1), NEW k \in 2..H,
           NEW y, y = (x + 1) % H
    PROVE  /\ y \in 0..(H - 1)
           /\ (y - 1 + H) % H = x
           /\ (y - k + H) % H = (x - (k - 1) + H) % H
           /\ (x - (k - 1) + H) % H \in 0..(H - 1)
           /\ (x - (k - 1) + H) % H # x
<1>1. y = IF x = H - 1 THEN 0 ELSE x + 1
  BY OnePlaceOn
<1>2. y \in 0..(H - 1)
  BY <1>1
<1>3. (y - 1 + H) % H = IF y < 1 THEN y - 1 + H ELSE y - 1
  BY <1>2, PlacesBack
<1>4. (y - k + H) % H = IF y < k THEN y - k + H ELSE y - k
  BY <1>2, PlacesBack
<1>5. (x - (k - 1) + H) % H = IF x < k - 1 THEN x - (k - 1) + H ELSE x - (k - 1)
  <2>1. k - 1 \in 1..H
    OBVIOUS
  <2>2. QED
    BY <2>1, PlacesBack
<1>6. (y - 1 + H) % H = x
  BY <1>1, <1>3
<1>7. (y - k + H) % H = (x - (k - 1) + H) % H
  BY <1>1, <1>4, <1>5
<1>8. (x - (k - 1) + H) % H \in 0..(H - 1) /\ (x - (k - 1) + H) % H # x
  BY <1>5
<1>9. QED
  BY <1>2, <1>6, <1>7, <1>8

\* errorWindow.add.
LEMMA RingAdd ==
    ASSUME NEW w \in Registry!ErrorWindow, NEW a \in Nat, RingHolds(w, a)
    PROVE  /\ Registry!AddReason(w, a + 1) \in Registry!ErrorWindow
           /\ RingHolds(Registry!AddReason(w, a + 1), a + 1)
<1> DEFINE v == Registry!AddReason(w, a + 1)
<1>1. /\ w.reasons \in [0..(Reasons - 1) -> Nat]
      /\ w.index \in 0..(Reasons - 1) /\ w.count \in 0..Reasons
  BY DEF Registry!ErrorWindow
<1>2. /\ v = [reasons |-> v.reasons, index |-> v.index, count |-> v.count]
      /\ v.reasons = [w.reasons EXCEPT ![w.index] = a + 1]
      /\ v.index = (w.index + 1) % Reasons
      /\ v.count = IF w.count < Reasons THEN w.count + 1 ELSE w.count
  BY DEF Registry!AddReason
<1> HIDE DEF v
<1>3. v.index = IF w.index = Reasons - 1 THEN 0 ELSE w.index + 1
  BY <1>1, <1>2, OnePlaceOn
<1>4. v \in Registry!ErrorWindow
  <2>1. v.reasons \in [0..(Reasons - 1) -> Nat]
    BY <1>1, <1>2
  <2>2. v.index \in 0..(Reasons - 1)
    BY <1>1, <1>3
  <2>3. v.count \in 0..Reasons
    <3>1. CASE w.count < Reasons
      BY <1>1, <1>2, <3>1
    <3>2. CASE ~(w.count < Reasons)
      BY <1>1, <1>2, <3>2
    <3>3. QED
      BY <3>1, <3>2
  <2>4. QED
    BY <1>2, <2>1, <2>2, <2>3 DEF Registry!ErrorWindow
<1>5. w.count = IF a < Reasons THEN a ELSE Reasons
  BY DEF RingHolds
<1>6. v.count = IF a + 1 < Reasons THEN a + 1 ELSE Reasons
  BY <1>1, <1>2, <1>5
<1>7. ASSUME NEW k \in 1..v.count
      PROVE  v.reasons[(v.index - k + Reasons) % Reasons] = (a + 1) - k + 1
  <2>1. k \in 1..Reasons
    BY <1>6
  <2>2. CASE k = 1
    <3>1. v.index \in 0..(Reasons - 1)
      BY <1>1, <1>3
    <3>2. (v.index - 1 + Reasons) % Reasons =
             IF v.index < 1 THEN v.index - 1 + Reasons ELSE v.index - 1
      BY <2>1, <2>2, <3>1, PlacesBack
    <3>3. (v.index - 1 + Reasons) % Reasons = w.index
      BY <1>1, <1>3, <3>2, SMTT(30)
    <3>4. v.reasons[w.index] = a + 1
      BY <1>1, <1>2
    <3>5. QED
      BY <2>2, <3>3, <3>4
  <2>3. CASE k # 1
    <3> DEFINE x == (w.index - (k - 1) + Reasons) % Reasons
    <3>1. k \in 2..Reasons
      BY <2>1, <2>3
    <3>2. /\ (v.index - k + Reasons) % Reasons = x
          /\ x \in 0..(Reasons - 1) /\ x # w.index
      BY <1>1, <1>2, <3>1, PlacesShift
    <3>3. k - 1 \in 1..w.count
      BY <1>1, <1>2, <2>3, SMTT(30)
    <3>4. w.reasons[x] = a - (k - 1) + 1
      BY <3>3 DEF RingHolds
    <3> HIDE DEF x
    <3>5. v.reasons[x] = w.reasons[x]
      BY <1>1, <1>2, <3>2
    <3>6. QED
      BY <3>1, <3>2, <3>4, <3>5
  <2>4. QED
    BY <2>2, <2>3
<1>8. RingHolds(v, a + 1)
  BY <1>6, <1>7 DEF RingHolds
<1>9. QED
  BY <1>4, <1>8 DEF v

\* errorWindow.String.
LEMMA RingString ==
    ASSUME NEW w, NEW a \in Nat, RingHolds(w, a)
    PROVE  LET n == IF a < Reasons THEN a ELSE Reasons
           IN  Registry!String(w) = [k \in 1..n |-> a - k + 1]
BY DEF RingHolds, Registry!String

-----------------------------------------------------------------------------
(* The registry. *)

\* FiniteSets, under the instance's name.
LEMMA SameCardinality == \A S : Registry!Cardinality(S) = Cardinality(S)
BY DEF Registry!Cardinality, Cardinality

\* What Register does, for the era the instance gets.
LEMMA RegisterKeeps ==
    ASSUME RegisterInv, NEW n \in Names, NEW nop \in BOOLEAN, Registry!Register(n, nop),
           era' \in [Names -> Nat], \A x \in Names : era[x] <= era'[x],
           \A i \in Made : inst[i].name = n => inst[i].era < era'[n],
           \A x \in Names : x # n => era'[x] = era[x]
    PROVE  /\ RegisterInv'
           /\ Made \subseteq Made' /\ \A i \in Made : inst'[i] = inst[i]
           /\ \E new \in 1..MaxInst : new \notin Made /\ Made' = Made \union {new}
           /\ breakers'[n] \in Made'
<1>1. PICK k \in 0..MaxInst : Made = 1..k
  BY DEF RegisterInv
<1>2. Registry!New = k + 1
  <2>1. Cardinality(1..k) = k
    BY <1>1, FS_Interval
  <2>2. QED
    BY <1>1, <2>1, SameCardinality DEF Registry!New, Registry!Made, Made
<1>3. /\ k + 1 \in 1..MaxInst
      /\ breakers' = [breakers EXCEPT ![n] = k + 1]
      /\ inst' = [i \in Made \union {k + 1} |->
                     IF i \in Made THEN inst[i] ELSE [name |-> n, era |-> era'[n], nop |-> nop]]
  BY <1>2 DEF Registry!Register, Registry!Instances, Registry!Made, Made
<1>4. /\ k + 1 \notin Made /\ Made' = Made \union {k + 1} /\ Made' = 1..(k + 1)
      /\ \A i \in Made : inst'[i] = inst[i]
      /\ inst'[k + 1] = [name |-> n, era |-> era'[n], nop |-> nop]
  BY <1>1, <1>3 DEF Made
<1>5. breakers' \in [Names -> {0} \union Made'] /\ breakers'[n] = k + 1
      /\ \A x \in Names : x # n => breakers'[x] = breakers[x]
  BY <1>3, <1>4 DEF RegisterInv
<1>6. \A i \in Made' : inst'[i] \in [name : Names, era : Nat, nop : BOOLEAN]
  <2>1. era'[n] \in Nat
    OBVIOUS
  <2>2. inst'[k + 1] \in [name : Names, era : Nat, nop : BOOLEAN]
    BY <2>1, <1>4
  <2>3. \A i \in Made : inst[i] \in [name : Names, era : Nat, nop : BOOLEAN]
    BY DEF RegisterInv
  <2>4. QED
    BY <1>4, <2>2, <2>3
<1>7. \A x \in Names : breakers'[x] # 0 => inst'[breakers'[x]].name = x
  <2> SUFFICES ASSUME NEW x \in Names, breakers'[x] # 0 PROVE inst'[breakers'[x]].name = x
    OBVIOUS
  <2>1. CASE x = n
    BY <1>4, <1>5, <2>1
  <2>2. CASE x # n
    <3>1. breakers'[x] = breakers[x] /\ breakers[x] \in Made
      BY <1>5, <2>2 DEF RegisterInv
    <3>2. QED
      BY <1>4, <3>1 DEF RegisterInv
  <2>3. QED
    BY <2>1, <2>2
<1>8. ASSUME NEW i \in Made'
      PROVE  /\ inst'[i].era <= era'[inst'[i].name]
             /\ inst'[i].era = era'[inst'[i].name] => breakers'[inst'[i].name] = i
  <2>1. CASE i = k + 1
    BY <1>4, <1>5, <2>1
  <2>2. CASE i \in Made
    <3>1. /\ inst'[i] = inst[i] /\ inst[i].name \in Names /\ inst[i].era \in Nat
          /\ inst[i].era <= era[inst[i].name]
          /\ inst[i].era = era[inst[i].name] => breakers[inst[i].name] = i
          /\ era[inst[i].name] \in Nat /\ era'[inst[i].name] \in Nat
      BY <1>4, <2>2 DEF RegisterInv
    <3>2. CASE inst[i].name = n
      BY <2>2, <3>1, <3>2
    <3>3. CASE inst[i].name # n
      BY <1>5, <3>1, <3>3
    <3>4. QED
      BY <3>2, <3>3
  <2>3. QED
    BY <1>4, <2>1, <2>2
<1>9. Registry!Shared'
  <2> SUFFICES ASSUME NEW i \in Made', NEW j \in Made', i # j,
                      inst'[i].name = inst'[j].name, inst'[i].era = inst'[j].era
               PROVE  FALSE
    BY DEF Registry!Shared, Registry!Made, Made
  <2>1. CASE i \in Made /\ j \in Made
    BY <1>4, <2>1 DEF RegisterInv, Registry!Shared, Registry!Made, Made
  <2>2. CASE i = k + 1 /\ j \in Made
    <3>1. inst[j].name = n /\ inst[j].era = era'[n] /\ era'[n] \in Nat
      BY <1>4, <2>2
    <3>2. QED
      BY <2>2, <3>1
  <2>3. CASE j = k + 1 /\ i \in Made
    <3>1. inst[i].name = n /\ inst[i].era = era'[n] /\ era'[n] \in Nat
      BY <1>4, <2>3
    <3>2. inst[i].era < era'[n]
      BY <2>3, <3>1
    <3>3. QED
      BY <3>1, <3>2
  <2>4. QED
    BY <1>4, <2>1, <2>2, <2>3
<1>10. \E x \in 0..MaxInst : Made' = 1..x
  <2>1. k + 1 \in 0..MaxInst
    BY <1>3
  <2>2. QED
    BY <1>4, <2>1
<1>11. RegisterInv'
  BY <1>5, <1>6, <1>7, <1>8, <1>9, <1>10 DEF RegisterInv
<1>12. QED
  BY <1>3, <1>4, <1>5, <1>11

\* Registering keeps the rest: the new instance has no request yet.
LEMMA StaysMade ==
    ASSUME RequestInv, TallyInv, RegisterInv, Made \subseteq Made',
           \A i \in Made : inst'[i] = inst[i],
           UNCHANGED <<cpc, name, brk, tally>>
    PROVE  RequestInv' /\ TallyInv'
<1>1. RequestInv'
  BY DEF RequestInv
<1>2. \A i : Active(i)' = Active(i)
  BY DEF Active
<1>3. ASSUME NEW i \in 1..MaxInst PROVE Reported(i)'
  <2>1. Reported(i)
    BY DEF TallyInv
  <2>2. (i \in Made' => ~inst'[i].nop) => (i \in Made => ~inst[i].nop)
    OBVIOUS
  <2>3. tally' = tally
    OBVIOUS
  <2>4. QED
    BY <1>2, <2>1, <2>2, <2>3 DEF Reported
<1>4. QED
  BY <1>1, <1>3 DEF TallyInv

-----------------------------------------------------------------------------
(* Requests. *)

\* A request that is not being counted moves.
LEMMA MovesUncounted ==
    ASSUME RequestInv, TallyInv, NEW p \in Clients, NEW to,
           cpc' = [cpc EXCEPT ![p] = to], tally' = tally,
           Made \subseteq Made', \A i \in Made : inst'[i] = inst[i],
           \A q \in Clients : q # p => brk'[q] = brk[q],
           \/ cpc[p] \notin {"run", "reject"} /\ to \notin {"run", "reject"}
           \/ cpc[p] = "run" /\ to = "reject" /\ brk' = brk
    PROVE  TallyInv'
<1>1. ASSUME NEW i PROVE Active(i)' = Active(i)
  <2>1. /\ cpc'[p] = to
        /\ \A q \in Clients : q # p => cpc'[q] = cpc[q] /\ brk'[q] = brk[q]
    BY DEF RequestInv
  <2>2. \A q \in Clients : q \in Active(i)' <=> q \in Active(i)
    <3>1. CASE cpc[p] \notin {"run", "reject"} /\ to \notin {"run", "reject"}
      BY <2>1, <3>1 DEF Active
    <3>2. CASE cpc[p] = "run" /\ to = "reject" /\ brk' = brk
      BY <2>1, <3>2 DEF Active
    <3>3. QED
      BY <3>1, <3>2
  <2>3. Active(i)' \subseteq Clients /\ Active(i) \subseteq Clients
    BY DEF Active
  <2>4. QED
    BY <2>2, <2>3
<1>2. ASSUME NEW i \in 1..MaxInst PROVE Reported(i)'
  <2>1. Reported(i)
    BY DEF TallyInv
  <2>2. (i \in Made' => ~inst'[i].nop) => (i \in Made => ~inst[i].nop)
    OBVIOUS
  <2>3. QED
    BY <1>1, <2>1, <2>2 DEF Reported
<1>3. QED
  BY <1>2 DEF TallyInv

LEMMA ActiveFinite == \A i : IsFiniteSet(Active(i)) /\ Cardinality(Active(i)) \in Nat
<1> SUFFICES ASSUME NEW i PROVE IsFiniteSet(Active(i)) /\ Cardinality(Active(i)) \in Nat
  OBVIOUS
<1>1. Active(i) \subseteq Clients
  BY DEF Active
<1>2. IsFiniteSet(Active(i))
  BY <1>1, FS_Subset
<1>3. QED
  BY <1>2, FS_CardinalityType

\* Admission and report: the request begins or ceases to be counted, in its own
\* breaker's statistics and in no other.
LEMMA MovesCounted ==
    ASSUME RegisterInv, RequestInv, TallyInv, NEW p \in Clients, NEW to, NEW what,
           brk[p] # 0, cpc' = [cpc EXCEPT ![p] = to], UNCHANGED <<inst, brk>>,
           Registry!Count(p, what),
           \/ cpc[p] = "allow" /\ to = "run" /\ what = "admitted"
           \/ cpc[p] \in {"run", "reject"} /\ to = "idle" /\ what \in {"ok", "failed"}
    PROVE  TallyInv'
<1> DEFINE b == brk[p]
<1>1. b \in Made /\ b \in 1..MaxInst /\ inst[b].nop \in BOOLEAN
  BY DEF RequestInv, RegisterInv
<1>2. /\ cpc'[p] = to /\ brk' = brk /\ inst' = inst /\ Made' = Made
      /\ \A q \in Clients : q # p => cpc'[q] = cpc[q]
  BY DEF RequestInv, Made
<1>3. ASSUME NEW i, i # b PROVE Active(i)' = Active(i)
  <2>1. \A q \in Clients : q \in Active(i)' <=> q \in Active(i)
    BY <1>2, <1>3 DEF Active
  <2>2. Active(i)' \subseteq Clients /\ Active(i) \subseteq Clients
    BY DEF Active
  <2>3. QED
    BY <2>1, <2>2
<1>4. ASSUME NEW i \in 1..MaxInst, i # b, tally'[i] = tally[i] PROVE Reported(i)'
  <2>1. Reported(i)
    BY DEF TallyInv
  <2>2. QED
    BY <1>2, <1>3, <1>4, <2>1 DEF Reported
<1>5. CASE inst[b].nop
  <2>1. tally' = tally
    BY <1>5 DEF Registry!Count, Registry!Trips
  <2>2. Reported(b)'
    BY <1>1, <1>2, <1>5 DEF Reported
  <2>3. QED
    BY <1>4, <2>1, <2>2 DEF TallyInv
<1>6. CASE ~inst[b].nop
  <2>1. tally' = [tally EXCEPT ![b][what] = @ + 1]
    BY <1>6 DEF Registry!Count, Registry!Trips
  <2>2. \A i \in 1..MaxInst : i # b => tally'[i] = tally[i]
    BY <2>1 DEF TallyInv
  <2> DEFINE t == tally[b]
             u == tally'[b]
             n == Cardinality(Active(b))
             m == Cardinality(Active(b)')
  <2>3. /\ tally \in [1..MaxInst -> [admitted : Nat, ok : Nat, failed : Nat]]
        /\ t \in [admitted : Nat, ok : Nat, failed : Nat]
    BY <1>1 DEF TallyInv
  <2>4. u = [t EXCEPT ![what] = @ + 1]
    BY <1>1, <2>1, <2>3
  <2>5. t.admitted = t.ok + t.failed + n
    BY <1>1, <1>6 DEF TallyInv, Reported
  <2>6. n \in Nat
    BY ActiveFinite
  <2>7. CASE cpc[p] = "allow" /\ to = "run" /\ what = "admitted"
    <3>1. p \notin Active(b) /\ Active(b)' = Active(b) \union {p}
      BY <1>2, <2>7 DEF Active
    <3>2. m = n + 1
      BY <3>1, ActiveFinite, FS_AddElement
    <3>3. u = [admitted |-> t.admitted + 1, ok |-> t.ok, failed |-> t.failed]
      BY <2>3, <2>4, <2>7
    <3> HIDE DEF t, u, n, m
    <3>4. u.admitted = u.ok + u.failed + m /\ u \in [admitted : Nat, ok : Nat, failed : Nat]
      BY <2>3, <2>5, <2>6, <3>2, <3>3
    <3>5. Reported(b)'
      BY <1>2, <3>4 DEF Reported, u, m
    <3>6. tally' \in [1..MaxInst -> [admitted : Nat, ok : Nat, failed : Nat]]
      BY <1>1, <2>1, <2>2, <2>3, <3>4 DEF u
    <3>7. QED
      BY <1>4, <2>2, <3>5, <3>6 DEF TallyInv
  <2>8. CASE cpc[p] \in {"run", "reject"} /\ to = "idle" /\ what \in {"ok", "failed"}
    <3>1. p \in Active(b) /\ Active(b)' = Active(b) \ {p}
      BY <1>2, <2>8 DEF Active
    <3>2. m = n - 1
      BY <3>1, ActiveFinite, FS_RemoveElement
    <3>3. \/ u = [admitted |-> t.admitted, ok |-> t.ok + 1, failed |-> t.failed]
          \/ u = [admitted |-> t.admitted, ok |-> t.ok, failed |-> t.failed + 1]
      <4>1. CASE what = "ok"
        BY <2>3, <2>4, <4>1
      <4>2. CASE what = "failed"
        BY <2>3, <2>4, <4>2
      <4>3. QED
        BY <2>8, <4>1, <4>2
    <3> HIDE DEF t, u, n, m
    <3>4. u.admitted = u.ok + u.failed + m /\ u \in [admitted : Nat, ok : Nat, failed : Nat]
      BY <2>3, <2>5, <2>6, <3>2, <3>3
    <3>5. Reported(b)'
      BY <1>2, <3>4 DEF Reported, u, m
    <3>6. tally' \in [1..MaxInst -> [admitted : Nat, ok : Nat, failed : Nat]]
      BY <1>1, <2>1, <2>2, <2>3, <3>4 DEF u
    <3>7. QED
      BY <1>4, <2>2, <3>5, <3>6 DEF TallyInv
  <2>9. QED
    BY <2>7, <2>8
<1>7. QED
  BY <1>1, <1>5, <1>6

-----------------------------------------------------------------------------
(* The actions. *)

RegistryInv == RegisterInv /\ RequestInv /\ TallyInv /\ RingInv

LEMMA RegistryStarts == Registry!Init => RegistryInv
<1> SUFFICES ASSUME Registry!Init PROVE RegistryInv
  OBVIOUS
<1> USE DEF Registry!Init, Registry!Instances
<1>1. Made = {}
  BY DEF Made
<1>2. RegisterInv
  <2>1. Made = 1..0 /\ 0 \in 0..MaxInst
    BY <1>1
  <2>2. Registry!Shared
    BY <1>1 DEF Registry!Shared, Registry!Made, Made
  <2>3. QED
    BY <1>1, <2>1, <2>2 DEF RegisterInv
<1>3. RequestInv
  BY DEF RequestInv
<1>4. TallyInv
  <2>1. tally \in [1..MaxInst -> [admitted : Nat, ok : Nat, failed : Nat]]
    OBVIOUS
  <2>2. ASSUME NEW i \in 1..MaxInst PROVE Reported(i)
    <3>1. Active(i) = {}
      BY DEF Active
    <3>2. Cardinality(Active(i)) = 0
      BY <3>1, FS_EmptySet
    <3>3. QED
      BY <3>2 DEF Reported
  <2>3. QED
    BY <2>1, <2>2 DEF TallyInv
<1>5. RingInv
  <2>1. errWin \in [1..MaxInst -> Registry!ErrorWindow]
    BY DEF Registry!ErrorWindow
  <2>2. \A i \in 1..MaxInst : RingHolds(errWin[i], added[i])
    BY DEF RingHolds
  <2>3. QED
    BY <2>1, <2>2 DEF RingInv
<1>6. QED
  BY <1>2, <1>3, <1>4, <1>5 DEF RegistryInv

\* GetBreaker under the write lock, for both outcomes of its second look.
LEMMA LockedKeeps ==
    ASSUME RegistryInv, NEW p \in Clients, Registry!GetBreakerLocked(p)
    PROVE  RegistryInv'
<1> USE DEF RegistryInv
<1>1. /\ cpc[p] = "make" /\ name[p] \in Names /\ era' = era
      /\ brk' = [brk EXCEPT ![p] = breakers'[name[p]]]
      /\ cpc' = [cpc EXCEPT ![p] = "allow"]
      /\ name' = name /\ tally' = tally /\ UNCHANGED <<errWin, added>>
  BY DEF Registry!GetBreakerLocked, RequestInv
<1>2. /\ RegisterInv' /\ Made \subseteq Made' /\ \A i \in Made : inst'[i] = inst[i]
      /\ breakers'[name[p]] \in Made'
  <2>1. CASE breakers[name[p]] = 0
    <3>1. Registry!Register(name[p], FALSE)
      BY <2>1 DEF Registry!GetBreakerLocked
    <3>2. era' \in [Names -> Nat] /\ \A x \in Names : era[x] <= era'[x] /\ era'[x] = era[x]
      BY <1>1 DEF RegisterInv
    <3>3. ASSUME NEW i \in Made, inst[i].name = name[p] PROVE inst[i].era < era'[name[p]]
      <4>1. /\ inst[i].era \in Nat /\ era[name[p]] \in Nat
            /\ inst[i].era <= era[name[p]]
            /\ inst[i].era = era[name[p]] => breakers[name[p]] = i
        BY <1>1, <3>3 DEF RegisterInv
      <4>2. i # 0
        BY DEF RegisterInv
      <4>3. QED
        BY <1>1, <2>1, <4>1, <4>2
    <3>4. QED
      BY <1>1, <3>1, <3>2, <3>3, RegisterKeeps
  <2>2. CASE breakers[name[p]] # 0
    <3>1. UNCHANGED <<breakers, inst>>
      BY <2>2 DEF Registry!GetBreakerLocked
    <3>2. RegisterInv'
      BY <1>1, <3>1 DEF RegisterInv, Made, Registry!Shared, Registry!Made
    <3>3. QED
      BY <1>1, <2>2, <3>1, <3>2 DEF RegisterInv, Made
  <2>3. QED
    BY <2>1, <2>2
<1>3. RequestInv'
  <2>1. breakers'[name[p]] # 0
    BY <1>2 DEF RegisterInv
  <2>2. brk' \in [Clients -> {0} \union Made']
    BY <1>1, <1>2 DEF RequestInv
  <2>3. QED
    BY <1>1, <2>1, <2>2 DEF RequestInv
<1>4. TallyInv'
  <2>1. \A q \in Clients : q # p => brk'[q] = brk[q]
    BY <1>1 DEF RequestInv
  <2>2. cpc[p] \notin {"run", "reject"} /\ "allow" \notin {"run", "reject"}
    BY <1>1
  <2>3. QED
    BY <1>1, <1>2, <2>1, <2>2, MovesUncounted
<1>5. RingInv'
  BY <1>1 DEF RingInv
<1>6. QED
  BY <1>2, <1>3, <1>4, <1>5

LEMMA NoBreakerForKeeps ==
    ASSUME RegistryInv, NEW n \in Names, Registry!NoBreakerFor(n)
    PROVE  RegistryInv'
<1> USE DEF RegistryInv
<1>1. /\ era' = [era EXCEPT ![n] = @ + 1] /\ Registry!Register(n, TRUE)
      /\ UNCHANGED <<cpc, name, brk, tally, errWin, added>>
  BY DEF Registry!NoBreakerFor
<1>2. /\ era' \in [Names -> Nat] /\ era \in [Names -> Nat] /\ era'[n] = era[n] + 1
      /\ \A x \in Names : x # n => era'[x] = era[x]
  BY <1>1 DEF RegisterInv
<1>3. \A x \in Names : era[x] <= era'[x]
  <2> SUFFICES ASSUME NEW x \in Names PROVE era[x] <= era'[x]
    OBVIOUS
  <2>1. CASE x = n
    BY <1>2, <2>1
  <2>2. CASE x # n
    BY <1>2, <2>2
  <2>3. QED
    BY <2>1, <2>2
<1>4. ASSUME NEW i \in Made, inst[i].name = n PROVE inst[i].era < era'[n]
  <2>1. inst[i].era \in Nat /\ era[n] \in Nat /\ inst[i].era <= era[n]
    BY <1>2, <1>4 DEF RegisterInv
  <2>2. QED
    BY <1>2, <2>1
<1>5. RegisterInv' /\ Made \subseteq Made' /\ \A i \in Made : inst'[i] = inst[i]
  BY <1>1, <1>2, <1>3, <1>4, RegisterKeeps
<1>6. RequestInv' /\ TallyInv'
  BY <1>1, <1>5, StaysMade
<1>7. RingInv'
  BY <1>1 DEF RingInv
<1>8. QED
  BY <1>5, <1>6, <1>7

LEMMA RemoveBreakerKeeps ==
    ASSUME RegistryInv, NEW n \in Names, Registry!RemoveBreaker(n)
    PROVE  RegistryInv'
<1> USE DEF RegistryInv
<1>1. /\ era' = [era EXCEPT ![n] = @ + 1] /\ breakers' = [breakers EXCEPT ![n] = 0]
      /\ inst' = inst /\ Made' = Made
      /\ UNCHANGED <<cpc, name, brk, tally, errWin, added>>
  BY DEF Registry!RemoveBreaker, Made
<1>2. /\ era' \in [Names -> Nat] /\ era'[n] = era[n] + 1 /\ breakers'[n] = 0
      /\ \A x \in Names : x # n => era'[x] = era[x] /\ breakers'[x] = breakers[x]
      /\ breakers' \in [Names -> {0} \union Made']
  BY <1>1 DEF RegisterInv
<1>3. ASSUME NEW i \in Made'
      PROVE  /\ inst'[i].era <= era'[inst'[i].name]
             /\ inst'[i].era = era'[inst'[i].name] => breakers'[inst'[i].name] = i
  <2>1. /\ inst'[i] = inst[i] /\ inst[i].name \in Names /\ inst[i].era \in Nat
        /\ inst[i].era <= era[inst[i].name] /\ era[inst[i].name] \in Nat
        /\ inst[i].era = era[inst[i].name] => breakers[inst[i].name] = i
    BY <1>1, <1>3 DEF RegisterInv
  <2>2. CASE inst[i].name = n
    BY <1>2, <2>1, <2>2
  <2>3. CASE inst[i].name # n
    BY <1>2, <2>1, <2>3
  <2>4. QED
    BY <2>2, <2>3
<1>4. \A x \in Names : breakers'[x] # 0 => inst'[breakers'[x]].name = x
  BY <1>1, <1>2 DEF RegisterInv
<1>5. Registry!Shared'
  BY <1>1 DEF RegisterInv, Registry!Shared, Registry!Made, Made
<1>6. RegisterInv'
  BY <1>1, <1>2, <1>3, <1>4, <1>5 DEF RegisterInv
<1>7. RequestInv' /\ TallyInv'
  BY <1>1, StaysMade
<1>8. RingInv'
  BY <1>1 DEF RingInv
<1>9. QED
  BY <1>6, <1>7, <1>8

\* Every other step of a request leaves the registry alone.
LEMMA RequestKeeps ==
    ASSUME RegistryInv, NEW p \in Clients, NEW to,
           cpc' = [cpc EXCEPT ![p] = to],
           to \in {"idle", "look", "make", "allow", "run", "reject"},
           UNCHANGED <<breakers, inst, era>>,
           NEW n \in Names, name' = [name EXCEPT ![p] = n],
           NEW b \in {0} \union Made, brk' = [brk EXCEPT ![p] = b],
           to \in {"allow", "run", "reject"} => b # 0
    PROVE  RegisterInv' /\ RequestInv'
<1>1. Made' = Made
  BY DEF Made
<1>2. RegisterInv'
  BY <1>1 DEF RegistryInv, RegisterInv, Registry!Shared, Registry!Made, Made
<1>3. RequestInv'
  BY <1>1 DEF RegistryInv, RequestInv
<1>4. QED
  BY <1>2, <1>3

LEMMA RequestStepKeeps ==
    ASSUME RegistryInv, NEW p \in Clients, Registry!Request(p)
    PROVE  RegistryInv'
<1>1. /\ name[p] \in Names /\ name = [name EXCEPT ![p] = name[p]]
      /\ brk[p] \in {0} \union Made /\ brk = [brk EXCEPT ![p] = brk[p]]
      /\ cpc[p] \in {"allow", "run", "reject"} => brk[p] # 0
      /\ breakers[name[p]] \in {0} \union Made
  BY DEF RegistryInv, RequestInv, RegisterInv
<1>2. ASSUME UNCHANGED <<errWin, added>> PROVE RingInv'
  BY <1>2 DEF RegistryInv, RingInv
<1>3. inst' = inst => Made' = Made
  BY DEF Made
<1>4. CASE \E n \in Names : Registry!Call(p, n)
  <2>1. PICK n \in Names : Registry!Call(p, n)
    BY <1>4
  <2>2. /\ cpc[p] = "idle" /\ cpc' = [cpc EXCEPT ![p] = "look"]
        /\ name' = [name EXCEPT ![p] = n] /\ brk' = brk /\ tally' = tally
        /\ UNCHANGED <<breakers, inst, era>> /\ UNCHANGED <<errWin, added>>
    BY <2>1 DEF Registry!Call
  <2>3. RegisterInv' /\ RequestInv'
    <3>1. brk' = [brk EXCEPT ![p] = brk[p]] /\ "look" \notin {"allow", "run", "reject"}
      BY <1>1, <2>2
    <3>2. QED
      BY <1>1, <2>2, <3>1, RequestKeeps
  <2>4. TallyInv'
    <3>1. cpc[p] \notin {"run", "reject"} /\ "look" \notin {"run", "reject"}
      BY <2>2
    <3>2. QED
      BY <1>3, <2>2, <3>1, MovesUncounted DEF RegistryInv
  <2>5. QED
    BY <1>2, <2>2, <2>3, <2>4 DEF RegistryInv
<1>5. CASE Registry!GetBreaker(p)
  <2> DEFINE b == breakers[name[p]]
             to == IF b = 0 THEN "make" ELSE "allow"
  <2>1. /\ cpc[p] = "look" /\ cpc' = [cpc EXCEPT ![p] = to]
        /\ name' = name /\ brk' = [brk EXCEPT ![p] = b] /\ tally' = tally
        /\ UNCHANGED <<breakers, inst, era>> /\ UNCHANGED <<errWin, added>>
    BY <1>5 DEF Registry!GetBreaker
  <2>2. /\ to \in {"idle", "look", "make", "allow", "run", "reject"}
        /\ to \in {"allow", "run", "reject"} => b # 0
        /\ to \notin {"run", "reject"}
    OBVIOUS
  <2> HIDE DEF to
  <2>3. RegisterInv' /\ RequestInv'
    BY <1>1, <2>1, <2>2, RequestKeeps
  <2>4. TallyInv'
    <3>1. \A q \in Clients : q # p => brk'[q] = brk[q]
      BY <2>1 DEF RegistryInv, RequestInv
    <3>2. cpc[p] \notin {"run", "reject"}
      BY <2>1
    <3>3. QED
      BY <1>3, <2>1, <2>2, <3>1, <3>2, MovesUncounted DEF RegistryInv
  <2>5. QED
    BY <1>2, <2>1, <2>3, <2>4 DEF RegistryInv
<1>6. CASE Registry!GetBreakerLocked(p)
  BY <1>6, LockedKeeps
<1>7. CASE Registry!Refused(p)
  <2>1. /\ cpc[p] = "allow" /\ cpc' = [cpc EXCEPT ![p] = "idle"]
        /\ name' = name /\ brk' = brk /\ tally' = tally
        /\ UNCHANGED <<breakers, inst, era>> /\ UNCHANGED <<errWin, added>>
    BY <1>7 DEF Registry!Refused, Registry!Goto
  <2>2. RegisterInv' /\ RequestInv'
    BY <1>1, <2>1, RequestKeeps
  <2>3. TallyInv'
    <3>1. cpc[p] \notin {"run", "reject"} /\ "idle" \notin {"run", "reject"}
      BY <2>1
    <3>2. QED
      BY <1>3, <2>1, <3>1, MovesUncounted DEF RegistryInv
  <2>4. QED
    BY <1>2, <2>1, <2>2, <2>3 DEF RegistryInv
<1>8. CASE Registry!Allow(p)
  <2>1. /\ cpc[p] = "allow" /\ cpc' = [cpc EXCEPT ![p] = "run"]
        /\ name' = name /\ brk' = brk /\ Registry!Count(p, "admitted")
        /\ UNCHANGED <<breakers, inst, era>> /\ UNCHANGED <<errWin, added>>
    BY <1>8 DEF Registry!Allow, Registry!Goto
  <2>2. RegisterInv' /\ RequestInv'
    BY <1>1, <2>1, RequestKeeps
  <2>3. TallyInv'
    BY <1>1, <2>1, MovesCounted DEF RegistryInv
  <2>4. QED
    BY <1>2, <2>1, <2>2, <2>3 DEF RegistryInv
<1>9. CASE Registry!Accept(p)
  <2>1. /\ cpc[p] = "run" /\ cpc' = [cpc EXCEPT ![p] = "idle"]
        /\ name' = name /\ brk' = brk /\ Registry!Count(p, "ok")
        /\ UNCHANGED <<breakers, inst, era>> /\ UNCHANGED <<errWin, added>>
    BY <1>9 DEF Registry!Accept, Registry!Goto
  <2>2. RegisterInv' /\ RequestInv'
    BY <1>1, <2>1, RequestKeeps
  <2>3. TallyInv'
    BY <1>1, <2>1, MovesCounted DEF RegistryInv
  <2>4. QED
    BY <1>2, <2>1, <2>2, <2>3 DEF RegistryInv
<1>10. CASE Registry!Reject(p)
  <2>1. /\ cpc[p] = "run" /\ cpc' = [cpc EXCEPT ![p] = "reject"]
        /\ name' = name /\ brk' = brk /\ tally' = tally
        /\ UNCHANGED <<breakers, inst, era>>
    BY <1>10 DEF Registry!Reject, Registry!Goto
  <2>2. RegisterInv' /\ RequestInv'
    BY <1>1, <2>1, RequestKeeps
  <2>3. TallyInv'
    BY <1>1, <1>3, <2>1, MovesUncounted DEF RegistryInv
  <2>4. RingInv'
    <3> DEFINE b == brk[p]
    <3>1. b \in 1..MaxInst
      BY <1>1, <2>1 DEF RegistryInv, RegisterInv
    <3>2. CASE Registry!Trips(p)
      <4>1. /\ added' = [added EXCEPT ![b] = @ + 1]
            /\ errWin' = [errWin EXCEPT ![b] = Registry!AddReason(@, added'[b])]
        BY <1>10, <3>2 DEF Registry!Reject
      <4>2. /\ added \in [1..MaxInst -> Nat]
            /\ errWin \in [1..MaxInst -> Registry!ErrorWindow]
            /\ \A i \in 1..MaxInst : RingHolds(errWin[i], added[i])
        BY DEF RegistryInv, RingInv
      <4>3. /\ added' \in [1..MaxInst -> Nat] /\ added'[b] = added[b] + 1
            /\ errWin'[b] = Registry!AddReason(errWin[b], added[b] + 1)
            /\ \A i \in 1..MaxInst : i # b => errWin'[i] = errWin[i] /\ added'[i] = added[i]
        BY <3>1, <4>1, <4>2
      <4>4. /\ Registry!AddReason(errWin[b], added[b] + 1) \in Registry!ErrorWindow
            /\ RingHolds(errWin'[b], added'[b])
        BY <3>1, <4>2, <4>3, RingAdd
      <4>5. errWin' \in [1..MaxInst -> Registry!ErrorWindow]
        BY <3>1, <4>1, <4>2, <4>3, <4>4
      <4>6. ASSUME NEW i \in 1..MaxInst PROVE RingHolds(errWin'[i], added'[i])
        BY <4>2, <4>3, <4>4
      <4>7. QED
        BY <4>3, <4>5, <4>6 DEF RingInv, RingHolds
    <3>3. CASE ~Registry!Trips(p)
      <4>1. UNCHANGED <<errWin, added>>
        BY <1>10, <3>3 DEF Registry!Reject
      <4>2. QED
        BY <1>2, <4>1
    <3>4. QED
      BY <3>2, <3>3
  <2>5. QED
    BY <2>2, <2>3, <2>4 DEF RegistryInv
<1>11. CASE Registry!RejectCount(p)
  <2>1. /\ cpc[p] = "reject" /\ cpc' = [cpc EXCEPT ![p] = "idle"]
        /\ name' = name /\ brk' = brk /\ Registry!Count(p, "failed")
        /\ UNCHANGED <<breakers, inst, era>> /\ UNCHANGED <<errWin, added>>
    BY <1>11 DEF Registry!RejectCount, Registry!Goto
  <2>2. RegisterInv' /\ RequestInv'
    BY <1>1, <2>1, RequestKeeps
  <2>3. TallyInv'
    BY <1>1, <2>1, MovesCounted DEF RegistryInv
  <2>4. QED
    BY <1>2, <2>1, <2>2, <2>3 DEF RegistryInv
<1>12. CASE Registry!Panic(p)
  <2>1. /\ cpc[p] = "run" /\ cpc' = [cpc EXCEPT ![p] = "idle"]
        /\ name' = name /\ brk' = brk /\ Registry!Count(p, "failed")
        /\ UNCHANGED <<breakers, inst, era>> /\ UNCHANGED <<errWin, added>>
    BY <1>12 DEF Registry!Panic, Registry!Goto
  <2>2. RegisterInv' /\ RequestInv'
    BY <1>1, <2>1, RequestKeeps
  <2>3. TallyInv'
    BY <1>1, <2>1, MovesCounted DEF RegistryInv
  <2>4. QED
    BY <1>2, <2>1, <2>2, <2>3 DEF RegistryInv
<1>13. QED
  BY <1>4, <1>5, <1>6, <1>7, <1>8, <1>9, <1>10, <1>11, <1>12 DEF Registry!Request

LEMMA RegistryImplies == RegistryInv => RegistryExact
<1> SUFFICES ASSUME RegistryInv PROVE RegistryExact
  OBVIOUS
<1> USE DEF Registry!Made, Registry!Instances, Made
<1>1. Made \subseteq 1..MaxInst
  BY DEF RegistryInv, RegisterInv
<1>2. Registry!TypeOK
  BY <1>1 DEF RegistryInv, RegisterInv, RequestInv, TallyInv, RingInv, Registry!TypeOK
<1>3. Registry!Shared
  BY DEF RegistryInv, RegisterInv
<1>4. Registry!AllReported
  <2> SUFFICES ASSUME NEW i \in Made, ~inst[i].nop
               PROVE  tally[i].admitted = tally[i].ok + tally[i].failed
                                             + Registry!Cardinality(Active(i))
    BY DEF Registry!AllReported, Active
  <2>1. Reported(i)
    BY <1>1 DEF RegistryInv, TallyInv
  <2>2. QED
    BY <2>1, SameCardinality DEF Reported
<1>5. Registry!NewestFirst
  <2> SUFFICES ASSUME NEW i \in Made
               PROVE  LET n == IF added[i] < Reasons THEN added[i] ELSE Reasons
                      IN  Registry!String(errWin[i]) = [k \in 1..n |-> added[i] - k + 1]
    BY DEF Registry!NewestFirst
  <2>1. added[i] \in Nat /\ RingHolds(errWin[i], added[i])
    BY <1>1 DEF RegistryInv, RingInv
  <2>2. QED
    BY <2>1, RingString
<1>6. QED
  BY <1>2, <1>3, <1>4, <1>5 DEF RegistryExact

\* "Breakers with the same name are shared globally" and "the caller must report the
\* outcome": whatever goroutines look up, create, replace and remove breakers while
\* others hold them, one name has one breaker between two replacements, every admitted
\* request that is over has been counted once in the breaker that admitted it, and
\* the ring of reasons lists the last ones, newest first.
THEOREM RegistryStaysExact == MCSpec => []RegistryExact
<1>1. MCInit => RegistryInv
  BY RegistryStarts DEF MCInit
<1>2. RegistryInv /\ [MCNext]_<<which, vars, cVars, rVars, limiters>> => RegistryInv'
  <2> SUFFICES ASSUME RegistryInv, [MCNext]_<<which, vars, cVars, rVars, limiters>>
               PROVE  RegistryInv'
    OBVIOUS
  <2>1. CASE Registry!Next
    <3>1. CASE \E p \in Clients : Registry!Request(p)
      BY <3>1, RequestStepKeeps
    <3>2. CASE \E n \in Names : Registry!NoBreakerFor(n) \/ Registry!RemoveBreaker(n)
      BY <3>2, NoBreakerForKeeps, RemoveBreakerKeeps
    <3>3. QED
      BY <2>1, <3>1, <3>2 DEF Registry!Next
  <2>2. CASE UNCHANGED cVars
    <3>1. UNCHANGED <<breakers, inst, era, cpc, name, brk, tally, errWin, added>>
      BY <2>2 DEF cVars
    <3>2. Made' = Made /\ \A i : Active(i)' = Active(i)
      BY <3>1 DEF Made, Active
    <3>3. RegisterInv' /\ RequestInv'
      BY <3>1, <3>2 DEF RegistryInv, RegisterInv, RequestInv, Registry!Shared, Registry!Made
    <3>4. TallyInv'
      BY <3>1, <3>2 DEF RegistryInv, TallyInv, Reported
    <3>5. RingInv'
      BY <3>1 DEF RegistryInv, RingInv
    <3>6. QED
      BY <3>3, <3>4, <3>5 DEF RegistryInv
  <2>3. QED
    BY <2>1, <2>2 DEF MCNext
<1>3. QED
  BY <1>1, <1>2, RegistryImplies, PTL DEF MCSpec

-----------------------------------------------------------------------------
(* The forced probes. *)

Places == {"idle", "open", "loaded", "force", "draw", "probe", "pass", "run"}

\* lastPass never runs ahead of the requests that passed, and since a probe was alone
\* nobody has loaded or will store an earlier time than its own.
PassInv ==
    /\ now \in Nat /\ lastPass \in Nat /\ passedAt \in Nat /\ soleAt \in Nat
    /\ pc \in [Procs -> Places] /\ nanos \in [Procs -> Nat]
    /\ soleAt <= lastPass /\ lastPass <= passedAt /\ passedAt <= now
    /\ \A p \in Procs : pc[p] = "loaded" => nanos[p] <= passedAt
    /\ \A p \in Procs : pc[p] \in {"loaded", "probe", "pass"}
                          => soleAt <= nanos[p] /\ nanos[p] <= now

LEMMA PassStarts == MCInit => PassInv
BY DEF MCInit, Init, WindowInit, PassInv, Places

\* The clock only goes on, also while add reads it twice.
LEMMA ClockGoesOn ==
    ASSUME PassInv, NEW e, Tick \/ Add(e)
    PROVE  now' \in Nat /\ now <= now'
<1> USE WindowAssumption
<1>1. CASE Tick
  BY <1>1 DEF Tick, PassInv
<1>2. CASE Add(e)
  <2>1. PICK d \in 0..Skew : AddEvent(e, d)
    BY <1>2 DEF Add
  <2>2. now' = now + d
    BY <2>1 DEF AddEvent
  <2>3. QED
    BY <2>2 DEF PassInv
<1>3. QED
  BY <1>1, <1>2

\* One action at a time.
LEMMA PassSteps == PassInv /\ Next => PassInv'
<1> SUFFICES ASSUME PassInv, Next PROVE PassInv'
  OBVIOUS
<1>1. /\ now \in Nat /\ lastPass \in Nat /\ passedAt \in Nat /\ soleAt \in Nat
      /\ pc \in [Procs -> Places] /\ nanos \in [Procs -> Nat]
      /\ soleAt <= lastPass /\ lastPass <= passedAt /\ passedAt <= now
      /\ \A p \in Procs : pc[p] = "loaded" => nanos[p] <= passedAt
      /\ \A p \in Procs : pc[p] \in {"loaded", "probe", "pass"}
                            => soleAt <= nanos[p] /\ nanos[p] <= now
  BY DEF PassInv
<1>2. CASE ClockTick
  <2>1. now' \in Nat /\ now <= now' /\ UNCHANGED <<lastPass, pc, hist, nanos, passedAt, soleAt>>
    BY <1>2, ClockGoesOn DEF ClockTick
  <2>2. QED
    BY <1>1, <2>1 DEF PassInv
<1>3. ASSUME NEW p \in Procs, Snapshot(p) PROVE PassInv'
  <2>1. /\ UNCHANGED <<now, lastPass, nanos, soleAt>> /\ passedAt' \in {passedAt, now}
        /\ \E s \in {"open", "run"} : pc' = [pc EXCEPT ![p] = s]
    BY <1>3 DEF Snapshot, windowVars
  <2>2. QED
    BY <1>1, <2>1 DEF PassInv, Places
<1>4. ASSUME NEW p \in Procs, LoadLastPass(p) PROVE PassInv'
  <2>1. /\ UNCHANGED <<now, lastPass, passedAt, soleAt>>
        /\ pc' = [pc EXCEPT ![p] = "loaded"] /\ nanos' = [nanos EXCEPT ![p] = lastPass]
    BY <1>4 DEF LoadLastPass, windowVars
  <2>2. QED
    BY <1>1, <2>1 DEF PassInv, Places
<1>5. ASSUME NEW p \in Procs, Compare(p) PROVE PassInv'
  <2>1. /\ UNCHANGED <<now, lastPass, passedAt, soleAt>>
        /\ \E s \in {"force", "draw"} : pc' = [pc EXCEPT ![p] = s]
        /\ nanos' = [nanos EXCEPT ![p] = 0]
    BY <1>5 DEF Compare, windowVars
  <2>2. QED
    BY <1>1, <2>1 DEF PassInv, Places
<1>6. ASSUME NEW p \in Procs, ReadClock(p) PROVE PassInv'
  <2>1. /\ UNCHANGED <<now, lastPass, passedAt, soleAt>>
        /\ \E s \in {"probe", "pass"} : pc' = [pc EXCEPT ![p] = s]
        /\ nanos' = [nanos EXCEPT ![p] = now]
    BY <1>6 DEF ReadClock, windowVars
  <2>2. QED
    BY <1>1, <2>1 DEF PassInv, Places
<1>7. ASSUME NEW p \in Procs, ForceProbe(p) PROVE PassInv'
  <2>1. /\ UNCHANGED now /\ passedAt' = now /\ lastPass' = nanos[p]
        /\ pc[p] = "probe" /\ pc' = [pc EXCEPT ![p] = "run"]
        /\ nanos' = [nanos EXCEPT ![p] = 0]
        /\ soleAt' = IF Alone(p) THEN nanos[p] ELSE soleAt
    BY <1>7 DEF ForceProbe, Returned, windowVars
  <2>2. soleAt <= nanos[p] /\ nanos[p] <= now /\ nanos[p] \in Nat
    BY <1>1, <2>1
  <2>3. CASE Alone(p)
    <3>1. \A q \in Procs : pc'[q] \notin {"loaded", "probe", "pass"}
      BY <1>1, <2>1, <2>3 DEF Alone
    <3>2. QED
      BY <1>1, <2>1, <2>2, <2>3, <3>1 DEF PassInv, Places
  <2>4. CASE ~Alone(p)
    BY <1>1, <2>1, <2>2, <2>4 DEF PassInv, Places
  <2>5. QED
    BY <2>3, <2>4
<1>8. ASSUME NEW p \in Procs, Pass(p) PROVE PassInv'
  <2>1. /\ UNCHANGED <<now, soleAt>> /\ passedAt' = now /\ lastPass' = nanos[p]
        /\ pc[p] = "pass" /\ pc' = [pc EXCEPT ![p] = "run"]
        /\ nanos' = [nanos EXCEPT ![p] = 0]
    BY <1>8 DEF Pass, Returned, windowVars
  <2>2. QED
    BY <1>1, <2>1 DEF PassInv, Places
<1>9. ASSUME NEW p \in Procs, Reject(p) \/ Report(p, "success") \/ Report(p, "fail")
      PROVE  PassInv'
  <2>1. /\ now' \in Nat /\ now <= now' /\ UNCHANGED <<lastPass, passedAt, soleAt>>
        /\ pc' = [pc EXCEPT ![p] = "idle"]
        /\ nanos' = nanos \/ nanos' = [nanos EXCEPT ![p] = 0]
    BY <1>9, ClockGoesOn DEF Reject, Report, Returned
  <2>2. QED
    BY <1>1, <2>1 DEF PassInv, Places
<1>10. QED
  BY <1>2, <1>3, <1>4, <1>5, <1>6, <1>7, <1>8, <1>9 DEF Next

LEMMA PassKeeps == PassInv /\ [MCNext]_<<which, vars, cVars, rVars, limiters>> => PassInv'
<1> SUFFICES ASSUME PassInv, [MCNext]_<<which, vars, cVars, rVars, limiters>>
             PROVE  PassInv'
  OBVIOUS
<1>1. CASE Next
  BY <1>1, PassSteps
<1>2. CASE UNCHANGED vars
  BY <1>2 DEF vars, windowVars, PassInv
<1>3. CASE RingStep
  <2>1. /\ now' \in Nat /\ now <= now'
        /\ UNCHANGED <<lastPass, pc, hist, nanos, passedAt, soleAt>>
    BY <1>3, ClockGoesOn DEF RingStep
  <2>2. QED
    BY <2>1 DEF PassInv
<1>4. QED
  BY <1>1, <1>2, <1>3 DEF MCNext, AskStep

\* Where a request goes from its comparison.
LEMMA ComparesOnly ==
    ASSUME PassInv, MCNext, NEW p \in Procs, pc[p] = "loaded", pc'[p] \in {"force", "draw"}
    PROVE  Compare(p)
<1>1. Next
  BY DEF MCNext, AskStep, RingStep, vars
<1>2. pc' # pc
  OBVIOUS
<1>3. PICK q \in Procs : \/ Snapshot(q) \/ LoadLastPass(q) \/ Compare(q) \/ ReadClock(q)
                         \/ ForceProbe(q) \/ Pass(q) \/ Reject(q)
                         \/ Report(q, "success") \/ Report(q, "fail")
  BY <1>1, <1>2 DEF Next, ClockTick
<1>4. q = p
  BY <1>3 DEF PassInv, Snapshot, LoadLastPass, Compare, ReadClock, ForceProbe, Pass, Reject, Report
<1>5. QED
  BY <1>3, <1>4 DEF Snapshot, LoadLastPass, ReadClock, ForceProbe, Pass, Reject, Report

\* "When nothing has passed for longer than this, one probe request is let through",
\* however many goroutines ask, and whatever others load, compare and store between one's
\* load of lastPass, its reading of the clock and its store: a request that has seen a
\* lastPass and faces the draw finds that one passed within the cool-down; and no probe
\* follows within the cool-down on one whose request was alone between load and store.
\* (Of requests that overlap there more than one may be a probe.)
THEOREM ProbesHold == MCSpec => Probes
<1>1. PassInv /\ [MCNext]_<<which, vars, cVars, rVars, limiters>>
        => [\A p \in Procs : pc[p] = "loaded" /\ pc'[p] = "draw" /\ nanos[p] > 0
               => now - passedAt <= ForcePass]_vars
  <2> SUFFICES ASSUME PassInv, MCNext, NEW p \in Procs, pc[p] = "loaded", pc'[p] = "draw",
                      nanos[p] > 0, vars' # vars
               PROVE  now - passedAt <= ForcePass
    BY DEF MCNext
  <2>1. Compare(p)
    BY ComparesOnly
  <2>2. ~CooledDown(p)
    BY <2>1 DEF Compare, PassInv
  <2>3. QED
    BY <2>2, BreakerAssumption DEF CooledDown, PassInv
<1>2. PassInv /\ [MCNext]_<<which, vars, cVars, rVars, limiters>>
        => [\A p \in Procs : pc[p] = "loaded" /\ pc'[p] = "force"
               => soleAt = 0 \/ now - soleAt > ForcePass]_vars
  <2> SUFFICES ASSUME PassInv, MCNext, NEW p \in Procs, pc[p] = "loaded", pc'[p] = "force",
                      vars' # vars
               PROVE  now - soleAt > ForcePass
    BY DEF MCNext
  <2>1. Compare(p)
    BY ComparesOnly
  <2>2. CooledDown(p)
    BY <2>1 DEF Compare, PassInv
  <2>3. QED
    BY <2>2, BreakerAssumption DEF CooledDown, PassInv
<1>3. QED
  BY <1>1, <1>2, PassStarts, PassKeeps, PTL
     DEF MCSpec, Probes, ProbedAfterCoolDown, ProbesApart

-----------------------------------------------------------------------------
(* Induction, and sums over finite sets. *)

\* A set of numbers has a least one.
LEMMA LeastOf ==
    ASSUME NEW T, T \subseteq Nat, T # {}
    PROVE  \E m \in T : \A k \in T : m <= k
<1> DEFINE Less == OpToRel(<, Nat)
<1>1. \A x, y \in Nat : x < y => <<x, y>> \in Less
  BY DEF OpToRel
<1>2. IsWellFoundedOn(Less, Nat)
  BY NatLessThanWellFounded
<1> HIDE DEF Less
<1>3. \E m \in T : \A k \in T : <<k, m>> \notin Less
  BY <1>2, WFMin
<1>4. PICK m \in T : \A k \in T : <<k, m>> \notin Less
  BY <1>3
<1>5. \A k \in T : ~(k < m)
  BY <1>1, <1>4
<1>6. \A k \in T : m <= k
  BY <1>5
<1>7. QED
  BY <1>6

\* Induction: a set with 0 and with the successor of each of its numbers.
LEMMA AllNumbers ==
    ASSUME NEW T, T \subseteq Nat, 0 \in T, \A n \in T : n + 1 \in T
    PROVE  T = Nat
<1> SUFFICES ASSUME T # Nat PROVE FALSE
  OBVIOUS
<1>1. PICK m \in Nat \ T : \A k \in Nat \ T : m <= k
  BY LeastOf
<1>2. m # 0 /\ m - 1 \in Nat
  BY <1>1
<1>3. m - 1 \in T
  BY <1>1, <1>2
<1>4. QED
  BY <1>1, <1>2, <1>3

\* The element MapThenSumSet takes next, and the function it folds with.
AnyOf(s) == CHOOSE x \in s : TRUE
Fold(f, S) ==
    CHOOSE g : g = [s \in SUBSET S |->
                      IF s = {} THEN 0 ELSE f[AnyOf(s)] + g[s \ {AnyOf(s)}]]
SumOver(f, S) == Fold(f, S)[S]

LEMMA SumIsFold ==
    ASSUME NEW f, NEW S
    PROVE  MapThenSumSet(LAMBDA x : f[x], S) = SumOver(f, S)
BY DEF MapThenSumSet, MapThenFoldSet, SumOver, Fold, AnyOf

LEMMA BucketSum ==
    ASSUME NEW f, NEW S
    PROVE  Bucket!MapThenSumSet(LAMBDA x : f[x], S) = SumOver(f, S)
BY DEF Bucket!MapThenSumSet, Bucket!MapThenFoldSet, SumOver, Fold, AnyOf

\* Taking one element out of a finite set.
LEMMA OneLess ==
    ASSUME NEW S, IsFiniteSet(S), NEW x \in S
    PROVE  /\ IsFiniteSet(S \ {x}) /\ Cardinality(S) \in Nat /\ Cardinality(S) > 0
           /\ Cardinality(S \ {x}) = Cardinality(S) - 1 /\ Cardinality(S \ {x}) \in Nat
BY FS_RemoveElement, FS_CardinalityType, FS_EmptySet

\* Induction over the subsets of a finite set.
LEMMA AllSubsets ==
    ASSUME NEW S, IsFiniteSet(S), NEW P, {} \in P,
           \A s \in SUBSET S : s # {} /\ (\A x \in s : s \ {x} \in P) => s \in P
    PROVE  \A s \in SUBSET S : s \in P
<1> DEFINE T == {n \in Nat : \A s \in SUBSET S : Cardinality(s) = n => s \in P}
<1>1. \A s \in SUBSET S : IsFiniteSet(s) /\ Cardinality(s) \in Nat
  BY FS_Subset, FS_CardinalityType
<1>2. 0 \in T
  <2>1. ASSUME NEW s \in SUBSET S, Cardinality(s) = 0 PROVE s \in P
    <3>1. s = {}
      BY <1>1, <2>1, FS_EmptySet
    <3>2. QED
      BY <3>1
  <2>2. QED
    BY <2>1
<1>3. ASSUME NEW n \in T PROVE n + 1 \in T
  <2>1. n \in Nat /\ n + 1 \in Nat
    OBVIOUS
  <2>2. ASSUME NEW s \in SUBSET S, Cardinality(s) = n + 1 PROVE s \in P
    <3>1. s # {}
      <4>1. Cardinality(s) # 0
        BY <2>1, <2>2
      <4>2. QED
        BY <4>1, FS_EmptySet
    <3>2. ASSUME NEW x \in s PROVE s \ {x} \in P
      <4>1. s \ {x} \in SUBSET S /\ Cardinality(s \ {x}) = n
        BY <1>1, <2>1, <2>2, OneLess
      <4>2. QED
        BY <4>1
    <3>3. QED
      BY <3>1, <3>2
  <2>3. QED
    BY <2>1, <2>2
<1>4. T = Nat
  <2> HIDE DEF T
  <2>1. T \subseteq Nat
    BY DEF T
  <2>2. QED
    BY <1>2, <1>3, <2>1, AllNumbers
<1>5. ASSUME NEW s \in SUBSET S PROVE s \in P
  <2>1. Cardinality(s) \in T
    BY <1>1, <1>4
  <2>2. QED
    BY <2>1
<1>6. QED
  BY <1>5

LEMMA FoldIs ==
    ASSUME NEW f, NEW S, IsFiniteSet(S)
    PROVE  \A s \in SUBSET S : Fold(f, S)[s] =
              IF s = {} THEN 0 ELSE f[AnyOf(s)] + Fold(f, S)[s \ {AnyOf(s)}]
<1> DEFINE Small(n) == {s \in SUBSET S : Cardinality(s) <= n}
           Step(g, s) == IF s = {} THEN 0 ELSE f[AnyOf(s)] + g[s \ {AnyOf(s)}]
           T == {n \in Nat : \E g : g = [s \in Small(n) |-> Step(g, s)]}
<1>1. ASSUME NEW s \in SUBSET S
      PROVE  /\ IsFiniteSet(s) /\ Cardinality(s) \in Nat
             /\ s # {} => /\ AnyOf(s) \in s /\ Cardinality(s) > 0
                          /\ s \ {AnyOf(s)} \in SUBSET S
                          /\ Cardinality(s \ {AnyOf(s)}) = Cardinality(s) - 1
  <2>1. IsFiniteSet(s) /\ Cardinality(s) \in Nat
    BY FS_Subset, FS_CardinalityType
  <2>2. s # {} => AnyOf(s) \in s
    BY DEF AnyOf
  <2>3. QED
    BY <2>1, <2>2, OneLess
<1>2. 0 \in T
  <2> DEFINE g == [s \in Small(0) |-> 0]
  <2>1. ASSUME NEW s \in Small(0) PROVE s = {}
    <3>1. s \in SUBSET S /\ Cardinality(s) <= 0
      OBVIOUS
    <3>2. s # {} => Cardinality(s) > 0 /\ Cardinality(s) \in Nat
      BY <1>1, <3>1
    <3>3. QED
      BY <3>1, <3>2
  <2>2. g = [s \in Small(0) |-> Step(g, s)]
    BY <2>1
  <2> HIDE DEF g, Small
  <2>3. QED
    BY <2>2
<1>3. ASSUME NEW n \in T PROVE n + 1 \in T
  <2>1. PICK g : g = [s \in Small(n) |-> Step(g, s)]
    OBVIOUS
  <2> DEFINE h == [s \in Small(n + 1) |-> Step(g, s)]
  <2>2. n \in Nat
    OBVIOUS
  <2>3. ASSUME NEW s \in Small(n) PROVE s \in Small(n + 1) /\ h[s] = g[s]
    <3>1. s \in Small(n + 1)
      <4>1. s \in SUBSET S /\ Cardinality(s) <= n
        OBVIOUS
      <4>2. Cardinality(s) \in Nat
        BY <1>1, <4>1
      <4>3. Cardinality(s) <= n + 1
        BY <2>2, <4>1, <4>2
      <4>4. QED
        BY <4>1, <4>3
    <3>2. h[s] = Step(g, s) /\ g[s] = Step(g, s)
      BY <2>1, <3>1
    <3>3. QED
      BY <3>1, <3>2
  <2>4. ASSUME NEW s \in Small(n + 1) PROVE Step(g, s) = Step(h, s)
    <3>1. CASE s = {}
      BY <3>1
    <3>2. CASE s # {}
      <4>1. s \ {AnyOf(s)} \in Small(n)
        BY <1>1, <2>2, <3>2
      <4>2. h[s \ {AnyOf(s)}] = g[s \ {AnyOf(s)}]
        BY <2>3, <4>1
      <4>3. QED
        BY <3>2, <4>2
    <3>3. QED
      BY <3>1, <3>2
  <2>5. h = [s \in Small(n + 1) |-> Step(h, s)]
    BY <2>4
  <2> HIDE DEF h, Small, Step
  <2>6. QED
    BY <2>2, <2>5
<1>4. Cardinality(S) \in T
  <2> HIDE DEF T
  <2>1. T \subseteq Nat
    BY DEF T
  <2>2. T = Nat
    BY <1>2, <1>3, <2>1, AllNumbers
  <2>3. QED
    BY <2>2, <1>1
<1>5. Small(Cardinality(S)) = SUBSET S
  BY <1>1, FS_Subset
<1>6. \E g : g = [s \in SUBSET S |-> Step(g, s)]
  BY <1>4, <1>5
<1>7. Fold(f, S) = [s \in SUBSET S |-> Step(Fold(f, S), s)]
  BY <1>6 DEF Fold
<1>8. QED
  BY <1>7

\* What is folded over a part does not depend on the whole.
LEMMA FoldSame ==
    ASSUME NEW f, NEW S, IsFiniteSet(S), NEW R \in SUBSET S
    PROVE  Fold(f, S)[R] = Fold(f, R)[R]
<1> DEFINE F == Fold(f, S)
           G == Fold(f, R)
           P == {s \in SUBSET R : F[s] = G[s]}
<1>1. IsFiniteSet(R)
  BY FS_Subset
<1>2. \A s \in SUBSET S : F[s] = IF s = {} THEN 0 ELSE f[AnyOf(s)] + F[s \ {AnyOf(s)}]
  BY FoldIs
<1>3. \A s \in SUBSET R : G[s] = IF s = {} THEN 0 ELSE f[AnyOf(s)] + G[s \ {AnyOf(s)}]
  BY <1>1, FoldIs
<1> HIDE DEF F, G
<1>4. {} \in P
  BY <1>2, <1>3
<1>5. ASSUME NEW s \in SUBSET R, s # {}, \A x \in s : s \ {x} \in P PROVE s \in P
  <2>1. AnyOf(s) \in s
    BY <1>5 DEF AnyOf
  <2>2. F[s \ {AnyOf(s)}] = G[s \ {AnyOf(s)}]
    BY <1>5, <2>1
  <2>3. QED
    BY <1>2, <1>3, <1>5, <2>2
<1>6. R \in P
  <2> HIDE DEF P
  <2>1. QED
    BY <1>1, <1>4, <1>5, AllSubsets
<1>7. QED
  BY <1>6 DEF F, G

\* A sum is one element and the sum of the others.
LEMMA SumStep ==
    ASSUME NEW f, NEW S, IsFiniteSet(S)
    PROVE  /\ S = {} => SumOver(f, S) = 0
           /\ S # {} => /\ AnyOf(S) \in S
                        /\ SumOver(f, S) = f[AnyOf(S)] + SumOver(f, S \ {AnyOf(S)})
<1> DEFINE F == Fold(f, S)
<1>1. S # {} => AnyOf(S) \in S
  BY DEF AnyOf
<1>2. S \ {AnyOf(S)} \in SUBSET S /\ S \in SUBSET S
  OBVIOUS
<1>3. \A s \in SUBSET S : F[s] = IF s = {} THEN 0 ELSE f[AnyOf(s)] + F[s \ {AnyOf(s)}]
  BY FoldIs
<1>4. F[S \ {AnyOf(S)}] = SumOver(f, S \ {AnyOf(S)})
  BY <1>2, FoldSame DEF SumOver
<1>5. SumOver(f, S) = F[S]
  BY DEF SumOver
<1> HIDE DEF F
<1>6. QED
  BY <1>1, <1>2, <1>3, <1>4, <1>5

\* A sum of natural numbers is one.
LEMMA SumIsNat ==
    ASSUME NEW f, NEW S, IsFiniteSet(S), \A x \in S : f[x] \in Nat
    PROVE  SumOver(f, S) \in Nat
<1> DEFINE P == {s \in SUBSET S : SumOver(f, s) \in Nat}
<1>1. \A s \in SUBSET S : IsFiniteSet(s)
  BY FS_Subset
<1>2. {} \in P
  <2>1. {} \in SUBSET S /\ IsFiniteSet({})
    BY <1>1
  <2>2. \A h : SumOver(h, {}) = 0
    BY <2>1, SumStep
  <2>3. QED
    BY <2>1, <2>2
<1>3. ASSUME NEW s \in SUBSET S, s # {}, \A x \in s : s \ {x} \in P PROVE s \in P
  <2>1. AnyOf(s) \in s /\ SumOver(f, s) = f[AnyOf(s)] + SumOver(f, s \ {AnyOf(s)})
    BY <1>1, <1>3, SumStep
  <2>2. SumOver(f, s \ {AnyOf(s)}) \in Nat /\ f[AnyOf(s)] \in Nat
    BY <1>3, <2>1
  <2>3. QED
    BY <2>1, <2>2
<1>4. S \in P
  <2> HIDE DEF P
  <2>1. \A s \in SUBSET S : s # {} /\ (\A x \in s : s \ {x} \in P) => s \in P
    BY <1>3
  <2>2. \A s \in SUBSET S : s \in P
    BY <1>2, <2>1, AllSubsets, Zenon
  <2>3. QED
    BY <2>2
<1>5. QED
  BY <1>4

\* Whichever element is taken out.
LEMMA SumAdd ==
    ASSUME NEW f, NEW S, IsFiniteSet(S), \A x \in S : f[x] \in Nat, NEW y \in S
    PROVE  SumOver(f, S) = f[y] + SumOver(f, S \ {y})
<1> DEFINE P == {s \in SUBSET S : \A x \in s : SumOver(f, s) = f[x] + SumOver(f, s \ {x})}
<1>1. \A s \in SUBSET S : IsFiniteSet(s) /\ SumOver(f, s) \in Nat
  BY FS_Subset, SumIsNat
<1>2. {} \in P
  OBVIOUS
<1>3. ASSUME NEW s \in SUBSET S, s # {}, \A x \in s : s \ {x} \in P PROVE s \in P
  <2> SUFFICES ASSUME NEW x \in s PROVE SumOver(f, s) = f[x] + SumOver(f, s \ {x})
    OBVIOUS
  <2> DEFINE a == AnyOf(s)
  <2>1. a \in s /\ SumOver(f, s) = f[a] + SumOver(f, s \ {a})
    BY <1>1, SumStep
  <2> HIDE DEF a
  <2>2. CASE x = a
    BY <2>1, <2>2
  <2>3. CASE x # a
    <3>1. s \ {a} \in P /\ s \ {x} \in P /\ x \in s \ {a} /\ a \in s \ {x}
      BY <1>3, <2>1, <2>3
    <3>2. /\ SumOver(f, s \ {a}) = f[x] + SumOver(f, (s \ {a}) \ {x})
          /\ SumOver(f, s \ {x}) = f[a] + SumOver(f, (s \ {x}) \ {a})
      BY <3>1
    <3> DEFINE rest == SumOver(f, (s \ {a}) \ {x})
    <3>3. (s \ {a}) \ {x} = (s \ {x}) \ {a} /\ (s \ {a}) \ {x} \in SUBSET S
      OBVIOUS
    <3>4. f[x] \in Nat /\ f[a] \in Nat /\ rest \in Nat
      BY <1>1, <2>1, <3>3
    <3>5. SumOver(f, s) = f[a] + (f[x] + rest) /\ SumOver(f, s \ {x}) = f[a] + rest
      BY <2>1, <3>2, <3>3
    <3> HIDE DEF rest
    <3>6. QED
      BY <3>4, <3>5
  <2>4. QED
    BY <2>2, <2>3
<1>4. S \in P
  <2> HIDE DEF P
  <2>1. \A s \in SUBSET S : s # {} /\ (\A x \in s : s \ {x} \in P) => s \in P
    BY <1>3
  <2>2. \A s \in SUBSET S : s \in P
    BY <1>2, <2>1, AllSubsets, Zenon
  <2>3. QED
    BY <2>2
<1>5. QED
  BY <1>4

\* No element is more than the sum.
LEMMA SumHas ==
    ASSUME NEW f, NEW S, IsFiniteSet(S), \A x \in S : f[x] \in Nat, NEW y \in S
    PROVE  f[y] <= SumOver(f, S) /\ SumOver(f, S) \in Nat
<1> DEFINE rest == SumOver(f, S \ {y})
<1>1. IsFiniteSet(S \ {y})
  BY FS_Subset
<1>2. rest \in Nat
  BY <1>1, SumIsNat
<1>3. SumOver(f, S) = f[y] + rest
  BY SumAdd
<1> HIDE DEF rest
<1>4. f[y] \in Nat
  OBVIOUS
<1>5. QED
  BY <1>2, <1>3, <1>4

\* Sums of functions that agree.
LEMMA SumSame ==
    ASSUME NEW f, NEW g, NEW S, IsFiniteSet(S), \A x \in S : f[x] = g[x]
    PROVE  SumOver(f, S) = SumOver(g, S)
<1> DEFINE P == {s \in SUBSET S : SumOver(f, s) = SumOver(g, s)}
<1>1. \A s \in SUBSET S : IsFiniteSet(s)
  BY FS_Subset
<1>2. {} \in P
  <2>1. {} \in SUBSET S /\ IsFiniteSet({})
    BY <1>1
  <2>2. \A h : SumOver(h, {}) = 0
    BY <2>1, SumStep
  <2>3. QED
    BY <2>1, <2>2
<1>3. ASSUME NEW s \in SUBSET S, s # {}, \A x \in s : s \ {x} \in P PROVE s \in P
  <2>1. /\ AnyOf(s) \in s /\ SumOver(f, s) = f[AnyOf(s)] + SumOver(f, s \ {AnyOf(s)})
        /\ SumOver(g, s) = g[AnyOf(s)] + SumOver(g, s \ {AnyOf(s)})
    BY <1>1, <1>3, SumStep
  <2>2. SumOver(f, s \ {AnyOf(s)}) = SumOver(g, s \ {AnyOf(s)}) /\ f[AnyOf(s)] = g[AnyOf(s)]
    BY <1>3, <2>1
  <2>3. QED
    BY <2>1, <2>2
<1>4. S \in P
  <2> HIDE DEF P
  <2>1. \A s \in SUBSET S : s # {} /\ (\A x \in s : s \ {x} \in P) => s \in P
    BY <1>3
  <2>2. \A s \in SUBSET S : s \in P
    BY <1>2, <2>1, AllSubsets, Zenon
  <2>3. QED
    BY <2>2
<1>5. QED
  BY <1>4

\* One more at y.
LEMMA SumBump ==
    ASSUME NEW f, NEW g, NEW S, IsFiniteSet(S), NEW y, NEW d \in Nat,
           \A x \in S : f[x] \in Nat, \A x \in S : g[x] = IF x = y THEN f[x] + d ELSE f[x]
    PROVE  SumOver(g, S) = IF y \in S THEN SumOver(f, S) + d ELSE SumOver(f, S)
<1>1. CASE y \notin S
  BY <1>1, SumSame
<1>2. CASE y \in S
  <2>1. IsFiniteSet(S \ {y}) /\ \A x \in S \ {y} : f[x] = g[x] /\ f[x] \in Nat
    BY <1>2, OneLess
  <2>2. SumOver(g, S \ {y}) = SumOver(f, S \ {y}) /\ SumOver(f, S \ {y}) \in Nat
    BY <2>1, SumSame, SumIsNat
  <2>3. \A x \in S : g[x] \in Nat
    OBVIOUS
  <2>4. SumOver(g, S) = g[y] + SumOver(g, S \ {y}) /\ SumOver(f, S) = f[y] + SumOver(f, S \ {y})
    BY <1>2, <2>3, SumAdd
  <2>5. QED
    BY <1>2, <2>2, <2>4
<1>3. QED
  BY <1>1, <1>2

\* What is zero does not count: sums over two sets that differ in zeros.
LEMMA SumDropsZeros ==
    ASSUME NEW f, NEW S, IsFiniteSet(S), \A x \in S : f[x] \in Nat, NEW R \in SUBSET S
    PROVE  /\ SumOver(f, R) <= SumOver(f, S)
           /\ (\A x \in S \ R : f[x] = 0) => SumOver(f, R) = SumOver(f, S)
<1> DEFINE P == {s \in SUBSET S :
                    /\ SumOver(f, s \intersect R) <= SumOver(f, s)
                    /\ (\A x \in s \ R : f[x] = 0) => SumOver(f, s \intersect R) = SumOver(f, s)}
<1>1. \A s \in SUBSET S : IsFiniteSet(s) /\ SumOver(f, s) \in Nat
  BY FS_Subset, SumIsNat
<1>2. {} \in P
  <2>1. {} \in SUBSET S /\ {} \intersect R = {} /\ SumOver(f, {}) \in Nat
    BY <1>1
  <2>2. QED
    BY <2>1
<1>3. ASSUME NEW s \in SUBSET S, s # {}, \A x \in s : s \ {x} \in P PROVE s \in P
  <2> DEFINE a == AnyOf(s)
             t == s \ {a}
  <2>1. a \in s /\ SumOver(f, s) = f[a] + SumOver(f, t)
    BY <1>1, <1>3, SumStep
  <2>2. t \in P /\ f[a] \in Nat
    BY <1>3, <2>1
  <2>3. t \in SUBSET S /\ SumOver(f, t) \in Nat /\ SumOver(f, t \intersect R) \in Nat
    BY <1>1
  <2>4. CASE a \in R
    <3>1. a \in s \intersect R /\ (s \intersect R) \ {a} = t \intersect R
      BY <2>1, <2>4
    <3>2. SumOver(f, s \intersect R) = f[a] + SumOver(f, t \intersect R)
      BY <1>1, <3>1, SumAdd
    <3> HIDE DEF a
    <3>3. (\A x \in s \ R : f[x] = 0) => (\A x \in t \ R : f[x] = 0)
      OBVIOUS
    <3>4. QED
      BY <2>1, <2>2, <2>3, <3>2, <3>3
  <2>5. CASE a \notin R
    <3>1. s \intersect R = t \intersect R
      BY <2>5
    <3> HIDE DEF a
    <3>2. (\A x \in s \ R : f[x] = 0) => (\A x \in t \ R : f[x] = 0) /\ f[a] = 0
      BY <2>1, <2>5
    <3>3. QED
      BY <2>1, <2>2, <2>3, <3>1, <3>2
  <2>6. QED
    BY <2>4, <2>5
<1>4. S \in P
  <2> HIDE DEF P
  <2>1. \A s \in SUBSET S : s # {} /\ (\A x \in s : s \ {x} \in P) => s \in P
    BY <1>3
  <2>2. \A s \in SUBSET S : s \in P
    BY <1>2, <2>1, AllSubsets, Zenon
  <2>3. QED
    BY <2>2
<1>5. S \intersect R = R
  OBVIOUS
<1>6. QED
  BY <1>4, <1>5

-----------------------------------------------------------------------------
(* The limiters: what the callers are taken to do. *)

USE LimiterAssumption

\* Callers that do not overtake each other: one of them, or no delay between reading
\* the clock and the script.
CallsInOrder == MaxDelay = 0 \/ \A p, q \in Callers : p = q

\* What Redis adds to the life of a key outlasts a call.
KeyOutlivesCall == MaxDelay <= 1 /\ MaxDelay <= Grace

-----------------------------------------------------------------------------
(* The token bucket. *)

\* The times at which a request may still be decided.
Reading(t) == t = bNow \/ \E p \in Callers : bCall[p] # -1 /\ t = bCall[p]

\* The price of what the log l has from a to b, and what comes in k ticks.
Paid(l, a, b) == One * SumOver(l, a..b)
Flow(k) == k * Rate

\* The bucket after its last use: what was paid and what is left came out of one full
\* bucket and the flow.
LastUse ==
    /\ bLast \in 0..BucketTime
    /\ \A t \in 0..BucketTime : Reading(t) => bLast <= t
    /\ \A x \in 0..BucketTime : bLast < x => bLog[x] = 0
    /\ \A a \in 0..bLast : Paid(bLog, a, BucketTime) + tokens <= Burst + Flow(bLast - a)
    /\ bShared => bDeadline >= bLast + Bucket!TTL

\* A bucket that is absent, and so full: all that was paid has come again.
Refilled ==
    \A t \in 0..BucketTime : Reading(t) =>
        \A a \in 0..t : Paid(bLog, a, BucketTime) <= Flow(t - a)

BucketInv ==
    /\ Bucket!TypeOK
    /\ \A p \in Callers : bCall[p] # -1 => bShared /\ bNow - bCall[p] <= MaxDelay
    /\ \A t, x \in 0..BucketTime : Reading(t) /\ t < x => bLog[x] = 0
    /\ bLast # -1 => LastUse
    /\ bLast = -1 => bShared /\ Refilled
    /\ \A a, b \in 0..BucketTime : a <= b => Paid(bLog, a, b) <= Burst + Flow(b - a)

LEMMA FlowIs ==
    /\ \A k \in Int : Flow(k) \in Int
    /\ \A k \in Nat : Flow(k) \in Nat
    /\ \A j, k \in Int : Flow(j + k) = Flow(j) + Flow(k)
    /\ \A j, k \in Int : j <= k => Flow(j) <= Flow(k)
BY DEF Flow

LEMMA PriceIs ==
    /\ \A n \in Nat : One * n \in Nat /\ One * (n + 1) = One * n + One
    /\ \A m, n \in Nat : m <= n => One * m <= One * n
OBVIOUS

\* What a time limit of the key is worth.
LEMMA LifeIsWorthBurst == Bucket!TTL \in Nat /\ Bucket!TTL >= 1 /\ Flow(Bucket!TTL - 1) >= Burst
<1> DEFINE q == (Burst + Rate - 1) \div Rate
<1>1. q \in Nat /\ q * Rate + Rate > Burst + Rate - 1
  OBVIOUS
<1>2. Bucket!TTL = q + 1
  BY DEF Bucket!TTL
<1> HIDE DEF q
<1>3. q * Rate \in Nat /\ q * Rate >= Burst
  BY <1>1
<1>4. QED
  BY <1>1, <1>2, <1>3 DEF Flow

LEMMA PaidIs ==
    ASSUME Bucket!TypeOK, NEW a \in Nat, NEW b \in 0..BucketTime
    PROVE  /\ SumOver(bLog, a..b) \in Nat /\ Paid(bLog, a, b) \in Nat
           /\ Paid(bLog, a, b) <= Paid(bLog, a, BucketTime)
<1>1. bLog \in [0..BucketTime -> Nat]
  BY DEF Bucket!TypeOK
<1>2. a \in Int /\ b \in Int /\ BucketTime \in Int
  OBVIOUS
<1>3. IsFiniteSet(a..b) /\ IsFiniteSet(a..BucketTime)
  BY <1>2, FS_Interval
<1>4. a..b \in SUBSET (a..BucketTime)
  OBVIOUS
<1>5. \A x \in a..BucketTime : x \in 0..BucketTime
  OBVIOUS
<1>6. /\ IsFiniteSet(a..b) /\ IsFiniteSet(a..BucketTime) /\ a..b \in SUBSET (a..BucketTime)
      /\ \A x \in a..BucketTime : bLog[x] \in Nat
      /\ \A x \in a..b : bLog[x] \in Nat
  BY <1>1, <1>3, <1>4, <1>5
<1>7. SumOver(bLog, a..b) \in Nat /\ SumOver(bLog, a..BucketTime) \in Nat
  BY <1>6, SumIsNat
<1>8. SumOver(bLog, a..b) <= SumOver(bLog, a..BucketTime)
  BY <1>6, SumDropsZeros
<1>9. QED
  BY <1>7, <1>8, PriceIs DEF Paid

\* Nothing was paid where nothing is logged.
LEMMA NothingPaid ==
    ASSUME Bucket!TypeOK, NEW a \in Nat, \A x \in 0..BucketTime : a <= x => bLog[x] = 0
    PROVE  Paid(bLog, a, BucketTime) = 0
<1>1. bLog \in [0..BucketTime -> Nat]
  BY DEF Bucket!TypeOK
<1>2. IsFiniteSet(a..BucketTime) /\ IsFiniteSet({})
  BY FS_Interval, FS_EmptySet
<1>3. /\ IsFiniteSet(a..BucketTime) /\ \A x \in a..BucketTime : bLog[x] \in Nat
      /\ \A x \in (a..BucketTime) \ {} : bLog[x] = 0
      /\ {} \in SUBSET (a..BucketTime) /\ IsFiniteSet({})
  BY <1>1, <1>2
<1>4. SumOver(bLog, {}) = SumOver(bLog, a..BucketTime)
  BY <1>3, SumDropsZeros
<1>5. SumOver(bLog, {}) = 0
  BY <1>3, SumStep
<1>6. QED
  BY <1>4, <1>5 DEF Paid

\* So many requests more, at t.
Entered(t, d) == bLog' = [bLog EXCEPT ![t] = @ + d]

LEMMA PaysOne ==
    ASSUME Bucket!TypeOK, NEW t \in 0..BucketTime, NEW d \in {0, 1},
           Entered(t, d), NEW a \in Nat, NEW b \in 0..BucketTime
    PROVE  /\ bLog' \in [0..BucketTime -> Nat]
           /\ Paid(bLog', a, b) = IF t \in a..b THEN Paid(bLog, a, b) + One * d ELSE Paid(bLog, a, b)
<1>1. bLog \in [0..BucketTime -> Nat]
  BY DEF Bucket!TypeOK
<1>2. d \in Nat /\ a \in Int /\ b \in Int /\ \A x \in a..b : x \in 0..BucketTime
  OBVIOUS
<1>3. IsFiniteSet(a..b)
  BY <1>2, FS_Interval
<1>4. /\ bLog' \in [0..BucketTime -> Nat] /\ IsFiniteSet(a..b)
      /\ \A x \in a..b : bLog[x] \in Nat
      /\ \A x \in a..b : bLog'[x] = IF x = t THEN bLog[x] + d ELSE bLog[x]
  BY <1>1, <1>2, <1>3 DEF Entered
<1>5. SumOver(bLog', a..b) =
        IF t \in a..b THEN SumOver(bLog, a..b) + d ELSE SumOver(bLog, a..b)
  <2> DEFINE S == a..b
             f == bLog
             g == bLog'
  <2>1. d \in Nat /\ IsFiniteSet(S) /\ \A x \in S : f[x] \in Nat
    BY <1>4, <1>2
  <2>2. \A x \in S : g[x] = IF x = t THEN f[x] + d ELSE f[x]
    BY <1>4
  <2> HIDE DEF S, f, g
  <2>3. SumOver(g, S) = IF t \in S THEN SumOver(f, S) + d ELSE SumOver(f, S)
    BY <2>1, <2>2, SumBump
  <2>4. QED
    BY <2>3 DEF S, f, g
<1>6. SumOver(bLog, a..b) \in Nat
  BY PaidIs
<1>7. One * (SumOver(bLog, a..b) + d) = One * SumOver(bLog, a..b) + One * d
  BY <1>6, PriceIs
<1>8. QED
  BY <1>4, <1>5, <1>7 DEF Paid

\* What is in the bucket at t, of one full bucket and the flow since a.
LEMMA LevelIs ==
    ASSUME BucketInv, NEW t \in 0..bNow, Reading(t)
    PROVE  /\ Bucket!Level(t) \in 0..Burst
           /\ \A a \in 0..t : Paid(bLog, a, BucketTime) + Bucket!Level(t) <= Burst + Flow(t - a)
<1>1. /\ Bucket!TypeOK /\ tokens \in 0..Burst /\ bNow \in 0..BucketTime /\ t \in 0..BucketTime
      /\ BucketTime \in 0..BucketTime
  BY DEF BucketInv, Bucket!TypeOK
<1>2. CASE bLast = -1
  <2>1. Bucket!Level(t) = Burst
    BY <1>2 DEF Bucket!Level, Bucket!Never
  <2>2. ASSUME NEW a \in 0..t PROVE Paid(bLog, a, BucketTime) + Burst <= Burst + Flow(t - a)
    <3>1. Paid(bLog, a, BucketTime) <= Flow(t - a)
      BY <1>1, <1>2 DEF BucketInv, Refilled
    <3>2. a \in Nat /\ t - a \in Nat
      BY <1>1
    <3>3. Paid(bLog, a, BucketTime) \in Nat
      BY <1>1, <3>2, PaidIs
    <3>4. Flow(t - a) \in Int
      BY <3>2, FlowIs
    <3>5. QED
      BY <3>1, <3>3, <3>4
  <2>3. QED
    BY <2>1, <2>2
<1>3. CASE bLast # -1
  <2>1. LastUse /\ bLast \in 0..BucketTime /\ bLast <= t
    BY <1>1, <1>3 DEF BucketInv, LastUse
  <2> DEFINE more == Flow(t - bLast)
  <2>2. Bucket!Elapsed(t) = t - bLast
    BY <2>1 DEF Bucket!Elapsed
  <2>3. Bucket!Level(t) = IF Burst < tokens + more THEN Burst ELSE tokens + more
    BY <1>3, <2>2 DEF Bucket!Level, Bucket!Never, Bucket!Least, Flow
  <2>4. t - bLast \in Nat
    BY <1>1, <2>1
  <2>5. more \in Nat
    BY <2>4, FlowIs
  <2> HIDE DEF more
  <2>6. Bucket!Level(t) \in 0..Burst /\ Bucket!Level(t) <= tokens + more
    BY <1>1, <2>3, <2>5
  <2>7. ASSUME NEW a \in 0..t PROVE Paid(bLog, a, BucketTime) + Bucket!Level(t) <= Burst + Flow(t - a)
    <3>1. a \in Nat /\ t - a \in Nat
      BY <1>1
    <3>2. Paid(bLog, a, BucketTime) \in Nat /\ Flow(t - a) \in Nat
      BY <1>1, <3>1, PaidIs, FlowIs
    <3>3. CASE a <= bLast
      <4>1. Paid(bLog, a, BucketTime) + tokens <= Burst + Flow(bLast - a)
        BY <2>1, <3>3 DEF LastUse
      <4>2. Flow(t - a) = Flow(bLast - a) + more /\ Flow(bLast - a) \in Int
        <5>1. t - a = (bLast - a) + (t - bLast) /\ bLast - a \in Int /\ t - bLast \in Int
          BY <2>1
        <5>2. QED
          BY <5>1, FlowIs DEF more
      <4>3. QED
        BY <1>1, <2>5, <2>6, <3>2, <4>1, <4>2
    <3>4. CASE ~(a <= bLast)
      <4>1. Paid(bLog, a, BucketTime) = 0
        <5>1. \A x \in 0..BucketTime : a <= x => bLast < x
          BY <2>1, <3>4
        <5>2. QED
          BY <1>1, <2>1, <5>1, NothingPaid DEF LastUse
      <4>2. QED
        BY <2>6, <3>2, <4>1
    <3>5. QED
      BY <3>3, <3>4
  <2>8. QED
    BY <2>6, <2>7
<1>4. QED
  BY <1>2, <1>3

LEMMA Balance ==
    ASSUME NEW paid \in Nat, NEW price \in Nat, NEW level \in Nat, NEW left \in Nat,
           NEW flow \in Nat, paid + level <= Burst + flow, left + price <= level
    PROVE  paid + price + left <= Burst + flow
OBVIOUS

\* The bucket is used at t, and the request counts if it got through and the caller
\* learns of it.
LEMMA ChargeKeeps ==
    ASSUME BucketInv, NEW t \in 0..bNow, Reading(t), Bucket!Charge(t),
           NEW d \in {0, 1}, d = 1 => Bucket!Admits(t), Entered(t, d),
           bNow' = bNow, bShared' = bShared, bCall' \in [Callers -> {-1} \union 0..bNow],
           \A p \in Callers : bCall'[p] # -1 => bCall'[p] = bCall[p] /\ t <= bCall[p],
           bDeadline' \in Nat, bShared => bDeadline' >= t + Bucket!TTL
    PROVE  BucketInv'
<1> DEFINE level == Bucket!Level(t)
           T == 0..BucketTime
<1>1. /\ Bucket!TypeOK /\ bNow \in T /\ bNow' = bNow /\ t \in T /\ BucketTime \in T
      /\ bLog \in [T -> Nat] /\ bShared \in BOOLEAN
  <2>1. Bucket!TypeOK
    BY DEF BucketInv
  <2>2. bNow \in T /\ bLog \in [T -> Nat] /\ bShared \in BOOLEAN
    BY <2>1 DEF Bucket!TypeOK
  <2>3. t \in T /\ BucketTime \in T
    BY <2>2
  <2>4. QED
    BY <2>1, <2>2, <2>3
<1>2. /\ level \in 0..Burst
      /\ \A a \in 0..t : Paid(bLog, a, BucketTime) + level <= Burst + Flow(t - a)
  BY LevelIs
<1>3. bLast' = t /\ tokens' = IF level >= One THEN level - One ELSE level
  BY DEF Bucket!Charge, Bucket!Admits
<1>4. d = 1 => level >= One
  BY DEF Bucket!Admits
<1> HIDE DEF level
<1>5. tokens' \in 0..Burst /\ tokens' + One * d <= level
  BY <1>2, <1>3, <1>4
<1>6. \A u : Reading(u)' => Reading(u) /\ t <= u
  BY <1>1 DEF Reading
<1>7. bLog' \in [T -> Nat]
  BY <1>1, PaysOne
<1>8. ASSUME NEW a \in Nat, NEW b \in T
       PROVE  Paid(bLog', a, b) = IF t \in a..b THEN Paid(bLog, a, b) + One * d ELSE Paid(bLog, a, b)
  <2>1. t \in 0..BucketTime /\ b \in 0..BucketTime
    BY <1>1
  <2>2. QED
    BY <1>1, <2>1, PaysOne
<1>9. /\ bLog' \in [T -> Nat]
      /\ \A a \in Nat, b \in T :
            Paid(bLog', a, b) = IF t \in a..b THEN Paid(bLog, a, b) + One * d ELSE Paid(bLog, a, b)
  BY <1>7, <1>8
<1>10. \A a \in Nat, b \in T : Paid(bLog, a, b) \in Nat /\ Paid(bLog, a, b) <= Paid(bLog, a, BucketTime)
  BY <1>1, PaidIs
<1>11. One * d \in Nat
  OBVIOUS
<1>12. ASSUME NEW a \in 0..t
       PROVE  /\ Paid(bLog', a, BucketTime) = Paid(bLog, a, BucketTime) + One * d
              /\ Paid(bLog', a, BucketTime) + tokens' <= Burst + Flow(t - a)
  <2>1. a \in Nat /\ t \in a..BucketTime
    BY <1>1
  <2>2. Paid(bLog', a, BucketTime) = Paid(bLog, a, BucketTime) + One * d
    BY <1>1, <1>9, <2>1
  <2>3. a \in Nat /\ t - a \in Nat
    BY <1>1
  <2>4. Paid(bLog, a, BucketTime) + level <= Burst + Flow(t - a) /\ Paid(bLog, a, BucketTime) \in Nat
    BY <1>1, <1>2, <1>10, <2>3
  <2>5. Flow(t - a) \in Nat
    BY <2>3, FlowIs
  <2>6. tokens' \in Nat /\ level \in Nat
    BY <1>2, <1>5
  <2>7. QED
    BY <1>5, <1>11, <2>2, <2>4, <2>5, <2>6, Balance
<1>13. Bucket!TypeOK'
  <2>1. bLast' \in Int /\ bLast' >= -1
    BY <1>3
  <2>2. QED
    BY <1>1, <1>5, <1>9, <2>1 DEF Bucket!TypeOK, Bucket!Idle, Bucket!Never
<1>14. \A p \in Callers : bCall'[p] # -1 => bShared' /\ bNow' - bCall'[p] <= MaxDelay
  BY DEF BucketInv
<1>15. ASSUME NEW u \in T, NEW x \in T, Reading(u)', u < x PROVE bLog'[x] = 0
  <2>1. Reading(u) /\ t <= u /\ x # t
    BY <1>1, <1>6, <1>15
  <2>2. bLog'[x] = bLog[x]
    BY <1>1, <2>1 DEF Entered
  <2>3. QED
    BY <1>15, <2>1, <2>2 DEF BucketInv
<1>16. LastUse'
  <2>1. bLast' \in T /\ \A u \in T : Reading(u)' => bLast' <= u
    BY <1>1, <1>3, <1>6
  <2>2. ASSUME NEW x \in T, bLast' < x PROVE bLog'[x] = 0
    <3>1. bLog'[x] = bLog[x] /\ t < x
      BY <1>1, <1>3, <2>2 DEF Entered
    <3>2. QED
      BY <1>1, <3>1 DEF BucketInv
  <2>3. \A a \in 0..bLast' : Paid(bLog', a, BucketTime) + tokens' <= Burst + Flow(bLast' - a)
    BY <1>3, <1>12
  <2>4. bShared' => bDeadline' >= bLast' + Bucket!TTL
    BY <1>3
  <2>5. QED
    BY <2>1, <2>2, <2>3, <2>4 DEF LastUse, Flow, Bucket!TTL
<1>17. ASSUME NEW a \in T, NEW b \in T, a <= b PROVE Paid(bLog', a, b) <= Burst + Flow(b - a)
  <2>1. CASE t \notin a..b
    <3>1. Paid(bLog', a, b) = Paid(bLog, a, b)
      BY <1>8, <2>1
    <3>2. QED
      BY <1>17, <3>1 DEF BucketInv
  <2>2. CASE t \in a..b
    <3>1. a \in 0..t /\ t - a \in Int /\ b - a \in Int /\ t - a <= b - a
      BY <1>1, <2>2
    <3>2. Paid(bLog', a, b) = Paid(bLog, a, b) + One * d
      BY <1>8, <2>2
    <3>3. /\ Paid(bLog', a, BucketTime) = Paid(bLog, a, BucketTime) + One * d
          /\ Paid(bLog', a, BucketTime) + tokens' <= Burst + Flow(t - a)
      BY <1>12, <3>1
    <3>4. Flow(t - a) <= Flow(b - a) /\ Flow(t - a) \in Int /\ Flow(b - a) \in Int
      BY <3>1, FlowIs
    <3>5. a \in Nat
      OBVIOUS
    <3>6. Paid(bLog, a, b) \in Nat /\ Paid(bLog, a, b) <= Paid(bLog, a, BucketTime) /\ Paid(bLog, a, BucketTime) \in Nat
      BY <1>1, <1>10, <3>5
    <3>7. QED
      BY <1>5, <1>11, <3>2, <3>3, <3>4, <3>6
  <2>3. QED
    BY <2>1, <2>2
<1>18. bLast' # -1
  BY <1>3
<1>19. \A a, b \in T : a <= b => Paid(bLog', a, b) <= Burst + Flow(b - a)'
  BY <1>17 DEF Flow
<1>20. QED
  BY <1>13, <1>14, <1>15, <1>16, <1>18, <1>19 DEF BucketInv

\* Calls begin or end, and the bucket stays.
LEMMA BucketStays ==
    ASSUME BucketInv, UNCHANGED <<bShared, bNow, tokens, bLast, bDeadline, bLog>>,
           bCall' \in [Callers -> {-1} \union 0..bNow],
           \A p \in Callers : bCall'[p] # -1 =>
              /\ bShared /\ bNow - bCall'[p] <= MaxDelay
              /\ bCall'[p] \in {bCall[p], bNow}
    PROVE  BucketInv'
<1> DEFINE T == 0..BucketTime
<1>1. \A u : Reading(u)' => Reading(u)
  BY DEF Reading
<1>2. Bucket!TypeOK'
  BY DEF BucketInv, Bucket!TypeOK, Bucket!Idle, Bucket!Never
<1>3. \A p \in Callers : bCall'[p] # -1 => bShared' /\ bNow' - bCall'[p] <= MaxDelay
  OBVIOUS
<1>4. \A t, x \in T : Reading(t)' /\ t < x => bLog'[x] = 0
  BY <1>1 DEF BucketInv
<1>5. bLast' # -1 => LastUse'
  BY <1>1 DEF BucketInv, LastUse, Bucket!TTL, Flow, Paid
<1>6. bLast' = -1 => bShared' /\ Refilled'
  BY <1>1 DEF BucketInv, Refilled, Flow, Paid
<1>7. (\A a, b \in T : a <= b => Paid(bLog, a, b) <= Burst + Flow(b - a))'
  BY DEF BucketInv, Flow, Paid
<1>8. QED
  BY <1>2, <1>3, <1>4, <1>5, <1>6, <1>7 DEF BucketInv

\* Time passes, and the key may expire: by then what was paid has come again, for
\* whoever still holds a time too.
LEMMA BucketTickKeeps ==
    ASSUME KeyOutlivesCall, BucketInv, Bucket!Tick, bShared' = bShared
    PROVE  BucketInv'
<1> DEFINE T == 0..BucketTime
<1>1. /\ bNow \in T /\ bNow + 1 \in T /\ bNow' = bNow + 1
      /\ bCall \in [Callers -> {-1} \union 0..bNow]
      /\ bDeadline \in Nat /\ BucketTime \in T /\ tokens \in 0..Burst
      /\ bLog \in [T -> Nat] /\ Bucket!TypeOK
  <2>1. Bucket!TypeOK
    BY DEF BucketInv
  <2>2. QED
    BY <2>1 DEF Bucket!TypeOK, Bucket!Tick, Bucket!Idle
<1>2. UNCHANGED <<bShared, tokens, bDeadline, bCall, bLog>>
  BY DEF Bucket!Tick
<1>3. \A p \in Callers : bCall[p] # -1 => bShared /\ bNow + 1 - bCall[p] <= MaxDelay
  <2>1. \A p \in Callers : bCall[p] # -1 => bShared /\ bNow - bCall[p] < MaxDelay
    BY DEF BucketInv, Bucket!Tick, Bucket!Idle
  <2>2. \A p \in Callers : bCall[p] \in Int
    BY <1>1
  <2>3. QED
    BY <1>1, <2>1, <2>2
<1>4. bLast' = IF bShared /\ bNow + 1 >= bDeadline THEN -1 ELSE bLast
  BY DEF Bucket!Tick, Bucket!Never
<1>5. ASSUME NEW u, Reading(u)'
      PROVE  /\ u = bNow + 1 \/ Reading(u)
             /\ u >= bNow /\ u \in Nat
  BY <1>1, <1>2, <1>3, <1>5 DEF Reading, KeyOutlivesCall
<1>6. Reading(bNow)
  BY DEF Reading
<1>7. Bucket!TypeOK'
  BY <1>1, <1>2, <1>4 DEF Bucket!TypeOK, Bucket!Idle, Bucket!Never
<1>8. \A p \in Callers : bCall'[p] # -1 => bShared' /\ bNow' - bCall'[p] <= MaxDelay
  BY <1>1, <1>2, <1>3
<1>9. ASSUME NEW u \in T, NEW x \in T, Reading(u)', u < x PROVE bLog'[x] = 0
  <2>1. bNow < x
    BY <1>1, <1>5, <1>9
  <2>2. QED
    BY <1>1, <1>2, <1>6, <2>1 DEF BucketInv
<1>10. ASSUME bLast' # -1 PROVE LastUse'
  <2>1. bLast' = bLast /\ LastUse
    BY <1>4, <1>10 DEF BucketInv
  <2>2. \A u \in T : Reading(u)' => bLast' <= u
    BY <1>1, <1>5, <1>6, <2>1 DEF LastUse
  <2>3. LastUse'
    BY <1>2, <2>1, <2>2 DEF LastUse, Bucket!TTL, Flow, Paid
  <2>4. QED
    BY <2>3
<1>11. ASSUME bLast' = -1 PROVE bShared' /\ Refilled'
  <2>1. bShared
    BY <1>4, <1>11 DEF BucketInv
  <2>2. ASSUME NEW u \in T, Reading(u)', NEW a \in 0..u
        PROVE  Paid(bLog, a, BucketTime) <= Flow(u - a)
    <3>1. a \in Nat /\ u - a \in Nat /\ Flow(u - a) \in Nat
      BY FlowIs
    <3>2. Paid(bLog, a, BucketTime) \in Nat
      BY <1>1, <3>1, PaidIs
    <3>3. CASE bLast = -1
      <4>1. CASE a <= bNow
        <5>1. Paid(bLog, a, BucketTime) <= Flow(bNow - a)
          BY <1>1, <1>6, <3>1, <3>3, <4>1 DEF BucketInv, Refilled
        <5>2. bNow - a \in Int /\ u - a \in Int /\ bNow - a <= u - a
          BY <1>1, <1>5, <2>2, <3>1
        <5>3. Flow(bNow - a) <= Flow(u - a) /\ Flow(bNow - a) \in Int
          BY <5>2, FlowIs
        <5>4. QED
          BY <3>1, <3>2, <5>1, <5>3
      <4>2. CASE ~(a <= bNow)
        <5>1. \A x \in T : a <= x => bLog[x] = 0
          BY <1>1, <1>6, <4>2 DEF BucketInv
        <5>2. QED
          BY <1>1, <3>1, <5>1, NothingPaid
      <4>3. QED
        BY <4>1, <4>2
    <3>4. CASE bLast # -1
      <4>1. LastUse /\ bLast \in T
        BY <3>4 DEF BucketInv, LastUse
      <4>2. CASE a <= bLast
        <5>1. Paid(bLog, a, BucketTime) + tokens <= Burst + Flow(bLast - a)
          BY <3>1, <4>1, <4>2 DEF LastUse
        <5>2. bNow + 1 >= bLast + Bucket!TTL /\ u >= bNow
          BY <1>1, <1>4, <1>5, <1>11, <2>1, <2>2, <3>4, <4>1, LifeIsWorthBurst DEF LastUse
        <5>3. Bucket!TTL - 1 <= u - bLast /\ u - bLast \in Int /\ bLast - a \in Int
          BY <1>1, <4>1, <5>2, LifeIsWorthBurst
        <5>4. Burst <= Flow(u - bLast) /\ Flow(u - bLast) \in Int
          <6>1. Bucket!TTL - 1 \in Int /\ Flow(Bucket!TTL - 1) \in Int
                /\ Flow(Bucket!TTL - 1) >= Burst
            BY LifeIsWorthBurst, FlowIs
          <6>2. Flow(Bucket!TTL - 1) <= Flow(u - bLast) /\ Flow(u - bLast) \in Int
            BY <5>3, <6>1, FlowIs
          <6>3. QED
            BY <6>1, <6>2
        <5>5. Flow(u - a) = Flow(u - bLast) + Flow(bLast - a) /\ Flow(bLast - a) \in Int
          <6>1. u - a = (u - bLast) + (bLast - a)
            BY <4>1
          <6>2. QED
            BY <5>3, <6>1, FlowIs
        <5>6. tokens \in Nat
          BY <1>1
        <5>7. QED
          BY <3>1, <3>2, <5>1, <5>4, <5>5, <5>6
      <4>3. CASE ~(a <= bLast)
        <5>1. \A x \in T : a <= x => bLog[x] = 0
          BY <4>1, <4>3 DEF LastUse
        <5>2. QED
          BY <1>1, <3>1, <5>1, NothingPaid
      <4>4. QED
        BY <4>2, <4>3
    <3>5. QED
      BY <3>3, <3>4
  <2>3. Refilled'
    BY <1>2, <2>2 DEF Refilled, Flow, Paid
  <2>4. QED
    BY <1>2, <2>1, <2>3
<1>12. (\A a, b \in T : a <= b => Paid(bLog, a, b) <= Burst + Flow(b - a))'
  BY <1>2 DEF BucketInv, Flow, Paid
<1>13. (bLast' # -1 => LastUse') /\ (bLast' = -1 => bShared' /\ Refilled')
  BY <1>10, <1>11
<1>14. QED
  BY <1>7, <1>8, <1>9, <1>12, <1>13 DEF BucketInv

LEMMA BucketKeeps ==
    ASSUME CallsInOrder, KeyOutlivesCall, BucketInv, Bucket!Next
    PROVE  BucketInv'
<1> DEFINE T == 0..BucketTime
<1>1. /\ bNow \in T /\ bCall \in [Callers -> {-1} \union 0..bNow]
      /\ bDeadline \in Nat /\ bLog \in [T -> Nat] /\ bShared' = bShared
      /\ \A p \in Callers : bCall[p] # -1 => bShared /\ bNow - bCall[p] <= MaxDelay
  <2>1. Bucket!TypeOK
    BY DEF BucketInv
  <2>2. QED
    BY <2>1 DEF Bucket!TypeOK, Bucket!Next, Bucket!Idle, BucketInv
<1>2. ASSUME NEW t \in T, Bucket!Note(t)
      PROVE  \E d \in {0, 1} : (d = 1 => Bucket!Admits(t)) /\ Entered(t, d)
  <2>1. CASE Bucket!Admits(t)
    <3>1. Entered(t, 1)
      BY <1>2, <2>1 DEF Bucket!Note, Entered
    <3>2. QED
      BY <2>1, <3>1
  <2>2. CASE ~Bucket!Admits(t)
    <3>1. Entered(t, 0)
      BY <1>2, <2>2 DEF Bucket!Note, Entered
    <3>2. QED
      BY <3>1
  <2>3. QED
    BY <2>1, <2>2
<1>3. ASSUME NEW t \in T, bLog' = bLog PROVE Entered(t, 0)
  BY <1>1, <1>3 DEF Entered
<1>4. CASE Bucket!Allow
  <2>1. /\ ~bShared /\ Bucket!Charge(bNow) /\ Bucket!Note(bNow)
        /\ UNCHANGED <<bNow, bDeadline, bCall>>
    BY <1>4 DEF Bucket!Allow
  <2>2. PICK d \in {0, 1} : (d = 1 => Bucket!Admits(bNow)) /\ Entered(bNow, d)
    BY <1>1, <1>2, <2>1
  <2>3. Reading(bNow) /\ bNow \in 0..bNow
    BY <1>1 DEF Reading
  <2>4. QED
    BY <1>1, <2>1, <2>2, <2>3, ChargeKeeps
<1>5. ASSUME NEW p \in Callers, Bucket!Send(p) PROVE BucketInv'
  <2>1. /\ bShared /\ bCall' = [bCall EXCEPT ![p] = bNow]
        /\ UNCHANGED <<bNow, tokens, bLast, bDeadline, bLog>>
    BY <1>5 DEF Bucket!Send
  <2>2. bCall' \in [Callers -> {-1} \union 0..bNow]
    BY <1>1, <2>1
  <2>3. \A q \in Callers : bCall'[q] = IF q = p THEN bNow ELSE bCall[q]
    BY <1>1, <2>1
  <2>4. bNow - bNow <= MaxDelay
    BY <1>1
  <2>5. QED
    BY <1>1, <2>1, <2>2, <2>3, <2>4, BucketStays
<1>6. ASSUME NEW p \in Callers, bCall[p] # -1, bCall' = [bCall EXCEPT ![p] = -1]
      PROVE  /\ bCall' \in [Callers -> {-1} \union 0..bNow]
             /\ \A q \in Callers : bCall'[q] # -1 => bCall'[q] = bCall[q]
             /\ CallsInOrder =>
                   \A q \in Callers : bCall'[q] # -1 => bCall[p] <= bCall[q]
             /\ Reading(bCall[p]) /\ bCall[p] \in 0..bNow /\ bShared
  <2>1. bCall' \in [Callers -> {-1} \union 0..bNow]
    BY <1>1, <1>6
  <2>2. \A q \in Callers : bCall'[q] = IF q = p THEN -1 ELSE bCall[q]
    BY <1>1, <1>6
  <2>3. bCall[p] \in 0..bNow /\ bShared
    BY <1>1, <1>6
  <2>4. Reading(bCall[p])
    BY <1>6 DEF Reading
  <2>5. ASSUME CallsInOrder, NEW q \in Callers, bCall'[q] # -1 PROVE bCall[p] <= bCall[q]
    <3>1. q # p /\ bCall[q] # -1
      BY <2>2, <2>5
    <3>2. MaxDelay = 0
      BY <2>5, <3>1 DEF CallsInOrder
    <3>3. bNow - bCall[q] <= 0 /\ bCall[q] \in 0..bNow
      BY <1>1, <3>1, <3>2
    <3>4. QED
      BY <1>1, <2>3, <3>3
  <2>6. QED
    BY <2>1, <2>2, <2>3, <2>4, <2>5
<1>7. ASSUME NEW p \in Callers, bCall[p] # -1, bCall' = [bCall EXCEPT ![p] = -1],
             bDeadline' = bNow + Bucket!TTL
      PROVE  bDeadline' \in Nat /\ bDeadline' >= bCall[p] + Bucket!TTL
  <2>1. bCall[p] \in 0..bNow /\ Bucket!TTL \in Nat
    BY <1>6, <1>7, LifeIsWorthBurst
  <2>2. QED
    BY <1>1, <1>7, <2>1
<1>8. ASSUME NEW p \in Callers, Bucket!Script(p) PROVE BucketInv'
  <2> DEFINE t == bCall[p]
  <2>1. /\ t # -1 /\ Bucket!Charge(t) /\ Bucket!Note(t) /\ bDeadline' = bNow + Bucket!TTL
        /\ bCall' = [bCall EXCEPT ![p] = -1] /\ bNow' = bNow
    BY <1>8 DEF Bucket!Script, Bucket!Idle
  <2>2. /\ bCall' \in [Callers -> {-1} \union 0..bNow] /\ Reading(t) /\ t \in 0..bNow /\ bShared
        /\ \A q \in Callers : bCall'[q] # -1 => bCall'[q] = bCall[q] /\ t <= bCall[q]
    BY <1>6, <2>1
  <2>3. bDeadline' \in Nat /\ bDeadline' >= t + Bucket!TTL
    BY <1>7, <2>1
  <2> HIDE DEF t
  <2>4. t \in T
    BY <1>1, <2>2
  <2>5. PICK d \in {0, 1} : (d = 1 => Bucket!Admits(t)) /\ Entered(t, d)
    BY <1>2, <2>1, <2>4
  <2>6. QED
    BY <1>1, <2>1, <2>2, <2>3, <2>5, ChargeKeeps
<1>9. ASSUME NEW p \in Callers, Bucket!Fails(p) PROVE BucketInv'
  <2> DEFINE t == bCall[p]
  <2>1. /\ t # -1 /\ bCall' = [bCall EXCEPT ![p] = -1] /\ UNCHANGED <<bNow, bLog>>
    BY <1>9 DEF Bucket!Fails, Bucket!Idle
  <2>2. /\ bCall' \in [Callers -> {-1} \union 0..bNow] /\ Reading(t) /\ t \in 0..bNow /\ bShared
        /\ \A q \in Callers : bCall'[q] # -1 => bCall'[q] = bCall[q] /\ t <= bCall[q]
    BY <1>6, <2>1
  <2>3. CASE UNCHANGED <<tokens, bLast, bDeadline>>
    BY <1>1, <2>1, <2>2, <2>3, BucketStays
  <2>4. CASE Bucket!Charge(t) /\ bDeadline' = bNow + Bucket!TTL
    <3>1. bDeadline' \in Nat /\ bDeadline' >= t + Bucket!TTL
      BY <1>7, <2>1, <2>4
    <3>2. t \in T
      BY <1>1, <2>2
    <3>3. Entered(t, 0)
      BY <1>3, <2>1, <3>2
    <3> HIDE DEF t
    <3>4. QED
      BY <1>1, <2>1, <2>2, <2>4, <3>1, <3>3, ChargeKeeps
  <2>5. QED
    BY <1>9, <2>3, <2>4 DEF Bucket!Fails
<1>10. CASE Bucket!Tick
  BY <1>1, <1>10, BucketTickKeeps
<1>11. QED
  BY <1>4, <1>5, <1>8, <1>9, <1>10 DEF Bucket!Next

LEMMA BucketStarts == Bucket!Init => BucketInv
<1> SUFFICES ASSUME Bucket!Init PROVE BucketInv
  OBVIOUS
<1> DEFINE T == 0..BucketTime
<1>1. /\ bShared \in BOOLEAN /\ bNow = 0 /\ tokens = Burst /\ bLast = (IF bShared THEN -1 ELSE 0)
      /\ bDeadline = 0 /\ bCall = [p \in Callers |-> -1] /\ bLog = [t \in T |-> 0]
  BY DEF Bucket!Init, Bucket!Never, Bucket!Idle
<1>2. Bucket!TypeOK
  BY <1>1 DEF Bucket!TypeOK, Bucket!Never, Bucket!Idle
<1>3. ASSUME NEW a \in T, NEW b \in T PROVE Paid(bLog, a, b) = 0 /\ a \in Nat
  <2>1. Paid(bLog, a, BucketTime) = 0 /\ BucketTime \in T /\ a \in Nat
    BY <1>1, <1>2, NothingPaid
  <2>2. Paid(bLog, a, b) \in Nat /\ Paid(bLog, a, b) <= Paid(bLog, a, BucketTime)
    BY <1>2, <2>1, PaidIs
  <2>3. QED
    BY <2>1, <2>2
<1>4. \A k \in Nat : Flow(k) \in Nat
  BY FlowIs
<1>5. BucketTime \in T /\ \A u : Reading(u) => u = 0
  BY <1>1 DEF Reading
<1>6. bLast # -1 => LastUse
  <2> SUFFICES ASSUME bLast # -1 PROVE LastUse
    OBVIOUS
  <2>1. bLast = 0 /\ ~bShared
    BY <1>1
  <2>2. \A a \in 0..bLast : Paid(bLog, a, BucketTime) + tokens <= Burst + Flow(bLast - a)
    <3>1. Flow(0) \in Nat /\ 0 \in T
      BY <1>4
    <3>2. Paid(bLog, 0, BucketTime) = 0
      BY <1>3, <1>5, <3>1
    <3>3. 0..bLast = {0} /\ 0 - 0 = 0
      BY <2>1
    <3>4. \A a \in 0..bLast : a = 0 /\ bLast - a = 0
      BY <2>1, <3>3
    <3>5. QED
      BY <1>1, <3>1, <3>2, <3>4
  <2>3. \A x \in T : bLog[x] = 0
    BY <1>1
  <2>4. QED
    BY <1>5, <2>1, <2>2, <2>3 DEF LastUse
<1>7. ASSUME NEW t \in T, Reading(t), NEW a \in 0..t PROVE Paid(bLog, a, BucketTime) <= Flow(t - a)
  <2>1. a = 0 /\ t = 0 /\ t - a = 0
    BY <1>5, <1>7
  <2>2. Flow(0) \in Nat /\ Paid(bLog, 0, BucketTime) = 0
    BY <1>3, <1>4, <1>5
  <2>3. QED
    BY <2>1, <2>2
<1>8. ASSUME NEW a \in T, NEW b \in T, a <= b PROVE Paid(bLog, a, b) <= Burst + Flow(b - a)
  <2>1. b - a \in Nat
    BY <1>8
  <2>2. Flow(b - a) \in Nat
    BY <1>4, <2>1
  <2>3. QED
    BY <1>3, <2>2
<1>9. \A p \in Callers : bCall[p] = -1
  BY <1>1
<1>10. \A t, x \in T : Reading(t) /\ t < x => bLog[x] = 0
  BY <1>1
<1>11. bLast = -1 => bShared /\ Refilled
  BY <1>1, <1>7 DEF Refilled
<1>12. QED
  BY <1>2, <1>6, <1>8, <1>9, <1>10, <1>11 DEF BucketInv

\* The quotient of a wait by the rate.
LEMMA WaitIs ==
    ASSUME NEW n \in Int, NEW w, w = n \div Rate
    PROVE  /\ w \in Int /\ Flow(w) <= n /\ n < Flow(w) + Rate
           /\ n >= 0 => w >= 0
           /\ Flow(w + 1) = Flow(w) + Rate /\ Flow(w - 1) = Flow(w) - Rate
           /\ Flow(w) \in Int
<1>1. w \in Int /\ w * Rate <= n /\ n < w * Rate + Rate /\ (n >= 0 => w >= 0)
  OBVIOUS
<1>2. (w + 1) * Rate = w * Rate + Rate /\ (w - 1) * Rate = w * Rate - Rate /\ w * Rate \in Int
  BY <1>1
<1>3. QED
  BY <1>1, <1>2 DEF Flow

LEMMA BucketHint == BucketInv => Bucket!HintHonest
<1> SUFFICES ASSUME BucketInv PROVE Bucket!HintHonest
  OBVIOUS
<1> DEFINE hold == tokens + Flow(bNow - bLast)
           R == Bucket!RetryAfter
<1>1. tokens \in 0..Burst /\ bNow \in Nat /\ bShared \in BOOLEAN /\ bLast \in Int
  <2>1. Bucket!TypeOK
    BY DEF BucketInv
  <2>2. QED
    BY <2>1 DEF Bucket!TypeOK
<1>2. CASE bLast = -1
  <2>1. \A t : Bucket!Level(t) = Burst
    BY <1>2 DEF Bucket!Level, Bucket!Never
  <2>2. bShared
    BY <1>2 DEF BucketInv
  <2>3. QED
    BY <2>1, <2>2 DEF Bucket!HintHonest
<1>3. CASE bLast # -1
  <2>1. bLast \in Nat /\ bLast <= bNow /\ bNow - bLast \in Nat
    <3>1. LastUse /\ Reading(bNow) /\ bNow \in 0..BucketTime
      BY <1>3 DEF BucketInv, Reading, Bucket!TypeOK
    <3>2. QED
      BY <3>1 DEF LastUse
  <2>2. hold \in Nat /\ Flow(bNow - bLast) \in Nat
    <3>1. Flow(bNow - bLast) \in Nat
      BY <2>1, FlowIs
    <3>2. tokens \in Nat
      BY <1>1
    <3>3. QED
      BY <3>1, <3>2
  <2>3. Bucket!Elapsed(bNow) * Rate = Flow(bNow - bLast)
    BY <1>1, <2>1 DEF Bucket!Elapsed, Flow
  <2>4. ASSUME NEW r \in Int, bNow + r >= bLast
        PROVE  Bucket!Level(bNow + r) =
                  IF Burst < hold + Flow(r) THEN Burst ELSE hold + Flow(r)
    <3>1. Bucket!Elapsed(bNow + r) = (bNow - bLast) + r
      BY <1>1, <2>1, <2>4 DEF Bucket!Elapsed
    <3>2. Bucket!Elapsed(bNow + r) * Rate = Flow(bNow - bLast) + Flow(r)
      BY <2>1, <3>1, FlowIs DEF Flow
    <3>3. Flow(r) \in Int
      BY FlowIs
    <3>4. Bucket!Level(bNow + r) =
            Bucket!Least(Burst, tokens + (Flow(bNow - bLast) + Flow(r)))
      BY <1>3, <3>2 DEF Bucket!Level, Bucket!Never
    <3>5. tokens + (Flow(bNow - bLast) + Flow(r)) = hold + Flow(r)
      BY <1>1, <2>2, <3>3
    <3>6. QED
      BY <3>4, <3>5 DEF Bucket!Least
  <2> DEFINE wait == IF bShared THEN One \div Rate ELSE (One - hold) \div Rate
  <2>5. R = IF ~bShared /\ hold >= One THEN 0 ELSE IF wait < 0 THEN 0 ELSE wait
    BY <2>3 DEF Bucket!RetryAfter
  <2> HIDE DEF hold, R
  <2>6. CASE ~bShared /\ hold >= One
    <3>1. R = 0
      BY <2>5, <2>6
    <3>2. Flow(1) \in Nat
      BY FlowIs
    <3>3. Bucket!Level(bNow + 1) >= One
      BY <1>1, <2>1, <2>2, <2>4, <2>6, <3>2
    <3>4. bNow + R + 1 = bNow + 1 /\ ~(R > 0)
      BY <1>1, <3>1
    <3>5. QED
      BY <3>3, <3>4 DEF Bucket!HintHonest, R
  <2>7. CASE ~(~bShared /\ hold >= One)
    <3> DEFINE n == IF bShared THEN One ELSE One - hold
    <3>1. n \in Nat /\ wait = n \div Rate
      BY <2>2, <2>7
    <3> HIDE DEF wait, n
    <3>2. /\ wait \in Nat /\ Flow(wait) <= n /\ n < Flow(wait) + Rate
          /\ Flow(wait + 1) = Flow(wait) + Rate /\ Flow(wait - 1) = Flow(wait) - Rate
          /\ Flow(wait) \in Int
      <4>1. n \in Int /\ n >= 0
        BY <3>1
      <4>2. /\ wait \in Int /\ Flow(wait) <= n /\ n < Flow(wait) + Rate /\ wait >= 0
            /\ Flow(wait + 1) = Flow(wait) + Rate /\ Flow(wait - 1) = Flow(wait) - Rate
            /\ Flow(wait) \in Int
        BY <3>1, <4>1, WaitIs
      <4>3. QED
        BY <4>2
    <3>3. R = wait
      BY <2>5, <2>7, <3>2
    <3>4. hold + n >= One /\ (~bShared => hold + n = One)
      BY <2>2 DEF n
    <3>5. Bucket!Level(bNow + R + 1) >= One
      <4>1. bNow + R + 1 = bNow + (wait + 1) /\ wait + 1 \in Int /\ bNow + (wait + 1) >= bLast
        BY <1>1, <2>1, <3>2, <3>3
      <4>2. hold + Flow(wait + 1) >= One
        BY <2>2, <3>1, <3>2, <3>4
      <4>3. Bucket!Level(bNow + (wait + 1)) =
              IF Burst < hold + Flow(wait + 1) THEN Burst ELSE hold + Flow(wait + 1)
        BY <2>4, <4>1
      <4>4. QED
        BY <4>1, <4>2, <4>3
    <3>6. ASSUME ~bShared, R > 0 PROVE Bucket!Level(bNow + R - 1) < One
      <4>1. bNow + R - 1 = bNow + (wait - 1) /\ wait - 1 \in Int /\ bNow + (wait - 1) >= bLast
        BY <1>1, <2>1, <3>2, <3>3, <3>6
      <4>2. hold + Flow(wait - 1) < One
        BY <2>2, <3>1, <3>2, <3>4, <3>6
      <4>3. Bucket!Level(bNow + (wait - 1)) =
              IF Burst < hold + Flow(wait - 1) THEN Burst ELSE hold + Flow(wait - 1)
        BY <2>4, <4>1
      <4>4. Flow(wait - 1) \in Int
        BY <3>2
      <4>5. ~(Burst < hold + Flow(wait - 1))
        BY <2>2, <4>2, <4>4
      <4>6. QED
        BY <4>1, <4>2, <4>3, <4>5
    <3>7. QED
      BY <3>5, <3>6 DEF Bucket!HintHonest, R
  <2>8. QED
    BY <2>6, <2>7
<1>4. QED
  BY <1>2, <1>3

LEMMA BucketImplies == BucketInv => Bucket!TypeOK /\ Bucket!RateBound /\ Bucket!HintHonest
<1> SUFFICES ASSUME BucketInv PROVE Bucket!TypeOK /\ Bucket!RateBound /\ Bucket!HintHonest
  OBVIOUS
<1>1. Bucket!TypeOK /\ bNow \in 0..BucketTime
  BY DEF BucketInv, Bucket!TypeOK
<1>2. ASSUME NEW a \in 0..bNow, NEW b \in 0..bNow, a <= b
      PROVE  One * Bucket!MapThenSumSet(LAMBDA t : bLog[t], a..b) <= Burst + (b - a) * Rate
  <2>1. a \in 0..BucketTime /\ b \in 0..BucketTime
    BY <1>1
  <2>2. Paid(bLog, a, b) <= Burst + Flow(b - a)
    BY <1>2, <2>1 DEF BucketInv
  <2>3. One * SumOver(bLog, a..b) <= Burst + (b - a) * Rate
    BY <2>2 DEF Paid, Flow
  <2>4. Bucket!MapThenSumSet(LAMBDA t : bLog[t], a..b) = SumOver(bLog, a..b)
    BY BucketSum
  <2>5. QED
    BY <2>3, <2>4
<1>3. Bucket!RateBound
  BY <1>2 DEF Bucket!RateBound
<1>4. QED
  BY <1>1, <1>3, BucketHint

-----------------------------------------------------------------------------
(* The sliding window. *)

LEMMA SlidingSum ==
    ASSUME NEW f, NEW S
    PROVE  Sliding!MapThenSumSet(LAMBDA x : f[x], S) = SumOver(f, S)
BY DEF Sliding!MapThenSumSet, Sliding!MapThenFoldSet, SumOver, Fold, AnyOf

LEMMA SlidingCardinality == \A S : Sliding!Cardinality(S) = Cardinality(S)
BY DEF Sliding!Cardinality, Cardinality

\* The times at which a request may still be decided.
Asking(t) == t = wNow \/ \E p \in Callers : wCall[p] # -1 /\ t = wCall[p]

\* The records from time a on, the times from a on, and those of one window.
From(R, a) == {r \in R : r.score >= a}
Times(a) == {x \in 0..WindowTime : x >= a}
InWindow(a) == {x \in 0..WindowTime : a <= x /\ x < a + Window}

\* As long as a time is within the window of a decision to come, every request let
\* through since then has its record.
Recorded(R, l, t) ==
    \A a \in Int : a > t - Window => SumOver(l, Times(a)) <= Cardinality(From(R, a))

\* The number in a record's name has been given out, and is not the one that its
\* caller would use next.
Given(r) ==
    /\ r.mem[3] <= count[r.mem[1]]
    /\ ~wShared \/ wCall[r.mem[1]] # -1 => r.mem[3] < count[r.mem[1]]

\* What RetryAfter has returned is still so.
Hinted ==
    hint > 0 =>
        /\ ~wShared /\ Cardinality(recs) = Limit
        /\ \A r \in recs : r.score >= wNow + hint - Window
        /\ \E r \in recs : r.score = wNow + hint - Window

SlidingInv ==
    /\ Sliding!TypeOK
    /\ IsFiniteSet(recs) /\ recs \subseteq [mem : Callers \X Nat \X Nat, score : Nat]
    /\ \A r \in recs : Given(r)
    /\ \A p \in Callers : wCall[p] # -1 => wShared /\ wNow - wCall[p] <= MaxDelay
    /\ \A t \in 0..wNow : Asking(t) => Recorded(recs, wLog, t)
    /\ \A x \in 0..WindowTime : wShared /\ wLog[x] > 0 => x + Window + Grace <= wDeadline
    /\ wDeadline <= wNow + Window + Grace
    /\ Hinted
    /\ \A a \in 0..WindowTime : SumOver(wLog, InWindow(a)) <= Limit

\* The record of p's request at t.
New(p, t) == [mem |-> <<p, t, count[p]>>, score |-> t]

\* Prune, count and record: the records within the window stay, and the new one comes
\* on top.
LEMMA Decided ==
    ASSUME SlidingInv, NEW p \in Callers, NEW t \in 0..wNow, ~wShared \/ wCall[p] # -1,
           Sliding!Decide(p, t)
    PROVE  /\ IsFiniteSet(recs') /\ Cardinality(recs') <= Limit
           /\ recs' \subseteq [mem : Callers \X Nat \X Nat, score : Nat]
           /\ \A r \in recs' : r.score \in 0..wNow
           /\ \A r \in recs' : r \in recs \/ (Sliding!Admits(t) /\ r = New(p, t))
           /\ \A a \in Int : a > t - Window =>
                 /\ Cardinality(From(recs, a)) \in Nat /\ Cardinality(From(recs', a)) \in Nat
                 /\ Cardinality(From(recs', a)) =
                       IF Sliding!Admits(t) /\ a <= t THEN Cardinality(From(recs, a)) + 1
                                                       ELSE Cardinality(From(recs, a))
                 /\ Sliding!Admits(t) => Cardinality(From(recs, a)) < Limit
<1> DEFINE m == New(p, t)
           kept == {r \in recs : r.score > t - Window}
           adm == Sliding!Admits(t)
           X == [mem : Callers \X Nat \X Nat, score : Nat]
<1>1. /\ IsFiniteSet(recs) /\ recs \subseteq X /\ Cardinality(recs) <= Limit
      /\ \A r \in recs : r.score \in 0..wNow /\ r.score \in Nat
      /\ wNow \in Nat /\ count \in [Callers -> Nat] /\ t \in Nat
  <2>1. Sliding!TypeOK /\ IsFiniteSet(recs) /\ recs \subseteq X
    BY DEF SlidingInv
  <2>2. /\ Cardinality(recs) <= Limit /\ \A r \in recs : r.score \in 0..wNow
        /\ wNow \in 0..WindowTime /\ count \in [Callers -> 0..MaxCalls]
    BY <2>1, SlidingCardinality DEF Sliding!TypeOK
  <2>3. QED
    BY <2>1, <2>2
<1>2. m \notin recs /\ \A r \in recs : r.mem # m.mem
  <2> SUFFICES ASSUME NEW r \in recs, r.mem = m.mem PROVE FALSE
    OBVIOUS
  <2>1. r.mem[1] = p /\ r.mem[3] = count[p]
    BY DEF New
  <2>2. r.mem[3] < count[r.mem[1]]
    BY <2>1 DEF SlidingInv, Given
  <2>3. QED
    BY <1>1, <2>1, <2>2
<1>3. m \in X /\ m.score = t
  BY <1>1 DEF New
<1>4. Sliding!Kept(t) = kept
  BY DEF Sliding!Kept
<1>5. adm <=> Cardinality(kept) < Limit
  BY <1>4, SlidingCardinality DEF Sliding!Admits
<1>6. recs' = IF adm THEN kept \union {m} ELSE kept
  <2>1. [mem |-> Sliding!Member(p, t), score |-> t] = m /\ Sliding!Member(p, t) = m.mem
    BY DEF Sliding!Member, New
  <2>2. {r \in kept : r.mem # m.mem} = kept
    BY <1>2
  <2>3. recs' = IF adm THEN {r \in kept : r.mem # m.mem} \union {m} ELSE kept
    BY <1>4, <2>1 DEF Sliding!Decide
  <2>4. QED
    BY <2>2, <2>3
<1> HIDE DEF m, adm
<1>7. /\ IsFiniteSet(kept) /\ Cardinality(kept) \in Nat /\ kept \subseteq recs
      /\ Cardinality(kept) <= Limit
  <2>1. IsFiniteSet(kept) /\ Cardinality(kept) <= Cardinality(recs)
    BY <1>1, FS_Subset
  <2>2. Cardinality(kept) \in Nat /\ Cardinality(recs) \in Nat
    BY <1>1, <2>1, FS_CardinalityType
  <2>3. QED
    BY <1>1, <2>1, <2>2
<1>8. /\ IsFiniteSet(kept \union {m}) /\ Cardinality(kept \union {m}) = Cardinality(kept) + 1
  BY <1>2, <1>7, FS_AddElement
<1>9. IsFiniteSet(recs') /\ Cardinality(recs') <= Limit
  BY <1>5, <1>6, <1>7, <1>8
<1>10. recs' \subseteq X /\ \A r \in recs' : r.score \in 0..wNow
  BY <1>1, <1>3, <1>6, <1>7
<1>11. \A r \in recs' : r \in recs \/ (adm /\ r = m)
  BY <1>6, <1>7
<1>12. ASSUME NEW a \in Int, a > t - Window
       PROVE  /\ Cardinality(From(recs, a)) \in Nat /\ Cardinality(From(recs', a)) \in Nat
              /\ Cardinality(From(recs', a)) =
                    IF adm /\ a <= t THEN Cardinality(From(recs, a)) + 1
                                     ELSE Cardinality(From(recs, a))
              /\ adm => Cardinality(From(recs, a)) < Limit
  <2> DEFINE F == From(recs, a)
  <2>1. F \subseteq kept /\ m \notin F
    BY <1>1, <1>2, <1>12 DEF From
  <2>2. IsFiniteSet(F) /\ Cardinality(F) <= Cardinality(kept)
    BY <1>7, <2>1, FS_Subset
  <2>3. Cardinality(F) \in Nat
    BY <2>2, FS_CardinalityType
  <2>4. From(recs', a) = IF adm /\ a <= t THEN F \union {m} ELSE F
    <3>1. \A r \in kept : r \in F <=> r.score >= a
      BY <1>7 DEF From
    <3>2. m.score >= a <=> a <= t
      BY <1>3
    <3>3. From(kept, a) = F
      BY <2>1, <3>1 DEF From
    <3>4. From(kept \union {m}, a) = IF a <= t THEN F \union {m} ELSE F
      BY <2>1, <3>1, <3>2 DEF From
    <3>5. QED
      BY <1>6, <3>3, <3>4
  <2>5. Cardinality(F \union {m}) = Cardinality(F) + 1
    BY <2>1, <2>2, FS_AddElement
  <2>6. adm => Cardinality(F) < Limit
    BY <1>5, <1>7, <2>2, <2>3
  <2> HIDE DEF F
  <2>7. QED
    BY <2>3, <2>4, <2>5, <2>6 DEF F
<1>13. QED
  BY <1>9, <1>10, <1>11, <1>12 DEF m, adm

\* So many requests more, at t.
Added(t, d) == wLog' = [wLog EXCEPT ![t] = @ + d]

LEMMA AddsOne ==
    ASSUME Sliding!TypeOK, NEW t \in 0..WindowTime, NEW d \in {0, 1}, Added(t, d),
           NEW S \in SUBSET (0..WindowTime)
    PROVE  /\ wLog' \in [0..WindowTime -> Nat]
           /\ SumOver(wLog, S) \in Nat
           /\ SumOver(wLog', S) = IF t \in S THEN SumOver(wLog, S) + d ELSE SumOver(wLog, S)
<1> DEFINE f == wLog
           g == wLog'
<1>1. /\ wLog \in [0..WindowTime -> Nat] /\ wLog' \in [0..WindowTime -> Nat]
      /\ \A x \in S : wLog'[x] = IF x = t THEN wLog[x] + d ELSE wLog[x]
  BY DEF Sliding!TypeOK, Added
<1>2. IsFiniteSet(0..WindowTime)
  BY FS_Interval
<1>3. IsFiniteSet(S)
  BY <1>2, FS_Subset
<1>4. (\A x \in S : f[x] \in Nat) /\ d \in Nat
  BY <1>1
<1>5. \A x \in S : g[x] = IF x = t THEN f[x] + d ELSE f[x]
  BY <1>1
<1> HIDE DEF f, g
<1>6. SumOver(f, S) \in Nat
  BY <1>3, <1>4, SumIsNat
<1>7. (\A x \in S : f[x] \in Nat) /\ d \in Nat /\ IsFiniteSet(S)
  BY <1>3, <1>4
<1>8. SumOver(g, S) = IF t \in S THEN SumOver(f, S) + d ELSE SumOver(f, S)
  <2> DEFINE U == S
  <2>1. d \in Nat /\ IsFiniteSet(U) /\ \A x \in U : f[x] \in Nat
    BY <1>7
  <2>2. \A x \in U : g[x] = IF x = t THEN f[x] + d ELSE f[x]
    BY <1>5
  <2> HIDE DEF U
  <2>3. SumOver(g, U) = IF t \in U THEN SumOver(f, U) + d ELSE SumOver(f, U)
    BY <2>1, <2>2, SumBump
  <2>4. QED
    BY <2>3 DEF U
<1>9. QED
  BY <1>1, <1>6, <1>8 DEF f, g

\* A part of the times sums up to no more.
LEMMA PartIsLess ==
    ASSUME NEW l \in [0..WindowTime -> Nat], NEW S \in SUBSET (0..WindowTime), NEW P \in SUBSET S
    PROVE  SumOver(l, P) <= SumOver(l, S) /\ SumOver(l, P) \in Nat /\ SumOver(l, S) \in Nat
<1>1. IsFiniteSet(0..WindowTime)
  BY FS_Interval
<1>2. IsFiniteSet(S) /\ IsFiniteSet(P)
  BY <1>1, FS_Subset
<1>3. (\A x \in S : l[x] \in Nat) /\ (\A x \in P : l[x] \in Nat)
  OBVIOUS
<1>4. QED
  BY <1>2, <1>3, SumDropsZeros, SumIsNat

\* A decision, for a caller whose number is not in use and who then takes another or
\* is through.
LEMMA AdmitKeeps ==
    ASSUME SlidingInv, NEW p \in Callers, NEW t \in 0..wNow, Asking(t),
           ~wShared \/ wCall[p] # -1, Sliding!Decide(p, t),
           NEW d \in {0, 1}, d = 1 => Sliding!Admits(t), Added(t, d),
           wNow' = wNow, wShared' = wShared, hint' = hint, ~wShared => t = wNow,
           count' \in [Callers -> 0..MaxCalls], wCall' \in [Callers -> {-1} \union 0..wNow],
           \A q \in Callers : wCall'[q] # -1 => wCall'[q] = wCall[q] /\ t <= wCall[q],
           \A q \in Callers : count[q] <= count'[q],
           \/ ~wShared /\ count[p] < count'[p]
           \/ wShared /\ wCall'[p] = -1,
           wDeadline' \in Nat, wDeadline <= wDeadline', wDeadline' <= wNow + Window + Grace,
           wShared /\ d = 1 => t + Window + Grace <= wDeadline'
    PROVE  SlidingInv'
<1> DEFINE T == 0..WindowTime
           adm == Sliding!Admits(t)
           X == [mem : Callers \X Nat \X Nat, score : Nat]
<1>1. /\ Sliding!TypeOK /\ wShared \in BOOLEAN /\ wNow \in T /\ t \in T /\ t \in Nat
      /\ wDeadline \in Nat /\ count \in [Callers -> 0..MaxCalls]
      /\ wLog \in [T -> Nat] /\ hint \in {-1} \union 0..Window
  <2>1. Sliding!TypeOK
    BY DEF SlidingInv
  <2>2. /\ wShared \in BOOLEAN /\ wNow \in T /\ wDeadline \in Nat
        /\ count \in [Callers -> 0..MaxCalls]
        /\ wLog \in [T -> Nat] /\ hint \in {-1} \union 0..Window
    BY <2>1 DEF Sliding!TypeOK, Sliding!Panic
  <2>3. t \in T /\ t \in Nat
    BY <2>2
  <2>4. QED
    BY <2>1, <2>2, <2>3
<1>2. /\ IsFiniteSet(recs') /\ Cardinality(recs') <= Limit /\ recs' \subseteq X
      /\ \A r \in recs' : r.score \in 0..wNow
      /\ \A r \in recs' : r \in recs \/ (adm /\ r = New(p, t))
  BY Decided
<1>3. ASSUME NEW a \in Int, a > t - Window
      PROVE  /\ Cardinality(From(recs, a)) \in Nat /\ Cardinality(From(recs', a)) \in Nat
             /\ Cardinality(From(recs', a)) =
                   IF adm /\ a <= t THEN Cardinality(From(recs, a)) + 1
                                    ELSE Cardinality(From(recs, a))
             /\ adm => Cardinality(From(recs, a)) < Limit
  BY <1>3, Decided
<1>4. Recorded(recs, wLog, t)
  BY DEF SlidingInv
<1>5. \A a : Times(a) \in SUBSET T /\ InWindow(a) \in SUBSET T
  BY DEF Times, InWindow
<1>6. wLog' \in [T -> Nat]
  BY <1>1, <1>5, AddsOne
<1>7. ASSUME NEW S \in SUBSET T
      PROVE  /\ SumOver(wLog, S) \in Nat
             /\ SumOver(wLog', S) = IF t \in S THEN SumOver(wLog, S) + d ELSE SumOver(wLog, S)
  BY <1>1, AddsOne
<1>8. Sliding!TypeOK'
  <2>1. Sliding!Cardinality(recs') <= Limit
    BY <1>2, SlidingCardinality
  <2>2. QED
    BY <1>1, <1>2, <1>6, <2>1 DEF Sliding!TypeOK, Sliding!Idle, Sliding!Panic
<1>9. ASSUME NEW r \in recs' PROVE Given(r)'
  <2>1. CASE r \in recs
    <3>1. Given(r) /\ r.mem[1] \in Callers /\ r.mem[3] \in Nat
      BY <2>1 DEF SlidingInv
    <3> DEFINE q == r.mem[1]
    <3>2. q \in Callers
      BY <3>1
    <3>3. count[q] \in Nat /\ count'[q] \in Nat /\ count[q] <= count'[q]
      <4> HIDE DEF q
      <4>1. QED
        BY <1>1, <3>2
    <3>4. ~wShared' \/ wCall'[q] # -1 => ~wShared \/ wCall[q] # -1
      BY <3>1
    <3>5. QED
      BY <3>1, <3>3, <3>4 DEF Given
  <2>2. CASE r = New(p, t)
    <3>1. r.mem[1] = p /\ r.mem[3] = count[p]
      BY <2>2 DEF New
    <3>2. count[p] \in Nat /\ count'[p] \in Nat
      BY <1>1
    <3>3. QED
      BY <1>1, <3>1, <3>2 DEF Given
  <2>3. QED
    BY <1>2, <2>1, <2>2
<1>10. \A q \in Callers : wCall'[q] # -1 => wShared' /\ wNow' - wCall'[q] <= MaxDelay
  BY DEF SlidingInv
<1>11. ASSUME NEW u \in 0..wNow', Asking(u)' PROVE Recorded(recs', wLog', u)
  <2>1. t <= u /\ u \in Nat
    <3>1. u = wNow \/ \E q \in Callers : wCall'[q] # -1 /\ u = wCall'[q]
      BY <1>11 DEF Asking
    <3>2. u \in Nat
      BY <1>1
    <3>3. CASE u = wNow
      BY <1>1, <3>3
    <3>4. CASE \E q \in Callers : wCall'[q] # -1 /\ u = wCall'[q]
      BY <3>2, <3>4
    <3>5. QED
      BY <3>1, <3>2, <3>3, <3>4
  <2> SUFFICES ASSUME NEW a \in Int, a > u - Window
               PROVE  SumOver(wLog', Times(a)) <= Cardinality(From(recs', a))
    BY DEF Recorded
  <2>2. a > t - Window
    BY <1>1, <2>1
  <2>3. SumOver(wLog, Times(a)) <= Cardinality(From(recs, a))
    BY <1>4, <2>2 DEF Recorded
  <2>4. t \in Times(a) <=> a <= t
    BY <1>1 DEF Times
  <2>5. /\ SumOver(wLog, Times(a)) \in Nat
        /\ SumOver(wLog', Times(a)) = IF t \in Times(a) THEN SumOver(wLog, Times(a)) + d
                                                        ELSE SumOver(wLog, Times(a))
    BY <1>5, <1>7
  <2>6. QED
    BY <1>3, <2>2, <2>3, <2>4, <2>5
<1>12. \A x \in T : wShared' /\ wLog'[x] > 0 => x + Window + Grace <= wDeadline'
  <2> SUFFICES ASSUME NEW x \in T, wShared', wLog'[x] > 0
               PROVE  x + Window + Grace <= wDeadline'
    OBVIOUS
  <2>1. CASE x = t /\ d = 1
    BY <2>1
  <2>2. CASE ~(x = t /\ d = 1)
    <3>1. wLog'[x] = wLog[x]
      BY <1>1, <2>2 DEF Added
    <3>2. x + Window + Grace <= wDeadline
      BY <3>1 DEF SlidingInv
    <3>3. QED
      BY <1>1, <3>2
  <2>3. QED
    BY <2>1, <2>2
<1>13. Hinted'
  <2> SUFFICES ASSUME hint > 0 PROVE Hinted'
    BY DEF Hinted
  <2>1. Hinted /\ ~wShared /\ t = wNow
    BY DEF SlidingInv, Hinted
  <2>2. \A r \in recs : r.score \in Int /\ r.score > t - Window
    <3>1. \A r \in recs : r.score >= wNow + hint - Window /\ r.score \in Nat
      BY <1>1, <2>1 DEF Hinted, Sliding!TypeOK
    <3>2. QED
      BY <1>1, <2>1, <3>1
  <2>3. From(recs, t - Window + 1) = recs
    BY <1>1, <2>2 DEF From
  <2>4. ~adm
    <3>1. t - Window + 1 \in Int /\ t - Window + 1 > t - Window
      BY <1>1
    <3>2. adm => Cardinality(From(recs, t - Window + 1)) < Limit
      BY <1>3, <3>1
    <3>3. Cardinality(recs) = Limit
      BY <2>1 DEF Hinted
    <3>4. QED
      BY <2>3, <3>2, <3>3
  <2>5. recs' = recs
    <3>1. recs' = Sliding!Kept(t)
      BY <2>4 DEF Sliding!Decide
    <3>2. QED
      BY <2>2, <3>1 DEF Sliding!Kept
  <2>6. QED
    BY <2>1, <2>5 DEF Hinted
<1>14. ASSUME NEW a \in T PROVE SumOver(wLog', InWindow(a)) <= Limit
  <2>1. /\ SumOver(wLog, InWindow(a)) \in Nat
        /\ SumOver(wLog', InWindow(a)) =
              IF t \in InWindow(a) THEN SumOver(wLog, InWindow(a)) + d
                                   ELSE SumOver(wLog, InWindow(a))
    BY <1>5, <1>7
  <2>2. SumOver(wLog, InWindow(a)) <= Limit
    BY DEF SlidingInv
  <2>3. CASE t \in InWindow(a) /\ d = 1
    <3>1. a \in Int /\ a > t - Window /\ adm
      BY <1>1, <2>3 DEF InWindow
    <3>2. /\ SumOver(wLog, Times(a)) <= Cardinality(From(recs, a))
          /\ Cardinality(From(recs, a)) < Limit /\ Cardinality(From(recs, a)) \in Nat
      BY <1>3, <1>4, <3>1 DEF Recorded
    <3>3. InWindow(a) \in SUBSET Times(a)
      BY DEF InWindow, Times
    <3>4. SumOver(wLog, InWindow(a)) <= SumOver(wLog, Times(a)) /\ SumOver(wLog, Times(a)) \in Nat
      BY <1>1, <1>5, <3>3, PartIsLess
    <3>5. QED
      BY <2>1, <2>3, <3>2, <3>4
  <2>4. CASE ~(t \in InWindow(a) /\ d = 1)
    BY <2>1, <2>2, <2>4
  <2>5. QED
    BY <2>3, <2>4
<1>15. (\A a \in T : SumOver(wLog, InWindow(a)) <= Limit)'
  BY <1>14
<1>16. (\A u \in 0..wNow : Asking(u) => Recorded(recs, wLog, u))'
  BY <1>11
<1>17. wDeadline' <= wNow' + Window + Grace
  OBVIOUS
<1>18. QED
  BY <1>2, <1>8, <1>9, <1>10, <1>12, <1>13, <1>15, <1>16, <1>17 DEF SlidingInv

\* Calls begin or end, and the window stays.
LEMMA SlidingStays ==
    ASSUME SlidingInv, UNCHANGED <<wShared, wNow, recs, wDeadline, hint, wLog>>,
           count' \in [Callers -> 0..MaxCalls], wCall' \in [Callers -> {-1} \union 0..wNow],
           \A q \in Callers : wCall'[q] # -1 =>
              /\ wShared /\ wNow - wCall'[q] <= MaxDelay
              /\ wCall'[q] \in {wCall[q], wNow},
           \A q \in Callers :
              /\ count[q] <= count'[q]
              /\ wCall'[q] # -1 => wCall[q] # -1 \/ count[q] < count'[q]
    PROVE  SlidingInv'
<1>1. Sliding!TypeOK' /\ count \in [Callers -> 0..MaxCalls]
  BY DEF SlidingInv, Sliding!TypeOK, Sliding!Idle, Sliding!Panic
<1>2. ASSUME NEW r \in recs PROVE Given(r)'
  <2> DEFINE q == r.mem[1]
             k == r.mem[3]
  <2>1. q \in Callers /\ k \in Nat
    BY DEF SlidingInv
  <2>2. k <= count[q] /\ (~wShared \/ wCall[q] # -1 => k < count[q])
    BY DEF SlidingInv, Given
  <2>3. k <= count'[q] /\ (~wShared \/ wCall'[q] # -1 => k < count'[q])
    <3> HIDE DEF q, k
    <3>1. /\ count[q] \in Nat /\ count'[q] \in Nat /\ count[q] <= count'[q]
          /\ wCall'[q] # -1 => wCall[q] # -1 \/ count[q] < count'[q]
      BY <1>1, <2>1
    <3>2. QED
      BY <2>1, <2>2, <3>1
  <2>4. QED
    BY <2>3 DEF Given
<1>3. \A u : Asking(u)' => Asking(u)
  BY DEF Asking
<1>4. (\A u \in 0..wNow : Asking(u) => Recorded(recs, wLog, u))'
  BY <1>3 DEF SlidingInv
<1>5. (\A q \in Callers : wCall[q] # -1 => wShared /\ wNow - wCall[q] <= MaxDelay)'
  OBVIOUS
<1>6. Hinted'
  BY DEF SlidingInv, Hinted
<1>7. (\A r \in recs : Given(r))'
  BY <1>2
<1>8. QED
  BY <1>1, <1>4, <1>5, <1>6, <1>7 DEF SlidingInv

\* RetryAfter prunes what no decision counts any more.
LEMMA RetryAfterKeeps ==
    ASSUME SlidingInv, Sliding!RetryAfter, wShared' = wShared
    PROVE  SlidingInv'
<1> DEFINE kept == {r \in recs : r.score > wNow - Window}
<1>1. /\ ~wShared /\ UNCHANGED <<wShared, wNow, wDeadline, count, wCall, wLog>>
      /\ Sliding!Kept(wNow) = kept /\ recs' = kept
  BY DEF Sliding!RetryAfter, Sliding!Kept
<1>2. /\ Sliding!TypeOK /\ IsFiniteSet(recs) /\ wNow \in Nat
      /\ Cardinality(recs) <= Limit /\ \A r \in recs : r.score \in 0..wNow
  <2>1. Sliding!TypeOK /\ IsFiniteSet(recs)
    BY DEF SlidingInv
  <2>2. QED
    BY <2>1, SlidingCardinality DEF Sliding!TypeOK
<1>3. /\ IsFiniteSet(kept) /\ Cardinality(kept) \in Nat /\ Cardinality(kept) <= Limit
      /\ kept \subseteq recs
  <2>1. IsFiniteSet(kept) /\ Cardinality(kept) <= Cardinality(recs)
    BY <1>2, FS_Subset
  <2>2. Cardinality(kept) \in Nat /\ Cardinality(recs) \in Nat
    BY <1>2, <2>1, FS_CardinalityType
  <2>3. QED
    BY <1>2, <2>1, <2>2
<1>4. hint' = IF Cardinality(kept) < Limit THEN 0
              ELSE IF kept = {} THEN -1 ELSE Sliding!Oldest + Window - wNow
  BY <1>1, SlidingCardinality DEF Sliding!RetryAfter, Sliding!Panic
<1>5. ASSUME kept # {}
      PROVE  \E r \in kept : /\ r.score = Sliding!Oldest /\ r.score \in Int
                             /\ \A s \in kept : r.score <= s.score
  <2> DEFINE S == {r.score : r \in kept}
  <2>1. S \subseteq Nat /\ S # {}
    BY <1>2, <1>5
  <2> HIDE DEF S
  <2>2. \E x \in S : \A y \in S : x <= y
    BY <2>1, LeastOf
  <2>3. Sliding!Min(S) \in S /\ \A y \in S : Sliding!Min(S) <= y
    BY <2>2 DEF Sliding!Min
  <2>4. Sliding!Oldest = Sliding!Min(S)
    BY <1>1 DEF Sliding!Oldest, S
  <2>5. PICK r \in kept : r.score = Sliding!Oldest
    BY <2>3, <2>4 DEF S
  <2>6. \A s \in kept : s.score \in S
    BY DEF S
  <2>7. r.score \in Int
    <3>1. r.score \in S
      BY <2>6
    <3>2. r.score \in Nat
      BY <2>1, <3>1, Zenon
    <3>3. QED
      BY <3>2
  <2>8. QED
    BY <2>3, <2>4, <2>5, <2>6, <2>7
<1>6. hint' > 0 => /\ Cardinality(kept) = Limit
                   /\ \E r \in kept : r.score = wNow + hint' - Window
                   /\ \A s \in kept : s.score >= wNow + hint' - Window
  <2> SUFFICES ASSUME hint' > 0
               PROVE  /\ Cardinality(kept) = Limit
                      /\ \E r \in kept : r.score = wNow + hint' - Window
                      /\ \A s \in kept : s.score >= wNow + hint' - Window
    OBVIOUS
  <2>1. ~(Cardinality(kept) < Limit) /\ kept # {}
    BY <1>4
  <2>2. PICK r \in kept : /\ r.score = Sliding!Oldest /\ r.score \in Int
                          /\ \A s \in kept : r.score <= s.score
    BY <1>5, <2>1
  <2>3. hint' = r.score + Window - wNow
    BY <1>4, <2>1, <2>2
  <2> HIDE DEF kept
  <2>4. r.score = wNow + hint' - Window /\ Cardinality(kept) = Limit
    BY <1>2, <1>3, <2>1, <2>2, <2>3
  <2>5. QED
    BY <2>2, <2>4
<1>7. hint' \in {-1} \union 0..Window
  <2>1. CASE Cardinality(kept) < Limit \/ kept = {}
    <3> HIDE DEF kept
    <3>1. QED
      BY <1>4, <2>1
  <2>2. CASE ~(Cardinality(kept) < Limit \/ kept = {})
    <3>1. PICK r \in kept : r.score = Sliding!Oldest
      BY <1>5, <2>2
    <3>2. hint' = r.score + Window - wNow
      BY <1>4, <2>2, <3>1
    <3>3. r.score \in 0..wNow /\ r.score > wNow - Window
      BY <1>2
    <3>4. QED
      BY <1>2, <3>2, <3>3
  <2>3. QED
    BY <2>1, <2>2
<1>8. ASSUME NEW u \in 0..wNow', Asking(u)' PROVE Recorded(recs', wLog', u)
  <2>1. u = wNow /\ Asking(u)
    BY <1>1, <1>8 DEF Asking, SlidingInv
  <2> SUFFICES ASSUME NEW a \in Int, a > u - Window
               PROVE  SumOver(wLog, Times(a)) <= Cardinality(From(kept, a))
    BY <1>1 DEF Recorded
  <2>2. From(kept, a) = From(recs, a)
    <3>1. \A r \in recs : r.score \in Int
      BY <1>2
    <3>2. QED
      BY <1>2, <2>1, <3>1 DEF From
  <2>3. Recorded(recs, wLog, u)
    BY <1>1, <2>1 DEF SlidingInv
  <2>4. QED
    BY <2>2, <2>3 DEF Recorded
<1>9. Sliding!TypeOK'
  <2>1. Sliding!Cardinality(recs') <= Limit /\ \A r \in recs' : r.score \in 0..wNow'
    BY <1>1, <1>2, <1>3, SlidingCardinality
  <2> HIDE DEF kept
  <2>2. QED
    BY <1>1, <1>2, <1>7, <2>1 DEF Sliding!TypeOK, Sliding!Panic, Sliding!Idle
<1>10. Hinted'
  BY <1>1, <1>6 DEF Hinted
<1>11. (\A r \in recs : Given(r))'
  BY <1>1, <1>3 DEF SlidingInv, Given
<1>12. (\A u \in 0..wNow : Asking(u) => Recorded(recs, wLog, u))'
  BY <1>8
<1>13. recs' \subseteq [mem : Callers \X Nat \X Nat, score : Nat] /\ IsFiniteSet(recs')
  BY <1>1, <1>3 DEF SlidingInv
<1> HIDE DEF kept
<1>14. QED
  BY <1>1, <1>9, <1>10, <1>11, <1>12, <1>13 DEF SlidingInv

\* Nothing is logged at the times that count.
LEMMA NothingLogged ==
    ASSUME NEW l \in [0..WindowTime -> Nat], NEW S \in SUBSET (0..WindowTime),
           \A x \in S : l[x] = 0
    PROVE  SumOver(l, S) = 0
<1>1. IsFiniteSet(0..WindowTime) /\ IsFiniteSet({})
  BY FS_Interval, FS_EmptySet
<1>2. IsFiniteSet(S) /\ {} \in SUBSET S
  BY <1>1, FS_Subset
<1>3. (\A x \in S : l[x] \in Nat) /\ (\A x \in S \ {} : l[x] = 0)
  OBVIOUS
<1>4. SumOver(l, {}) = SumOver(l, S)
  BY <1>2, <1>3, SumDropsZeros
<1>5. SumOver(l, {}) = 0
  BY <1>1, SumStep
<1>6. QED
  BY <1>4, <1>5

\* Time passes, and Redis may drop the key: by then no request is within the window of
\* a decision to come.
LEMMA SlidingTickKeeps ==
    ASSUME KeyOutlivesCall, SlidingInv, Sliding!Tick, wShared' = wShared
    PROVE  SlidingInv'
<1> DEFINE T == 0..WindowTime
           gone == wShared /\ wNow + 1 >= wDeadline
<1>1. /\ wNow \in T /\ wNow + 1 \in T /\ wNow' = wNow + 1 /\ Sliding!TypeOK
      /\ wCall \in [Callers -> {-1} \union 0..wNow] /\ wDeadline \in Nat
      /\ wLog \in [T -> Nat] /\ IsFiniteSet(recs) /\ Cardinality(recs) <= Limit
      /\ \A r \in recs : r.score \in 0..wNow
  <2>1. Sliding!TypeOK /\ IsFiniteSet(recs)
    BY DEF SlidingInv
  <2>2. QED
    BY <2>1, SlidingCardinality DEF Sliding!TypeOK, Sliding!Tick, Sliding!Idle
<1>2. /\ UNCHANGED <<wShared, wDeadline, count, wCall, wLog>> /\ hint' = 0
      /\ recs' = IF gone THEN {} ELSE recs
  BY DEF Sliding!Tick
<1>3. \A p \in Callers : wCall[p] # -1 => wShared /\ wNow + 1 - wCall[p] <= MaxDelay
  <2>1. \A p \in Callers : wCall[p] # -1 => wShared /\ wNow - wCall[p] < MaxDelay
    BY DEF SlidingInv, Sliding!Tick, Sliding!Idle
  <2>2. \A p \in Callers : wCall[p] \in Int
    BY <1>1
  <2>3. QED
    BY <1>1, <2>1, <2>2
<1>4. ASSUME NEW u, Asking(u)'
      PROVE  /\ u = wNow + 1 \/ (Asking(u) /\ u \in 0..wNow)
             /\ u >= wNow + 1 - MaxDelay /\ u \in Nat
  <2>1. u = wNow + 1 \/ \E p \in Callers : wCall[p] # -1 /\ u = wCall[p]
    BY <1>1, <1>2, <1>4 DEF Asking
  <2>2. CASE u = wNow + 1
    BY <1>1, <2>2
  <2>3. CASE \E p \in Callers : wCall[p] # -1 /\ u = wCall[p]
    <3>1. PICK p \in Callers : wCall[p] # -1 /\ u = wCall[p]
      BY <2>3
    <3>2. u \in 0..wNow /\ wNow + 1 - u <= MaxDelay
      BY <1>1, <1>3, <3>1
    <3>3. Asking(u)
      BY <3>1 DEF Asking
    <3>4. QED
      BY <1>1, <3>2, <3>3
  <2>4. QED
    BY <2>1, <2>2, <2>3
<1>5. IsFiniteSet(recs') /\ recs' \subseteq recs /\ Cardinality(recs') <= Limit
  <2>1. IsFiniteSet({}) /\ Cardinality({}) = 0
    BY FS_EmptySet
  <2>2. QED
    BY <1>1, <1>2, <2>1
<1>6. Sliding!TypeOK'
  <2>1. Sliding!Cardinality(recs') <= Limit /\ \A r \in recs' : r.score \in 0..wNow'
    BY <1>1, <1>5, SlidingCardinality
  <2>2. wCall' \in [Callers -> {-1} \union 0..wNow']
    BY <1>1, <1>2
  <2>3. QED
    BY <1>1, <1>2, <2>1, <2>2 DEF Sliding!TypeOK, Sliding!Panic, Sliding!Idle
<1>7. ASSUME NEW u \in 0..wNow', Asking(u)' PROVE Recorded(recs', wLog', u)
  <2> SUFFICES ASSUME NEW a \in Int, a > u - Window
               PROVE  SumOver(wLog, Times(a)) <= Cardinality(From(recs', a))
    BY <1>2 DEF Recorded
  <2>1. CASE gone
    <3>1. \A x \in Times(a) : wLog[x] = 0
      <4> SUFFICES ASSUME NEW x \in T, x >= a, wLog[x] # 0 PROVE FALSE
        BY DEF Times
      <4>1. wLog[x] > 0
        BY <1>1
      <4>2. x + Window + Grace <= wDeadline
        BY <2>1, <4>1 DEF SlidingInv
      <4>3. u >= wNow + 1 - MaxDelay /\ u \in Nat
        BY <1>4, <1>7
      <4>4. QED
        BY <1>1, <2>1, <4>2, <4>3 DEF KeyOutlivesCall
    <3>2. SumOver(wLog, Times(a)) = 0
      <4>1. Times(a) \in SUBSET T
        BY DEF Times
      <4>2. QED
        BY <1>1, <3>1, <4>1, NothingLogged
    <3>3. From(recs', a) = {} /\ Cardinality({}) = 0
      BY <1>2, <2>1, FS_EmptySet DEF From
    <3>4. QED
      BY <3>2, <3>3
  <2>2. CASE ~gone
    <3>1. recs' = recs
      BY <1>2, <2>2
    <3>2. \E v \in 0..wNow : Asking(v) /\ v <= u
      <4>1. Asking(wNow) /\ wNow \in 0..wNow
        BY <1>1 DEF Asking
      <4>2. QED
        BY <1>1, <1>4, <1>7, <4>1
    <3>3. PICK v \in 0..wNow : Asking(v) /\ v <= u
      BY <3>2
    <3>4. Recorded(recs, wLog, v) /\ a > v - Window
      BY <1>1, <1>4, <1>7, <3>3 DEF SlidingInv
    <3>5. QED
      BY <3>1, <3>4 DEF Recorded
  <2>3. QED
    BY <2>1, <2>2
<1>8. (\A u \in 0..wNow : Asking(u) => Recorded(recs, wLog, u))'
  BY <1>7
<1>9. (\A p \in Callers : wCall[p] # -1 => wShared /\ wNow - wCall[p] <= MaxDelay)'
  BY <1>1, <1>2, <1>3
<1>10. Hinted'
  BY <1>2 DEF Hinted
<1>11. (\A r \in recs : Given(r))'
  BY <1>2, <1>5 DEF SlidingInv, Given
<1>12. wDeadline' <= wNow' + Window + Grace
  BY <1>1, <1>2, SMTT(30) DEF SlidingInv
<1>13. recs' \subseteq [mem : Callers \X Nat \X Nat, score : Nat]
  BY <1>5 DEF SlidingInv
<1>14. QED
  BY <1>2, <1>5, <1>6, <1>8, <1>9, <1>10, <1>11, <1>12, <1>13 DEF SlidingInv

LEMMA SlidingKeeps ==
    ASSUME CallsInOrder, KeyOutlivesCall, SlidingInv, Sliding!Next
    PROVE  SlidingInv'
<1> DEFINE T == 0..WindowTime
<1>1. /\ wNow \in T /\ wNow \in 0..wNow /\ wCall \in [Callers -> {-1} \union 0..wNow]
      /\ count \in [Callers -> 0..MaxCalls] /\ wDeadline \in Nat /\ wLog \in [T -> Nat]
      /\ wShared' = wShared /\ Asking(wNow)
      /\ wDeadline <= wNow + Window + Grace
  <2>1. Sliding!TypeOK
    BY DEF SlidingInv
  <2>2. QED
    BY <2>1 DEF Sliding!TypeOK, Sliding!Next, Sliding!Idle, SlidingInv, Asking
<1>2. \A p \in Callers : wCall[p] # -1 => wShared /\ wNow - wCall[p] <= MaxDelay
  BY DEF SlidingInv
<1>3. ASSUME NEW p \in Callers, NEW t \in T, Sliding!Admit(p, t)
      PROVE  /\ Sliding!Decide(p, t)
             /\ \E d \in {0, 1} : (d = 1 => Sliding!Admits(t)) /\ Added(t, d)
  <2>1. Sliding!Decide(p, t)
    BY <1>3 DEF Sliding!Admit
  <2>2. CASE Sliding!Admits(t)
    <3>1. Added(t, 1)
      BY <1>3, <2>2 DEF Sliding!Admit, Added
    <3>2. QED
      BY <2>1, <2>2, <3>1
  <2>3. CASE ~Sliding!Admits(t)
    <3>1. Added(t, 0)
      BY <1>3, <2>3 DEF Sliding!Admit, Added
    <3>2. QED
      BY <2>1, <3>1
  <2>4. QED
    BY <2>2, <2>3
<1>4. ASSUME NEW t \in T, wLog' = wLog PROVE Added(t, 0)
  BY <1>1, <1>4 DEF Added
<1>5. ASSUME NEW p \in Callers, count[p] < MaxCalls, count' = [count EXCEPT ![p] = @ + 1]
      PROVE  /\ count' \in [Callers -> 0..MaxCalls] /\ count[p] < count'[p]
             /\ \A q \in Callers : count[q] <= count'[q]
  <2>1. \A q \in Callers : count'[q] = IF q = p THEN count[q] + 1 ELSE count[q]
    BY <1>1, <1>5
  <2>2. \A q \in Callers : count[q] \in 0..MaxCalls
    BY <1>1
  <2>3. count[p] + 1 \in 0..MaxCalls
    BY <1>5, <2>2
  <2>4. count' \in [Callers -> 0..MaxCalls]
    BY <1>1, <1>5, <2>3
  <2>5. QED
    BY <2>1, <2>2, <2>4
<1>6. ASSUME count' = count PROVE \A q \in Callers : count[q] <= count'[q]
  <2>1. \A q \in Callers : count[q] \in Nat
    BY <1>1
  <2>2. QED
    BY <1>6, <2>1
<1>7. ASSUME NEW p \in Callers, Sliding!Allow(p) PROVE SlidingInv'
  <2>1. /\ ~wShared /\ count[p] < MaxCalls /\ count' = [count EXCEPT ![p] = @ + 1]
        /\ Sliding!Admit(p, wNow) /\ UNCHANGED <<wNow, wDeadline, wCall, hint>>
    BY <1>7 DEF Sliding!Allow
  <2>2. PICK d \in {0, 1} : (d = 1 => Sliding!Admits(wNow)) /\ Added(wNow, d)
    BY <1>1, <1>3, <2>1
  <2>3. Sliding!Decide(p, wNow)
    BY <1>1, <1>3, <2>1
  <2>4. /\ count' \in [Callers -> 0..MaxCalls] /\ count[p] < count'[p]
        /\ \A q \in Callers : count[q] <= count'[q]
    BY <1>5, <2>1
  <2>5. \A q \in Callers : wCall'[q] = -1
    BY <1>2, <2>1
  <2>6. /\ wCall' \in [Callers -> {-1} \union 0..wNow]
        /\ wDeadline' \in Nat /\ wDeadline <= wDeadline' /\ wDeadline' <= wNow + Window + Grace
    BY <1>1, <2>1
  <2>7. QED
    BY <1>1, <2>1, <2>2, <2>3, <2>4, <2>5, <2>6, AdmitKeeps
<1>8. ASSUME NEW p \in Callers, Sliding!Send(p) PROVE SlidingInv'
  <2>1. /\ wShared /\ wCall[p] = -1 /\ count[p] < MaxCalls /\ count' = [count EXCEPT ![p] = @ + 1]
        /\ wCall' = [wCall EXCEPT ![p] = wNow]
        /\ UNCHANGED <<wNow, recs, wDeadline, hint, wLog>>
    BY <1>8 DEF Sliding!Send, Sliding!Idle
  <2>2. /\ count' \in [Callers -> 0..MaxCalls] /\ count[p] < count'[p]
        /\ \A q \in Callers : count[q] <= count'[q]
    BY <1>5, <2>1
  <2>3. wCall' \in [Callers -> {-1} \union 0..wNow]
    BY <1>1, <2>1
  <2>4. \A q \in Callers : wCall'[q] = IF q = p THEN wNow ELSE wCall[q]
    BY <1>1, <2>1
  <2>5. wNow - wNow <= MaxDelay
    BY <1>1
  <2>6. \A q \in Callers : wCall'[q] # -1 =>
           /\ wShared /\ wNow - wCall'[q] <= MaxDelay
           /\ wCall'[q] \in {wCall[q], wNow}
    BY <1>2, <2>1, <2>4, <2>5
  <2>7. \A q \in Callers : wCall'[q] # -1 => wCall[q] # -1 \/ count[q] < count'[q]
    BY <2>2, <2>4
  <2>8. QED
    BY <1>1, <2>1, <2>2, <2>3, <2>6, <2>7, SlidingStays
<1>9. ASSUME NEW p \in Callers, wCall[p] # -1, wCall' = [wCall EXCEPT ![p] = -1]
      PROVE  /\ wCall' \in [Callers -> {-1} \union 0..wNow] /\ wCall'[p] = -1
             /\ \A q \in Callers : wCall'[q] # -1 =>
                   wCall'[q] = wCall[q] /\ wCall[p] <= wCall[q]
             /\ Asking(wCall[p]) /\ wCall[p] \in 0..wNow /\ wCall[p] \in T /\ wShared
  <2>1. wCall' \in [Callers -> {-1} \union 0..wNow]
    BY <1>1, <1>9
  <2>2. \A q \in Callers : wCall'[q] = IF q = p THEN -1 ELSE wCall[q]
    BY <1>1, <1>9
  <2>3. wCall[p] \in 0..wNow /\ wShared
    BY <1>1, <1>2, <1>9
  <2>4. Asking(wCall[p])
    BY <1>9 DEF Asking
  <2>5. ASSUME NEW q \in Callers, wCall'[q] # -1 PROVE wCall[p] <= wCall[q]
    <3>1. q # p /\ wCall[q] # -1
      BY <2>2, <2>5
    <3>2. MaxDelay = 0
      BY <3>1 DEF CallsInOrder
    <3>3. wNow - wCall[q] <= 0 /\ wCall[q] \in 0..wNow
      BY <1>1, <1>2, <3>1, <3>2
    <3>4. QED
      BY <1>1, <2>3, <3>3
  <2>6. wCall[p] \in T
    BY <1>1, <2>3
  <2>7. QED
    BY <2>1, <2>2, <2>3, <2>4, <2>5, <2>6
<1>10. ASSUME NEW t \in 0..wNow, NEW d \in {0, 1}, d = 1 => Sliding!Admits(t),
              wDeadline' = Sliding!Extended(t)
       PROVE  /\ wDeadline' \in Nat /\ wDeadline <= wDeadline'
              /\ wDeadline' <= wNow + Window + Grace
              /\ d = 1 => t + Window + Grace <= wDeadline'
  <2>1. wDeadline' = IF Sliding!Admits(t) THEN wNow + (Window + Grace) ELSE wDeadline
    BY <1>10 DEF Sliding!Extended, Sliding!TTL
  <2>2. QED
    BY <1>1, <1>10, <2>1
<1>11. ASSUME NEW p \in Callers, Sliding!Script(p) PROVE SlidingInv'
  <2> DEFINE t == wCall[p]
  <2>1. /\ t # -1 /\ Sliding!Admit(p, t) /\ wDeadline' = Sliding!Extended(t)
        /\ wCall' = [wCall EXCEPT ![p] = -1] /\ UNCHANGED <<wNow, count, hint>>
    BY <1>11 DEF Sliding!Script, Sliding!Idle
  <2>2. /\ wCall' \in [Callers -> {-1} \union 0..wNow] /\ wCall'[p] = -1
        /\ \A q \in Callers : wCall'[q] # -1 => wCall'[q] = wCall[q] /\ t <= wCall[q]
        /\ Asking(t) /\ t \in 0..wNow /\ t \in T /\ wShared
    BY <1>9, <2>1
  <2>3. wCall[p] # -1
    BY <2>1
  <2> HIDE DEF t
  <2>4. PICK d \in {0, 1} : (d = 1 => Sliding!Admits(t)) /\ Added(t, d)
    BY <1>3, <2>1, <2>2
  <2>5. Sliding!Decide(p, t)
    BY <1>3, <2>1, <2>2
  <2>6. /\ wDeadline' \in Nat /\ wDeadline <= wDeadline'
        /\ wDeadline' <= wNow + Window + Grace
        /\ d = 1 => t + Window + Grace <= wDeadline'
    BY <1>10, <2>1, <2>2, <2>4
  <2>7. count' \in [Callers -> 0..MaxCalls] /\ \A q \in Callers : count[q] <= count'[q]
    BY <1>1, <1>6, <2>1
  <2>8. /\ ~wShared \/ wCall[p] # -1
        /\ ~wShared => t = wNow
        /\ (~wShared /\ count[p] < count'[p]) \/ (wShared /\ wCall'[p] = -1)
        /\ wShared /\ d = 1 => t + Window + Grace <= wDeadline'
        /\ wNow' = wNow /\ wShared' = wShared /\ hint' = hint
    BY <1>1, <2>1, <2>2, <2>3, <2>6
  <2>9. QED
    BY <2>2, <2>4, <2>5, <2>6, <2>7, <2>8, AdmitKeeps
<1>12. ASSUME NEW p \in Callers, Sliding!Fails(p) PROVE SlidingInv'
  <2> DEFINE t == wCall[p]
  <2>1. /\ t # -1 /\ wCall' = [wCall EXCEPT ![p] = -1] /\ UNCHANGED <<wNow, count, hint, wLog>>
    BY <1>12 DEF Sliding!Fails, Sliding!Idle
  <2>2. /\ wCall' \in [Callers -> {-1} \union 0..wNow] /\ wCall'[p] = -1
        /\ \A q \in Callers : wCall'[q] # -1 => wCall'[q] = wCall[q] /\ t <= wCall[q]
        /\ Asking(t) /\ t \in 0..wNow /\ t \in T /\ wShared
    BY <1>9, <2>1
  <2>3. count' \in [Callers -> 0..MaxCalls] /\ \A q \in Callers : count[q] <= count'[q]
    BY <1>1, <1>6, <2>1
  <2>4. CASE UNCHANGED <<recs, wDeadline>>
    <3>1. \A q \in Callers : wCall'[q] # -1 =>
             /\ wShared /\ wNow - wCall'[q] <= MaxDelay
             /\ wCall'[q] \in {wCall[q], wNow} /\ wCall[q] # -1
      BY <1>2, <2>2
    <3>2. QED
      BY <1>1, <2>1, <2>2, <2>3, <2>4, <3>1, SlidingStays
  <2>5. CASE Sliding!Decide(p, t) /\ wDeadline' = Sliding!Extended(t)
    <3>1. wCall[p] # -1
      BY <2>1
    <3> HIDE DEF t
    <3>2. Added(t, 0)
      BY <1>4, <2>1, <2>2
    <3>3. /\ wDeadline' \in Nat /\ wDeadline <= wDeadline'
          /\ wDeadline' <= wNow + Window + Grace
      BY <1>10, <2>2, <2>5
    <3>4. /\ ~wShared \/ wCall[p] # -1
          /\ ~wShared => t = wNow
          /\ (~wShared /\ count[p] < count'[p]) \/ (wShared /\ wCall'[p] = -1)
          /\ wNow' = wNow /\ wShared' = wShared /\ hint' = hint
      BY <1>1, <2>1, <2>2, <3>1
    <3>5. 0 # 1 /\ Sliding!Decide(p, t)
      BY <2>5
    <3>6. QED
      BY <2>2, <2>3, <3>2, <3>3, <3>4, <3>5, AdmitKeeps
  <2>6. QED
    BY <1>12, <2>4, <2>5 DEF Sliding!Fails
<1>13. CASE Sliding!Tick
  BY <1>1, <1>13, SlidingTickKeeps
<1>14. CASE Sliding!RetryAfter
  BY <1>1, <1>14, RetryAfterKeeps
<1>15. QED
  BY <1>7, <1>8, <1>11, <1>12, <1>13, <1>14 DEF Sliding!Next

LEMMA SlidingStarts == Sliding!Init => SlidingInv
<1> SUFFICES ASSUME Sliding!Init PROVE SlidingInv
  OBVIOUS
<1> DEFINE T == 0..WindowTime
<1>1. /\ wShared \in BOOLEAN /\ wNow = 0 /\ recs = {} /\ wDeadline = 0 /\ hint = 0
      /\ count = [p \in Callers |-> 0] /\ wCall = [p \in Callers |-> -1]
      /\ wLog = [t \in T |-> 0] /\ wLog \in [T -> Nat]
  BY DEF Sliding!Init, Sliding!Idle
<1>2. IsFiniteSet({}) /\ Cardinality({}) = 0
  BY FS_EmptySet
<1>3. Sliding!TypeOK
  <2>1. Sliding!Cardinality(recs) <= Limit
    BY <1>1, <1>2, SlidingCardinality
  <2>2. QED
    BY <1>1, <2>1 DEF Sliding!TypeOK, Sliding!Idle, Sliding!Panic
<1>4. \A S \in SUBSET T : SumOver(wLog, S) = 0
  <2>1. ASSUME NEW S \in SUBSET T PROVE SumOver(wLog, S) = 0
    <3>1. \A x \in S : wLog[x] = 0
      BY <1>1
    <3>2. QED
      BY <1>1, <3>1, NothingLogged
  <2>2. QED
    BY <2>1
<1>5. \A a : Times(a) \in SUBSET T /\ InWindow(a) \in SUBSET T
  BY DEF Times, InWindow
<1>6. \A t : Recorded(recs, wLog, t)
  <2>1. \A a : From(recs, a) = {}
    BY <1>1 DEF From
  <2>2. QED
    <3>1. \A a : SumOver(wLog, Times(a)) = 0 /\ Cardinality(From(recs, a)) = 0
      BY <1>2, <1>4, <1>5, <2>1
    <3>2. QED
      BY <3>1 DEF Recorded
<1>7. \A a \in T : SumOver(wLog, InWindow(a)) <= Limit
  BY <1>4, <1>5
<1>8. Hinted
  BY <1>1 DEF Hinted
<1>9. \A x \in T : wLog[x] = 0
  BY <1>1
<1>10. \A p \in Callers : wCall[p] = -1
  BY <1>1
<1>11. wDeadline <= wNow + Window + Grace
  BY <1>1
<1>12. QED
  BY <1>1, <1>2, <1>3, <1>6, <1>7, <1>8, <1>9, <1>10, <1>11 DEF SlidingInv

LEMMA SlidingImplies ==
    SlidingInv => Sliding!TypeOK /\ Sliding!WindowBound /\ Sliding!HintHonest
<1> SUFFICES ASSUME SlidingInv
             PROVE  Sliding!TypeOK /\ Sliding!WindowBound /\ Sliding!HintHonest
  OBVIOUS
<1>1. Sliding!TypeOK
  BY DEF SlidingInv
<1>2. Sliding!WindowBound
  <2> SUFFICES ASSUME NEW a \in 0..WindowTime
               PROVE  Sliding!MapThenSumSet(LAMBDA t : wLog[t],
                        {t \in 0..WindowTime : a <= t /\ t < a + Window}) <= Limit
    BY DEF Sliding!WindowBound
  <2>1. SumOver(wLog, InWindow(a)) <= Limit
    BY DEF SlidingInv
  <2>2. InWindow(a) = {t \in 0..WindowTime : a <= t /\ t < a + Window}
    BY DEF InWindow
  <2>3. Sliding!MapThenSumSet(LAMBDA t : wLog[t], InWindow(a)) = SumOver(wLog, InWindow(a))
    BY SlidingSum
  <2>4. QED
    BY <2>1, <2>2, <2>3
<1>3. Sliding!HintHonest
  <2> SUFFICES ASSUME hint > 0
               PROVE  /\ Sliding!Cardinality(Sliding!Kept(wNow + hint)) < Limit
                      /\ Sliding!Cardinality(Sliding!Kept(wNow + hint - 1)) = Limit
    BY DEF Sliding!HintHonest
  <2>1. /\ Cardinality(recs) = Limit /\ IsFiniteSet(recs) /\ wNow \in Int /\ hint \in Int
        /\ \A r \in recs : r.score \in Int /\ r.score >= wNow + hint - Window
        /\ \E r \in recs : r.score = wNow + hint - Window
    BY DEF SlidingInv, Hinted, Sliding!TypeOK, Sliding!Panic
  <2>2. Sliding!Kept(wNow + hint - 1) = recs
    BY <2>1 DEF Sliding!Kept
  <2>3. PICK r \in recs : r.score = wNow + hint - Window
    BY <2>1
  <2>4. Sliding!Kept(wNow + hint) \subseteq recs \ {r}
    BY <2>1, <2>3 DEF Sliding!Kept
  <2>5. /\ IsFiniteSet(recs \ {r}) /\ Cardinality(recs \ {r}) = Limit - 1
        /\ Cardinality(recs \ {r}) \in Nat
    BY <2>1, OneLess
  <2>6. /\ IsFiniteSet(Sliding!Kept(wNow + hint))
        /\ Cardinality(Sliding!Kept(wNow + hint)) <= Cardinality(recs \ {r})
    BY <2>4, <2>5, FS_Subset
  <2>7. Cardinality(Sliding!Kept(wNow + hint)) \in Nat
    BY <2>6, FS_CardinalityType
  <2>8. QED
    BY <2>1, <2>2, <2>5, <2>6, <2>7, SlidingCardinality
<1>4. QED
  BY <1>1, <1>2, <1>3

\* "Tokens are generated at a fixed rate and consumed by requests" and "at most limit
\* requests within the given time window": while the calls do not overtake each other
\* and each is through within the time that Redis gives a key beyond its window,
\* no stretch of time lets through more than a full bucket and the tokens generated
\* meanwhile, and no window more than Limit requests, however the clock, the replies
\* that are lost and the expiry of the keys interleave; and RetryAfter tells the time
\* to the next token or free place.
THEOREM LimitsHold ==
    ASSUME CallsInOrder, KeyOutlivesCall
    PROVE  MCSpec => []LimitsExact
<1> DEFINE LimitsInv == BucketInv /\ SlidingInv
<1>1. MCInit => LimitsInv
  BY BucketStarts, SlidingStarts DEF MCInit
<1>2. LimitsInv /\ [MCNext]_<<which, vars, cVars, rVars, limiters>> => LimitsInv'
  <2> SUFFICES ASSUME LimitsInv, [MCNext]_<<which, vars, cVars, rVars, limiters>>
               PROVE  LimitsInv'
    OBVIOUS
  <2>1. Bucket!Next \/ UNCHANGED bVars
    BY DEF MCNext, limiters
  <2>2. Sliding!Next \/ UNCHANGED wVars
    BY DEF MCNext, limiters
  <2>3. BucketInv /\ SlidingInv
    OBVIOUS
  <2> HIDE DEF LimitsInv
  <2>4. ASSUME UNCHANGED bVars PROVE BucketInv'
    <3>1. /\ UNCHANGED <<bShared, bNow, tokens, bLast, bDeadline, bLog>> /\ bCall' = bCall
          /\ bCall \in [Callers -> {-1} \union 0..bNow]
          /\ bCall' \in [Callers -> {-1} \union 0..bNow]
      BY <2>4, <2>3 DEF bVars, BucketInv, Bucket!TypeOK, Bucket!Idle
    <3>2. \A p \in Callers : bCall'[p] # -1 =>
             bShared /\ bNow - bCall'[p] <= MaxDelay /\ bCall'[p] \in {bCall[p], bNow}
      BY <2>3, <3>1 DEF BucketInv
    <3>3. QED
      BY <2>3, <3>1, <3>2, BucketStays
  <2>5. ASSUME UNCHANGED wVars PROVE SlidingInv'
    <3>1. /\ UNCHANGED <<wShared, wNow, recs, wDeadline, hint, wLog>>
          /\ wCall' = wCall /\ count' = count
          /\ wCall \in [Callers -> {-1} \union 0..wNow] /\ count \in [Callers -> 0..MaxCalls]
          /\ wCall' \in [Callers -> {-1} \union 0..wNow] /\ count' \in [Callers -> 0..MaxCalls]
      BY <2>5, <2>3 DEF wVars, SlidingInv, Sliding!TypeOK, Sliding!Idle
    <3>2. \A q \in Callers : wCall'[q] # -1 =>
             wShared /\ wNow - wCall'[q] <= MaxDelay /\ wCall'[q] \in {wCall[q], wNow}
      BY <2>3, <3>1 DEF SlidingInv
    <3>3. \A q \in Callers : count[q] <= count'[q] /\ (wCall'[q] # -1 => wCall[q] # -1)
      <4>1. \A q \in Callers : count[q] \in Nat
        BY <3>1
      <4>2. QED
        BY <3>1, <4>1
    <3>4. QED
      BY <2>3, <3>1, <3>2, <3>3, SlidingStays
  <2>6. QED
    BY <2>1, <2>2, <2>4, <2>5, <2>3, BucketKeeps, SlidingKeeps DEF LimitsInv
<1>3. LimitsInv => LimitsExact
  BY BucketImplies, SlidingImplies DEF LimitsExact
<1>4. QED
  BY <1>1, <1>2, <1>3, PTL DEF MCSpec

-----------------------------------------------------------------------------
(* The rolling window. *)

\* What the log has of one kind, and of all.
KindLog(l, e) == [t \in 0..MaxTime |-> l[t][e]]
AllLog(l) == [t \in 0..MaxTime |-> Total(l[t])]

\* The instants of the i-th interval, and the events of that interval.
Instants(i) == {t \in 0..MaxTime : t \div Interval = i}
EventsOf(l, e, i) == SumOver(KindLog(l, e), Instants(i))

\* What history sees of an age: the events that many intervals ago.
AgeLog(e) == [a \in 0..(Size - 1) |-> Logged(e, a)]
AgeAll == [a \in 0..(Size - 1) |-> Logged("success", a) + Logged("fail", a) + Logged("drop", a)]

\* The bucket k places behind x.
Behind(x, k) == IF k <= x THEN x - k ELSE x - k + Size

\* The interval that is being written.
Turn == lastTime \div Interval

\* The bucket k places behind offset holds the events of the interval k before the one
\* being written, and nothing has been added since that one.
WindowInv ==
    /\ now \in 0..MaxTime /\ offset \in Ring /\ lastTime \in 0..now
    /\ lastTime = Turn * Interval
    /\ bkt \in [Ring -> [Kinds -> Nat]]
    /\ log \in [0..MaxTime -> [Kinds -> Nat]]
    /\ \A t \in 0..MaxTime : t \div Interval > Turn => log[t] = Empty
    /\ \A k \in Ring, e \in Kinds : bkt[Behind(offset, k)][e] = EventsOf(log, e, Turn - k)
    /\ SumOver(AllLog(log), 0..MaxTime) <= MaxEvents

\* One function of the elements of S, under the names that the sums of Breaker give it.
LEMMA SumOfKind ==
    ASSUME NEW S \in SUBSET (0..MaxTime), NEW e
    PROVE  MapThenSumSet(LAMBDA t : log[t][e], S) = SumOver(KindLog(log, e), S)
<1> DEFINE A(g) == [s \in SUBSET S |->
                      IF s = {} THEN 0 ELSE KindLog(log, e)[AnyOf(s)] + g[s \ {AnyOf(s)}]]
           B(g) == [s \in SUBSET S |->
                      IF s = {} THEN 0 ELSE log[AnyOf(s)][e] + g[s \ {AnyOf(s)}]]
<1>1. ASSUME NEW g PROVE A(g) = B(g)
  <2>1. \A s \in SUBSET S : s # {} => AnyOf(s) \in s /\ AnyOf(s) \in 0..MaxTime
    BY DEF AnyOf
  <2>2. \A s \in SUBSET S : s # {} => KindLog(log, e)[AnyOf(s)] = log[AnyOf(s)][e]
    BY <2>1 DEF KindLog
  <2>3. QED
    BY <2>2
<1>2. MapThenSumSet(LAMBDA t : log[t][e], S) = (CHOOSE g : g = B(g))[S]
  BY DEF MapThenSumSet, MapThenFoldSet, AnyOf
<1>3. SumOver(KindLog(log, e), S) = (CHOOSE g : g = A(g))[S]
  BY DEF SumOver, Fold
<1> HIDE DEF A, B
<1>4. (CHOOSE g : g = A(g)) = (CHOOSE g : g = B(g))
  BY <1>1, Zenon
<1>5. QED
  BY <1>2, <1>3, <1>4

\* Multiples of H keep their order.
LEMMA MulMono ==
    ASSUME NEW H \in Nat, NEW a \in Int, NEW b \in Int, a <= b
    PROVE  a * H <= b * H
<1>1. (b - a) * H >= 0 /\ (b - a) * H = b * H - a * H
  OBVIOUS
<1>2. a * H \in Int /\ b * H \in Int
  OBVIOUS
<1>3. QED
  BY <1>1, <1>2

\* Division with remainder.
LEMMA DivIs ==
    ASSUME NEW H \in Nat \ {0}, NEW n \in Nat
    PROVE  /\ n \div H \in Nat /\ n % H \in 0..(H - 1)
           /\ n = (n \div H) * H + (n % H)
<1>1. n \div H \in Nat
  OBVIOUS
<1>2. n % H \in 0..(H - 1)
  OBVIOUS
<1>3. n = H * (n \div H) + (n % H)
  OBVIOUS
<1>4. QED
  BY <1>1, <1>2, <1>3

\* Quotient and remainder are determined.
LEMMA Quotient ==
    ASSUME NEW H \in Nat \ {0}, NEW n \in Nat, NEW q \in Nat, NEW r \in 0..(H - 1),
           n = q * H + r
    PROVE  n \div H = q /\ n % H = r
<1> DEFINE d == n \div H
           m == n % H
<1>1. d \in Nat /\ m \in 0..(H - 1) /\ n = d * H + m
  BY DivIs
<1> HIDE DEF d, m
<1>2. q * H \in Nat /\ d * H \in Nat
  BY <1>1
<1>3. CASE d + 1 <= q
  <2>1. (d + 1) * H <= q * H /\ (d + 1) * H = d * H + H
    BY <1>1, <1>3, MulMono
  <2>2. QED
    BY <1>1, <1>2, <2>1
<1>4. CASE q + 1 <= d
  <2>1. (q + 1) * H <= d * H /\ (q + 1) * H = q * H + H
    BY <1>1, <1>4, MulMono
  <2>2. QED
    BY <1>1, <1>2, <2>1
<1>5. CASE q = d
  BY <1>1, <1>2, <1>5 DEF d, m
<1>6. QED
  BY <1>1, <1>3, <1>4, <1>5

LEMMA SumOfAll ==
    ASSUME NEW S \in SUBSET (0..MaxTime)
    PROVE  MapThenSumSet(LAMBDA t : Total(log[t]), S) = SumOver(AllLog(log), S)
<1> DEFINE A(g) == [s \in SUBSET S |->
                      IF s = {} THEN 0 ELSE AllLog(log)[AnyOf(s)] + g[s \ {AnyOf(s)}]]
           B(g) == [s \in SUBSET S |->
                      IF s = {} THEN 0 ELSE Total(log[AnyOf(s)]) + g[s \ {AnyOf(s)}]]
<1>1. ASSUME NEW g PROVE A(g) = B(g)
  <2>1. \A s \in SUBSET S : s # {} => AnyOf(s) \in s /\ AnyOf(s) \in 0..MaxTime
    BY DEF AnyOf
  <2>2. \A s \in SUBSET S : s # {} => AllLog(log)[AnyOf(s)] = Total(log[AnyOf(s)])
    BY <2>1 DEF AllLog
  <2>3. QED
    BY <2>2
<1>2. MapThenSumSet(LAMBDA t : Total(log[t]), S) = (CHOOSE g : g = B(g))[S]
  BY DEF MapThenSumSet, MapThenFoldSet, AnyOf
<1>3. SumOver(AllLog(log), S) = (CHOOSE g : g = A(g))[S]
  BY DEF SumOver, Fold
<1> HIDE DEF A, B
<1>4. (CHOOSE g : g = A(g)) = (CHOOSE g : g = B(g))
  BY <1>1, Zenon
<1>5. QED
  BY <1>2, <1>3, <1>4

LEMMA SumOfAge ==
    ASSUME NEW S \in SUBSET (0..(Size - 1)), NEW e
    PROVE  MapThenSumSet(LAMBDA a : Logged(e, a), S) = SumOver(AgeLog(e), S)
<1> DEFINE A(g) == [s \in SUBSET S |->
                      IF s = {} THEN 0 ELSE AgeLog(e)[AnyOf(s)] + g[s \ {AnyOf(s)}]]
           B(g) == [s \in SUBSET S |->
                      IF s = {} THEN 0 ELSE Logged(e, AnyOf(s)) + g[s \ {AnyOf(s)}]]
<1>1. ASSUME NEW g PROVE A(g) = B(g)
  <2>1. \A s \in SUBSET S : s # {} => AnyOf(s) \in s /\ AnyOf(s) \in 0..(Size - 1)
    BY DEF AnyOf
  <2>2. \A s \in SUBSET S : s # {} => AgeLog(e)[AnyOf(s)] = Logged(e, AnyOf(s))
    BY <2>1 DEF AgeLog
  <2>3. QED
    BY <2>2
<1>2. MapThenSumSet(LAMBDA a : Logged(e, a), S) = (CHOOSE g : g = B(g))[S]
  BY DEF MapThenSumSet, MapThenFoldSet, AnyOf
<1>3. SumOver(AgeLog(e), S) = (CHOOSE g : g = A(g))[S]
  BY DEF SumOver, Fold
<1> HIDE DEF A, B
<1>4. (CHOOSE g : g = A(g)) = (CHOOSE g : g = B(g))
  BY <1>1, Zenon
<1>5. QED
  BY <1>2, <1>3, <1>4

LEMMA SumOfAges ==
    ASSUME NEW S \in SUBSET (0..(Size - 1))
    PROVE  MapThenSumSet(LAMBDA a : Logged("success", a) + Logged("fail", a)
                                    + Logged("drop", a), S) = SumOver(AgeAll, S)
<1> DEFINE A(g) == [s \in SUBSET S |->
                      IF s = {} THEN 0 ELSE AgeAll[AnyOf(s)] + g[s \ {AnyOf(s)}]]
           B(g) == [s \in SUBSET S |->
                      IF s = {} THEN 0
                      ELSE (Logged("success", AnyOf(s)) + Logged("fail", AnyOf(s))
                            + Logged("drop", AnyOf(s))) + g[s \ {AnyOf(s)}]]
<1>1. ASSUME NEW g PROVE A(g) = B(g)
  <2>1. \A s \in SUBSET S : s # {} => AnyOf(s) \in s /\ AnyOf(s) \in 0..(Size - 1)
    BY DEF AnyOf
  <2>2. \A s \in SUBSET S : s # {} =>
           AgeAll[AnyOf(s)] = (Logged("success", AnyOf(s)) + Logged("fail", AnyOf(s))
                               + Logged("drop", AnyOf(s)))
    BY <2>1 DEF AgeAll
  <2>3. QED
    BY <2>2
<1>2. MapThenSumSet(LAMBDA a : Logged("success", a) + Logged("fail", a)
                               + Logged("drop", a), S) = (CHOOSE g : g = B(g))[S]
  BY DEF MapThenSumSet, MapThenFoldSet, AnyOf
<1>3. SumOver(AgeAll, S) = (CHOOSE g : g = A(g))[S]
  BY DEF SumOver, Fold
<1> HIDE DEF A, B
<1>4. (CHOOSE g : g = A(g)) = (CHOOSE g : g = B(g))
  BY <1>1, Zenon
<1>5. QED
  BY <1>2, <1>3, <1>4

\* A sum of what is no more.
LEMMA SumMono ==
    ASSUME NEW f, NEW g, NEW S, IsFiniteSet(S), \A x \in S : f[x] \in Nat /\ g[x] \in Nat,
           \A x \in S : f[x] <= g[x]
    PROVE  SumOver(f, S) <= SumOver(g, S)
<1> DEFINE P == {s \in SUBSET S : SumOver(f, s) <= SumOver(g, s)}
<1>1. \A s \in SUBSET S : IsFiniteSet(s) /\ SumOver(f, s) \in Nat /\ SumOver(g, s) \in Nat
  BY FS_Subset, SumIsNat
<1>2. {} \in P
  <2>1. {} \in SUBSET S /\ IsFiniteSet({})
    BY <1>1
  <2>2. \A h : SumOver(h, {}) = 0
    BY <2>1, SumStep
  <2>3. QED
    BY <2>1, <2>2
<1>3. ASSUME NEW s \in SUBSET S, s # {}, \A x \in s : s \ {x} \in P PROVE s \in P
  <2> DEFINE a == AnyOf(s)
             t == s \ {a}
  <2>1. /\ a \in s /\ SumOver(f, s) = f[a] + SumOver(f, t)
        /\ SumOver(g, s) = g[a] + SumOver(g, t)
    BY <1>1, <1>3, SumStep
  <2>2. SumOver(f, t) <= SumOver(g, t) /\ t \in SUBSET S
    BY <1>3, <2>1
  <2>3. f[a] \in Nat /\ g[a] \in Nat /\ f[a] <= g[a]
    BY <2>1
  <2>4. SumOver(f, t) \in Nat /\ SumOver(g, t) \in Nat
    BY <1>1, <2>2
  <2> HIDE DEF a, t
  <2>5. SumOver(f, s) <= SumOver(g, s)
    BY <2>1, <2>2, <2>3, <2>4
  <2>6. QED
    BY <2>5
<1>4. S \in P
  <2> HIDE DEF P
  <2>1. \A s \in SUBSET S : s # {} /\ (\A x \in s : s \ {x} \in P) => s \in P
    BY <1>3
  <2>2. \A s \in SUBSET S : s \in P
    BY <1>2, <2>1, AllSubsets, Zenon
  <2>3. QED
    BY <2>2
<1>5. QED
  BY <1>4

\* The bucket k places ahead of x.
Ahead(x, k) == IF x + k < Size THEN x + k ELSE x + k - Size

\* What the remainder makes of offset + k.
LEMMA AheadIs ==
    ASSUME NEW x \in Ring, NEW k \in 0..Size
    PROVE  (x + k) % Size = Ahead(x, k) /\ Ahead(x, k) \in Ring
<1> USE WindowAssumption
<1>1. CASE x + k < Size
  <2>1. x + k \in 0..(Size - 1)
    BY <1>1 DEF Ring
  <2>2. QED
    BY <1>1, <2>1, ModBelow DEF Ahead, Ring
<1>2. CASE ~(x + k < Size)
  <2>1. x + k \in Size..(2 * Size - 1)
    BY <1>2 DEF Ring
  <2>2. QED
    BY <1>2, <2>1, ModOnce DEF Ahead, Ring
<1>3. QED
  BY <1>1, <1>2

\* updateOffset resets the next places ahead.
LEMMA ExpiredIs ==
    ASSUME offset \in Ring, NEW sp \in 0..Size, NEW i
    PROVE  i \in Expired(sp) <=> \E j \in 1..sp : i = Ahead(offset, j)
<1> USE WindowAssumption
<1>1. ASSUME NEW j \in 1..sp PROVE (offset + (j - 1) + 1) % Size = Ahead(offset, j)
  <2>1. offset + (j - 1) + 1 = offset + j /\ j \in 0..Size
    BY DEF Ring
  <2>2. QED
    BY <2>1, AheadIs
<1>2. ASSUME i \in Expired(sp) PROVE \E j \in 1..sp : i = Ahead(offset, j)
  <2>1. PICK k \in 0..(sp - 1) : i = (offset + k + 1) % Size
    BY <1>2 DEF Expired
  <2>2. k + 1 \in 1..sp /\ (k + 1) - 1 = k
    OBVIOUS
  <2>3. i = Ahead(offset, k + 1)
    BY <1>1, <2>1, <2>2
  <2>4. QED
    BY <2>2, <2>3
<1>3. ASSUME NEW j \in 1..sp, i = Ahead(offset, j) PROVE i \in Expired(sp)
  <2>1. j - 1 \in 0..(sp - 1) /\ i = (offset + (j - 1) + 1) % Size
    BY <1>1, <1>3
  <2>2. QED
    BY <2>1 DEF Expired
<1>4. QED
  BY <1>2, <1>3

\* Behind a place ahead.
LEMMA BehindAhead ==
    ASSUME NEW x \in Ring, NEW sp \in 0..Size, NEW k \in Ring
    PROVE  /\ Behind(x, k) \in Ring
           /\ k < sp => sp - k \in 1..sp /\ Behind(Ahead(x, sp), k) = Ahead(x, sp - k)
           /\ k >= sp => /\ k - sp \in Ring
                         /\ Behind(Ahead(x, sp), k) = Behind(x, k - sp)
                         /\ \A j \in 1..sp : Behind(x, k - sp) # Ahead(x, j)
           /\ (Behind(Ahead(x, sp), k) = Ahead(x, sp)) <=> (k = 0)
BY WindowAssumption DEF Ring, Behind, Ahead

\* Every place is some place behind.
LEMMA AllBehind ==
    ASSUME NEW x \in Ring, NEW i \in Ring
    PROVE  \E k \in Ring : i = Behind(x, k)
<1> USE WindowAssumption
<1>1. CASE i <= x
  <2>1. x - i \in Ring /\ i = Behind(x, x - i)
    BY <1>1 DEF Ring, Behind
  <2>2. QED
    BY <2>1
<1>2. CASE ~(i <= x)
  <2>1. x - i + Size \in Ring /\ i = Behind(x, x - i + Size)
    BY <1>2 DEF Ring, Behind
  <2>2. QED
    BY <2>1
<1>3. QED
  BY <1>1, <1>2

\* The intervals that have passed.
LEMMA SpanIs ==
    ASSUME WindowInv, NEW q, q = now \div Interval
    PROVE  /\ q \in Nat /\ Turn \in Nat /\ Turn <= q
           /\ Span(now) = IF q - Turn < Size THEN q - Turn ELSE Size
           /\ Span(now) \in 0..Size
           /\ Aligned(now) = q * Interval /\ q * Interval \in 0..now
           /\ (q * Interval) \div Interval = q
<1> USE WindowAssumption
<1> DEFINE r == now % Interval
           K == Turn
<1>1. now \in Nat /\ lastTime \in Nat /\ lastTime <= now /\ lastTime = K * Interval
  BY DEF WindowInv
<1>2. q \in Nat /\ r \in 0..(Interval - 1) /\ now = q * Interval + r
  BY <1>1, DivIs
<1>3. K \in Nat
  BY <1>1, DivIs DEF Turn
<1> HIDE DEF r, K
<1>4. q * Interval \in Nat /\ K * Interval \in Nat
  BY <1>2, <1>3
<1>5. K <= q
  <2> SUFFICES ASSUME q + 1 <= K PROVE FALSE
    BY <1>2, <1>3
  <2>1. (q + 1) * Interval <= K * Interval /\ (q + 1) * Interval = q * Interval + Interval
    BY <1>2, <1>3, MulMono
  <2>2. QED
    BY <1>1, <1>2, <1>4, <2>1
<1>6. now - lastTime \in Nat /\ q - K \in Nat /\ now - lastTime = (q - K) * Interval + r
  <2>1. (q - K) * Interval = q * Interval - K * Interval
    BY <1>2, <1>3
  <2>2. QED
    BY <1>1, <1>2, <1>3, <1>4, <1>5, <2>1
<1>7. (now - lastTime) \div Interval = q - K /\ (now - lastTime) % Interval = r
  BY <1>2, <1>6, Quotient
<1>8. Span(now) = IF q - K < Size THEN q - K ELSE Size
  BY <1>7 DEF Span
<1>9. Aligned(now) = now - r /\ now - r = q * Interval
  BY <1>1, <1>2, <1>4, <1>7 DEF Aligned
<1>10. q * Interval \in 0..now
  BY <1>1, <1>2, <1>4
<1>11. (q * Interval) \div Interval = q
  <2>1. q * Interval = q * Interval + 0 /\ 0 \in 0..(Interval - 1)
    BY <1>4
  <2>2. QED
    BY <1>2, <1>4, <2>1, Quotient
<1>12. Span(now) \in 0..Size
  BY <1>6, <1>8
<1>13. QED
  BY <1>2, <1>3, <1>5, <1>8, <1>9, <1>10, <1>11, <1>12 DEF K

\* An interval has no more events than the log, and none when nothing was added in it.
LEMMA EventsAre ==
    ASSUME NEW l \in [0..MaxTime -> [Kinds -> Nat]], NEW e \in Kinds, NEW i
    PROVE  /\ EventsOf(l, e, i) \in Nat
           /\ EventsOf(l, e, i) <= SumOver(AllLog(l), 0..MaxTime)
           /\ (\A t \in Instants(i) : l[t] = Empty) => EventsOf(l, e, i) = 0
<1> USE WindowAssumption
<1> DEFINE T == 0..MaxTime
           S == Instants(i)
           f == KindLog(l, e)
           g == AllLog(l)
<1>1. IsFiniteSet(T)
  BY FS_Interval
<1>2. S \in SUBSET T /\ IsFiniteSet(S) /\ {} \in SUBSET S /\ IsFiniteSet({})
  BY <1>1, FS_Subset, FS_EmptySet DEF Instants
<1>3. ASSUME NEW t \in T PROVE f[t] = l[t][e] /\ f[t] \in Nat /\ g[t] \in Nat /\ f[t] <= g[t]
  <2>1. l[t]["success"] \in Nat /\ l[t]["fail"] \in Nat /\ l[t]["drop"] \in Nat
    BY DEF Kinds
  <2>2. e = "success" \/ e = "fail" \/ e = "drop"
    BY DEF Kinds
  <2>3. f[t] = l[t][e] /\ g[t] = l[t]["success"] + l[t]["fail"] + l[t]["drop"]
    BY DEF KindLog, AllLog, Total
  <2>4. f[t] \in Nat
    BY <2>3
  <2> HIDE DEF f, g
  <2>5. CASE e = "success"
    BY <2>1, <2>3, <2>4, <2>5
  <2>6. CASE e = "fail"
    BY <2>1, <2>3, <2>4, <2>6
  <2>7. CASE e = "drop"
    BY <2>1, <2>3, <2>4, <2>7
  <2>8. QED
    BY <2>2, <2>5, <2>6, <2>7
<1>4. /\ \A t \in T : f[t] \in Nat /\ g[t] \in Nat
      /\ \A t \in T : f[t] <= g[t]
      /\ \A t \in S : f[t] \in Nat
  BY <1>2, <1>3
<1>5. (\A t \in S : l[t] = Empty) => \A t \in S \ {} : f[t] = 0
  BY <1>2, <1>3 DEF Empty
<1> HIDE DEF f, g, S, T
<1>6. SumOver(f, S) \in Nat /\ SumOver(f, T) \in Nat /\ SumOver(g, T) \in Nat
  BY <1>1, <1>2, <1>4, SumIsNat
<1>7. SumOver(f, S) <= SumOver(f, T)
  BY <1>1, <1>2, <1>4, SumDropsZeros
<1>8. SumOver(f, T) <= SumOver(g, T)
  BY <1>1, <1>4, SumMono
<1>9. SumOver(f, {}) = 0
  BY <1>2, SumStep
<1>10. (\A t \in S \ {} : f[t] = 0) => SumOver(f, {}) = SumOver(f, S)
  BY <1>2, <1>4, SumDropsZeros
<1>11. EventsOf(l, e, i) = SumOver(f, S)
  BY DEF EventsOf, f, S
<1>12. QED
  BY <1>5, <1>6, <1>7, <1>8, <1>9, <1>10, <1>11 DEF g, S, T

\* One event more.
EventAdded(e) == log' = [log EXCEPT ![now][e] = @ + 1]

\* m is l with one more of kind k at y.
GrownBy(l, m, S, k, y) ==
    \A t \in S : l[t][k] \in Nat /\ m[t][k] = IF t = y THEN l[t][k] + 1 ELSE l[t][k]

LEMMA KindGrows ==
    ASSUME NEW l, NEW m, NEW k, NEW S \in SUBSET (0..MaxTime), NEW y \in 0..MaxTime,
           GrownBy(l, m, S, k, y)
    PROVE  /\ y \in S => SumOver(KindLog(m, k), S) = SumOver(KindLog(l, k), S) + 1
           /\ y \notin S => SumOver(KindLog(m, k), S) = SumOver(KindLog(l, k), S)
<1> USE WindowAssumption
<1> DEFINE f == KindLog(l, k)
           g == KindLog(m, k)
           d == 1
<1>1. IsFiniteSet(0..MaxTime)
  BY FS_Interval
<1>2. IsFiniteSet(S)
  BY <1>1, FS_Subset
<1>3. d \in Nat /\ IsFiniteSet(S) /\ \A t \in S : f[t] \in Nat
  BY <1>2 DEF KindLog, GrownBy
<1>4. \A t \in S : g[t] = IF t = y THEN f[t] + d ELSE f[t]
  BY DEF KindLog, GrownBy
<1> HIDE DEF f, g
<1>5. SumOver(g, S) = IF y \in S THEN SumOver(f, S) + d ELSE SumOver(f, S)
  <2> DEFINE U == S
             z == y
  <2>1. d \in Nat /\ IsFiniteSet(U) /\ \A t \in U : f[t] \in Nat
    BY <1>3
  <2>2. \A t \in U : g[t] = IF t = z THEN f[t] + d ELSE f[t]
    BY <1>4
  <2> HIDE DEF U, z
  <2>3. SumOver(g, U) = IF z \in U THEN SumOver(f, U) + d ELSE SumOver(f, U)
    BY <2>1, <2>2, SumBump
  <2>4. QED
    BY <2>3 DEF U, z
<1>6. QED
  BY <1>5 DEF f, g

\* One event more in the interval of now, and in the log.
LEMMA EventsGrow ==
    ASSUME now \in 0..MaxTime, log \in [0..MaxTime -> [Kinds -> Nat]], NEW e \in Kinds,
           EventAdded(e)
    PROVE  /\ log' \in [0..MaxTime -> [Kinds -> Nat]]
           /\ \A t \in 0..MaxTime : t # now => log'[t] = log[t]
           /\ \A x \in Kinds, i \in Int :
                 EventsOf(log', x, i) =
                    IF x = e /\ i = now \div Interval THEN EventsOf(log, x, i) + 1
                                                       ELSE EventsOf(log, x, i)
           /\ SumOver(AllLog(log'), 0..MaxTime) = SumOver(AllLog(log), 0..MaxTime) + 1
<1> USE WindowAssumption
<1> DEFINE T == 0..MaxTime
<1>1. /\ log' \in [T -> [Kinds -> Nat]]
      /\ \A t \in T : t # now => log'[t] = log[t]
      /\ \A x \in Kinds : log'[now][x] = IF x = e THEN log[now][x] + 1 ELSE log[now][x]
  <2>1. log'[now] = [log[now] EXCEPT ![e] = @ + 1] /\ log[now] \in [Kinds -> Nat]
    BY DEF EventAdded
  <2>2. \A x \in Kinds : log'[now][x] = IF x = e THEN log[now][x] + 1 ELSE log[now][x]
    BY <2>1
  <2>3. log'[now] \in [Kinds -> Nat]
    BY <2>1
  <2>4. log' = [log EXCEPT ![now] = log'[now]]
    BY <2>1 DEF EventAdded
  <2>5. QED
    BY <2>2, <2>3, <2>4
<1>2. IsFiniteSet(T)
  BY FS_Interval
<1>3. ASSUME NEW k \in Kinds, NEW i \in Int
      PROVE  EventsOf(log', k, i) =
                IF k = e /\ i = now \div Interval THEN EventsOf(log, k, i) + 1
                                                   ELSE EventsOf(log, k, i)
  <2> DEFINE S == Instants(i)
             f == KindLog(log, k)
             g == KindLog(log', k)
             d == 1
             y == now
  <2>1. S \in SUBSET T /\ IsFiniteSet(S)
    BY <1>2, FS_Subset DEF Instants
  <2>2. \A t \in S : f[t] = log[t][k] /\ g[t] = log'[t][k] /\ f[t] \in Nat
    BY <2>1 DEF KindLog
  <2>3. now \in S <=> i = now \div Interval
    BY DEF Instants
  <2>4. EventsOf(log', k, i) = SumOver(g, S) /\ EventsOf(log, k, i) = SumOver(f, S)
    BY DEF EventsOf
  <2>5. ASSUME NEW t \in S, t # now PROVE g[t] = f[t]
    BY <1>1, <2>1, <2>2, <2>5
  <2>6. CASE k = e
    <3>1. ASSUME NEW t \in S, t = now PROVE g[t] = f[t] + 1
      <4>1. now \in S
        BY <3>1
      <4>2. g[now] = log'[now][k] /\ f[now] = log[now][k]
        BY <2>2, <4>1
      <4>3. log'[now][k] = log[now][k] + 1
        BY <1>1, <2>6
      <4>4. QED
        BY <3>1, <4>2, <4>3
    <3>2. GrownBy(log, log', S, k, now)
      BY <2>2, <2>5, <3>1 DEF GrownBy
    <3>3. SumOver(g, S) = IF now \in S THEN SumOver(f, S) + 1 ELSE SumOver(f, S)
      <4>1. S \in SUBSET (0..MaxTime) /\ now \in 0..MaxTime
        BY <2>1
      <4>2. f = KindLog(log, k) /\ g = KindLog(log', k)
        OBVIOUS
      <4> HIDE DEF S, f, g
      <4>3. SumOver(KindLog(log', k), S) = IF now \in S THEN SumOver(KindLog(log, k), S) + 1
                                                         ELSE SumOver(KindLog(log, k), S)
        <5>1. /\ now \in S => SumOver(KindLog(log', k), S) = SumOver(KindLog(log, k), S) + 1
              /\ now \notin S => SumOver(KindLog(log', k), S) = SumOver(KindLog(log, k), S)
          <6> HIDE WindowAssumption
          <6> QED
            BY <3>2, <4>1, KindGrows
        <5>2. QED
          BY <5>1
      <4>4. QED
        BY <4>2, <4>3
    <3>4. QED
      BY <2>3, <2>4, <2>6, <3>3
  <2>7. CASE k # e
    <3>1. ASSUME NEW t \in S PROVE f[t] = g[t] /\ f[t] \in Nat
      <4>1. CASE t = now
        <5>1. g[now] = log'[now][k] /\ f[now] = log[now][k] /\ f[now] \in Nat
          BY <2>2, <4>1
        <5>2. log'[now][k] = log[now][k]
          BY <1>1, <2>7
        <5>3. QED
          BY <4>1, <5>1, <5>2
      <4>2. CASE t # now
        BY <2>2, <2>5, <4>2
      <4>3. QED
        BY <4>1, <4>2
    <3>2. (\A t \in S : f[t] = g[t] /\ f[t] \in Nat) /\ IsFiniteSet(S)
      BY <2>1, <3>1
    <3> HIDE DEF S, f, g
    <3>3. SumOver(g, S) = SumOver(f, S)
      BY <3>2, SumSame
    <3>4. QED
      BY <2>4, <2>7, <3>3
  <2>8. QED
    BY <2>6, <2>7
<1>4. SumOver(AllLog(log'), T) = SumOver(AllLog(log), T) + 1
  <2> DEFINE f == AllLog(log)
             g == AllLog(log')
             d == 1
             y == now
  <2>1. ASSUME NEW t \in T
        PROVE  f[t] = Total(log[t]) /\ g[t] = Total(log'[t]) /\ f[t] \in Nat
    <3>1. f[t] = Total(log[t]) /\ g[t] = Total(log'[t])
      BY DEF AllLog
    <3>2. Total(log[t]) \in Nat
      BY DEF Total, Kinds
    <3>3. QED
      BY <3>1, <3>2
  <2>2. Total(log'[now]) = Total(log[now]) + 1
    <3>1. /\ log[now]["success"] \in Nat /\ log[now]["fail"] \in Nat /\ log[now]["drop"] \in Nat
          /\ "success" \in Kinds /\ "fail" \in Kinds /\ "drop" \in Kinds
          /\ e = "success" \/ e = "fail" \/ e = "drop"
      BY DEF Kinds
    <3>2. /\ Total(log[now]) = log[now]["success"] + log[now]["fail"] + log[now]["drop"]
          /\ Total(log'[now]) = log'[now]["success"] + log'[now]["fail"] + log'[now]["drop"]
      BY DEF Total
    <3>3. CASE e = "success"
      <4>1. /\ log'[now]["success"] = log[now]["success"] + 1
            /\ log'[now]["fail"] = log[now]["fail"]
            /\ log'[now]["drop"] = log[now]["drop"]
        BY <1>1, <3>1, <3>3
      <4>2. QED
        BY <3>1, <3>2, <4>1
    <3>4. CASE e = "fail"
      <4>1. /\ log'[now]["success"] = log[now]["success"]
            /\ log'[now]["fail"] = log[now]["fail"] + 1
            /\ log'[now]["drop"] = log[now]["drop"]
        BY <1>1, <3>1, <3>4
      <4>2. QED
        BY <3>1, <3>2, <4>1
    <3>5. CASE e = "drop"
      <4>1. /\ log'[now]["success"] = log[now]["success"]
            /\ log'[now]["fail"] = log[now]["fail"]
            /\ log'[now]["drop"] = log[now]["drop"] + 1
        BY <1>1, <3>1, <3>5
      <4>2. QED
        BY <3>1, <3>2, <4>1
    <3>6. QED
      BY <3>1, <3>3, <3>4, <3>5
  <2>3. \A t \in T : g[t] = IF t = y THEN f[t] + d ELSE f[t]
    BY <1>1, <2>1, <2>2
  <2>4. d \in Nat /\ (\A t \in T : f[t] \in Nat) /\ y \in T
    BY <2>1
  <2> HIDE WindowAssumption, RegistryAssumption, LimiterAssumption DEF f, g, y, T
  <2>5. SumOver(g, T) = IF y \in T THEN SumOver(f, T) + d ELSE SumOver(f, T)
    BY <1>2, <2>3, <2>4, SumBump
  <2>6. QED
    BY <2>4, <2>5 DEF f, g
<1>5. QED
  BY <1>1, <1>3, <1>4

\* add: the expired buckets are reset, and the event goes into the one at the new
\* offset.
LEMMA AddKeeps ==
    ASSUME Skew = 0, WindowInv, NEW e \in Kinds, Add(e)
    PROVE  WindowInv'
<1> USE WindowAssumption
<1> DEFINE T == 0..MaxTime
           q == now \div Interval
           K == Turn
           sp == Span(now)
           off == Ahead(offset, sp)
<1>1. /\ now \in T /\ now \in Nat /\ offset \in Ring
      /\ lastTime = K * Interval
      /\ log \in [T -> [Kinds -> Nat]] /\ bkt \in [Ring -> [Kinds -> Nat]]
  <2>1. now \in T /\ now \in Nat /\ offset \in Ring
    BY DEF WindowInv
  <2>2. /\ lastTime = Turn * Interval
        /\ log \in [0..MaxTime -> [Kinds -> Nat]] /\ bkt \in [Ring -> [Kinds -> Nat]]
    BY Zenon DEF WindowInv
  <2>3. QED
    BY <2>1, <2>2, Zenon
<1>2. /\ q \in Nat /\ K \in Nat /\ K <= q
      /\ sp = (IF q - K < Size THEN q - K ELSE Size)
      /\ sp \in 0..Size
      /\ Aligned(now) = q * Interval /\ q * Interval \in 0..now
      /\ (q * Interval) \div Interval = q
  BY SpanIs
<1>3. off \in Ring /\ (offset + sp) % Size = off
  BY <1>1, <1>2, AheadIs
<1>4. /\ Events < MaxEvents /\ now' = now /\ offset' = off /\ EventAdded(e)
      /\ lastTime' = IF sp = 0 THEN lastTime ELSE Aligned(now)
      /\ bkt' = [i \in Ring |->
              LET b == IF i \in Expired(sp) THEN Empty ELSE bkt[i]
              IN  IF i = off THEN [b EXCEPT ![e] = @ + 1] ELSE b]
  <2>1. Events < MaxEvents /\ AddEvent(e, 0)
    <3>1. 0..Skew = {0}
      OBVIOUS
    <3>2. QED
      BY <3>1 DEF Add
  <2>2. now + 0 = now
    BY <1>1
  <2>3. QED
    BY <1>3, <2>1, <2>2 DEF AddEvent, EventAdded
<1> HIDE DEF sp, off, q, K
<1>5. lastTime' = q * Interval
  <2>1. CASE sp = 0
    <3>1. q = K
      BY <1>2, <2>1
    <3>2. QED
      BY <1>1, <1>4, <2>1, <3>1
  <2>2. CASE sp # 0
    BY <1>2, <1>4, <2>2
  <2>3. QED
    BY <2>1, <2>2
<1>6. Turn' = q
  BY <1>2, <1>5 DEF Turn
<1>7. \A i : i \in Expired(sp) <=> \E j \in 1..sp : i = Ahead(offset, j)
  BY <1>1, <1>2, ExpiredIs
<1>8. Empty \in [Kinds -> Nat] /\ \A x \in Kinds : Empty[x] = 0
  BY DEF Empty
<1>9. ASSUME NEW i \in Ring
      PROVE  /\ bkt'[i] \in [Kinds -> Nat]
             /\ \A x \in Kinds : bkt'[i][x] =
                   (IF i \in Expired(sp) THEN 0 ELSE bkt[i][x])
                    + (IF i = off /\ x = e THEN 1 ELSE 0)
  <2> DEFINE b == IF i \in Expired(sp) THEN Empty ELSE bkt[i]
  <2>1. b \in [Kinds -> Nat] /\ \A x \in Kinds : b[x] = IF i \in Expired(sp) THEN 0 ELSE bkt[i][x]
    BY <1>1, <1>8
  <2>2. bkt'[i] = IF i = off THEN [b EXCEPT ![e] = @ + 1] ELSE b
    BY <1>4
  <2> HIDE DEF b
  <2>3. CASE i = off
    <3>1. bkt'[i] = [b EXCEPT ![e] = @ + 1]
      BY <2>2, <2>3
    <3>2. bkt'[i] \in [Kinds -> Nat]
      BY <2>1, <3>1
    <3>3. \A x \in Kinds : bkt'[i][x] = IF x = e THEN b[x] + 1 ELSE b[x]
      BY <2>1, <3>1
    <3>4. \A x \in Kinds : b[x] \in Nat
      BY <2>1
    <3>5. QED
      BY <2>1, <2>3, <3>2, <3>3, <3>4
  <2>4. CASE i # off
    <3>1. \A x \in Kinds : b[x] \in Nat
      BY <2>1
    <3>2. QED
      BY <2>1, <2>2, <2>4, <3>1
  <2>5. QED
    BY <2>3, <2>4
<1>10. bkt' \in [Ring -> [Kinds -> Nat]]
  <2>1. DOMAIN bkt' = Ring /\ bkt' = [i \in Ring |-> bkt'[i]]
    BY <1>4
  <2>2. QED
    BY <1>9, <2>1
<1>11. /\ log' \in [T -> [Kinds -> Nat]]
       /\ \A t \in T : t # now => log'[t] = log[t]
       /\ \A x \in Kinds, i \in Int :
             EventsOf(log', x, i) = IF x = e /\ i = q THEN EventsOf(log, x, i) + 1
                                                     ELSE EventsOf(log, x, i)
       /\ SumOver(AllLog(log'), T) = SumOver(AllLog(log), T) + 1
  BY <1>1, <1>4, EventsGrow DEF q
<1>12. ASSUME NEW t \in T, t \div Interval > q PROVE log'[t] = Empty
  <2>1. t # now
    BY <1>2, <1>12 DEF q
  <2>2. t \div Interval > Turn
    BY <1>2, <1>12 DEF K
  <2>3. QED
    BY <1>11, <2>1, <2>2 DEF WindowInv
<1>13. ASSUME NEW k \in Ring, NEW x \in Kinds
       PROVE  bkt'[Behind(off, k)][x] = EventsOf(log', x, q - k)
  <2> DEFINE i == Behind(off, k)
  <2>1. /\ i \in Ring /\ (i = off <=> k = 0)
        /\ k < sp => sp - k \in 1..sp /\ i = Ahead(offset, sp - k)
        /\ k >= sp => /\ k - sp \in Ring
                      /\ i = Behind(offset, k - sp)
                      /\ \A j \in 1..sp : i # Ahead(offset, j)
    <3>1. sp \in 0..Size /\ off = Ahead(offset, sp)
      BY <1>2 DEF off
    <3>2. Behind(off, k) \in Ring
      BY <1>3, <3>1, BehindAhead
    <3>3. /\ k < sp => sp - k \in 1..sp /\ Behind(Ahead(offset, sp), k) = Ahead(offset, sp - k)
          /\ k >= sp => /\ k - sp \in Ring
                        /\ Behind(Ahead(offset, sp), k) = Behind(offset, k - sp)
                        /\ \A j \in 1..sp : Behind(offset, k - sp) # Ahead(offset, j)
          /\ (Behind(Ahead(offset, sp), k) = Ahead(offset, sp)) <=> (k = 0)
      <4>1. offset \in Ring /\ sp \in 0..Size
        BY <1>1, <3>1
      <4>2. QED
        BY <4>1, BehindAhead
    <3>4. i = Behind(Ahead(offset, sp), k) /\ i = Behind(off, k)
      BY <3>1
    <3> HIDE DEF i
    <3>5. QED
      BY <3>1, <3>2, <3>3, <3>4
  <2>2. bkt'[i][x] = (IF i \in Expired(sp) THEN 0 ELSE bkt[i][x])
                      + (IF i = off /\ x = e THEN 1 ELSE 0)
    BY <1>9, <2>1
  <2> HIDE DEF i
  <2>3. k \in Nat /\ k < Size /\ q - k \in Int /\ (q - k = q <=> k = 0)
    BY <1>2 DEF Ring
  <2>4. EventsOf(log', x, q - k) = IF x = e /\ k = 0 THEN EventsOf(log, x, q - k) + 1
                                                    ELSE EventsOf(log, x, q - k)
    BY <1>11, <2>3
  <2>5. EventsOf(log, x, q - k) \in Nat
    BY <1>1, EventsAre
  <2>6. (IF i \in Expired(sp) THEN 0 ELSE bkt[i][x]) = EventsOf(log, x, q - k)
    <3>1. CASE k < sp
      <4>1. i \in Expired(sp)
        BY <1>7, <2>1, <3>1
      <4>2. q - k > Turn
        BY <1>2, <2>3, <3>1 DEF K
      <4>3. \A t \in Instants(q - k) : log[t] = Empty
        BY <4>2 DEF WindowInv, Instants
      <4>4. EventsOf(log, x, q - k) = 0
        BY <1>1, <4>3, EventsAre
      <4>5. QED
        BY <4>1, <4>4
    <3>2. CASE k >= sp
      <4>1. i \notin Expired(sp) /\ k - sp \in Ring /\ i = Behind(offset, k - sp)
        BY <1>7, <2>1, <3>2
      <4>2. Turn - (k - sp) = q - k
        BY <1>2, <2>3, <3>2 DEF K
      <4>3. bkt[i][x] = EventsOf(log, x, Turn - (k - sp))
        BY <4>1 DEF WindowInv
      <4>4. QED
        BY <4>1, <4>2, <4>3
    <3>3. QED
      BY <1>2, <2>3, <3>1, <3>2
  <2>7. QED
    BY <2>1, <2>2, <2>4, <2>5, <2>6 DEF i
<1>14. SumOver(AllLog(log'), T) <= MaxEvents
  <2>1. Events = SumOver(AllLog(log), T)
    BY SumOfAll DEF Events
  <2>2. "success" \in Kinds
    BY DEF Kinds
  <2>3. SumOver(AllLog(log), T) \in Int
    <3>1. IsFiniteSet(T)
      BY FS_Interval
    <3>2. \A t \in T : AllLog(log)[t] \in Nat
      BY <1>1, SMTT(30) DEF AllLog, Total, Kinds
    <3>3. SumOver(AllLog(log), T) \in Nat
      BY <3>1, <3>2, SumIsNat
    <3>4. QED
      BY <3>3
  <2>4. QED
    BY <1>4, <1>11, <2>1, <2>3
<1>15. now' \in T /\ offset' \in Ring /\ lastTime' \in 0..now' /\ lastTime' = Turn' * Interval
  BY <1>1, <1>2, <1>3, <1>4, <1>5, <1>6
<1>16. (\A t \in T : t \div Interval > Turn => log[t] = Empty)'
  BY <1>6, <1>12
<1>17. (\A k \in Ring, x \in Kinds : bkt[Behind(offset, k)][x] = EventsOf(log, x, Turn - k))'
  <2>1. ASSUME NEW k \in Ring, NEW x \in Kinds
        PROVE  bkt'[Behind(offset', k)][x] = EventsOf(log', x, Turn' - k)
    BY <1>4, <1>6, <1>13
  <2>2. QED
    BY <2>1
<1>18. QED
  BY <1>10, <1>11, <1>14, <1>15, <1>16, <1>17 DEF WindowInv

LEMMA WindowStays ==
    ASSUME WindowInv, UNCHANGED windowVars
    PROVE  WindowInv'
<1>1. /\ now' = now /\ offset' = offset /\ lastTime' = lastTime /\ bkt' = bkt /\ log' = log
  BY DEF windowVars
<1>2. Turn' = Turn
  BY <1>1 DEF Turn
<1>3. QED
  BY <1>1, <1>2 DEF WindowInv

LEMMA WindowTickKeeps ==
    ASSUME WindowInv, Tick
    PROVE  WindowInv'
<1>1. /\ now' = now + 1 /\ now < MaxTime
      /\ offset' = offset /\ lastTime' = lastTime /\ bkt' = bkt /\ log' = log
  BY DEF Tick
<1>2. Turn' = Turn
  BY <1>1 DEF Turn
<1>3. now \in 0..MaxTime /\ lastTime \in 0..now
  BY DEF WindowInv
<1>4. now' \in 0..MaxTime /\ lastTime' \in 0..now'
  BY <1>1, <1>3, WindowAssumption
<1>5. QED
  BY <1>1, <1>2, <1>4 DEF WindowInv

LEMMA WindowKeeps ==
    ASSUME Skew = 0, WindowInv, Next
    PROVE  WindowInv'
<1>1. ASSUME NEW p \in Procs, Reject(p) PROVE WindowInv'
  <2>1. Add("drop") /\ "drop" \in Kinds
    BY <1>1 DEF Reject, Kinds
  <2>2. QED
    BY <2>1, AddKeeps
<1>2. ASSUME NEW p \in Procs, NEW e \in {"success", "fail"}, Report(p, e) PROVE WindowInv'
  <2>1. Add(e) /\ e \in Kinds
    BY <1>2 DEF Report, Kinds
  <2>2. QED
    BY <2>1, AddKeeps
<1>3. ASSUME NEW p \in Procs,
             \/ Snapshot(p) \/ LoadLastPass(p) \/ Compare(p) \/ ReadClock(p)
             \/ ForceProbe(p) \/ Pass(p)
      PROVE  WindowInv'
  <2>1. UNCHANGED windowVars
    BY <1>3 DEF Snapshot, LoadLastPass, Compare, ReadClock, ForceProbe, Pass
  <2>2. QED
    BY <2>1, WindowStays
<1>4. ASSUME ClockTick PROVE WindowInv'
  BY <1>4, WindowTickKeeps DEF ClockTick
<1>5. QED
  BY <1>1, <1>2, <1>3, <1>4 DEF Next

LEMMA WindowStarts == Init => WindowInv
<1> SUFFICES ASSUME WindowInit PROVE WindowInv
  BY DEF Init
<1> DEFINE T == 0..MaxTime
<1>1. /\ now = 0 /\ offset = 0 /\ lastTime = 0
      /\ bkt = [i \in Ring |-> Empty] /\ log = [t \in T |-> Empty]
  BY DEF WindowInit
<1>2. /\ MaxTime \in Nat /\ MaxEvents \in Nat /\ Interval \in Nat \ {0} /\ Size \in Nat \ {0}
  BY WindowAssumption
<1>3. Empty \in [Kinds -> Nat] /\ \A e \in Kinds : Empty[e] = 0
  BY DEF Empty
<1>4. Turn = 0
  BY <1>1, <1>2 DEF Turn
<1>5. /\ bkt \in [Ring -> [Kinds -> Nat]] /\ log \in [T -> [Kinds -> Nat]]
      /\ \A i \in Ring : bkt[i] = Empty
      /\ \A t \in T : log[t] = Empty
  BY <1>1, <1>3
<1>6. now \in T /\ offset \in Ring /\ lastTime \in 0..now /\ lastTime = Turn * Interval
  BY <1>1, <1>2, <1>4 DEF Ring
<1>7. ASSUME NEW k \in Ring, NEW e \in Kinds
      PROVE  bkt[Behind(offset, k)][e] = EventsOf(log, e, Turn - k)
  <2>1. offset \in Ring /\ 0 \in 0..Size
    BY <1>2, <1>6
  <2>2. Behind(offset, k) \in Ring
    BY <2>1, BehindAhead
  <2>3. \A t \in Instants(Turn - k) : log[t] = Empty
    BY <1>5 DEF Instants
  <2>4. EventsOf(log, e, Turn - k) = 0
    BY <1>5, <2>3, EventsAre
  <2>5. QED
    BY <1>3, <1>5, <2>2, <2>4
<1>8. SumOver(AllLog(log), T) <= MaxEvents
  <2> DEFINE f == AllLog(log)
  <2>1. IsFiniteSet(T) /\ {} \in SUBSET T /\ IsFiniteSet({})
    BY <1>2, FS_Interval, FS_EmptySet
  <2>2. \A t \in T : f[t] = 0
    <3>1. Total(Empty) = 0
      BY <1>3 DEF Total, Kinds
    <3>2. QED
      BY <1>5, <3>1 DEF AllLog
  <2>3. \A t \in T : f[t] \in Nat
    BY <2>2
  <2>4. \A t \in T \ {} : f[t] = 0
    BY <2>2
  <2> HIDE DEF f, T
  <2>5. SumOver(f, {}) = SumOver(f, T) /\ SumOver(f, {}) = 0
    BY <2>1, <2>3, <2>4, SumDropsZeros, SumStep
  <2>6. QED
    BY <1>2, <2>5 DEF f
<1>9. QED
  BY <1>5, <1>6, <1>7, <1>8 DEF WindowInv

-----------------------------------------------------------------------------
(* What history makes of it. *)

\* An age is an interval.
LEMMA LoggedIs ==
    ASSUME WindowInv, NEW e \in Kinds, NEW a \in Nat
    PROVE  /\ Logged(e, a) = EventsOf(log, e, (now \div Interval) - a)
           /\ Logged(e, a) \in Nat
<1> DEFINE q == now \div Interval
           S == {t \in 0..MaxTime : q - (t \div Interval) = a}
<1>1. q \in Nat /\ \A t \in 0..MaxTime : t \div Interval \in Nat
  <2>1. now \in Nat /\ Interval \in Nat \ {0} /\ MaxTime \in Nat
    BY WindowAssumption DEF WindowInv
  <2>2. QED
    BY <2>1, DivIs
<1> HIDE DEF q
<1>2. S = Instants(q - a)
  <2>1. ASSUME NEW t \in 0..MaxTime PROVE q - (t \div Interval) = a <=> t \div Interval = q - a
    <3>1. t \div Interval \in Nat
      BY <1>1
    <3>2. QED
      BY <1>1, <3>1
  <2>2. QED
    BY <2>1 DEF Instants
<1>3. Logged(e, a) = MapThenSumSet(LAMBDA t : log[t][e], S)
  BY DEF Logged, q
<1>4. S \in SUBSET (0..MaxTime)
  OBVIOUS
<1> HIDE DEF S
<1>5. Logged(e, a) = SumOver(KindLog(log, e), S)
  BY <1>3, <1>4, SumOfKind
<1>6. EventsOf(log, e, q - a) \in Nat
  <2>1. log \in [0..MaxTime -> [Kinds -> Nat]]
    BY DEF WindowInv
  <2>2. QED
    BY <2>1, EventsAre
<1>7. QED
  BY <1>2, <1>5, <1>6 DEF EventsOf, q

\* history visits the ages from the oldest that has not expired to 0; the others are
\* empty.
LEMMA VisitedIs ==
    ASSUME WindowInv, NEW n \in 1..Size, NEW e \in Kinds
    PROVE  /\ n \in DOMAIN Visited => Visited[n][e] = Logged(e, Size - n)
           /\ n \notin DOMAIN Visited => Logged(e, Size - n) = 0
<1> DEFINE q == now \div Interval
           sp == Span(now)
           K == Turn
<1>1. Size \in Nat \ {0}
  BY WindowAssumption
<1>2. /\ q \in Nat /\ K \in Nat /\ K <= q /\ sp \in 0..Size
      /\ sp = (IF q - K < Size THEN q - K ELSE Size)
  BY SpanIs
<1>3. /\ DOMAIN Visited = 1..(Size - sp)
      /\ n \in 1..(Size - sp) => Visited[n] = bkt[(offset + sp + n) % Size]
  BY DEF Visited
<1>4. Size - n \in Nat /\ Logged(e, Size - n) = EventsOf(log, e, q - (Size - n))
  BY <1>1, LoggedIs
<1>5. offset \in Ring /\ log \in [0..MaxTime -> [Kinds -> Nat]]
  BY DEF WindowInv
<1>6. \A k \in Ring : bkt[Behind(offset, k)][e] = EventsOf(log, e, K - k)
  BY DEF WindowInv
<1>7. \A t \in 0..MaxTime : t \div Interval > K => log[t] = Empty
  BY DEF WindowInv
<1> HIDE DEF q, sp, K
<1>8. CASE n \in 1..(Size - sp)
  <2> DEFINE k == Size - sp - n
  <2>1. k \in Ring /\ sp + n \in 0..Size /\ offset + sp + n = offset + (sp + n)
    BY <1>1, <1>2, <1>5, <1>8 DEF Ring
  <2>2. (offset + (sp + n)) % Size = Ahead(offset, sp + n)
    BY <1>5, <2>1, AheadIs
  <2>3. Ahead(offset, sp + n) = Behind(offset, k)
    BY <1>1, <1>2, <1>5, <1>8 DEF Ahead, Behind, Ring
  <2>4. K - k = q - (Size - n)
    BY <1>1, <1>2, <1>8
  <2> HIDE DEF k
  <2>5. Visited[n][e] = EventsOf(log, e, q - (Size - n))
    BY <1>3, <1>6, <1>8, <2>1, <2>2, <2>3, <2>4
  <2>6. QED
    BY <1>3, <1>4, <1>8, <2>5
<1>9. CASE n \notin 1..(Size - sp)
  <2>1. q - (Size - n) > K
    BY <1>1, <1>2, <1>9
  <2>2. \A t \in Instants(q - (Size - n)) : log[t] = Empty
    BY <1>7, <2>1 DEF Instants
  <2>3. EventsOf(log, e, q - (Size - n)) = 0
    BY <1>5, <2>2, EventsAre
  <2>4. QED
    BY <1>3, <1>4, <1>9, <2>3
<1>10. QED
  BY <1>8, <1>9

\* The fold of history, step by step.
Step(h, n) == IF n = 0 THEN Zero
              ELSE IF n \in DOMAIN Visited THEN Aggregate(h[n - 1], Visited[n])
              ELSE h[n - 1]
Folded == CHOOSE h : h = [n \in 0..Size |-> Step(h, n)]

\* The recursion of History has a solution: by induction over the steps.
LEMMA HistoryIs ==
    /\ History = Folded[Size]
    /\ \A n \in 0..Size : Folded[n] = Step(Folded, n)
<1> DEFINE H == CHOOSE h : h = [n \in 0..Size |->
                  IF n = 0 THEN Zero
                  ELSE IF n \in DOMAIN Visited THEN Aggregate(h[n - 1], Visited[n])
                  ELSE h[n - 1]]
           T == {m \in Nat : \E h : h = [n \in 0..m |-> Step(h, n)]}
<1>1. History = H[Size]
  BY DEF History
<1>2. H = Folded
  BY DEF Folded, Step
<1> HIDE DEF H
<1>3. 0 \in T
  <2> DEFINE h == [n \in 0..0 |-> Zero]
  <2>1. \A n \in 0..0 : Step(h, n) = Zero
    BY DEF Step
  <2>2. h = [n \in 0..0 |-> Step(h, n)]
    BY <2>1
  <2> HIDE DEF h
  <2>3. QED
    BY <2>2
<1>4. ASSUME NEW m \in T PROVE m + 1 \in T
  <2>1. m \in Nat /\ \E h : h = [n \in 0..m |-> Step(h, n)]
    OBVIOUS
  <2>2. PICK h : h = [n \in 0..m |-> Step(h, n)]
    BY <2>1
  <2> DEFINE g == [n \in 0..(m + 1) |-> Step(h, n)]
  <2>3. \A n \in 0..m : n \in 0..(m + 1) /\ g[n] = h[n]
    <3> SUFFICES ASSUME NEW n \in 0..m PROVE n \in 0..(m + 1) /\ g[n] = h[n]
      OBVIOUS
    <3>1. n \in 0..(m + 1)
      BY <2>1
    <3>2. g[n] = Step(h, n)
      BY <3>1
    <3> HIDE DEF g
    <3>3. h[n] = Step(h, n)
      BY <2>2
    <3>4. QED
      BY <3>1, <3>2, <3>3
  <2>4. ASSUME NEW n \in 0..(m + 1) PROVE Step(g, n) = Step(h, n)
    <3>1. CASE n = 0
      BY <3>1 DEF Step
    <3>2. CASE n # 0
      <4>1. n - 1 \in 0..m
        BY <2>1, <3>2
      <4>2. g[n - 1] = h[n - 1]
        BY <2>3, <4>1
      <4> HIDE DEF g
      <4>3. QED
        BY <3>2, <4>2 DEF Step
    <3>3. QED
      BY <3>1, <3>2
  <2>5. g = [n \in 0..(m + 1) |-> Step(g, n)]
    BY <2>4
  <2> HIDE DEF g
  <2>6. QED
    BY <2>1, <2>5
<1>5. Size \in T
  <2> HIDE DEF T
  <2>1. T \subseteq Nat
    BY DEF T
  <2>2. T = Nat
    BY <1>3, <1>4, <2>1, AllNumbers
  <2>3. QED
    BY <2>2, WindowAssumption
<1>6. Folded = [n \in 0..Size |-> Step(Folded, n)]
  BY <1>5 DEF Folded
<1>7. QED
  BY <1>1, <1>2, <1>6

\* The ages that the first n steps have seen, and among them those with events of kind
\* s and none of kind f since.
Ages(n) == (Size - n)..(Size - 1)
RunOf(s, f, n) == {a \in Ages(n) : s[a] > 0 /\ \A b \in (Size - n)..a : f[b] = 0}

\* A step sees one age more, and it is the youngest.
LEMMA AgesGrow ==
    ASSUME NEW n \in 0..(Size - 1)
    PROVE  /\ IsFiniteSet(Ages(n)) /\ IsFiniteSet(Ages(n + 1))
           /\ Size - (n + 1) \in Ages(n + 1) /\ Ages(n + 1) \ {Size - (n + 1)} = Ages(n)
           /\ Ages(n + 1) \subseteq 0..(Size - 1) /\ Size - (n + 1) \notin Ages(n)
<1>1. Size \in Nat \ {0}
  BY WindowAssumption
<1>2. \A x, y \in Int : IsFiniteSet(x..y)
  BY FS_Interval
<1>3. IsFiniteSet(Ages(n)) /\ IsFiniteSet(Ages(n + 1))
  BY <1>1, <1>2 DEF Ages
<1>4. QED
  BY <1>1, <1>3 DEF Ages

LEMMA SumGrows ==
    ASSUME NEW f, NEW n \in 0..(Size - 1), \A a \in 0..(Size - 1) : f[a] \in Nat
    PROVE  /\ SumOver(f, Ages(n)) \in Nat
           /\ SumOver(f, Ages(n + 1)) = SumOver(f, Ages(n)) + f[Size - (n + 1)]
<1> DEFINE U == Ages(n + 1)
           z == Size - (n + 1)
           V == Ages(n)
<1>1. /\ IsFiniteSet(U) /\ IsFiniteSet(V) /\ z \in U /\ U \ {z} = V
      /\ \A a \in U : f[a] \in Nat
      /\ \A a \in V : f[a] \in Nat
  BY AgesGrow
<1> HIDE DEF U, V, z
<1>2. SumOver(f, V) \in Nat /\ f[z] \in Nat
  BY <1>1, SumIsNat
<1>3. SumOver(f, U) = f[z] + SumOver(f, U \ {z})
  BY <1>1, SumAdd
<1>4. SumOver(f, U) = SumOver(f, V) + f[z]
  BY <1>1, <1>2, <1>3
<1>5. QED
  BY <1>2, <1>4 DEF U, V, z

LEMMA RunGrows ==
    ASSUME NEW s, NEW f, NEW n \in 0..(Size - 1),
           \A a \in 0..(Size - 1) : s[a] \in Nat /\ f[a] \in Nat
    PROVE  LET z == Size - (n + 1) IN
           /\ Cardinality(RunOf(s, f, n)) \in Nat
           /\ f[z] > 0 => Cardinality(RunOf(s, f, n + 1)) = 0
           /\ f[z] = 0 /\ s[z] > 0 =>
                Cardinality(RunOf(s, f, n + 1)) = Cardinality(RunOf(s, f, n)) + 1
           /\ f[z] = 0 /\ s[z] = 0 => RunOf(s, f, n + 1) = RunOf(s, f, n)
<1> DEFINE z == Size - (n + 1)
           U == RunOf(s, f, n + 1)
           V == RunOf(s, f, n)
<1>1. Size \in Nat \ {0}
  BY WindowAssumption
<1>2. /\ IsFiniteSet(Ages(n)) /\ z \in Ages(n + 1) /\ Ages(n + 1) \ {z} = Ages(n)
      /\ z \notin Ages(n) /\ Ages(n + 1) \subseteq 0..(Size - 1)
  BY AgesGrow
<1>3. z \in 0..(Size - 1) /\ z + 1 = Size - n /\ s[z] \in Nat /\ f[z] \in Nat
  BY <1>1
<1>4. IsFiniteSet(V) /\ Cardinality(V) \in Nat /\ V \subseteq Ages(n)
  BY <1>2, FS_Subset, FS_CardinalityType DEF RunOf
<1>5. U = {a \in Ages(n + 1) : s[a] > 0 /\ \A b \in z..a : f[b] = 0}
  BY DEF RunOf
<1>6. V = {a \in Ages(n) : s[a] > 0 /\ \A b \in (z + 1)..a : f[b] = 0}
  BY <1>3 DEF RunOf
<1>7. \A a \in Ages(n + 1) : a \in Int /\ z <= a
  BY <1>1 DEF Ages
<1> HIDE DEF U, V, z
<1>8. CASE f[z] > 0
  <2>1. \A a \in Ages(n + 1) : z \in z..a
    BY <1>3, <1>7
  <2>2. U = {}
    BY <1>3, <1>5, <1>8, <2>1
  <2>3. Cardinality(U) = 0
    BY <2>2, FS_EmptySet
  <2>4. ~(f[z] = 0)
    BY <1>3, <1>8
  <2>5. QED
    BY <1>4, <2>3, <2>4 DEF U, V, z
<1>9. CASE f[z] = 0
  <2>1. ASSUME NEW a \in Ages(n)
        PROVE  (\A b \in z..a : f[b] = 0) <=> (\A b \in (z + 1)..a : f[b] = 0)
    <3>1. a \in Ages(n + 1) /\ a \in Int /\ z <= a
      BY <1>2, <1>7
    <3>2. \A b \in z..a : b = z \/ b \in (z + 1)..a
      BY <1>3, <3>1
    <3>3. \A b \in (z + 1)..a : b \in z..a
      BY <1>3, <3>1
    <3>4. QED
      BY <1>9, <3>2, <3>3
  <2>2. \A b \in z..z : f[b] = 0
    BY <1>3, <1>9
  <2>3. \A a \in Ages(n) : a \in Ages(n + 1)
    BY <1>2
  <2>4. \A a : a \in U <=> a \in V \/ (a = z /\ s[z] > 0)
    BY <1>2, <1>5, <1>6, <2>1, <2>2, <2>3
  <2>5. CASE s[z] > 0
    <3>1. U = V \union {z} /\ z \notin V
      BY <1>2, <1>4, <2>4, <2>5
    <3>2. Cardinality(U) = Cardinality(V) + 1
      BY <1>4, <3>1, FS_AddElement
    <3>3. QED
      BY <1>3, <1>4, <1>9, <2>5, <3>2 DEF U, V, z
  <2>6. CASE s[z] = 0
    <3>1. \A a : a \in U <=> a \in V
      BY <2>4, <2>6
    <3>2. U = V
      BY <3>1
    <3>3. QED
      BY <1>3, <1>4, <1>9, <2>6, <3>2 DEF U, V, z
  <2>7. QED
    BY <1>3, <2>5, <2>6
<1>10. QED
  BY <1>3, <1>8, <1>9

\* What the first n steps of history make of the log.
Seen(n) ==
    [accepts |-> SumOver(AgeLog("success"), Ages(n)),
     total |-> SumOver(AgeAll, Ages(n)),
     working |-> Cardinality(RunOf(AgeLog("success"), AgeLog("fail"), n)),
     failing |-> Cardinality(RunOf(AgeLog("fail"), AgeLog("success"), n))]

\* By induction over the steps, oldest bucket first.
LEMMA HistoryTells ==
    ASSUME WindowInv
    PROVE  History = Seen(Size)
<1> DEFINE T == {m \in Nat : m <= Size => Folded[m] = Seen(m)}
           s == AgeLog("success")
           f == AgeLog("fail")
           d == AgeLog("drop")
           u == AgeAll
<1>1. Size \in Nat \ {0}
  BY WindowAssumption
<1>2. \A n \in 0..Size : Folded[n] = Step(Folded, n)
  BY HistoryIs
<1>3. ASSUME NEW a \in 0..(Size - 1)
      PROVE  /\ s[a] = Logged("success", a) /\ f[a] = Logged("fail", a) /\ d[a] = Logged("drop", a)
             /\ s[a] \in Nat /\ f[a] \in Nat /\ d[a] \in Nat /\ u[a] = s[a] + f[a] + d[a]
  <2>1. a \in Nat /\ "success" \in Kinds /\ "fail" \in Kinds /\ "drop" \in Kinds
    BY DEF Kinds
  <2>2. Logged("success", a) \in Nat /\ Logged("fail", a) \in Nat /\ Logged("drop", a) \in Nat
    BY <2>1, LoggedIs
  <2>3. QED
    BY <2>2 DEF AgeLog, AgeAll
<1>4. Ages(0) = {}
  BY <1>1 DEF Ages
<1>5. \A n : Seen(n) = [accepts |-> SumOver(s, Ages(n)), total |-> SumOver(u, Ages(n)),
                        working |-> Cardinality(RunOf(s, f, n)),
                        failing |-> Cardinality(RunOf(f, s, n))]
  BY DEF Seen
<1> HIDE DEF s, f, d, u
<1>6. \A a \in 0..(Size - 1) : s[a] \in Nat /\ f[a] \in Nat /\ u[a] \in Nat
  <2> SUFFICES ASSUME NEW a \in 0..(Size - 1) PROVE s[a] \in Nat /\ f[a] \in Nat /\ u[a] \in Nat
    OBVIOUS
  <2>1. QED
    BY <1>3
<1>7. 0 \in T
  <2>1. \A g : SumOver(g, {}) = 0
    BY SumStep, FS_EmptySet
  <2>2. RunOf(s, f, 0) = {} /\ RunOf(f, s, 0) = {}
    BY <1>4 DEF RunOf
  <2>3. Cardinality({}) = 0
    BY FS_EmptySet
  <2>4. Seen(0) = Zero
    BY <1>4, <1>5, <2>1, <2>2, <2>3 DEF Zero
  <2>5. Folded[0] = Zero
    BY <1>1, <1>2 DEF Step
  <2>6. QED
    BY <2>4, <2>5
<1>8. ASSUME NEW n \in T PROVE n + 1 \in T
  <2> SUFFICES ASSUME n + 1 <= Size PROVE Folded[n + 1] = Seen(n + 1)
    OBVIOUS
  <2> DEFINE m == n + 1
             z == Size - (n + 1)
             r == Folded[n]
             b == Visited[m]
  <2>1. /\ n \in Nat /\ n \in 0..(Size - 1) /\ m \in 1..Size /\ m \in 0..Size /\ m # 0 /\ m - 1 = n
        /\ z \in 0..(Size - 1)
    BY <1>1
  <2>2. r = Seen(n)
    <3>1. n \in {k \in Nat : k <= Size => Folded[k] = Seen(k)}
      OBVIOUS
    <3>2. n <= Size
      BY <1>1, <2>1
    <3>3. Folded[n] = Seen(n)
      BY <3>1, <3>2
    <3>4. QED
      BY <3>3
  <2>3. /\ SumOver(s, Ages(n)) \in Nat /\ SumOver(s, Ages(m)) = SumOver(s, Ages(n)) + s[z]
        /\ SumOver(u, Ages(n)) \in Nat /\ SumOver(u, Ages(m)) = SumOver(u, Ages(n)) + u[z]
    <3>1. (\A a \in 0..(Size - 1) : s[a] \in Nat) /\ (\A a \in 0..(Size - 1) : u[a] \in Nat)
      BY <1>6
    <3>2. QED
      BY <2>1, <3>1, SumGrows
  <2>4. /\ Cardinality(RunOf(s, f, n)) \in Nat
        /\ f[z] > 0 => Cardinality(RunOf(s, f, m)) = 0
        /\ f[z] = 0 /\ s[z] > 0 => Cardinality(RunOf(s, f, m)) = Cardinality(RunOf(s, f, n)) + 1
        /\ f[z] = 0 /\ s[z] = 0 => RunOf(s, f, m) = RunOf(s, f, n)
    <3>1. \A a \in 0..(Size - 1) : s[a] \in Nat /\ f[a] \in Nat
      BY <1>6
    <3>2. QED
      BY <2>1, <3>1, RunGrows
  <2>5. /\ Cardinality(RunOf(f, s, n)) \in Nat
        /\ s[z] > 0 => Cardinality(RunOf(f, s, m)) = 0
        /\ s[z] = 0 /\ f[z] > 0 => Cardinality(RunOf(f, s, m)) = Cardinality(RunOf(f, s, n)) + 1
        /\ s[z] = 0 /\ f[z] = 0 => RunOf(f, s, m) = RunOf(f, s, n)
    <3>1. \A a \in 0..(Size - 1) : f[a] \in Nat /\ s[a] \in Nat
      BY <1>6
    <3>2. QED
      BY <2>1, <3>1, RunGrows
  <2>6. s[z] \in Nat /\ f[z] \in Nat /\ d[z] \in Nat /\ u[z] = s[z] + f[z] + d[z]
    BY <1>3, <2>1
  <2>7. Folded[m] = IF m \in DOMAIN Visited THEN Aggregate(r, b) ELSE r
    BY <1>2, <2>1 DEF Step
  <2>8. /\ m \in DOMAIN Visited => b["success"] = s[z] /\ b["fail"] = f[z] /\ b["drop"] = d[z]
        /\ m \notin DOMAIN Visited => s[z] = 0 /\ f[z] = 0 /\ d[z] = 0
    <3>1. "success" \in Kinds /\ "fail" \in Kinds /\ "drop" \in Kinds
      BY DEF Kinds
    <3>2. /\ m \in DOMAIN Visited => /\ b["success"] = Logged("success", z)
                                     /\ b["fail"] = Logged("fail", z)
                                     /\ b["drop"] = Logged("drop", z)
          /\ m \notin DOMAIN Visited => /\ Logged("success", z) = 0
                                        /\ Logged("fail", z) = 0
                                        /\ Logged("drop", z) = 0
      BY <2>1, <3>1, VisitedIs
    <3>3. s[z] = Logged("success", z) /\ f[z] = Logged("fail", z) /\ d[z] = Logged("drop", z)
      BY <1>3, <2>1
    <3>4. QED
      BY <3>2, <3>3
  <2>9. /\ r.accepts = SumOver(s, Ages(n)) /\ r.total = SumOver(u, Ages(n))
        /\ r.working = Cardinality(RunOf(s, f, n)) /\ r.failing = Cardinality(RunOf(f, s, n))
    BY <1>5, <2>2
  <2>10. r = [accepts |-> SumOver(s, Ages(n)), total |-> SumOver(u, Ages(n)),
              working |-> Cardinality(RunOf(s, f, n)), failing |-> Cardinality(RunOf(f, s, n))]
    BY <1>5, <2>2
  <2>11. Seen(m) = [accepts |-> SumOver(s, Ages(m)), total |-> SumOver(u, Ages(m)),
                    working |-> Cardinality(RunOf(s, f, m)),
                    failing |-> Cardinality(RunOf(f, s, m))]
    BY <1>5
  <2>12. Aggregate(r, b) =
           [accepts |-> r.accepts + b["success"], total |-> r.total + Total(b),
            working |-> IF b["fail"] > 0 THEN 0
                        ELSE IF b["success"] > 0 THEN r.working + 1 ELSE r.working,
            failing |-> IF b["success"] > 0 THEN 0
                        ELSE IF b["fail"] > 0 THEN r.failing + 1 ELSE r.failing]
    BY DEF Aggregate
  <2>13. Total(b) = b["success"] + b["fail"] + b["drop"]
    BY DEF Total
  <2> DEFINE A0 == SumOver(s, Ages(n))
             A1 == SumOver(s, Ages(m))
             U0 == SumOver(u, Ages(n))
             U1 == SumOver(u, Ages(m))
             W0 == Cardinality(RunOf(s, f, n))
             W1 == Cardinality(RunOf(s, f, m))
             F0 == Cardinality(RunOf(f, s, n))
             F1 == Cardinality(RunOf(f, s, m))
  <2>14. CASE m \in DOMAIN Visited
    <3>1. A1 = r.accepts + b["success"] /\ U1 = r.total + Total(b)
      BY <2>3, <2>6, <2>8, <2>9, <2>13, <2>14
    <3>2. W1 = IF b["fail"] > 0 THEN 0
               ELSE IF b["success"] > 0 THEN r.working + 1 ELSE r.working
      BY <2>4, <2>6, <2>8, <2>9, <2>14
    <3>3. F1 = IF b["success"] > 0 THEN 0
               ELSE IF b["fail"] > 0 THEN r.failing + 1 ELSE r.failing
      BY <2>5, <2>6, <2>8, <2>9, <2>14
    <3>4. QED
      BY <2>7, <2>11, <2>12, <2>14, <3>1, <3>2, <3>3
  <2>15. CASE m \notin DOMAIN Visited
    <3>1. A1 = A0 /\ U1 = U0
      BY <2>3, <2>6, <2>8, <2>15
    <3>2. W1 = W0 /\ F1 = F0
      BY <2>4, <2>5, <2>8, <2>15
    <3>3. QED
      BY <2>7, <2>10, <2>11, <2>15, <3>1, <3>2
  <2>16. QED
    BY <2>14, <2>15
<1>9. Size \in T
  <2> HIDE DEF T
  <2>1. T \subseteq Nat
    BY DEF T
  <2>2. T = Nat
    BY <1>7, <1>8, <2>1, AllNumbers
  <2>3. QED
    BY <1>1, <2>2
<1>10. QED
  BY <1>1, <1>9, HistoryIs

LEMMA WindowImplies == WindowInv => WindowExact
<1> SUFFICES ASSUME WindowInv PROVE TypeOK /\ HistoryExact /\ RunLengths
  BY DEF WindowExact
<1> DEFINE S == 0..(Size - 1)
<1>1. Size \in Nat \ {0} /\ MaxTime \in Nat /\ MaxEvents \in Nat
  BY WindowAssumption
<1>2. History = Seen(Size) /\ Ages(Size) = S
  BY <1>1, HistoryTells DEF Ages
<1>3. HistoryExact
  <2>1. S \in SUBSET (0..(Size - 1))
    OBVIOUS
  <2> HIDE DEF S
  <2>2. MapThenSumSet(LAMBDA a : Logged("success", a), S) = SumOver(AgeLog("success"), S)
    BY <2>1, SumOfAge
  <2>3. MapThenSumSet(LAMBDA a : Logged("success", a) + Logged("fail", a) + Logged("drop", a), S)
          = SumOver(AgeAll, S)
    BY <2>1, SumOfAges
  <2>4. History.accepts = SumOver(AgeLog("success"), S) /\ History.total = SumOver(AgeAll, S)
    BY <1>2 DEF Seen
  <2>5. QED
    BY <2>2, <2>3, <2>4 DEF HistoryExact, S
<1>4. RunLengths
  <2>1. ASSUME NEW s \in Kinds, NEW f \in Kinds
        PROVE  RunOf(AgeLog(s), AgeLog(f), Size) =
                 {a \in S : Logged(s, a) > 0 /\ \A b \in 0..a : Logged(f, b) = 0}
    <3>1. \A a \in S : AgeLog(s)[a] = Logged(s, a) /\ AgeLog(f)[a] = Logged(f, a)
      BY DEF AgeLog
    <3>2. \A a \in S : \A b \in 0..a : b \in S
      BY <1>1
    <3>3. Size - Size = 0
      BY <1>1
    <3> HIDE DEF S
    <3>4. QED
      BY <1>2, <3>1, <3>2, <3>3 DEF RunOf
  <2>2. "success" \in Kinds /\ "fail" \in Kinds
    BY DEF Kinds
  <2>3. /\ History.working = Cardinality(RunOf(AgeLog("success"), AgeLog("fail"), Size))
        /\ History.failing = Cardinality(RunOf(AgeLog("fail"), AgeLog("success"), Size))
    BY <1>2 DEF Seen
  <2>4. QED
    BY <2>1, <2>2, <2>3 DEF RunLengths
<1>5. TypeOK
  <2>1. /\ now \in 0..MaxTime /\ offset \in Ring /\ lastTime \in 0..now
        /\ bkt \in [Ring -> [Kinds -> Nat]]
        /\ log \in [0..MaxTime -> [Kinds -> Nat]]
        /\ SumOver(AllLog(log), 0..MaxTime) <= MaxEvents
    BY DEF WindowInv
  <2>2. SumOver(AllLog(log), 0..MaxTime) \in Nat
    <3>1. IsFiniteSet(0..MaxTime)
      BY <1>1, FS_Interval
    <3>2. \A t \in 0..MaxTime : AllLog(log)[t] \in Nat
      BY <2>1 DEF AllLog, Total, Kinds
    <3>3. QED
      BY <3>1, <3>2, SumIsNat
  <2>3. ASSUME NEW e \in Kinds, NEW i PROVE EventsOf(log, e, i) \in 0..MaxEvents
    <3>1. EventsOf(log, e, i) \in Nat /\ EventsOf(log, e, i) <= SumOver(AllLog(log), 0..MaxTime)
      BY <2>1, EventsAre
    <3>2. QED
      BY <1>1, <2>1, <2>2, <3>1
  <2>4. ASSUME NEW i \in Ring, NEW e \in Kinds PROVE bkt[i][e] \in 0..MaxEvents
    <3>1. PICK k \in Ring : i = Behind(offset, k)
      BY <2>1, AllBehind
    <3>2. bkt[Behind(offset, k)][e] = EventsOf(log, e, Turn - k)
      BY DEF WindowInv
    <3>3. QED
      BY <2>3, <3>1, <3>2
  <2>5. ASSUME NEW t \in 0..MaxTime, NEW e \in Kinds PROVE log[t][e] \in 0..MaxEvents
    <3> DEFINE f == AllLog(log)
               I == 0..MaxTime
    <3>1. IsFiniteSet(I) /\ t \in I
      BY <1>1, FS_Interval
    <3>2. \A x \in I : f[x] \in Nat
      BY <2>1 DEF AllLog, Total, Kinds
    <3>3. log[t][e] <= f[t] /\ log[t][e] \in Nat
      <4>1. log[t]["success"] \in Nat /\ log[t]["fail"] \in Nat /\ log[t]["drop"] \in Nat
        BY <2>1 DEF Kinds
      <4>2. f[t] = log[t]["success"] + log[t]["fail"] + log[t]["drop"]
        BY DEF AllLog, Total
      <4> HIDE DEF f
      <4>3. e = "success" \/ e = "fail" \/ e = "drop"
        BY DEF Kinds
      <4>4. CASE e = "success"
        BY <4>1, <4>2, <4>4
      <4>5. CASE e = "fail"
        BY <4>1, <4>2, <4>5
      <4>6. CASE e = "drop"
        BY <4>1, <4>2, <4>6
      <4>7. QED
        BY <4>3, <4>4, <4>5, <4>6
    <3> HIDE DEF f, I
    <3>4. f[t] <= SumOver(f, I) /\ SumOver(f, I) \in Nat
      BY <3>1, <3>2, SumHas
    <3>5. SumOver(f, I) <= MaxEvents /\ f[t] \in Nat
      BY <2>1, <3>1, <3>2 DEF f, I
    <3>6. QED
      BY <1>1, <3>3, <3>4, <3>5
  <2>6. /\ bkt \in [Ring -> [Kinds -> 0..MaxEvents]]
        /\ log \in [0..MaxTime -> [Kinds -> 0..MaxEvents]]
    BY <2>1, <2>4, <2>5
  <2>7. QED
    BY <2>1, <2>6 DEF TypeOK
<1>6. QED
  BY <1>3, <1>4, <1>5

\* "Aggregates all non-expired buckets" (rolling window of the breaker, whose two clock
\* reads agree): history's totals are those of the last Size intervals, its runs of
\* working and of failing buckets are the ones of the log.
THEOREM WindowStaysExact ==
    ASSUME Skew = 0
    PROVE  MCSpec => []WindowExact
<1>1. MCInit => WindowInv
  BY WindowStarts DEF MCInit
<1>2. WindowInv /\ [MCNext]_<<which, vars, cVars, rVars, limiters>> => WindowInv'
  <2> SUFFICES ASSUME WindowInv, [MCNext]_<<which, vars, cVars, rVars, limiters>>
               PROVE  WindowInv'
    OBVIOUS
  <2>1. CASE Next
    BY <2>1, WindowKeeps
  <2>2. CASE RingStep
    BY <2>2, WindowTickKeeps, AddKeeps DEF RingStep
  <2>3. CASE UNCHANGED vars
    BY <2>3, WindowStays DEF vars
  <2>4. QED
    BY <2>1, <2>2, <2>3 DEF MCNext, AskStep
<1>3. WindowInv => WindowExact
  BY WindowImplies
<1>4. QED
  BY <1>1, <1>2, <1>3, PTL DEF MCSpec


-----------------------------------------------------------------------------
(* Powers of two. *)

\* g has the powers up to N.
Powers(N, g) == g = [n \in 0..N |-> IF n = 0 THEN 1 ELSE 2 * g[n - 1]]

\* There is one such function for every N: Pow2 is what they agree on.
LEMMA PowersAgree ==
    ASSUME NEW N \in Nat, NEW M \in Nat, NEW g, NEW h, Powers(N, g), Powers(M, h)
    PROVE  \A n \in Nat : n <= N /\ n <= M => g[n] = h[n]
<1> DEFINE T == {n \in Nat : n <= N /\ n <= M => g[n] = h[n]}
<1>1. 0 \in T
  BY DEF Powers
<1>2. \A n \in T : n + 1 \in T
  <2> SUFFICES ASSUME NEW n \in T, n + 1 <= N, n + 1 <= M
               PROVE  g[n + 1] = h[n + 1]
    OBVIOUS
  <2>1. g[n] = h[n] /\ n \in Nat
    OBVIOUS
  <2>2. g[n + 1] = 2 * g[n]
    BY <2>1 DEF Powers
  <2>3. h[n + 1] = 2 * h[n]
    BY <2>1 DEF Powers
  <2>4. QED
    BY <2>1, <2>2, <2>3
<1> HIDE DEF T
<1>3. T \subseteq Nat
  BY DEF T
<1>4. T = Nat
  BY <1>1, <1>2, <1>3, AllNumbers
<1>5. QED
  BY <1>4 DEF T

LEMMA PowersExist == \A N \in Nat : \E g : Powers(N, g)
<1> DEFINE T == {N \in Nat : \E g : Powers(N, g)}
<1>1. 0 \in T
  <2> DEFINE g == [n \in 0..0 |-> 1]
  <2>1. Powers(0, g)
    BY DEF Powers
  <2>2. QED
    BY <2>1
<1>2. \A N \in T : N + 1 \in T
  <2> SUFFICES ASSUME NEW N \in T PROVE \E g : Powers(N + 1, g)
    OBVIOUS
  <2>1. PICK g : Powers(N, g)
    OBVIOUS
  <2> DEFINE k == [n \in 0..(N + 1) |-> IF n = N + 1 THEN 2 * g[N] ELSE g[n]]
             step(f, n) == IF n = 0 THEN 1 ELSE 2 * f[n - 1]
  <2>2. \A n \in 0..(N + 1) : k[n] = step(k, n)
    <3> SUFFICES ASSUME NEW n \in 0..(N + 1) PROVE k[n] = step(k, n)
      OBVIOUS
    <3>1. CASE n = N + 1
      <4>1. N \in 0..(N + 1) /\ N # N + 1 /\ n # 0 /\ n - 1 = N
        BY <3>1
      <4>2. k[N] = g[N] /\ k[n] = 2 * g[N]
        BY <3>1, <4>1
      <4>3. QED
        BY <4>1, <4>2
    <3>2. CASE n # N + 1
      <4>1. n \in 0..N /\ k[n] = g[n]
        BY <3>2
      <4>2. g[n] = step(g, n)
        BY <2>1, <4>1 DEF Powers
      <4>3. n # 0 => n - 1 \in 0..(N + 1) /\ n - 1 # N + 1
        BY <4>1
      <4>4. n # 0 => k[n - 1] = g[n - 1]
        BY <4>3
      <4>5. QED
        BY <4>1, <4>2, <4>4
    <3>3. QED
      BY <3>1, <3>2
  <2>3. k = [n \in 0..(N + 1) |-> step(k, n)]
    <3> DEFINE m == [n \in 0..(N + 1) |-> step(k, n)]
    <3>1. \A n \in 0..(N + 1) : k[n] = m[n]
      BY <2>2
    <3>2. k = [n \in 0..(N + 1) |-> k[n]] /\ m = [n \in 0..(N + 1) |-> m[n]]
      OBVIOUS
    <3> HIDE DEF k, m
    <3>3. k = m
      BY <3>1, <3>2
    <3>4. QED
      BY <3>3 DEF m
  <2>4. Powers(N + 1, k)
    BY <2>3 DEF Powers
  <2>5. QED
    BY <2>4
<1> HIDE DEF T
<1>3. T \subseteq Nat
  BY DEF T
<1>4. T = Nat
  BY <1>1, <1>2, <1>3, AllNumbers
<1>5. QED
  BY <1>4 DEF T

\* The powers of two, under a shorter name.
P2 == Retrying!Pow2

LEMMA Pow2Is == P2 = [n \in Nat |-> IF n = 0 THEN 1 ELSE 2 * P2[n - 1]]
<1> DEFINE h(N) == CHOOSE g : Powers(N, g)
           G == [n \in Nat |-> h(n)[n]]
           F(f) == [n \in Nat |-> IF n = 0 THEN 1 ELSE 2 * f[n - 1]]
<1>1. \A N \in Nat : Powers(N, h(N))
  BY PowersExist
<1> HIDE DEF h
<1>2. \A n \in Nat : G[n] = IF n = 0 THEN 1 ELSE 2 * G[n - 1]
  <2> SUFFICES ASSUME NEW n \in Nat PROVE G[n] = IF n = 0 THEN 1 ELSE 2 * G[n - 1]
    OBVIOUS
  <2>1. G[n] = h(n)[n]
    OBVIOUS
  <2>2. Powers(n, h(n))
    BY <1>1
  <2>3. h(n)[n] = IF n = 0 THEN 1 ELSE 2 * h(n)[n - 1]
    BY <2>2 DEF Powers
  <2>4. CASE n # 0
    <3>1. n - 1 \in Nat /\ Powers(n - 1, h(n - 1))
      BY <1>1, <2>4
    <3>2. h(n)[n - 1] = h(n - 1)[n - 1]
      BY <2>2, <3>1, PowersAgree
    <3>3. G[n - 1] = h(n - 1)[n - 1]
      BY <3>1
    <3>4. QED
      BY <2>1, <2>3, <2>4, <3>2, <3>3
  <2>5. QED
    BY <2>1, <2>3, <2>4
<1>3. G = F(G)
  <2>1. \A n \in Nat : G[n] = F(G)[n]
    BY <1>2
  <2>2. G = [n \in Nat |-> G[n]] /\ F(G) = [n \in Nat |-> F(G)[n]]
    OBVIOUS
  <2> HIDE DEF G, F
  <2>3. QED
    BY <2>1, <2>2
<1>4. P2 = CHOOSE f : f = F(f)
  BY DEF P2, Retrying!Pow2
<1> HIDE DEF G, F
<1>5. P2 = F(P2)
  BY <1>3, <1>4
<1>6. QED
  BY <1>5 DEF F

LEMMA Doubled ==
    ASSUME NEW n \in Nat
    PROVE  P2[0] = 1 /\ P2[n + 1] = 2 * P2[n]
BY Pow2Is

LEMMA Pow2Type == \A n \in Nat : P2[n] \in Nat \ {0}
<1> DEFINE T == {n \in Nat : P2[n] \in Nat \ {0}}
<1>1. 0 \in T
  BY Doubled
<1>2. \A n \in T : n + 1 \in T
  BY Doubled
<1> HIDE DEF T
<1>3. T \subseteq Nat
  BY DEF T
<1>4. T = Nat
  BY <1>1, <1>2, <1>3, AllNumbers
<1>5. QED
  BY <1>4 DEF T

\* A shift by a, and then by b.
LEMMA Pow2Sum ==
    ASSUME NEW a \in Nat
    PROVE  \A b \in Nat : P2[a + b] = P2[a] * P2[b]
<1> DEFINE T == {b \in Nat : P2[a + b] = P2[a] * P2[b]}
<1>1. 0 \in T
  BY Doubled, Pow2Type
<1>2. \A b \in T : b + 1 \in T
  <2> SUFFICES ASSUME NEW b \in Nat, P2[a + b] = P2[a] * P2[b]
               PROVE  P2[a + (b + 1)] = P2[a] * P2[b + 1]
    OBVIOUS
  <2>1. P2[b + 1] = 2 * P2[b] /\ P2[(a + b) + 1] = 2 * P2[a + b]
    BY Doubled
  <2>2. a + (b + 1) = (a + b) + 1
    OBVIOUS
  <2>3. P2[a] * (2 * P2[b]) = 2 * (P2[a] * P2[b])
    BY Pow2Type
  <2>4. QED
    BY <2>1, <2>2, <2>3
<1> HIDE DEF T
<1>3. T \subseteq Nat
  BY DEF T
<1>4. T = Nat
  BY <1>1, <1>2, <1>3, AllNumbers
<1>5. QED
  BY <1>4 DEF T

-----------------------------------------------------------------------------
(* Durations that wrap around. *)

\* The first number that is not a duration.
Top == P2[Width - 1]

LEMMA WidthIs ==
    /\ Top \in Nat \ {0} /\ P2[Width] = 2 * Top
    /\ Retrying!MaxInt = Top - 1 /\ Retrying!MaxInt \in Nat
    /\ Retrying!Durations = (-Top)..(Top - 1)
<1>1. Width - 1 \in Nat /\ (Width - 1) + 1 = Width
  BY ConfigAssumption
<1>2. Top \in Nat \ {0} /\ P2[Width] = 2 * Top
  BY <1>1, Doubled, Pow2Type DEF Top
<1>3. Retrying!MaxInt = Top - 1
  BY DEF Retrying!MaxInt, Top, P2
<1>4. QED
  BY <1>2, <1>3 DEF Retrying!Durations

LEMMA NatTimes ==
    ASSUME NEW a \in Nat, NEW b \in Nat
    PROVE  a * b \in Nat
OBVIOUS

\* Wrapping around leaves a duration as it is, and takes multiples of 2^Width away.
LEMMA WrapIs ==
    ASSUME NEW x \in Nat
    PROVE  /\ Retrying!Wrap(x) \in Retrying!Durations
           /\ \E k \in Nat : Retrying!Wrap(x) = x - k * P2[Width]
           /\ x <= Retrying!MaxInt => Retrying!Wrap(x) = x
<1> DEFINE H == P2[Width]
           y == x + Top
<1>1. H \in Nat \ {0} /\ H = 2 * Top /\ y \in Nat
  BY WidthIs
<1>2. Retrying!Wrap(x) = (y % H) - Top
  <2>1. x + Retrying!MaxInt + 1 = y
    BY WidthIs
  <2>2. Retrying!Wrap(x) = (y % H) - Retrying!MaxInt - 1
    BY <2>1 DEF Retrying!Wrap, P2
  <2>3. y % H \in 0..(H - 1)
    BY <1>1, DivIs
  <2>4. QED
    BY <2>2, <2>3, WidthIs
<1> HIDE DEF H
<1>3. y \div H \in Nat /\ y % H \in 0..(H - 1) /\ y = (y \div H) * H + (y % H)
  BY <1>1, DivIs
<1>4. Retrying!Wrap(x) \in Retrying!Durations
  BY <1>1, <1>2, <1>3, WidthIs
<1>5. Retrying!Wrap(x) = x - (y \div H) * H
  <2> DEFINE d == y \div H
             m == y % H
  <2>1. d \in Nat /\ m \in 0..(H - 1) /\ y = d * H + m /\ Retrying!Wrap(x) = m - Top
    BY <1>2, <1>3
  <2> HIDE DEF d, m
  <2>2. d * H \in Nat
    BY <1>1, <2>1, NatTimes
  <2>3. Retrying!Wrap(x) = x - d * H
    BY <2>1, <2>2, <1>1, WidthIs
  <2>4. QED
    BY <2>3 DEF d
<1>6. ASSUME x <= Retrying!MaxInt PROVE Retrying!Wrap(x) = x
  <2>1. y \in 0..(H - 1)
    BY <1>6, <1>1, WidthIs
  <2>2. y % H = y
    BY <2>1, <1>1, ModBelow
  <2>3. QED
    BY <2>2, <1>2, <1>1, WidthIs
<1>7. QED
  BY <1>3, <1>4, <1>5, <1>6 DEF H

\* The largest delay that a configuration can give.
Ceiling(cf) == IF cf.maxDelay > 0 THEN cf.maxDelay ELSE Retrying!MaxInt

\* Delay is 2^a * q: shifted, it overflows only beyond the ceiling, and what is then
\* left of it, a multiple of the shifted 2^a, is zero, negative, or above the ceiling.
ShiftsWell(cf) ==
    \E a, q \in Nat : cf.delay = P2[a] * q /\ q * Ceiling(cf) <= Retrying!MaxInt

\* A jitter of half the ceiling does not overflow.
JitterFits(cf) ==
    cf.jitter /\ (cf.maxDelay > 0 \/ ~cf.custom) =>
        Ceiling(cf) + Ceiling(cf) \div 2 <= Retrying!MaxInt + 1

Smaller(x, y) == IF x < y THEN x ELSE y

LEMMA ConfigIs ==
    ASSUME c \in RetryConfigs
    PROVE  /\ c.maxRetries \in Nat /\ c.delay \in 0..Retrying!MaxInt
           /\ c.maxDelay \in Retrying!Durations
           /\ c.jitter \in BOOLEAN /\ c.custom \in BOOLEAN
           /\ Ceiling(c) \in 0..Retrying!MaxInt
<1>1. c \in [maxRetries : Nat, delay : 0..Retrying!MaxInt, maxDelay : Retrying!Durations,
             jitter : BOOLEAN, custom : BOOLEAN]
  BY ConfigAssumption
<1>2. /\ c.maxRetries \in Nat /\ c.delay \in 0..Retrying!MaxInt
      /\ c.maxDelay \in Retrying!Durations
      /\ c.jitter \in BOOLEAN /\ c.custom \in BOOLEAN
  BY <1>1
<1>3. QED
  BY <1>2, WidthIs DEF Ceiling

\* What is left of a shift that overflows.
LEMMA ShiftedOut ==
    ASSUME NEW a \in Nat, NEW q \in Nat, NEW m \in Nat, NEW top \in 0..Retrying!MaxInt,
           q * top <= Retrying!MaxInt, q * P2[a + m] > Retrying!MaxInt,
           Retrying!Wrap(q * P2[a + m]) > 0
    PROVE  Retrying!Wrap(q * P2[a + m]) > top
<1> DEFINE s == a + m
           P == P2[s]
           w == Retrying!Wrap(q * P)
<1>1. s \in Nat /\ P \in Nat \ {0} /\ q * P \in Nat /\ Retrying!MaxInt \in Nat
  BY Pow2Type, WidthIs
<1>2. P > top
  <2>1. SUFFICES ASSUME P <= top PROVE FALSE
    BY <1>1
  <2>2. P * q <= top * q
    BY <2>1, <1>1, MulMono
  <2>3. P * q = q * P /\ top * q = q * top
    BY <1>1
  <2>4. q * top \in Nat
    OBVIOUS
  <2>5. QED
    BY <1>1, <2>2, <2>3, <2>4
<1>3. PICK k \in Nat : w = q * P - k * P2[Width]
  BY <1>1, WrapIs
<1>4. w \in Int /\ w < P2[Width]
  <2>1. w \in Retrying!Durations
    BY <1>1, WrapIs
  <2> HIDE DEF w
  <2>2. QED
    BY <2>1, WidthIs
<1>5. Width \in Nat /\ P2[Width] \in Nat \ {0}
  BY ConfigAssumption, Pow2Type
<1>6. w > 0
  OBVIOUS
<1> HIDE DEF w
<1>7. CASE s <= Width
  <2> DEFINE r == P2[Width - s]
  <2>1. Width - s \in Nat /\ s + (Width - s) = Width
    BY <1>7, <1>1, <1>5
  <2>2. r \in Nat /\ P2[Width] = P * r
    <3>1. P2[s + (Width - s)] = P2[s] * P2[Width - s]
      BY <1>1, <2>1, Pow2Sum
    <3>2. QED
      BY <2>1, <3>1, Pow2Type
  <2> HIDE DEF r, P
  <2>3. w = P * (q - k * r)
    <3>1. k * (P * r) = P * (k * r)
      BY <1>1, <2>2
    <3>2. P * (q - k * r) = P * q - P * (k * r)
      BY <1>1, <2>2
    <3>3. QED
      BY <1>1, <1>3, <2>2, <3>1, <3>2
  <2> DEFINE z == q - k * r
  <2>4. z \in Int
    BY <2>2
  <2>5. z >= 1
    <3>1. SUFFICES ASSUME z <= 0 PROVE FALSE
      BY <2>4
    <3>2. z * P <= 0 * P
      BY <3>1, <2>4, <1>1, MulMono
    <3>3. QED
      BY <3>2, <2>3, <2>4, <1>1, <1>6
  <2>6. 1 * P <= z * P
    BY <2>4, <2>5, <1>1, MulMono
  <2>7. w = z * P
    BY <2>3, <2>4, <1>1
  <2>8. w > top
    BY <2>6, <2>7, <2>4, <1>1, <1>2, <1>4
  <2>9. QED
    BY <2>8 DEF w, P
<1>8. CASE s > Width
  <2> DEFINE r == P2[s - Width]
             W == P2[Width]
  <2>1. s - Width \in Nat /\ Width + (s - Width) = s
    BY <1>8, <1>1, <1>5
  <2>2. r \in Nat /\ P = W * r
    <3>1. P2[Width + (s - Width)] = P2[Width] * P2[s - Width]
      BY <1>5, <2>1, Pow2Sum
    <3>2. QED
      BY <2>1, <3>1, Pow2Type
  <2>3. W \in Nat \ {0} /\ w < W /\ w = q * P - k * W
    BY <1>3, <1>4, <1>5
  <2> HIDE DEF r, P, W
  <2> DEFINE z == q * r - k
  <2>4. w = z * W /\ z \in Int
    <3>1. q * (W * r) = (q * r) * W
      BY <2>2, <2>3
    <3>2. (q * r - k) * W = (q * r) * W - k * W
      BY <2>2, <2>3
    <3>3. QED
      BY <2>2, <2>3, <3>1, <3>2
  <2>5. CASE z <= 0
    <3>1. z * W <= 0 * W
      BY <2>5, <2>4, <2>3, MulMono
    <3>2. QED
      BY <3>1, <2>3, <2>4, <1>4, <1>6
  <2>6. CASE z >= 1
    <3>1. 1 * W <= z * W
      BY <2>6, <2>4, <2>3, MulMono
    <3>2. QED
      BY <3>1, <2>3, <2>4, <1>4, <1>6
  <2>7. QED
    BY <2>4, <2>5, <2>6
<1>9. QED
  BY <1>1, <1>5, <1>7, <1>8

\* The delay without jitter: what doubling gives, or the ceiling.
LEMMA BackoffIs ==
    ASSUME c \in RetryConfigs, ShiftsWell(c), NEW n \in Nat
    PROVE  /\ Retrying!Capped(Retrying!Backoff(n + 1)) = Smaller(c.delay * P2[n], Ceiling(c))
           /\ Retrying!Backoff(n + 1) \in Retrying!Durations
           /\ c.delay * P2[n] \in Nat
<1> DEFINE e == c.delay * P2[n]
           B == Retrying!Backoff(n + 1)
<1>1. /\ c.delay \in 0..Retrying!MaxInt /\ c.maxDelay \in Retrying!Durations
      /\ Ceiling(c) \in 0..Retrying!MaxInt /\ Retrying!MaxInt \in Nat
      /\ Retrying!MaxInt \in Retrying!Durations
      /\ \A x \in Retrying!Durations : x \in Int /\ x <= Retrying!MaxInt
  BY ConfigIs, WidthIs
<1>2. P2[n] \in Nat \ {0} /\ e \in Nat
  BY <1>1, Pow2Type
<1>3. B = IF Retrying!Wrap(e) >= c.delay THEN Retrying!Wrap(e)
          ELSE IF c.maxDelay > 0 THEN c.maxDelay ELSE Retrying!MaxInt
  <2>1. (n + 1) - 1 = n
    OBVIOUS
  <2>2. QED
    BY <2>1 DEF Retrying!Backoff, P2
<1>4. Retrying!Wrap(e) \in Retrying!Durations
  BY <1>2, WrapIs
<1>5. B \in Retrying!Durations
  BY <1>1, <1>3, <1>4
<1>6. CASE e <= Retrying!MaxInt
  <2>1. Retrying!Wrap(e) = e
    BY <1>2, <1>6, WrapIs
  <2>2. e >= c.delay
    <3>1. 1 * c.delay <= P2[n] * c.delay
      BY <1>1, <1>2, MulMono
    <3>2. QED
      BY <3>1, <1>1, <1>2
  <2>3. B = e
    BY <1>3, <2>1, <2>2
  <2> HIDE DEF B, e
  <2>4. Retrying!Capped(B) = Smaller(e, Ceiling(c))
    BY <2>3, <1>1, <1>2, <1>6 DEF Retrying!Capped, Smaller, Ceiling
  <2>5. QED
    BY <2>4, <1>5, <1>2 DEF B, e
<1>7. CASE e > Retrying!MaxInt
  <2>1. PICK a \in Nat, q \in Nat : c.delay = P2[a] * q /\ q * Ceiling(c) <= Retrying!MaxInt
    BY DEF ShiftsWell
  <2>2. e = q * P2[a + n]
    <3>1. P2[a + n] = P2[a] * P2[n] /\ P2[a] \in Nat
      BY Pow2Sum, Pow2Type
    <3>2. (P2[a] * q) * P2[n] = q * (P2[a] * P2[n])
      BY <3>1, <1>2
    <3>3. QED
      BY <2>1, <3>1, <3>2
  <2>3. Retrying!Wrap(e) > 0 => Retrying!Wrap(e) > Ceiling(c)
    <3>1. q * P2[a + n] > Retrying!MaxInt
      BY <2>2, <1>7
    <3>2. Retrying!Wrap(q * P2[a + n]) > 0 => Retrying!Wrap(q * P2[a + n]) > Ceiling(c)
      BY <3>1, <2>1, <1>1, ShiftedOut
    <3>3. QED
      BY <2>2, <3>2
  <2>4. c.delay > 0
    <3>1. c.delay = 0 => e = 0
      BY <1>2
    <3>2. QED
      BY <3>1, <1>1, <1>2, <1>7
  <2> HIDE DEF B, e
  <2> DEFINE w == Retrying!Wrap(e)
  <2>5. /\ w \in Int /\ w <= Retrying!MaxInt /\ (w > 0 => w > Ceiling(c))
        /\ B = IF w >= c.delay THEN w
               ELSE IF c.maxDelay > 0 THEN c.maxDelay ELSE Retrying!MaxInt
    BY <1>1, <1>3, <1>4, <2>3
  <2> HIDE DEF w
  <2>6. Retrying!Capped(B) = Ceiling(c)
    <3>1. CASE w >= c.delay
      <4>1. w > 0
        BY <3>1, <2>4, <2>5, <1>1
      <4>2. QED
        BY <3>1, <4>1, <2>5, <1>1 DEF Retrying!Capped, Ceiling
    <3>2. CASE ~(w >= c.delay)
      BY <3>2, <2>5, <1>1 DEF Retrying!Capped, Ceiling
    <3>3. QED
      BY <3>1, <3>2
  <2>7. Smaller(e, Ceiling(c)) = Ceiling(c)
    BY <1>1, <1>2, <1>7 DEF Smaller
  <2>8. QED
    BY <2>6, <2>7, <1>5, <1>2 DEF B, e
<1>8. QED
  BY <1>1, <1>2, <1>6, <1>7


\* Saturated or not, the backoff of a Delay that is not zero is not zero.
LEMMA BackoffSound ==
    ASSUME c \in RetryConfigs, NEW n \in Nat
    PROVE  /\ Retrying!Backoff(n + 1) \in Retrying!Durations
           /\ c.delay > 0 => Retrying!Backoff(n + 1) > 0
<1> DEFINE e == c.delay * P2[n]
           B == Retrying!Backoff(n + 1)
           w == Retrying!Wrap(e)
<1>1. /\ c.delay \in 0..Retrying!MaxInt /\ c.maxDelay \in Retrying!Durations
      /\ Retrying!MaxInt \in Nat /\ Retrying!MaxInt \in Retrying!Durations
      /\ \A x \in Retrying!Durations : x \in Int
  BY ConfigIs, WidthIs
<1>2. e \in Nat
  BY <1>1, Pow2Type
<1>3. B = IF w >= c.delay THEN w
          ELSE IF c.maxDelay > 0 THEN c.maxDelay ELSE Retrying!MaxInt
  <2>1. (n + 1) - 1 = n
    OBVIOUS
  <2>2. QED
    BY <2>1 DEF Retrying!Backoff, P2
<1>4. w \in Retrying!Durations /\ w \in Int
  BY <1>1, <1>2, WrapIs
<1> HIDE DEF w, B
<1>5. QED
  BY <1>1, <1>3, <1>4 DEF B

\* capDelay: within the ceiling, and not zero unless it was given zero or less.
LEMMA CapIs ==
    ASSUME c \in RetryConfigs, NEW d \in Retrying!Durations, NEW x \in Retrying!CapDelay(d)
    PROVE  /\ x \in Retrying!Durations
           /\ ~c.jitter => x = IF Retrying!Capped(d) < 0 THEN 0 ELSE Retrying!Capped(d)
           /\ JitterFits(c) /\ c.maxDelay > 0 => x \in 0..c.maxDelay
           /\ JitterFits(c) /\ ~c.custom /\ d > 0 => x > 0
<1> DEFINE y == IF Retrying!Capped(d) < 0 THEN 0 ELSE Retrying!Capped(d)
<1>1. /\ c.maxDelay \in Int /\ c.jitter \in BOOLEAN /\ c.custom \in BOOLEAN
      /\ Retrying!MaxInt \in Nat /\ d \in Int /\ d <= Retrying!MaxInt
      /\ Retrying!Durations = (-(Retrying!MaxInt + 1))..Retrying!MaxInt
      /\ Ceiling(c) \in 0..Retrying!MaxInt
  BY ConfigIs, WidthIs
<1>2. /\ y \in 0..Ceiling(c) /\ y \in Retrying!Durations /\ y \in Nat
      /\ c.maxDelay > 0 => y <= c.maxDelay
      /\ d > 0 => y > 0
  BY <1>1 DEF Retrying!Capped, Ceiling
<1>3. x \in Retrying!WithJitter(y)
  BY DEF Retrying!CapDelay
<1> HIDE DEF y
<1>4. CASE ~(c.jitter /\ y \div 2 > 0)
  <2>1. x = y
    BY <1>3, <1>4 DEF Retrying!WithJitter
  <2>2. QED
    BY <2>1, <1>2, <1>1 DEF y
<1>5. CASE c.jitter /\ y \div 2 > 0
  <2>1. PICK j \in 0..(y \div 2 - 1) : x = Retrying!Capped(Retrying!Wrap(y + j))
    BY <1>3, <1>5 DEF Retrying!WithJitter
  <2>2. y \div 2 \in Nat /\ y + j \in Nat /\ y > 0
    BY <1>2, <1>5, <2>1
  <2> DEFINE v == Retrying!Wrap(y + j)
  <2>3. v \in Retrying!Durations /\ (y + j <= Retrying!MaxInt => v = y + j)
    BY <2>2, WrapIs
  <2> HIDE DEF v
  <2>4. x = IF c.maxDelay > 0 /\ v > c.maxDelay THEN c.maxDelay ELSE v
    BY <2>1 DEF Retrying!Capped, v
  <2>5. x \in Retrying!Durations
    BY <2>3, <2>4, ConfigIs
  <2>6. ASSUME JitterFits(c), c.maxDelay > 0 \/ ~c.custom
        PROVE  y + j <= Retrying!MaxInt
    <3>1. Ceiling(c) + Ceiling(c) \div 2 <= Retrying!MaxInt + 1
      BY <2>6, <1>5 DEF JitterFits
    <3>2. y \div 2 <= Ceiling(c) \div 2
      BY <1>1, <1>2
    <3>3. Ceiling(c) \div 2 \in Nat /\ j < y \div 2
      BY <1>1, <2>1, <2>2
    <3>4. QED
      BY <3>1, <3>2, <3>3, <1>1, <1>2, <2>1, <2>2
  <2>7. ASSUME JitterFits(c), c.maxDelay > 0 PROVE x \in 0..c.maxDelay
    BY <2>6, <2>7, <2>4, <2>3, <2>2, <2>1, <1>1, <1>2
  <2>8. ASSUME JitterFits(c), ~c.custom, d > 0 PROVE x > 0
    BY <2>6, <2>8, <2>4, <2>3, <2>2, <2>1, <1>1, <1>2
  <2>9. QED
    BY <1>5, <2>5, <2>7, <2>8
<1>6. QED
  BY <1>4, <1>5

-----------------------------------------------------------------------------
(* doRetry. *)

\* No delay is computed from a shift or a jitter that overflows below the ceiling.
NoOverflow ==
    \A cf \in RetryConfigs :
        JitterFits(cf) /\ (~cf.jitter /\ ~cf.custom => ShiftsWell(cf))

\* What computeDelay returned last, without jitter and DelayFunc, before retry n.
Doubling(n) == IF n = 0 THEN 0 ELSE Smaller(c.delay * P2[n - 1], Ceiling(c))

\* What doRetry has counted when it is about to call fn, to wait, or to return; fn is
\* not called again once it has been called in a context that had ended; and the
\* delay, without jitter and DelayFunc, is the one of the present attempt.
RetryInv ==
    /\ c \in RetryConfigs
    /\ rpc \in {"check", "run", "failed", "wait", "done"}
    /\ attempt \in 0..c.maxRetries
    /\ delay \in Retrying!Durations
    /\ cancelled \in BOOLEAN
    /\ result \in {"none", "ok", "max", "noretry", "cancelled"}
    /\ execs \in Nat /\ late \in 0..execs
    /\ rpc # "done" => result = "none"
    /\ rpc \in {"check", "run"} => execs = attempt
    /\ rpc \in {"failed", "wait"} => execs = attempt + 1 /\ attempt < c.maxRetries
    /\ Retrying!AllAttemptsMade
    /\ late <= 1
    /\ late = 1 => cancelled /\ rpc # "run"
    /\ Retrying!DelayBounded
    /\ Retrying!NoZeroInterval
    /\ ~c.jitter /\ ~c.custom =>
          /\ rpc \in {"check", "run", "failed"} => delay = Doubling(attempt)
          /\ rpc = "wait" => delay = Doubling(attempt + 1)

\* The delay of the next retry is not the smaller one.
LEMMA DoublingGrows ==
    ASSUME c \in RetryConfigs, NEW n \in Nat
    PROVE  Doubling(n + 1) >= Doubling(n)
<1>1. c.delay \in Nat /\ Ceiling(c) \in Nat
  BY ConfigIs, WidthIs
<1>2. (n + 1) - 1 = n /\ n + 1 # 0 /\ P2[n] \in Nat
  BY Pow2Type
<1>3. c.delay * P2[n] \in Nat
  BY <1>1, <1>2, NatTimes
<1>4. Doubling(n + 1) = Smaller(c.delay * P2[n], Ceiling(c))
  BY <1>2 DEF Doubling
<1>5. CASE n = 0
  BY <1>1, <1>3, <1>4, <1>5 DEF Doubling, Smaller
<1>6. CASE n # 0
  <2>1. n - 1 \in Nat /\ (n - 1) + 1 = n
    BY <1>6
  <2>2. P2[n] = 2 * P2[n - 1] /\ P2[n - 1] \in Nat
    BY <2>1, Doubled, Pow2Type
  <2>3. c.delay * P2[n] = 2 * (c.delay * P2[n - 1]) /\ c.delay * P2[n - 1] \in Nat
    BY <2>2, <1>1
  <2> DEFINE x == c.delay * P2[n - 1]
             y == c.delay * P2[n]
  <2>4. Doubling(n) = Smaller(x, Ceiling(c)) /\ Doubling(n + 1) = Smaller(y, Ceiling(c))
    BY <1>4, <1>6 DEF Doubling
  <2>5. y = 2 * x /\ x \in Nat /\ y \in Nat
    BY <2>3
  <2> HIDE DEF x, y
  <2>6. QED
    BY <2>4, <2>5, <1>1 DEF Smaller
<1>7. QED
  BY <1>5, <1>6

LEMMA RetryStarts == Retrying!Init => RetryInv
<1> SUFFICES ASSUME Retrying!Init PROVE RetryInv
  OBVIOUS
<1>1. c \in RetryConfigs /\ c.maxRetries \in Nat /\ c.maxDelay \in Int
  BY ConfigIs, WidthIs DEF Retrying!Init
<1>2. delay \in Retrying!Durations
  BY WidthIs DEF Retrying!Init
<1>3. /\ rpc = "check" /\ attempt = 0 /\ delay = 0 /\ cancelled = FALSE
      /\ result = "none" /\ execs = 0 /\ late = 0
  BY DEF Retrying!Init
<1>4. Retrying!AllAttemptsMade /\ Retrying!DelayBounded /\ Retrying!NoZeroInterval
  BY <1>1, <1>3
     DEF Retrying!AllAttemptsMade, Retrying!DelayBounded, Retrying!NoZeroInterval
<1>5. Doubling(attempt) = 0
  BY <1>3 DEF Doubling
<1>6. /\ attempt \in 0..c.maxRetries /\ execs \in Nat /\ late \in 0..execs
      /\ late <= 1 /\ late # 1
  BY <1>1, <1>3
<1>7. cancelled \in BOOLEAN
  BY <1>3
<1>8. QED
  BY <1>1, <1>2, <1>3, <1>4, <1>5, <1>6, <1>7 DEF RetryInv

LEMMA ScheduleKeeps ==
    ASSUME RetryInv, NoOverflow, Retrying!Schedule, c' = c
    PROVE  RetryInv' /\ (~c.jitter /\ ~c.custom => delay' >= delay)
<1>1. /\ c \in RetryConfigs /\ attempt \in Nat /\ rpc = "failed" /\ rpc' = "wait"
      /\ UNCHANGED <<attempt, cancelled, result, execs, late>>
      /\ delay' \in Retrying!ComputeDelay(attempt + 1)
  BY ConfigIs DEF RetryInv, Retrying!Schedule
<1>2. c.custom \in BOOLEAN /\ JitterFits(c) /\ c.maxDelay \in Int
  BY <1>1, ConfigIs, WidthIs DEF NoOverflow
<1>3. PICK d \in Retrying!Durations :
         delay' \in Retrying!CapDelay(d) /\ (~c.custom => d = Retrying!Backoff(attempt + 1))
  <2>1. CASE c.custom
    BY <1>1, <2>1 DEF Retrying!ComputeDelay
  <2>2. CASE ~c.custom
    BY <1>1, <2>2, BackoffSound DEF Retrying!ComputeDelay
  <2>3. QED
    BY <1>2, <2>1, <2>2
<1>4. /\ delay' \in Retrying!Durations
      /\ ~c.jitter => delay' = IF Retrying!Capped(d) < 0 THEN 0 ELSE Retrying!Capped(d)
      /\ c.maxDelay > 0 => delay' \in 0..c.maxDelay
      /\ ~c.custom /\ d > 0 => delay' > 0
  BY <1>1, <1>2, <1>3, CapIs
<1>5. ASSUME ~c.jitter, ~c.custom PROVE delay' = Doubling(attempt + 1)
  <2>1. ShiftsWell(c)
    BY <1>1, <1>5 DEF NoOverflow
  <2>2. /\ Retrying!Capped(d) = Smaller(c.delay * P2[attempt], Ceiling(c))
        /\ c.delay * P2[attempt] \in Nat
    BY <1>1, <1>3, <1>5, <2>1, BackoffIs
  <2>3. Ceiling(c) \in Nat
    BY <1>1, ConfigIs, WidthIs
  <2>4. ~(Retrying!Capped(d) < 0)
    BY <2>2, <2>3 DEF Smaller
  <2>5. (attempt + 1) - 1 = attempt /\ attempt + 1 # 0
    BY <1>1
  <2>6. QED
    BY <1>4, <1>5, <2>2, <2>4, <2>5 DEF Doubling
<1>6. ~c.custom /\ c.delay > 0 => delay' > 0
  BY <1>1, <1>3, <1>4, BackoffSound
<1>7. RetryInv'
  BY <1>1, <1>2, <1>4, <1>5, <1>6
     DEF RetryInv, Retrying!AllAttemptsMade, Retrying!DelayBounded, Retrying!NoZeroInterval,
         Doubling, Ceiling
<1>8. ASSUME ~c.jitter, ~c.custom PROVE delay' >= delay
  <2>1. delay = Doubling(attempt)
    BY <1>1, <1>8 DEF RetryInv
  <2>2. QED
    BY <1>1, <1>5, <1>8, <2>1, DoublingGrows
<1>9. QED
  BY <1>7, <1>8

LEMMA RetryKeeps ==
    ASSUME RetryInv, NoOverflow, Retrying!Next \/ UNCHANGED rVars
    PROVE  /\ RetryInv'
           /\ ~c.jitter /\ ~c.custom => delay' >= delay
<1> USE DEF RetryInv, Retrying!AllAttemptsMade, Retrying!DelayBounded, Retrying!NoZeroInterval,
            Doubling, Ceiling
<1>1. c.maxRetries \in Nat /\ c.maxDelay \in Int /\ (\A x \in Retrying!Durations : x \in Int)
  BY ConfigIs, WidthIs
<1>2. CASE UNCHANGED rVars
  BY <1>1, <1>2 DEF rVars
<1>3. CASE Retrying!Check /\ UNCHANGED c
  BY <1>1, <1>3 DEF Retrying!Check, Retrying!Return
<1>4. CASE Retrying!RunOk /\ UNCHANGED c
  BY <1>1, <1>4 DEF Retrying!RunOk, Retrying!Return
<1>5. CASE Retrying!RunFails /\ UNCHANGED c
  BY <1>1, <1>5 DEF Retrying!RunFails, Retrying!Return
<1>6. CASE Retrying!NoRetry /\ UNCHANGED c
  BY <1>1, <1>6 DEF Retrying!NoRetry, Retrying!Return
<1>7. CASE Retrying!Schedule /\ UNCHANGED c
  BY <1>7, ScheduleKeeps
<1>8. CASE Retrying!TimerFires /\ UNCHANGED c
  BY <1>1, <1>8 DEF Retrying!TimerFires
<1>9. CASE Retrying!CtxDone /\ UNCHANGED c
  BY <1>1, <1>9 DEF Retrying!CtxDone, Retrying!Return
<1>10. CASE Retrying!Cancel
  BY <1>1, <1>10 DEF Retrying!Cancel
<1>11. QED
  BY <1>2, <1>3, <1>4, <1>5, <1>6, <1>7, <1>8, <1>9, <1>10
     DEF Retrying!Next, Retrying!Step

\* "Total executions = MaxRetries + 1", "Exponential backoff never exceeds this value"
\* and "saturate on a shift overflow instead of producing a bogus value": whenever the
\* context ends and whatever fn, RetryIf and DelayFunc return, all attempts are made
\* before ErrMaxRetries and at most one after the end of the context; and for every
\* width of durations, number of retries, Delay and MaxDelay that are no accident of
\* overflow, delays stay within the ceiling, are not zero, and grow.  (The default
\* configuration is no accident: 100 ms are 2^8 * 390625 ns, and 390625 times 10 s
\* fit into 63 bits.)
THEOREM RetriesInTime ==
    ASSUME NoOverflow
    PROVE  MCSpec => RetryExact
<1>1. MCInit => RetryInv
  BY RetryStarts DEF MCInit
<1>2. RetryInv /\ [MCNext]_<<which, vars, cVars, rVars, limiters>> => RetryInv'
  BY RetryKeeps DEF MCNext
<1>3. RetryInv /\ [MCNext]_<<which, vars, cVars, rVars, limiters>>
        => [~c.jitter /\ ~c.custom => delay' >= delay]_rVars
  BY RetryKeeps DEF MCNext
<1>4. RetryInv => /\ Retrying!TypeOK /\ Retrying!AllAttemptsMade /\ Retrying!CancelStops
                  /\ Retrying!DelayBounded /\ Retrying!NoZeroInterval
  BY DEF RetryInv, Retrying!TypeOK, Retrying!CancelStops
<1>5. rVars = Retrying!vars
  BY DEF rVars, Retrying!vars
<1>6. QED
  BY <1>1, <1>2, <1>3, <1>4, PTL DEF MCSpec, RetryExact, Retrying!BackoffGrows, rVars, Retrying!vars

=============================================================================
