---------------------------- MODULE WritersProof ----------------------------
(***************************************************************************)
(* Proofs about WsConn, for any number of goroutines that write to and     *)
(* close one connection, and about TimeoutWriter, for any number of Writes *)
(* of the handler.                                                         *)
(***************************************************************************)
EXTENDS MCWriters, Sequences, FiniteSetTheorems, TLAPS

Inside == {"locked", "writing", "closing"}
Shutting == {"swapped", "shut", "closing"}

\* Who holds c.mu is where the lock is held; a Close that won the CompareAndSwap
\* has set closed and is the only one, done is closed by it, and nothing is
\* written once the socket is closed.
IInv ==
    /\ closed \in BOOLEAN /\ stalled \in BOOLEAN
    /\ done \in 0..1
    /\ mu \in Procs \union {NoOne}
    /\ ws \in {"open", "closed"}
    /\ pc \in [Procs -> PCs]
    /\ \A p \in Procs : pc[p] \in Inside <=> mu = p
    /\ \A p \in Procs : pc[p] \in Shutting => closed
    /\ \A p, q \in Procs : pc[p] \in Shutting /\ pc[q] \in Shutting => p = q
    /\ \A p \in Procs : pc[p] = "swapped" => done = 0
    /\ done # 0 => closed
    /\ ws = "closed" => closed
    /\ ws = "closed" => \A p \in Procs : pc[p] # "writing"

\* NoOne is no goroutine, and senders and closers are different ones.
LEMMA NoOneIsNobody == NoOne \notin Procs
BY GoroutinesAssumption DEF Procs, Senders

\* IInv is inductive.
LEMMA Inductive == IInv /\ [Next]_vars => IInv'
<1> SUFFICES ASSUME IInv, [Next]_vars PROVE IInv'
  OBVIOUS
<1> USE NoOneIsNobody DEF IInv, PCs, Inside, Shutting, Goto, Failed
<1>0. Senders \subseteq Procs /\ Closers \subseteq Procs /\ Ping \in Procs
  BY DEF Procs, Senders
<1>1. ASSUME NEW p \in Procs, WriteBegin(p) PROVE IInv'
  BY <1>1 DEF WriteBegin
<1>2. ASSUME NEW p \in Procs, WriteLock(p) PROVE IInv'
  BY <1>2 DEF WriteLock
<1>3. ASSUME NEW p \in Procs, WriteRecheck(p) PROVE IInv'
  BY <1>3 DEF WriteRecheck
<1>4. ASSUME NEW p \in Procs, WriteOk(p) PROVE IInv'
  BY <1>4 DEF WriteOk
<1>5. ASSUME NEW p \in Procs, WriteFails(p) PROVE IInv'
  BY <1>5 DEF WriteFails
<1>6. CASE PingDone
  BY <1>0, <1>6 DEF PingDone
<1>7. ASSUME NEW p \in Procs, CloseSwap(p) PROVE IInv'
  BY <1>7 DEF CloseSwap
<1>8. ASSUME NEW p \in Procs, CloseDone(p) PROVE IInv'
  BY <1>8 DEF CloseDone
<1>9. ASSUME NEW p \in Procs, CloseLock(p) PROVE IInv'
  BY <1>9 DEF CloseLock
<1>10. ASSUME NEW p \in Procs, CloseWs(p) PROVE IInv'
  BY <1>10 DEF CloseWs
<1>11. CASE Stall
  BY <1>11 DEF Stall
<1>12. CASE UNCHANGED vars
  BY <1>12 DEF vars
<1>13. QED
  BY <1>0, <1>1, <1>2, <1>3, <1>4, <1>5, <1>6, <1>7, <1>8, <1>9, <1>10, <1>11, <1>12
     DEF Next, WriteStep, CloseStep

LEMMA Initial == Init => IInv
<1> SUFFICES ASSUME Init PROVE IInv
  OBVIOUS
<1>1. closed \in BOOLEAN /\ stalled \in BOOLEAN
  BY DEF Init
<1>2. done = 0 /\ done \in 0..1 /\ ws = "open" /\ mu = NoOne
  BY DEF Init
<1>3. pc \in [Procs -> PCs] /\ \A p \in Procs : pc[p] = "idle"
  BY DEF Init, PCs
<1>4. \A p \in Procs : pc[p] \notin Inside /\ pc[p] \notin Shutting
  BY <1>3 DEF Inside, Shutting
<1>5. QED
  BY <1>1, <1>2, <1>3, <1>4, NoOneIsNobody DEF IInv

\* At most one goroutine is inside gorilla's connection: it holds c.mu.
LEMMA InsideIsHolder == IInv => OneInside
<1> SUFFICES ASSUME IInv PROVE OneInside
  OBVIOUS
<1> DEFINE S == {p \in Procs : pc[p] \in {"writing", "closing"}}
<1>1. S \in SUBSET {mu}
  BY DEF IInv, Inside
<1>2. IsFiniteSet({mu}) /\ Cardinality({mu}) = 1
  BY FS_Singleton
<1>3. Cardinality(S) <= 1
  BY <1>1, <1>2, FS_Subset
<1>4. QED
  BY <1>3 DEF OneInside

\* gorilla's connection is never used by two goroutines at once, writers, the
\* ping goroutine and Close together; no write is under way on a socket that
\* Close has closed, because the second look at closed is under the lock; and
\* done is closed once, because one Close wins the CompareAndSwap.
THEOREM ConnectionSafe == Spec => []ConnSafe
<1>1. IInv => TypeOK
  BY DEF IInv, TypeOK
<1>2. IInv => NoWriteAfterClose
  BY DEF IInv, NoWriteAfterClose, Procs
<1>3. QED
  BY <1>1, <1>2, InsideIsHolder, Initial, Inductive, PTL DEF Spec, ConnSafe
-----------------------------------------------------------------------------
(* TimeoutWriter. *)

\* The disjuncts of Next.
LEMMA TimedCases ==
    ASSUME Timed!Next
    PROVE  /\ UNCHANGED streams
           /\ \/ \E c \in Timed!Codes : Timed!WriteHeader(c)
              \/ Timed!Write \/ Timed!Flush \/ Timed!FlushHeader \/ Timed!FlushBody
              \/ Timed!HandlerReturns \/ Timed!HandlerPanics \/ Timed!PanicSent
              \/ Timed!TimeIsUp \/ Timed!DoneHeader \/ Timed!DoneBody
              \/ Timed!ErrorHeader \/ Timed!ErrorBody \/ Timed!Mark
BY DEF Timed!Next, Timed!HandlerStep, Timed!FlushStep, Timed!MiddlewareStep

Records == tw \in Timed!Writer /\ wire \in Timed!Response

\* Where the two goroutines are.  Done and a panic come from a handler that has
\* ended; after Timeout nobody flushes.
GoroutineInv ==
    /\ streams \in BOOLEAN /\ tmu \in BOOLEAN
    /\ hd \in Timed!HandlerPCs /\ md \in Timed!MiddlewarePCs
    /\ tmu <=> hd \in {"flush", "flushBody"}
    /\ tmu => streams
    /\ md \in {"done", "doneBody", "panicked"} => hd = "ended"
    /\ md = "returned" => hd = "ended" \/ (tw.timedOut = TRUE /\ ~tmu)
    /\ tw.timedOut = TRUE => md = "returned"

\* A header that is due has gone out, unless it is left to the first Write.
StatusInv ==
    /\ asked \in Timed!Codes \union {"none"}
    /\ tw.headerSent = TRUE <=> asked # "none"
    /\ asked = "other" => wire.status # "none"
    /\ wire.status \in Timed!Codes => wire.status = asked
    /\ hd = "flushBody" => asked # "none"
    /\ md = "doneBody" => asked # "none"
    /\ md = "errorBody" => wire.status # "none"

\* Without Flush, what is on the wire is of the one that answered.
AnswerInv ==
    ~streams =>
        /\ md \in {"select", "done", "error", "panicked"} => wire.status = "none" /\ wire.body = <<>>
        /\ md = "doneBody" => wire.status # "error" /\ wire.body = <<>>
        /\ md \in {"errorBody", "mark"} \/ tw.timedOut = TRUE =>
              \A i \in DOMAIN wire.body : wire.body[i] = 0
        /\ md = "returned" /\ tw.timedOut # TRUE =>
              wire.status # "error" /\ \A i \in DOMAIN wire.body : wire.body[i] # 0

\* writeHeaderToUnderlyingLocked, field by field.
LEMMA HeaderFields ==
    ASSUME Records, Timed!Header
    PROVE  /\ tw' = [tw EXCEPT !.headerSent = TRUE] /\ tw' \in Timed!Writer
           /\ tw'.buf = tw.buf /\ tw'.timedOut = tw.timedOut /\ tw'.headerSent = TRUE
           /\ wire' \in Timed!Response /\ wire'.body = wire.body
           /\ \/ (tw.headerSent = TRUE \/ tw.code = "ok") /\ wire'.status = wire.status
              \/ tw.headerSent = FALSE /\ tw.code = "other" /\ wire.status = "none" /\ wire'.status = "other"
              \/ tw.headerSent = FALSE /\ tw.code = "other" /\ wire.status # "none" /\ wire'.status = wire.status
<1>1. tw' = [tw EXCEPT !.headerSent = TRUE]
  BY DEF Timed!Header
<1>2. /\ tw' \in Timed!Writer
      /\ tw'.buf = tw.buf /\ tw'.timedOut = tw.timedOut /\ tw'.headerSent = TRUE
  BY <1>1 DEF Records, Timed!Writer
<1>3. tw.headerSent \in BOOLEAN /\ tw.code \in {"ok", "other"}
  BY DEF Records, Timed!Writer, Timed!Codes
<1>4. CASE tw.headerSent \/ tw.code = "ok"
  BY <1>1, <1>2, <1>3, <1>4 DEF Timed!Header, Records
<1>5. CASE ~(tw.headerSent \/ tw.code = "ok")
  <2>1. tw.headerSent = FALSE /\ tw.code = "other"
    BY <1>3, <1>5
  <2>2. wire' = [wire EXCEPT !.status = IF wire.status = "none" THEN "other" ELSE wire.status]
    BY <1>5, <2>1 DEF Timed!Header, Timed!SendHeader, Timed!Sent
  <2>3. QED
    BY <1>1, <1>2, <2>1, <2>2 DEF Records, Timed!Response, Timed!Codes
<1>6. QED
  BY <1>4, <1>5

\* Write on the underlying ResponseWriter.
LEMMA BodyFields ==
    ASSUME Records, NEW parts \in Seq(0..MaxWrites), Timed!SendBody(parts)
    PROVE  /\ wire' \in Timed!Response
           /\ wire'.body = wire.body \o parts
           /\ wire'.status = IF wire.status = "none" THEN "ok" ELSE wire.status
BY WritesAssumption DEF Records, Timed!SendBody, Timed!Sent, Timed!Response, Timed!Codes

LEMMA BufferEmptied ==
    ASSUME Records, tw' = [tw EXCEPT !.buf = <<>>]
    PROVE  /\ tw' \in Timed!Writer /\ tw'.buf = <<>>
           /\ tw'.timedOut = tw.timedOut /\ tw'.headerSent = tw.headerSent
           /\ tw.buf \in Seq(0..MaxWrites)
<1>1. /\ tw' \in Timed!Writer /\ tw'.buf = <<>>
      /\ tw'.timedOut = tw.timedOut /\ tw'.headerSent = tw.headerSent
  <2>1. <<>> \in Seq(1..MaxWrites)
    OBVIOUS
  <2>2. QED
    BY <2>1 DEF Records, Timed!Writer
<1>2. tw.buf \in Seq(1..MaxWrites)
  BY DEF Records, Timed!Writer
<1>3. \A i \in 1..Len(tw.buf) : tw.buf[i] \in 0..MaxWrites
  BY <1>2, WritesAssumption
<1>4. tw.buf \in Seq(0..MaxWrites)
  <2> DEFINE s == tw.buf
             T == 0..MaxWrites
  <2>1. s \in Seq(1..MaxWrites) /\ \A i \in 1..Len(s) : s[i] \in T
    BY <1>2, <1>3
  <2> HIDE DEF s, T
  <2>2. s \in Seq(T)
    BY <2>1
  <2>3. QED
    BY <2>2 DEF s, T
<1>5. QED
  BY <1>1, <1>4

\* Write and WriteHeader of the handler.
LEMMA WriterFields ==
    ASSUME Records, Timed!Write \/ \E c \in Timed!Codes : Timed!WriteHeader(c), writes \in 0..MaxWrites
    PROVE  /\ tw' \in Timed!Writer /\ UNCHANGED wire
           /\ tw'.timedOut = tw.timedOut /\ tw'.headerSent = tw.headerSent
           /\ \/ tw'.buf = tw.buf /\ writes' = writes
              \/ tw'.buf = Append(tw.buf, writes + 1) /\ writes' = writes + 1 /\ writes < MaxWrites
<1>1. CASE Timed!Write
  <2>1. /\ tw' = [tw EXCEPT !.wroteHeader = TRUE, !.buf = Append(@, writes + 1),
                          !.code = IF tw.wroteHeader THEN @ ELSE "ok"]
        /\ writes' = writes + 1 /\ writes < MaxWrites /\ UNCHANGED wire
    BY <1>1 DEF Timed!Write
  <2>2. writes + 1 \in 1..MaxWrites
    BY <2>1, WritesAssumption
  <2>3. Append(tw.buf, writes + 1) \in Seq(1..MaxWrites)
    BY <2>2 DEF Records, Timed!Writer
  <2>4. QED
    BY <2>1, <2>3 DEF Records, Timed!Writer, Timed!Codes
<1>2. ASSUME NEW c \in Timed!Codes, Timed!WriteHeader(c)
      PROVE  /\ tw' \in Timed!Writer /\ UNCHANGED wire /\ tw'.buf = tw.buf /\ writes' = writes
             /\ tw'.timedOut = tw.timedOut /\ tw'.headerSent = tw.headerSent
  <2>1. \/ tw' = tw
        \/ tw' = [tw EXCEPT !.code = c, !.wroteHeader = TRUE]
    BY <1>2 DEF Timed!WriteHeader
  <2>2. UNCHANGED <<wire, writes>>
    BY <1>2 DEF Timed!WriteHeader
  <2>3. QED
    BY <2>1, <2>2 DEF Records, Timed!Writer
<1>3. QED
  BY <1>1, <1>2

\* Every step, by what it does to the records.
LEMMA StepFields ==
    ASSUME Records, Timed!Next, writes \in 0..MaxWrites
    PROVE  /\ Records' /\ writes' \in 0..MaxWrites
           /\ \/ ~Timed!Mark /\ tw'.timedOut = tw.timedOut
              \/ Timed!Mark /\ tw'.timedOut = TRUE
<1> SUFFICES ASSUME ~Timed!Mark
             PROVE  Records' /\ writes' \in 0..MaxWrites /\ tw'.timedOut = tw.timedOut
  <2>1. CASE Timed!Mark
    BY <2>1, TimedCases DEF Timed!Mark, Records, Timed!Writer
  <2>2. QED
    BY <2>1
<1>1. CASE Timed!Write \/ \E c \in Timed!Codes : Timed!WriteHeader(c)
  BY <1>1, WriterFields, WritesAssumption DEF Records
<1>2. CASE Timed!FlushHeader \/ Timed!DoneHeader
  <2>1. Timed!Header /\ UNCHANGED writes
    BY <1>2 DEF Timed!FlushHeader, Timed!DoneHeader
  <2>2. QED
    BY <2>1, HeaderFields DEF Records
<1>3. CASE Timed!FlushBody \/ Timed!DoneBody
  <2>1. Timed!SendBody(tw.buf) /\ tw' = [tw EXCEPT !.buf = <<>>] /\ UNCHANGED writes
    BY <1>3 DEF Timed!FlushBody, Timed!DoneBody
  <2>2. QED
    BY <2>1, BodyFields, BufferEmptied DEF Records
<1>4. CASE Timed!ErrorHeader
  BY <1>4 DEF Timed!ErrorHeader, Timed!SendHeader, Timed!Sent, Records, Timed!Response
<1>5. CASE Timed!ErrorBody
  <2>1. <<0>> \in Seq(0..MaxWrites)
    BY WritesAssumption
  <2>2. QED
    BY <1>5, <2>1, BodyFields DEF Timed!ErrorBody, Records
<1>6. CASE Timed!Flush \/ Timed!HandlerReturns \/ Timed!HandlerPanics \/ Timed!PanicSent \/ Timed!TimeIsUp
  BY <1>6 DEF Timed!Flush, Timed!HandlerReturns, Timed!HandlerPanics, Timed!PanicSent, Timed!TimeIsUp, Records
<1>7. QED
  BY <1>1, <1>2, <1>3, <1>4, <1>5, <1>6, TimedCases

LEMMA GoroutineStep ==
    ASSUME Records, Timed!Next, writes \in 0..MaxWrites, GoroutineInv
    PROVE  GoroutineInv'
<1> USE DEF GoroutineInv, Timed!HandlerPCs, Timed!MiddlewarePCs
<1>1. /\ UNCHANGED streams
      /\ \/ ~Timed!Mark /\ tw'.timedOut = tw.timedOut
         \/ Timed!Mark /\ tw'.timedOut = TRUE
      /\ tw.timedOut \in BOOLEAN
  BY StepFields, TimedCases DEF Records, Timed!Writer
<1>2. CASE Timed!Write
  BY <1>1, <1>2 DEF Timed!Write, Timed!Mark
<1>3. CASE Timed!Flush
  BY <1>1, <1>3 DEF Timed!Flush, Timed!Mark
<1>4. CASE Timed!FlushHeader
  BY <1>1, <1>4 DEF Timed!FlushHeader, Timed!Mark
<1>5. CASE Timed!FlushBody
  BY <1>1, <1>5 DEF Timed!FlushBody, Timed!Mark
<1>6. CASE Timed!HandlerReturns
  BY <1>1, <1>6 DEF Timed!HandlerReturns, Timed!Mark
<1>7. CASE Timed!HandlerPanics
  BY <1>1, <1>7 DEF Timed!HandlerPanics, Timed!Mark
<1>8. CASE Timed!PanicSent
  BY <1>1, <1>8 DEF Timed!PanicSent, Timed!Mark
<1>9. CASE Timed!TimeIsUp
  BY <1>1, <1>9 DEF Timed!TimeIsUp, Timed!Mark
<1>10. CASE Timed!DoneHeader
  BY <1>1, <1>10 DEF Timed!DoneHeader, Timed!Mark
<1>11. CASE Timed!DoneBody
  BY <1>1, <1>11 DEF Timed!DoneBody, Timed!Mark
<1>12. CASE Timed!ErrorHeader
  BY <1>1, <1>12 DEF Timed!ErrorHeader, Timed!Mark
<1>13. CASE Timed!ErrorBody
  BY <1>1, <1>13 DEF Timed!ErrorBody, Timed!Mark
<1>14. CASE Timed!Mark
  BY <1>1, <1>14 DEF Timed!Mark
<1>15. ASSUME NEW c \in Timed!Codes, Timed!WriteHeader(c) PROVE GoroutineInv'
  BY <1>1, <1>15 DEF Timed!WriteHeader, Timed!Mark
<1>16. QED
  BY <1>2, <1>3, <1>4, <1>5, <1>6, <1>7, <1>8, <1>9, <1>10, <1>11, <1>12, <1>13, <1>14, <1>15,
     TimedCases

\* Only these steps touch the wire, or what the handler has yet to send.
LEMMA Untouched ==
    ASSUME Records, Timed!Flush \/ Timed!HandlerReturns \/ Timed!HandlerPanics
                    \/ Timed!PanicSent \/ Timed!TimeIsUp \/ Timed!Mark
    PROVE  /\ UNCHANGED <<wire, writes, asked>>
           /\ tw'.buf = tw.buf /\ tw'.headerSent = tw.headerSent
BY DEF Timed!Flush, Timed!HandlerReturns, Timed!HandlerPanics, Timed!PanicSent, Timed!TimeIsUp,
   Timed!Mark, Records, Timed!Writer

\* Parts b on the wire and q in the buffer, of w Writes.
Parts(b, q, w) ==
    /\ \A i \in DOMAIN b : b[i] <= w
    /\ \A i \in DOMAIN q : q[i] <= w
    /\ \A i, j \in DOMAIN b : i < j /\ b[i] # 0 /\ b[j] # 0 => b[i] < b[j]
    /\ \A i, j \in DOMAIN q : i < j => q[i] < q[j]
    /\ \A i \in DOMAIN b, j \in DOMAIN q : b[i] < q[j]
    /\ \A n \in 1..w : (\E i \in DOMAIN b : b[i] = n) \/ (\E j \in DOMAIN q : q[j] = n)

\* A Write of the handler.
LEMMA PartsWrite ==
    ASSUME NEW b \in Seq(Nat), NEW q \in Seq(Nat), NEW w \in Nat, Parts(b, q, w)
    PROVE  Parts(b, Append(q, w + 1), w + 1)
<1> DEFINE l == Len(q)
           r == Append(q, w + 1)
<1>1. /\ l \in Nat /\ DOMAIN q = 1..l /\ DOMAIN r = 1..(l + 1) /\ r[l + 1] = w + 1
      /\ \A i \in 1..l : r[i] = q[i] /\ q[i] \in Nat
      /\ \A i \in DOMAIN b : b[i] \in Nat
  OBVIOUS
<1> HIDE DEF l, r
<1>2. \A i \in DOMAIN b : b[i] <= w + 1
  BY <1>1 DEF Parts
<1>3. \A i \in 1..(l + 1) : i = l + 1 \/ i \in 1..l
  BY <1>1
<1>4. \A i \in DOMAIN r : r[i] <= w + 1
  BY <1>1, <1>3 DEF Parts
<1>5. \A i, j \in DOMAIN r : i < j => r[i] < r[j]
  <2> SUFFICES ASSUME NEW i \in DOMAIN r, NEW j \in DOMAIN r, i < j PROVE r[i] < r[j]
    OBVIOUS
  <2>1. i \in 1..l
    BY <1>1
  <2>2. r[i] = q[i] /\ q[i] <= w
    BY <1>1, <2>1 DEF Parts
  <2>3. CASE j = l + 1
    BY <1>1, <2>1, <2>2, <2>3
  <2>4. CASE j \in 1..l
    BY <1>1, <2>1, <2>4 DEF Parts
  <2>5. QED
    BY <1>1, <1>3, <2>3, <2>4
<1>6. \A i \in DOMAIN b, j \in DOMAIN r : b[i] < r[j]
  <2> SUFFICES ASSUME NEW i \in DOMAIN b, NEW j \in DOMAIN r PROVE b[i] < r[j]
    OBVIOUS
  <2>1. CASE j = l + 1
    BY <1>1, <2>1 DEF Parts
  <2>2. CASE j \in 1..l
    BY <1>1, <2>2 DEF Parts
  <2>3. QED
    BY <1>1, <1>3, <2>1, <2>2
<1>7. ASSUME NEW n \in 1..(w + 1)
      PROVE  (\E i \in DOMAIN b : b[i] = n) \/ (\E j \in DOMAIN r : r[j] = n)
  <2>1. CASE n = w + 1
    <3>1. l + 1 \in DOMAIN r /\ r[l + 1] = n
      BY <1>1, <2>1
    <3>2. QED
      BY <3>1
  <2>2. CASE n \in 1..w
    <3>1. CASE \E j \in DOMAIN q : q[j] = n
      <4>1. PICK j \in 1..l : q[j] = n
        BY <1>1, <3>1
      <4>2. j \in DOMAIN r /\ r[j] = n
        BY <1>1, <4>1
      <4>3. QED
        BY <4>2
    <3>2. QED
      BY <2>2, <3>1 DEF Parts
  <2>3. QED
    BY <2>1, <2>2
<1>8. \A i, j \in DOMAIN b : i < j /\ b[i] # 0 /\ b[j] # 0 => b[i] < b[j]
  BY DEF Parts
<1>9. QED
  BY <1>2, <1>4, <1>5, <1>6, <1>7, <1>8 DEF Parts, r

\* A concatenation, place by place.
LEMMA Places ==
    ASSUME NEW b \in Seq(Nat), NEW q \in Seq(Nat)
    PROVE  /\ b \o q \in Seq(Nat)
           /\ \A i \in DOMAIN b : i \in DOMAIN (b \o q) /\ (b \o q)[i] = b[i]
           /\ \A j \in DOMAIN q : Len(b) + j \in DOMAIN (b \o q) /\ (b \o q)[Len(b) + j] = q[j]
           /\ \A i \in DOMAIN (b \o q) :
                 \/ i \in DOMAIN b
                 \/ i - Len(b) \in DOMAIN q /\ i = Len(b) + (i - Len(b))
OBVIOUS

\* What is on the wire and in the buffer, one behind the other.
LEMMA PartsJoined ==
    ASSUME NEW b \in Seq(Nat), NEW q \in Seq(Nat), NEW w \in Nat, Parts(b, q, w)
    PROVE  LET p == b \o q
           IN /\ \A n \in 1..w : \E i \in DOMAIN p : p[i] = n
              /\ \A i \in DOMAIN p : p[i] <= w
              /\ \A i, j \in DOMAIN p : i < j /\ p[i] # 0 /\ p[j] # 0 => p[i] < p[j]
<1> DEFINE p == b \o q
           k == Len(b)
<1>1. /\ k \in Nat /\ DOMAIN b = 1..k /\ DOMAIN q \subseteq Nat
      /\ \A i \in DOMAIN b : i \in DOMAIN p /\ p[i] = b[i]
      /\ \A j \in DOMAIN q : k + j \in DOMAIN p /\ p[k + j] = q[j]
      /\ \A i \in DOMAIN p :
            \/ i \in DOMAIN b
            \/ i - k \in DOMAIN q /\ i = k + (i - k)
      /\ DOMAIN p \subseteq Nat
  BY Places
<1> HIDE DEF p, k
<1>2. \A n \in 1..w : \E i \in DOMAIN p : p[i] = n
  BY <1>1 DEF Parts
<1>3. \A i \in DOMAIN p : p[i] <= w
  <2> SUFFICES ASSUME NEW i \in DOMAIN p PROVE p[i] <= w
    OBVIOUS
  <2>1. CASE i \in DOMAIN b
    BY <1>1, <2>1 DEF Parts
  <2>2. CASE i - k \in DOMAIN q /\ i = k + (i - k)
    <3>1. p[i] = q[i - k]
      BY <1>1, <2>2
    <3>2. QED
      BY <2>2, <3>1 DEF Parts
  <2>3. QED
    BY <1>1, <2>1, <2>2
<1>4. \A i, j \in DOMAIN p : i < j /\ p[i] # 0 /\ p[j] # 0 => p[i] < p[j]
  <2> SUFFICES ASSUME NEW i \in DOMAIN p, NEW j \in DOMAIN p, i < j, p[i] # 0, p[j] # 0
               PROVE  p[i] < p[j]
    OBVIOUS
  <2>0. i \in Nat /\ j \in Nat
    BY <1>1
  <2>1. CASE i \in DOMAIN b /\ j \in DOMAIN b
    <3>1. p[i] = b[i] /\ p[j] = b[j]
      BY <1>1, <2>1
    <3>2. QED
      BY <2>1, <3>1 DEF Parts
  <2>2. CASE i \in DOMAIN b /\ j - k \in DOMAIN q /\ j = k + (j - k)
    <3>1. p[i] = b[i] /\ p[j] = q[j - k]
      BY <1>1, <2>2
    <3>2. QED
      BY <2>2, <3>1 DEF Parts
  <2>3. CASE i - k \in DOMAIN q /\ i = k + (i - k) /\ j - k \in DOMAIN q /\ j = k + (j - k)
    <3>1. p[i] = q[i - k] /\ p[j] = q[j - k]
      BY <1>1, <2>3
    <3>2. i - k < j - k
      BY <1>1, <2>0
    <3>3. QED
      BY <2>3, <3>1, <3>2 DEF Parts
  <2>4. CASE i - k \in DOMAIN q /\ j \in DOMAIN b
    <3>1. i - k \in Nat /\ j <= k
      BY <1>1, <2>4
    <3>2. QED
      BY <1>1, <2>0, <3>1
  <2>5. QED
    BY <1>1, <2>1, <2>2, <2>3, <2>4
<1>5. QED
  BY <1>2, <1>3, <1>4 DEF p

\* Flush and Done send the buffer.
LEMMA PartsSent ==
    ASSUME NEW b \in Seq(Nat), NEW q \in Seq(Nat), NEW w \in Nat, Parts(b, q, w)
    PROVE  Parts(b \o q, <<>>, w)
<1> DEFINE p == b \o q
<1>1. /\ \A n \in 1..w : \E i \in DOMAIN p : p[i] = n
      /\ \A i \in DOMAIN p : p[i] <= w
      /\ \A i, j \in DOMAIN p : i < j /\ p[i] # 0 /\ p[j] # 0 => p[i] < p[j]
  BY PartsJoined
<1>2. DOMAIN <<>> = {}
  OBVIOUS
<1> HIDE DEF p
<1>3. Parts(p, <<>>, w)
  BY <1>1, <1>2 DEF Parts
<1>4. QED
  BY <1>3 DEF p

\* The error body.
LEMMA PartsError ==
    ASSUME NEW b \in Seq(Nat), NEW q \in Seq(Nat), NEW w \in Nat, Parts(b, q, w),
           \A j \in DOMAIN q : q[j] # 0
    PROVE  Parts(b \o <<0>>, q, w)
<1> DEFINE p == b \o <<0>>
           k == Len(b)
<1>1. /\ k \in Nat /\ DOMAIN b = 1..k /\ DOMAIN p = 1..(k + 1) /\ p[k + 1] = 0
      /\ \A i \in 1..k : p[i] = b[i] /\ b[i] \in Nat
      /\ \A j \in DOMAIN q : q[j] \in Nat
  OBVIOUS
<1> HIDE DEF p, k
<1>2. \A i \in 1..(k + 1) : i = k + 1 \/ i \in 1..k
  BY <1>1
<1>3. \A i \in DOMAIN p : p[i] <= w
  BY <1>1, <1>2 DEF Parts
<1>4. \A i, j \in DOMAIN p : i < j /\ p[i] # 0 /\ p[j] # 0 => p[i] < p[j]
  BY <1>1, <1>2 DEF Parts
<1>5. \A i \in DOMAIN p, j \in DOMAIN q : p[i] < q[j]
  <2> SUFFICES ASSUME NEW i \in DOMAIN p, NEW j \in DOMAIN q PROVE p[i] < q[j]
    OBVIOUS
  <2>1. CASE i = k + 1
    BY <1>1, <2>1
  <2>2. CASE i \in 1..k
    BY <1>1, <2>2 DEF Parts
  <2>3. QED
    BY <1>1, <1>2, <2>1, <2>2
<1>6. \A n \in 1..w : (\E i \in DOMAIN p : p[i] = n) \/ (\E j \in DOMAIN q : q[j] = n)
  <2> SUFFICES ASSUME NEW n \in 1..w, NEW i \in DOMAIN b, b[i] = n PROVE \E x \in DOMAIN p : p[x] = n
    BY DEF Parts
  <2>1. i \in DOMAIN p /\ p[i] = n
    BY <1>1
  <2>2. QED
    BY <2>1
<1>7. /\ \A i \in DOMAIN q : q[i] <= w
      /\ \A i, j \in DOMAIN q : i < j => q[i] < q[j]
  BY DEF Parts
<1>8. QED
  BY <1>3, <1>4, <1>5, <1>6, <1>7 DEF Parts, p

\* The types of the two sequences.
LEMMA PartsTypes ==
    ASSUME Records
    PROVE  /\ wire.body \in Seq(Nat) /\ tw.buf \in Seq(Nat)
           /\ \A j \in DOMAIN tw.buf : tw.buf[j] # 0
<1>1. wire.body \in Seq(0..MaxWrites) /\ tw.buf \in Seq(1..MaxWrites)
  BY DEF Records, Timed!Writer, Timed!Response
<1>2. /\ \A i \in 1..Len(wire.body) : wire.body[i] \in Nat
      /\ \A i \in 1..Len(tw.buf) : tw.buf[i] \in Nat /\ tw.buf[i] # 0
  BY <1>1, WritesAssumption
<1>3. QED
  BY <1>1, <1>2

PartsInv == writes \in 0..MaxWrites /\ Parts(wire.body, tw.buf, writes)

LEMMA PartsStep ==
    ASSUME Records, Timed!Next, PartsInv
    PROVE  PartsInv'
<1> USE WritesAssumption
<1>1. Records' /\ writes' \in 0..MaxWrites /\ writes \in Nat
  BY StepFields DEF PartsInv
<1>2. CASE Timed!Write \/ \E c \in Timed!Codes : Timed!WriteHeader(c)
  <2>1. \/ UNCHANGED wire /\ tw'.buf = tw.buf /\ writes' = writes
        \/ UNCHANGED wire /\ tw'.buf = Append(tw.buf, writes + 1) /\ writes' = writes + 1
    BY <1>2, WriterFields DEF PartsInv
  <2>2. QED
    BY <1>1, <2>1, PartsWrite, PartsTypes DEF PartsInv
<1>3. CASE Timed!FlushHeader \/ Timed!DoneHeader
  <2>1. Timed!Header /\ UNCHANGED writes
    BY <1>3 DEF Timed!FlushHeader, Timed!DoneHeader
  <2>2. tw'.buf = tw.buf /\ wire'.body = wire.body
    BY <2>1, HeaderFields
  <2>3. QED
    BY <1>1, <2>1, <2>2 DEF PartsInv
<1>4. CASE Timed!FlushBody \/ Timed!DoneBody
  <2>1. Timed!SendBody(tw.buf) /\ tw' = [tw EXCEPT !.buf = <<>>] /\ UNCHANGED writes
    BY <1>4 DEF Timed!FlushBody, Timed!DoneBody
  <2>2. tw'.buf = <<>> /\ wire'.body = wire.body \o tw.buf
    BY <2>1, BodyFields, BufferEmptied
  <2>3. Parts(wire.body \o tw.buf, <<>>, writes)
    BY <1>1, PartsSent, PartsTypes DEF PartsInv
  <2>4. QED
    BY <1>1, <2>1, <2>2, <2>3 DEF PartsInv
<1>5. CASE Timed!ErrorHeader
  <2>1. tw'.buf = tw.buf /\ wire'.body = wire.body /\ UNCHANGED writes
    BY <1>5 DEF Timed!ErrorHeader, Timed!SendHeader, Records, Timed!Response
  <2>2. QED
    BY <1>1, <2>1 DEF PartsInv
<1>6. CASE Timed!ErrorBody
  <2>1. <<0>> \in Seq(0..MaxWrites)
    OBVIOUS
  <2>2. tw'.buf = tw.buf /\ wire'.body = wire.body \o <<0>> /\ UNCHANGED writes
    BY <1>6, <2>1, BodyFields DEF Timed!ErrorBody
  <2>3. Parts(wire.body \o <<0>>, tw.buf, writes)
    BY <1>1, PartsError, PartsTypes DEF PartsInv
  <2>4. QED
    BY <1>1, <2>2, <2>3 DEF PartsInv
<1>7. CASE Timed!Flush \/ Timed!HandlerReturns \/ Timed!HandlerPanics
           \/ Timed!PanicSent \/ Timed!TimeIsUp \/ Timed!Mark
  <2>1. UNCHANGED <<wire, writes>> /\ tw'.buf = tw.buf
    BY <1>7, Untouched
  <2>2. QED
    BY <1>1, <2>1 DEF PartsInv
<1>8. QED
  BY <1>2, <1>3, <1>4, <1>5, <1>6, <1>7, TimedCases

LEMMA StatusStep ==
    ASSUME Records, Timed!Next, writes \in 0..MaxWrites, GoroutineInv, StatusInv
    PROVE  StatusInv'
<1>1. Records' /\ tw.code \in Timed!Codes /\ tw.headerSent \in BOOLEAN
      /\ wire.status \in Timed!Codes \union {"none", "error"}
  BY StepFields DEF Records, Timed!Writer, Timed!Response
<1> USE DEF StatusInv, Timed!Codes
<1>2. CASE Timed!Write \/ \E c \in Timed!Codes : Timed!WriteHeader(c)
  <2>1. UNCHANGED wire /\ tw'.headerSent = tw.headerSent
    BY <1>2, WriterFields
  <2>2. UNCHANGED <<asked, hd, md>>
    BY <1>2 DEF Timed!Write, Timed!WriteHeader
  <2>3. QED
    BY <2>1, <2>2
<1>3. CASE Timed!FlushHeader \/ Timed!DoneHeader
  <2>1. /\ Timed!Header /\ asked' = (IF asked = "none" THEN tw.code ELSE asked)
        /\ md # "errorBody" => md' # "errorBody"
    BY <1>3 DEF Timed!FlushHeader, Timed!DoneHeader, Timed!Header
  <2>2. /\ tw'.headerSent = TRUE
        /\ \/ (tw.headerSent = TRUE \/ tw.code = "ok") /\ wire'.status = wire.status
           \/ tw.headerSent = FALSE /\ tw.code = "other" /\ wire.status = "none" /\ wire'.status = "other"
           \/ tw.headerSent = FALSE /\ tw.code = "other" /\ wire.status # "none" /\ wire'.status = wire.status
    BY <2>1, HeaderFields
  <2>3. asked' # "none" /\ asked' \in {"ok", "other"} /\ (asked # "none" => asked' = asked)
    BY <1>1, <2>1
  <2>4. CASE tw.headerSent = TRUE
    BY <2>1, <2>2, <2>3, <2>4
  <2>5. CASE tw.headerSent # TRUE
    <3>1. asked = "none" /\ asked' = tw.code
      BY <2>1, <2>5
    <3>2. QED
      BY <1>1, <2>1, <2>2, <2>3, <2>5, <3>1
  <2>6. QED
    BY <2>4, <2>5
<1>4. CASE Timed!FlushBody \/ Timed!DoneBody
  <2>1. /\ Timed!SendBody(tw.buf) /\ tw' = [tw EXCEPT !.buf = <<>>] /\ UNCHANGED asked
        /\ asked # "none" /\ hd' # "flushBody" /\ md' # "doneBody"
        /\ md # "errorBody" => md' # "errorBody"
    BY <1>4 DEF Timed!FlushBody, Timed!DoneBody, GoroutineInv
  <2>2. tw'.headerSent = tw.headerSent
        /\ wire'.status = IF wire.status = "none" THEN "ok" ELSE wire.status
    BY <2>1, BodyFields, BufferEmptied
  <2>3. QED
    BY <1>1, <2>1, <2>2
<1>5. CASE Timed!ErrorHeader
  <2>1. /\ UNCHANGED <<tw, asked, hd>> /\ md' # "doneBody"
        /\ wire'.status = IF wire.status = "none" THEN "error" ELSE wire.status
    BY <1>5 DEF Timed!ErrorHeader, Timed!SendHeader, Timed!Sent, Records, Timed!Response
  <2>2. QED
    BY <1>1, <2>1
<1>6. CASE Timed!ErrorBody
  <2>1. <<0>> \in Seq(0..MaxWrites)
    BY WritesAssumption
  <2>2. /\ UNCHANGED <<tw, asked, hd>> /\ md = "errorBody" /\ md' = "mark"
        /\ wire'.status = IF wire.status = "none" THEN "ok" ELSE wire.status
    BY <1>6, <2>1, BodyFields DEF Timed!ErrorBody
  <2>3. QED
    BY <1>1, <2>2
<1>7. CASE Timed!Flush \/ Timed!HandlerReturns \/ Timed!HandlerPanics
           \/ Timed!PanicSent \/ Timed!TimeIsUp \/ Timed!Mark
  <2>1. UNCHANGED <<wire, asked>> /\ tw'.headerSent = tw.headerSent
    BY <1>7, Untouched
  <2>2. /\ hd' = "flushBody" => hd = "flushBody"
        /\ md' = "doneBody" => md = "doneBody"
        /\ md' = "errorBody" => md = "errorBody"
    BY <1>7 DEF Timed!Flush, Timed!HandlerReturns, Timed!HandlerPanics, Timed!PanicSent,
       Timed!TimeIsUp, Timed!Mark
  <2>3. QED
    BY <2>1, <2>2
<1>8. QED
  BY <1>2, <1>3, <1>4, <1>5, <1>6, <1>7, TimedCases

\* A sequence that gets one more 0, or the handler's parts.
LEMMA AllZero ==
    ASSUME NEW b \in Seq(Nat), \A i \in DOMAIN b : b[i] = 0
    PROVE  \A i \in DOMAIN (b \o <<0>>) : (b \o <<0>>)[i] = 0
OBVIOUS

LEMMA AnswerStep ==
    ASSUME Records, Timed!Next, writes \in 0..MaxWrites, GoroutineInv, AnswerInv
    PROVE  AnswerInv'
<1> SUFFICES ASSUME ~streams PROVE AnswerInv'
  BY TimedCases DEF AnswerInv
<1>1. /\ Records' /\ UNCHANGED streams
      /\ \/ ~Timed!Mark /\ tw'.timedOut = tw.timedOut
         \/ Timed!Mark /\ tw'.timedOut = TRUE
      /\ wire.body \in Seq(Nat)
      /\ md \in Timed!MiddlewarePCs
      /\ hd \notin {"flush", "flushBody"}
      /\ tw.timedOut = TRUE => md = "returned"
  BY StepFields, TimedCases, PartsTypes DEF GoroutineInv
<1> USE DEF AnswerInv, Timed!MiddlewarePCs
<1>2. CASE Timed!Write \/ \E c \in Timed!Codes : Timed!WriteHeader(c)
  <2>1. UNCHANGED wire /\ tw'.timedOut = tw.timedOut
    BY <1>2, WriterFields
  <2>2. UNCHANGED md
    BY <1>2 DEF Timed!Write, Timed!WriteHeader
  <2>3. QED
    BY <1>1, <2>1, <2>2
<1>3. CASE Timed!DoneHeader
  <2>1. Timed!Header /\ md = "done" /\ md' = "doneBody"
    BY <1>3 DEF Timed!DoneHeader
  <2>2. /\ tw'.timedOut = tw.timedOut /\ wire'.body = wire.body
        /\ wire'.status = wire.status \/ wire'.status = "other"
    BY <2>1, HeaderFields
  <2>3. QED
    BY <1>1, <2>1, <2>2
<1>4. CASE Timed!DoneBody
  <2>1. /\ Timed!SendBody(tw.buf) /\ tw' = [tw EXCEPT !.buf = <<>>]
        /\ md = "doneBody" /\ md' = "returned"
    BY <1>4 DEF Timed!DoneBody
  <2>2. /\ tw'.timedOut = tw.timedOut /\ wire'.body = wire.body \o tw.buf
        /\ wire'.status = IF wire.status = "none" THEN "ok" ELSE wire.status
    BY <2>1, BodyFields, BufferEmptied
  <2>3. wire'.body = tw.buf
    <3>1. wire.body = <<>>
      BY <2>1
    <3>2. ASSUME NEW q \in Seq(Nat) PROVE <<>> \o q = q
      OBVIOUS
    <3>3. QED
      BY <2>2, <3>1, <3>2, PartsTypes
  <2>4. tw.timedOut # TRUE
    BY <1>1, <2>1
  <2>5. QED
    BY <1>1, <2>1, <2>2, <2>3, <2>4, PartsTypes
<1>5. CASE Timed!ErrorHeader
  <2>1. /\ UNCHANGED tw /\ md = "error" /\ md' \in {"errorBody", "mark"}
        /\ wire'.body = wire.body
    BY <1>5 DEF Timed!ErrorHeader, Timed!SendHeader, Records, Timed!Response
  <2>2. wire.body = <<>>
    BY <2>1
  <2>3. \A i \in DOMAIN wire'.body : wire'.body[i] = 0
    BY <2>1, <2>2
  <2>4. QED
    BY <1>1, <2>1, <2>3
<1>6. CASE Timed!ErrorBody
  <2>1. <<0>> \in Seq(0..MaxWrites)
    BY WritesAssumption
  <2>2. UNCHANGED tw /\ md = "errorBody" /\ md' = "mark" /\ wire'.body = wire.body \o <<0>>
    BY <1>6, <2>1, BodyFields DEF Timed!ErrorBody
  <2>3. \A i \in DOMAIN wire'.body : wire'.body[i] = 0
    BY <1>1, <2>2, AllZero
  <2>4. QED
    BY <1>1, <2>2, <2>3
<1>7. CASE Timed!Flush \/ Timed!HandlerReturns \/ Timed!HandlerPanics
           \/ Timed!PanicSent \/ Timed!TimeIsUp \/ Timed!Mark
  <2>1. UNCHANGED wire
    BY <1>7, Untouched
  <2>2. CASE Timed!Mark
    BY <1>1, <2>1, <2>2 DEF Timed!Mark
  <2>3. CASE ~Timed!Mark
    <3>1. md' = md \/ (md \in {"select", "done"} /\ md' \in {"done", "error", "panicked"})
      BY <1>7, <2>3 DEF Timed!Flush, Timed!HandlerReturns, Timed!HandlerPanics, Timed!PanicSent,
         Timed!TimeIsUp
    <3>2. QED
      BY <1>1, <2>1, <2>3, <3>1
  <2>4. QED
    BY <2>2, <2>3
<1>8. QED
  BY <1>1, <1>2, <1>3, <1>4, <1>5, <1>6, <1>7, TimedCases DEF Timed!FlushHeader, Timed!FlushBody

TimedInv == Records /\ GoroutineInv /\ PartsInv /\ StatusInv /\ AnswerInv

LEMMA TimedInitial == Timed!Init => TimedInv
<1> SUFFICES ASSUME Timed!Init PROVE TimedInv
  OBVIOUS
<1> USE WritesAssumption DEF Timed!Init
<1>1. /\ tw.timedOut = FALSE /\ tw.headerSent = FALSE /\ tw.buf = <<>>
      /\ wire.status = "none" /\ wire.body = <<>>
  OBVIOUS
<1>2. Records
  <2>1. <<>> \in Seq(1..MaxWrites) /\ <<>> \in Seq(0..MaxWrites)
    OBVIOUS
  <2>2. QED
    BY <2>1 DEF Records, Timed!Writer, Timed!Response, Timed!Codes
<1>3. GoroutineInv
  BY <1>1 DEF GoroutineInv, Timed!HandlerPCs, Timed!MiddlewarePCs
<1>4. PartsInv
  <2>1. DOMAIN <<>> = {} /\ 1..0 = {} /\ writes = 0
    OBVIOUS
  <2>2. Parts(<<>>, <<>>, 0)
    BY <2>1 DEF Parts
  <2>3. QED
    BY <1>1, <2>1, <2>2 DEF PartsInv
<1>5. StatusInv
  BY <1>1 DEF StatusInv, Timed!Codes
<1>6. AnswerInv
  BY <1>1 DEF AnswerInv
<1>7. QED
  BY <1>2, <1>3, <1>4, <1>5, <1>6 DEF TimedInv

\* What the invariant says of the response.
LEMMA TimedInvImplies ==
    TimedInv => Timed!TypeOK /\ Timed!BodyInOrder /\ Timed!StatusHonest /\ Timed!Unmixed
<1> SUFFICES ASSUME TimedInv
             PROVE  Timed!TypeOK /\ Timed!BodyInOrder /\ Timed!StatusHonest /\ Timed!Unmixed
  OBVIOUS
<1>1. Timed!TypeOK
  BY DEF TimedInv, Records, GoroutineInv, PartsInv, StatusInv, Timed!TypeOK
<1>2. Timed!BodyInOrder
  <2>1. writes \in Nat /\ Parts(wire.body, tw.buf, writes)
    BY WritesAssumption DEF TimedInv, PartsInv
  <2>2. QED
    BY <2>1, PartsTypes, PartsJoined DEF TimedInv, Timed!BodyInOrder
<1>3. Timed!StatusHonest
  BY DEF TimedInv, StatusInv, Timed!StatusHonest
<1>4. Timed!Unmixed
  <2> SUFFICES ASSUME ~streams, NEW i \in DOMAIN wire.body, wire.body[i] # 0,
                      wire.status = "error" \/ \E j \in DOMAIN wire.body : wire.body[j] = 0
               PROVE  FALSE
    BY DEF Timed!Unmixed
  <2>1. DOMAIN <<>> = {}
    OBVIOUS
  <2>2. md \in {"select", "done", "doneBody", "error", "errorBody", "mark", "returned", "panicked"}
    BY DEF TimedInv, GoroutineInv, Timed!MiddlewarePCs
  <2>3. QED
    BY <2>1, <2>2 DEF TimedInv, AnswerInv
<1>5. QED
  BY <1>1, <1>2, <1>3, <1>4

\* middleware.Timeout and respw.TimeoutWriter, for any number of Writes and every
\* interleaving of the handler with the deadline: what the handler wrote arrives in
\* order, without gaps and once, under the status it had set; without Flush the
\* client sees one response and not parts of two; and nothing is written once the
\* middleware has returned.
THEOREM ResponsesWhole == MCSpec => ResponseWhole
<1>1. MCInit => TimedInv
  BY TimedInitial DEF MCInit
<1>2. TimedInv /\ [MCNext]_<<which, vars, tVars>> =>
        /\ TimedInv'
        /\ [(md \in {"returned", "panicked"}) => UNCHANGED wire]_(Timed!vars)
  <2> SUFFICES ASSUME TimedInv, [MCNext]_<<which, vars, tVars>>
               PROVE  /\ TimedInv'
                      /\ [(md \in {"returned", "panicked"}) => UNCHANGED wire]_(Timed!vars)
    OBVIOUS
  <2>1. CASE Timed!Next
    <3>1. writes \in 0..MaxWrites
      BY DEF TimedInv, PartsInv
    <3>2. TimedInv'
      BY <2>1, <3>1, StepFields, GoroutineStep, PartsStep, StatusStep, AnswerStep DEF TimedInv
    <3>3. ASSUME md \in {"returned", "panicked"} PROVE UNCHANGED wire
      <4>1. hd \notin {"flush", "flushBody"}
        BY <3>3 DEF TimedInv, GoroutineInv
      <4>2. QED
        BY <2>1, <3>3, <4>1, TimedCases DEF Timed!WriteHeader, Timed!Write, Timed!Flush,
           Timed!FlushHeader, Timed!FlushBody, Timed!HandlerReturns, Timed!HandlerPanics,
           Timed!PanicSent, Timed!TimeIsUp, Timed!DoneHeader, Timed!DoneBody,
           Timed!ErrorHeader, Timed!ErrorBody, Timed!Mark
    <3>4. QED
      BY <3>2, <3>3
  <2>2. CASE UNCHANGED tVars
    <3>1. UNCHANGED Timed!vars
      BY <2>2 DEF tVars, Timed!vars
    <3>2. TimedInv'
      BY <2>2 DEF tVars, TimedInv, Records, GoroutineInv, PartsInv, StatusInv, AnswerInv
    <3>3. QED
      BY <3>1, <3>2
  <2>3. QED
    BY <2>1, <2>2 DEF MCNext
<1>3. QED
  BY <1>1, <1>2, TimedInvImplies, PTL DEF MCSpec, ResponseWhole, Timed!NothingAfterReturn
=============================================================================
