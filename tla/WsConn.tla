------------------------------- MODULE WsConn -------------------------------
(***************************************************************************)
(* websocket.Conn: goroutines that write (broadcasts, handlers, the ping   *)
(* goroutine of startPing) and goroutines that close one connection, whose *)
(* gorilla connection allows a single writer at a time.                    *)
(***************************************************************************)
EXTENDS Naturals, FiniteSets

CONSTANTS
    Writers,    \* goroutines that call WriteMessage
    Closers,    \* goroutines that call Close
    Ping,       \* the heartbeat goroutine
    NoOne,      \* the mutex is free
    Timeout     \* whether writeTimeout() > 0

ASSUME TimeoutAssumption == Timeout \in BOOLEAN
ASSUME GoroutinesAssumption ==
    /\ Writers \intersect Closers = {}
    /\ {Ping, NoOne} \intersect (Writers \union Closers) = {}
    /\ Ping # NoOne

VARIABLES
    closed,     \* c.closed
    done,       \* how often c.done has been closed: a second time panics
    mu,         \* holder of c.mu
    ws,         \* the gorilla connection: "open" or "closed"
    pc,         \* where each goroutine is
    stalled     \* the client has stopped reading for good

vars == <<closed, done, mu, ws, pc, stalled>>

Senders == Writers \union {Ping}
Procs == Senders \union Closers

PCs == {"idle",     \* not inside WriteMessage or Close; ping: in its select
        "lock",     \* WriteMessage: first look passed, before c.mu.Lock()
        "locked",   \* WriteMessage: holding c.mu, before the second look
        "writing",  \* inside ws.WriteMessage
        "swapped",  \* Close: won the CompareAndSwap
        "shut",     \* Close: done is closed, before c.mu.Lock()
        "closing",  \* Close: holding c.mu
        "ended"}    \* Close has returned; ping: the goroutine has ended

Init ==
    /\ closed = FALSE
    /\ done = 0
    /\ mu = NoOne
    /\ ws = "open"
    /\ pc = [p \in Procs |-> "idle"]
    /\ stalled = FALSE

Goto(p, from, to) ==
    /\ pc[p] = from
    /\ pc' = [pc EXCEPT ![p] = to]

\* Where WriteMessage returns to: an error ends the heartbeat goroutine.
Failed(p) == IF p = Ping THEN "ended" ELSE "idle"

-----------------------------------------------------------------------------
(* WriteMessage.  For Ping the first step is a tick of its ticker. *)

WriteBegin(p) ==
    /\ p \in Senders
    /\ Goto(p, "idle", IF closed THEN Failed(p) ELSE "lock")
    /\ UNCHANGED <<closed, done, mu, ws, stalled>>

WriteLock(p) ==
    /\ mu = NoOne
    /\ mu' = p
    /\ Goto(p, "lock", "locked")
    /\ UNCHANGED <<closed, done, ws, stalled>>

\* Mutant: the connection is not looked at again once the lock is held.
WriteRecheckSkipped(p) ==
    /\ Goto(p, "locked", "writing")
    /\ UNCHANGED <<closed, done, mu, ws, stalled>>

\* The second look, under the lock.
WriteRecheck(p) ==
    /\ Goto(p, "locked", IF closed THEN Failed(p) ELSE "writing")
    /\ mu' = IF closed THEN NoOne ELSE mu
    /\ UNCHANGED <<closed, done, ws, stalled>>

WriteOk(p) ==
    /\ ~stalled /\ ws = "open"
    /\ Goto(p, "writing", "idle")
    /\ mu' = NoOne
    /\ UNCHANGED <<closed, done, ws, stalled>>

\* Mutant: no deadline is set before the write.
WriteFailsOnlyClosed(p) ==
    /\ ws = "closed"
    /\ Goto(p, "writing", Failed(p))
    /\ mu' = NoOne
    /\ UNCHANGED <<closed, done, ws, stalled>>

\* A write to a client that does not read ends with the write deadline.
WriteFails(p) ==
    /\ Timeout \/ ws = "closed"
    /\ Goto(p, "writing", Failed(p))
    /\ mu' = NoOne
    /\ UNCHANGED <<closed, done, ws, stalled>>

\* The ping goroutine's select sees done.
PingDone ==
    /\ done > 0
    /\ Goto(Ping, "idle", "ended")
    /\ UNCHANGED <<closed, done, mu, ws, stalled>>

-----------------------------------------------------------------------------
(* Close. *)

\* closed.CompareAndSwap(false, true).
CloseSwap(p) ==
    /\ p \in Closers
    /\ Goto(p, "idle", IF closed THEN "ended" ELSE "swapped")
    /\ closed' = TRUE
    /\ UNCHANGED <<done, mu, ws, stalled>>

CloseDone(p) ==
    /\ Goto(p, "swapped", "shut")
    /\ done' = IF done < 2 THEN done + 1 ELSE done
    /\ UNCHANGED <<closed, mu, ws, stalled>>

CloseLock(p) ==
    /\ mu = NoOne
    /\ mu' = p
    /\ Goto(p, "shut", "closing")
    /\ UNCHANGED <<closed, done, ws, stalled>>

CloseWs(p) ==
    /\ Goto(p, "closing", "ended")
    /\ ws' = "closed"
    /\ mu' = NoOne
    /\ UNCHANGED <<closed, done, stalled>>

\* The client stops reading: its buffers fill up and writes block.
Stall ==
    /\ ~stalled
    /\ stalled' = TRUE
    /\ UNCHANGED <<closed, done, mu, ws, pc>>

-----------------------------------------------------------------------------

WriteStep(p) == WriteLock(p) \/ WriteRecheck(p) \/ WriteOk(p) \/ WriteFails(p)
CloseStep(p) == CloseDone(p) \/ CloseLock(p) \/ CloseWs(p)

Next ==
    \/ \E p \in Senders : WriteBegin(p) \/ WriteStep(p)
    \/ \E p \in Closers : CloseSwap(p) \/ CloseStep(p)
    \/ PingDone
    \/ Stall

Spec == Init /\ [][Next]_vars

\* Goroutines run, a sync.Mutex in starvation mode serves whoever waits, and
\* select does not ignore a closed done for ever.  Nobody has to write or close.
FairSpec ==
    /\ Spec
    /\ SF_vars(PingDone)
    /\ \A p \in Senders : WF_vars(WriteStep(p)) /\ SF_vars(WriteLock(p))
    /\ \A p \in Closers : WF_vars(CloseStep(p)) /\ SF_vars(CloseLock(p))

-----------------------------------------------------------------------------

TypeOK ==
    /\ closed \in BOOLEAN
    /\ done \in 0..1      \* "it only closes once": close of a closed channel panics
    /\ mu \in Procs \union {NoOne}
    /\ ws \in {"open", "closed"}
    /\ pc \in [Procs -> PCs]
    /\ stalled \in BOOLEAN

\* "All writes are guarded by a mutex (gorilla/websocket forbids concurrent
\* writes)": at most one goroutine is inside the gorilla connection, writers and
\* Close together.
OneInside ==
    Cardinality({p \in Procs : pc[p] \in {"writing", "closing"}}) <= 1

\* No write is begun on a gorilla connection that Close has closed, however
\* long a writer was queued for the lock.
NoWriteAfterClose == ws = "closed" => \A p \in Senders : pc[p] # "writing"

\* Goroutines are inside gorilla's connection one at a time, never to write after
\* Close has closed it, and done is closed once.
ConnSafe == TypeOK /\ OneInside /\ NoWriteAfterClose

\* "a slow client cannot block the write forever and, with it, broadcasts and
\* shutdown": a Close that has begun returns.
CloseReturns ==
    \A p \in Closers : pc[p] # "idle" ~> pc[p] = "ended"

\* Close "also signals the ping goroutine to exit": no heartbeat is left behind
\* on a closed connection.
PingEnds == closed ~> pc[Ping] = "ended"
=============================================================================
