--------------------------- MODULE TimeoutWriter ---------------------------
(***************************************************************************)
(* middleware.Timeout and respw.TimeoutWriter: the handler runs in its own *)
(* goroutine and writes to a buffer; the middleware goroutine waits for it *)
(* or for the context, and answers in its place when the time is up.  Both *)
(* reach the same underlying http.ResponseWriter: the handler's side under *)
(* tw.mu, the middleware's error response without it.                      *)
(***************************************************************************)
EXTENDS Naturals, Sequences

CONSTANT MaxWrites  \* bound on the handler's Write calls

VARIABLES
    streams,    \* whether the handler calls Flush
    hd,         \* the handler goroutine
    md,         \* the middleware goroutine
    mu,         \* whether a Flush holds tw.mu
    tw,         \* the fields of the TimeoutWriter
    wire,       \* what the underlying ResponseWriter has been given
    writes,     \* history: successful Write calls
    asked       \* history: the status that was recorded when the header was due

vars == <<streams, hd, md, mu, tw, wire, writes, asked>>

\* Statuses: 200, any other one of the handler, the middleware's 503 or 499.
Codes == {"ok", "other"}
Writer == [timedOut : BOOLEAN, wroteHeader : BOOLEAN, headerSent : BOOLEAN,
           code : Codes, buf : Seq(1..MaxWrites)]
\* Body parts: the number of the handler's Write, or 0 for the error body.
Response == [status : Codes \union {"none", "error"}, body : Seq(0..MaxWrites)]

HandlerPCs == {"run", "flush", "flushBody", "panicking", "ended"}
MiddlewarePCs == {"select", "done", "doneBody", "error", "errorBody", "mark",
                  "returned", "panicked"}

Init ==
    /\ streams \in BOOLEAN
    /\ hd = "run"
    /\ md = "select"
    /\ mu = FALSE
    /\ tw = [timedOut |-> FALSE, wroteHeader |-> FALSE, headerSent |-> FALSE,
             code |-> "ok", buf |-> <<>>]
    /\ wire = [status |-> "none", body |-> <<>>]
    /\ writes = 0
    /\ asked = "none"

-----------------------------------------------------------------------------
(* The underlying ResponseWriter (external): a second WriteHeader is ignored, *)
(* a Write before any sends 200.                                              *)

Sent(s) == IF wire.status = "none" THEN s ELSE wire.status
SendHeader(s) == wire' = [wire EXCEPT !.status = Sent(s)]
SendBody(parts) ==
    wire' = [status |-> Sent("ok"), body |-> wire.body \o parts]

-----------------------------------------------------------------------------
(* TimeoutWriter, called by the handler. *)

WriteHeader(c) ==
    /\ hd = "run" /\ ~mu
    /\ tw' = IF tw.wroteHeader THEN tw ELSE [tw EXCEPT !.code = c, !.wroteHeader = TRUE]
    /\ UNCHANGED <<hd, md, mu, wire, writes, asked>>

Write ==
    /\ hd = "run" /\ ~mu
    /\ ~tw.timedOut
    /\ writes < MaxWrites
    /\ writes' = writes + 1
    /\ tw' = [tw EXCEPT !.wroteHeader = TRUE, !.buf = Append(@, writes + 1),
                        !.code = IF tw.wroteHeader THEN @ ELSE "ok"]
    /\ UNCHANGED <<hd, md, mu, wire, asked>>

\* Flush: the lock, the look at timedOut...
Flush ==
    /\ streams /\ hd = "run" /\ ~mu
    /\ ~tw.timedOut
    /\ mu' = TRUE /\ hd' = "flush"
    /\ UNCHANGED <<md, tw, wire, writes, asked>>

\* writeHeaderToUnderlyingLocked: 200 is left to the first Write.
Header ==
    /\ asked' = IF asked = "none" THEN tw.code ELSE asked
    /\ tw' = [tw EXCEPT !.headerSent = TRUE]
    /\ IF tw.headerSent \/ tw.code = "ok" THEN UNCHANGED wire ELSE SendHeader(tw.code)

\* ... the header...
FlushHeader ==
    /\ hd = "flush"
    /\ Header
    /\ hd' = "flushBody"
    /\ UNCHANGED <<md, mu, writes>>

\* Mutant: the buffer is not reset.
FlushBodyKept ==
    /\ hd = "flushBody"
    /\ SendBody(tw.buf)
    /\ mu' = FALSE /\ hd' = "run"
    /\ UNCHANGED <<md, tw, writes, asked>>

\* ... and the buffer.
FlushBody ==
    /\ hd = "flushBody"
    /\ SendBody(tw.buf)
    /\ tw' = [tw EXCEPT !.buf = <<>>]
    /\ mu' = FALSE /\ hd' = "run"
    /\ UNCHANGED <<md, writes, asked>>

\* next.ServeHTTP returns: close(done).
HandlerReturns ==
    /\ hd = "run"
    /\ hd' = "ended"
    /\ md' = IF md = "select" THEN "done" ELSE md
    /\ UNCHANGED <<mu, tw, wire, writes, asked>>

HandlerPanics ==
    /\ hd = "run"
    /\ hd' = "panicking"
    /\ UNCHANGED <<md, mu, tw, wire, writes, asked>>

\* panicChan <- p, with room for one; the middleware panics in turn if it still
\* waits.
PanicSent ==
    /\ hd = "panicking"
    /\ hd' = "ended"
    /\ md' = IF md = "select" THEN "panicked" ELSE md
    /\ UNCHANGED <<mu, tw, wire, writes, asked>>

-----------------------------------------------------------------------------
(* The middleware goroutine. *)

\* <-ctx.Done(): the deadline, or a client that went away.  select may prefer it
\* to a handler that has just ended.
TimeIsUp ==
    /\ md \in {"select", "done"}
    /\ md' = "error"
    /\ UNCHANGED <<hd, mu, tw, wire, writes, asked>>

\* tw.Done: header...
DoneHeader ==
    /\ md = "done"
    /\ Header
    /\ md' = "doneBody"
    /\ UNCHANGED <<hd, mu, writes>>

\* ... and body.
DoneBody ==
    /\ md = "doneBody"
    /\ SendBody(tw.buf)
    /\ tw' = [tw EXCEPT !.buf = <<>>]
    /\ md' = "returned"
    /\ UNCHANGED <<hd, mu, writes, asked>>

\* The error response goes straight to w: a status, and for a timeout a body.
ErrorHeader ==
    /\ md = "error"
    /\ SendHeader("error")
    /\ md' \in {"errorBody", "mark"}
    /\ UNCHANGED <<hd, mu, tw, writes, asked>>

ErrorBody ==
    /\ md = "errorBody"
    /\ SendBody(<<0>>)
    /\ md' = "mark"
    /\ UNCHANGED <<hd, mu, tw, writes, asked>>

\* tw.Timeout(), which waits for a Flush to end.
Mark ==
    /\ md = "mark" /\ ~mu
    /\ tw' = [tw EXCEPT !.timedOut = TRUE]
    /\ md' = "returned"
    /\ UNCHANGED <<hd, mu, wire, writes, asked>>

-----------------------------------------------------------------------------

FlushStep == FlushHeader \/ FlushBody
HandlerStep == FlushStep \/ HandlerReturns \/ PanicSent
MiddlewareStep == DoneHeader \/ DoneBody \/ ErrorHeader \/ ErrorBody \/ Mark

Next ==
    /\ \/ \E c \in Codes : WriteHeader(c)
       \/ Write \/ Flush \/ HandlerPanics
       \/ HandlerStep
       \/ MiddlewareStep \/ TimeIsUp
    /\ UNCHANGED streams

Spec == Init /\ [][Next]_vars

\* The deadline passes, goroutines run, writes to the client end.  The handler
\* need not return, but a panic propagates.
FairSpec ==
    /\ Spec
    /\ WF_vars(TimeIsUp /\ UNCHANGED streams)
    /\ WF_vars(MiddlewareStep /\ UNCHANGED streams)
    /\ WF_vars(FlushStep /\ UNCHANGED streams)
    /\ WF_vars(PanicSent /\ UNCHANGED streams)
    /\ SF_vars(Mark /\ UNCHANGED streams)    \* a mutex in starvation mode

-----------------------------------------------------------------------------

TypeOK ==
    /\ streams \in BOOLEAN
    /\ hd \in HandlerPCs /\ md \in MiddlewarePCs
    /\ mu \in BOOLEAN
    /\ tw \in Writer
    /\ wire \in Response
    /\ writes \in 0..MaxWrites
    /\ asked \in Codes \union {"none"}
    /\ mu <=> hd \in {"flush", "flushBody"}

\* Once the middleware has returned the ResponseWriter belongs to net/http: a
\* handler that is still running does not touch it any more.
NothingAfterReturn ==
    [][(md \in {"returned", "panicked"}) => UNCHANGED wire]_vars

\* What the handler wrote reaches the client in order, without gaps and only
\* once, however Flush and Done divide it.
BodyInOrder ==
    LET parts == wire.body \o tw.buf
    IN /\ \A n \in 1..writes : \E i \in DOMAIN parts : parts[i] = n
       /\ \A i \in DOMAIN parts : parts[i] <= writes
       /\ \A i, j \in DOMAIN parts :
             i < j /\ parts[i] # 0 /\ parts[j] # 0 => parts[i] < parts[j]

\* The client sees the status that the handler had set when the header went out
\* ("if the status code explicitly set by the handler ... is not written here,
\* the client would always see 200").
StatusHonest ==
    wire.status \in Codes => wire.status = asked

\* The response "can be safely discarded after a timeout": the client gets the
\* handler's response or the middleware's, never parts of both, unless the
\* handler calls Flush.
Unmixed ==
    LET fromHandler == \E i \in DOMAIN wire.body : wire.body[i] # 0
        fromMiddleware == wire.status = "error" \/ 0 \in {wire.body[i] : i \in DOMAIN wire.body}
    IN  ~streams => ~(fromHandler /\ fromMiddleware)

\* "Each request may run for at most duration": the middleware returns although
\* the handler does not.
MiddlewareReturns == <>(md \in {"returned", "panicked"})

\* A panic of the handler never leaves its goroutine behind, not even one that
\* comes after the timeout.
PanicEnds == hd = "panicking" ~> hd = "ended"
=============================================================================
