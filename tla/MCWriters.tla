----------------------------- MODULE MCWriters -----------------------------
(***************************************************************************)
(* The two places where goroutines share a client's connection, websocket's*)
(* connection and the timeout middleware's writer, for TLC, one after the  *)
(* other: which is the one that runs, the variables of the other keep their*)
(* initial values.                                                         *)
(***************************************************************************)
EXTENDS WsConn

CONSTANT MaxWrites

ASSUME WritesAssumption == MaxWrites \in Nat

VARIABLES which, streams, hd, md, tmu, tw, wire, writes, asked

Timed == INSTANCE TimeoutWriter WITH mu <- tmu

tVars == <<streams, hd, md, tmu, tw, wire, writes, asked>>

MCInit ==
    /\ which \in {"conn", "timeout"}
    /\ Init /\ Timed!Init
    /\ which # "timeout" => ~streams

MCNext ==
    \/ which = "conn" /\ Next /\ UNCHANGED <<which, tVars>>
    \/ which = "timeout" /\ Timed!Next /\ UNCHANGED <<which, vars>>

\* The fairness of the two specifications, for the one that runs.
Fairness ==
    /\ SF_vars(which = "conn" /\ PingDone)
    /\ \A p \in Senders :
          /\ WF_vars(which = "conn" /\ WriteStep(p))
          /\ SF_vars(which = "conn" /\ WriteLock(p))
    /\ \A p \in Closers :
          /\ WF_vars(which = "conn" /\ CloseStep(p))
          /\ SF_vars(which = "conn" /\ CloseLock(p))
    /\ WF_tVars(which = "timeout" /\ Timed!TimeIsUp /\ UNCHANGED streams)
    /\ WF_tVars(which = "timeout" /\ Timed!MiddlewareStep /\ UNCHANGED streams)
    /\ WF_tVars(which = "timeout" /\ Timed!FlushStep /\ UNCHANGED streams)
    /\ WF_tVars(which = "timeout" /\ Timed!PanicSent /\ UNCHANGED streams)
    /\ SF_tVars(which = "timeout" /\ Timed!Mark /\ UNCHANGED streams)

MCSpec == MCInit /\ [][MCNext]_<<which, vars, tVars>> /\ Fairness

\* The client gets what the handler wrote in order, without gaps and once, with
\* the status that the handler had set; and without Flush either the handler's
\* response or the timeout's.  A handler that runs on after the timeout does not
\* touch the ResponseWriter.
ResponseWhole ==
    /\ [](/\ Timed!TypeOK
          /\ Timed!BodyInOrder
          /\ Timed!StatusHonest
          /\ Timed!Unmixed)
    /\ Timed!NothingAfterReturn

\* Nobody is left behind on a connection: Close returns although the client does
\* not read, and ends the ping goroutine; the timeout middleware returns although
\* the handler does not, and a panic never leaves the handler's goroutine behind.
WritersEnd ==
    /\ CloseReturns /\ PingEnds
    /\ which = "timeout" => Timed!MiddlewareReturns
    /\ Timed!PanicEnds
=============================================================================
