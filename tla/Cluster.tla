------------------------------ MODULE Cluster ------------------------------
(***************************************************************************)
(* websocket.ClusterHandler over the Redis bridge: Publish sends a message *)
(* to the cluster channel; on every node a bridge goroutine (Subscribe)    *)
(* receives from its subscription into a buffered channel, and a second    *)
(* goroutine (ClusterHandler.Start) dispatches from there.  Redis and its  *)
(* connections are external.                                               *)
(***************************************************************************)
EXTENDS Naturals, Sequences

CONSTANTS
    Nodes,
    MaxMsgs,    \* bound on the messages published
    Cap         \* capacity of the out channel (100 in the code)

VARIABLES
    sent,       \* messages published so far: 1, 2, ..., sent
    sock,       \* per node: what Redis has pushed and Receive has not returned
    conn,       \* per node: its subscription connection
    recv,       \* per node: the bridge goroutine and the message it holds
    out,        \* per node: the buffered channel, and whether it is closed
    disp,       \* per node: the dispatching goroutine
    stop,       \* per node: how far ClusterHandler.Stop is
    got         \* history: what each node has dispatched

vars == <<sent, sock, conn, recv, out, disp, stop, got>>

Msgs == 1..MaxMsgs
Receivers == [pc : {"receive", "offer", "ended"}, m : {0} \union Msgs]

Init ==
    /\ sent = 0
    /\ sock = [n \in Nodes |-> <<>>]
    /\ conn = [n \in Nodes |-> "up"]
    /\ recv = [n \in Nodes |-> [pc |-> "receive", m |-> 0]]
    /\ out = [n \in Nodes |-> [buf |-> <<>>, closed |-> FALSE]]
    /\ disp = [n \in Nodes |-> "select"]
    /\ stop = [n \in Nodes |-> "no"]
    /\ got = [n \in Nodes |-> <<>>]

-----------------------------------------------------------------------------

\* PUBLISH reaches every subscription whose connection is up.
Publish ==
    /\ sent < MaxMsgs
    /\ sent' = sent + 1
    /\ sock' = [n \in Nodes |-> IF conn[n] = "up" THEN Append(sock[n], sent + 1) ELSE sock[n]]
    /\ UNCHANGED <<conn, recv, out, disp, stop, got>>

\* The connection breaks (external); what has not been read is lost.
Break(n) ==
    /\ conn[n] = "up"
    /\ conn' = [conn EXCEPT ![n] = "broken"]
    /\ sock' = [sock EXCEPT ![n] = <<>>]
    /\ UNCHANGED <<sent, recv, out, disp, stop, got>>

\* The bridge: pubsub.Receive returns a message...
Receive(n) ==
    /\ recv[n].pc = "receive" /\ sock[n] # <<>>
    /\ recv' = [recv EXCEPT ![n] = [pc |-> "offer", m |-> Head(sock[n])]]
    /\ sock' = [sock EXCEPT ![n] = Tail(@)]
    /\ UNCHANGED <<sent, conn, out, disp, stop, got>>

\* ... or an error, and the goroutine returns: pubsub.Close and close(out).
ReceiveError(n) ==
    /\ recv[n].pc = "receive" /\ conn[n] # "up"
    /\ recv' = [recv EXCEPT ![n] = [pc |-> "ended", m |-> 0]]
    /\ out' = [out EXCEPT ![n].closed = TRUE]
    /\ conn' = [conn EXCEPT ![n] = "closed"]
    /\ sock' = [sock EXCEPT ![n] = <<>>]
    /\ UNCHANGED <<sent, disp, stop, got>>

\* Mutant: a full channel drops the oldest message.
OfferDropsOldest(n) ==
    /\ recv[n].pc = "offer"
    /\ out' = [out EXCEPT ![n].buf =
                  IF Len(@) < Cap THEN Append(@, recv[n].m) ELSE Append(Tail(@), recv[n].m)]
    /\ recv' = [recv EXCEPT ![n] = [pc |-> "receive", m |-> 0]]
    /\ UNCHANGED <<sent, sock, conn, disp, stop, got>>

\* select: out <- payload...
Offer(n) ==
    /\ recv[n].pc = "offer" /\ Len(out[n].buf) < Cap
    /\ out' = [out EXCEPT ![n].buf = Append(@, recv[n].m)]
    /\ recv' = [recv EXCEPT ![n] = [pc |-> "receive", m |-> 0]]
    /\ UNCHANGED <<sent, sock, conn, disp, stop, got>>

\* Mutant: the bridge does not watch done.
OfferCancelledNever(n) == FALSE /\ UNCHANGED vars

\* ... or <-done, closed by cancel.
OfferCancelled(n) ==
    /\ recv[n].pc = "offer" /\ stop[n] \in {"waiting", "returned"}
    /\ recv' = [recv EXCEPT ![n] = [pc |-> "ended", m |-> 0]]
    /\ out' = [out EXCEPT ![n].closed = TRUE]
    /\ conn' = [conn EXCEPT ![n] = "closed"]
    /\ UNCHANGED <<sent, sock, disp, stop, got>>

\* The dispatching goroutine: handleMessage runs to its end for one message.
Dispatch(n) ==
    /\ disp[n] = "select" /\ out[n].buf # <<>>
    /\ got' = [got EXCEPT ![n] = Append(@, Head(out[n].buf))]
    /\ out' = [out EXCEPT ![n].buf = Tail(@)]
    /\ UNCHANGED <<sent, sock, conn, recv, disp, stop>>

\* The channel is closed and drained.
DispatchClosed(n) ==
    /\ disp[n] = "select" /\ out[n].closed /\ out[n].buf = <<>>
    /\ disp' = [disp EXCEPT ![n] = "ended"]
    /\ UNCHANGED <<sent, sock, conn, recv, out, stop, got>>

\* h.done is closed; select may see it before waiting messages.
DispatchDone(n) ==
    /\ disp[n] = "select" /\ stop[n] # "no"
    /\ disp' = [disp EXCEPT ![n] = "ended"]
    /\ UNCHANGED <<sent, sock, conn, recv, out, stop, got>>

\* Stop: close(h.done)...
StopBegin(n) ==
    /\ stop[n] = "no"
    /\ stop' = [stop EXCEPT ![n] = "cancelling"]
    /\ UNCHANGED <<sent, sock, conn, recv, out, disp, got>>

\* ... then cancel: done is closed and the subscription with it...
StopCancel(n) ==
    /\ stop[n] = "cancelling"
    /\ stop' = [stop EXCEPT ![n] = "waiting"]
    /\ conn' = [conn EXCEPT ![n] = "closed"]
    /\ sock' = [sock EXCEPT ![n] = <<>>]
    /\ UNCHANGED <<sent, recv, out, disp, got>>

\* ... then wg.Wait().
StopReturn(n) ==
    /\ stop[n] = "waiting" /\ disp[n] = "ended"
    /\ stop' = [stop EXCEPT ![n] = "returned"]
    /\ UNCHANGED <<sent, sock, conn, recv, out, disp, got>>

-----------------------------------------------------------------------------

Bridge(n) == Receive(n) \/ ReceiveError(n) \/ Offer(n) \/ OfferCancelled(n)
Dispatcher(n) == Dispatch(n) \/ DispatchClosed(n) \/ DispatchDone(n)
Stopper(n) == StopCancel(n) \/ StopReturn(n)

Next ==
    \/ Publish
    \/ \E n \in Nodes :
          Bridge(n) \/ Dispatcher(n) \/ Stopper(n) \/ Break(n) \/ StopBegin(n)

Spec == Init /\ [][Next]_vars

\* Goroutines run; writes to clients have a deadline, so handleMessage ends.
FairSpec ==
    /\ Spec
    /\ \A n \in Nodes :
          WF_vars(Bridge(n)) /\ WF_vars(Dispatcher(n)) /\ WF_vars(Stopper(n))

-----------------------------------------------------------------------------

TypeOK ==
    /\ sent \in 0..MaxMsgs
    /\ sock \in [Nodes -> Seq(Msgs)]
    /\ conn \in [Nodes -> {"up", "broken", "closed"}]
    /\ recv \in [Nodes -> Receivers]
    /\ \A n \in Nodes : out[n].buf \in Seq(Msgs) /\ Len(out[n].buf) <= Cap
                        /\ out[n].closed \in BOOLEAN
    /\ disp \in [Nodes -> {"select", "ended"}]
    /\ stop \in [Nodes -> {"no", "cancelling", "waiting", "returned"}]
    /\ got \in [Nodes -> Seq(Msgs)]

\* A node dispatches the messages in the order they were published, each once
\* and without a gap up to the point where its subscription ended: a full
\* buffer delays messages and loses none.
PublishedOrder ==
    \A n \in Nodes :
        LET held == IF recv[n].pc = "offer" THEN <<recv[n].m>> ELSE <<>>
            path == got[n] \o out[n].buf \o held \o sock[n]
        IN  /\ \A i \in DOMAIN path : path[i] = i
            /\ conn[n] = "up" => Len(path) = sent

\* Stop returns and leaves no goroutine behind: "The subscription must be closed
\* explicitly to wake up a blocked Receive", and a bridge that is stuck with a
\* full channel is told as well.
StopEndsAll ==
    \A n \in Nodes :
        stop[n] # "no" ~> stop[n] = "returned" /\ recv[n].pc = "ended"

\* "After it returns, every instance (including this one) receives the message
\* and dispatches it to its local connections" (Publish), for every instance
\* that is not being stopped and whose subscription has not broken: it always
\* catches up again.
EveryoneReceives ==
    \A n \in Nodes : []<>(stop[n] # "no" \/ conn[n] # "up" \/ Len(got[n]) = sent)
=============================================================================
