--------------------------- MODULE WebsocketProof ---------------------------
(***************************************************************************)
(* Proofs about Cluster, for any nodes, messages and buffer sizes, and     *)
(* about WsServer with rooms in memory, for any connections and rooms.     *)
(***************************************************************************)
EXTENDS MCWebsocket, TLAPS

-----------------------------------------------------------------------------
(* Sequences of consecutive numbers. *)

\* s is a + 1, a + 2, ...
Follows(s, a) == \A i \in 1..Len(s) : s[i] = a + i

LEMMA FollowsAppend ==
    ASSUME NEW s \in Seq(Nat), NEW a \in Nat, Follows(s, a)
    PROVE  /\ Follows(Append(s, a + Len(s) + 1), a)
           /\ Len(Append(s, a + Len(s) + 1)) = Len(s) + 1
BY DEF Follows

LEMMA FollowsTail ==
    ASSUME NEW s \in Seq(Nat), NEW a \in Nat, Follows(s, a), s # <<>>
    PROVE  /\ Head(s) = a + 1
           /\ Follows(Tail(s), a + 1)
           /\ Tail(s) \in Seq(Nat) /\ Len(Tail(s)) = Len(s) - 1
BY DEF Follows

LEMMA FollowsConcat ==
    ASSUME NEW s \in Seq(Nat), NEW t \in Seq(Nat), NEW a \in Nat,
           Follows(s, a), Follows(t, a + Len(s))
    PROVE  /\ Follows(s \o t, a)
           /\ s \o t \in Seq(Nat) /\ Len(s \o t) = Len(s) + Len(t)
BY DEF Follows

-----------------------------------------------------------------------------
(* Cluster *)

Buf(n) == out[n].buf
Holds(n) == IF recv[n].pc = "offer" THEN 1 ELSE 0
Ahead(n) == Len(got[n]) + Len(Buf(n)) + Holds(n)

\* The messages on their way to node n, part by part: each part goes on with
\* the number after the last one of the part before it.
Line(n) ==
    /\ Follows(got[n], 0)
    /\ Follows(Buf(n), Len(got[n]))
    /\ recv[n].pc = "offer" => recv[n].m = Len(got[n]) + Len(Buf(n)) + 1
    /\ Follows(sock[n], Ahead(n))
    /\ conn[n] = "up" => Ahead(n) + Len(sock[n]) = sent

\* Nothing waits on a connection that is not up; so the message that the bridge
\* drops when it is cancelled is the last one.
Cut(n) ==
    /\ conn[n] # "up" => sock[n] = <<>>
    /\ stop[n] \in {"waiting", "returned"} => conn[n] = "closed"

ClusterType ==
    /\ sent \in Nat
    /\ sock \in [Nodes -> Seq(Nat)]
    /\ conn \in [Nodes -> {"up", "broken", "closed"}]
    /\ recv \in [Nodes -> [pc : {"receive", "offer", "ended"}, m : Nat]]
    /\ out \in [Nodes -> [buf : Seq(Nat), closed : BOOLEAN]]
    /\ stop \in [Nodes -> {"no", "cancelling", "waiting", "returned"}]
    /\ got \in [Nodes -> Seq(Nat)]

Good(n) == Line(n) /\ Cut(n)

ClusterInv == ClusterType /\ \A n \in Nodes : Good(n)

LEMMA ClusterInitial == Init => ClusterInv
<1> SUFFICES ASSUME Init PROVE ClusterInv
  OBVIOUS
<1> USE DEF Init
<1>1. ClusterType
  BY DEF ClusterType
<1>2. ASSUME NEW n \in Nodes PROVE Good(n)
  BY DEF Good, Line, Cut, Buf, Holds, Ahead, Follows
<1>3. QED
  BY <1>1, <1>2 DEF ClusterInv

\* What a step of one node leaves alone at the others.
Same(n) ==
    /\ sent' = sent /\ sock'[n] = sock[n] /\ conn'[n] = conn[n] /\ recv'[n] = recv[n]
    /\ out'[n] = out[n] /\ stop'[n] = stop[n] /\ got'[n] = got[n]

LEMMA SameIsGood == \A n \in Nodes : Good(n) /\ Same(n) => Good(n)'
BY DEF Good, Same, Line, Cut, Buf, Holds, Ahead

\* What the actions need of the types at one node.
LEMMA AtNode ==
    ASSUME ClusterType, NEW n \in Nodes
    PROVE  /\ sent \in Nat /\ sock[n] \in Seq(Nat) /\ got[n] \in Seq(Nat)
           /\ Buf(n) \in Seq(Nat) /\ recv[n].m \in Nat
           /\ Len(got[n]) \in Nat /\ Len(Buf(n)) \in Nat /\ Len(sock[n]) \in Nat
           /\ Holds(n) \in Nat /\ Ahead(n) \in Nat
<1> USE DEF ClusterType, Buf
<1>1. sent \in Nat /\ sock[n] \in Seq(Nat) /\ got[n] \in Seq(Nat)
  OBVIOUS
<1>2. out[n] \in [buf : Seq(Nat), closed : BOOLEAN]
  OBVIOUS
<1>3. Buf(n) \in Seq(Nat)
  BY <1>2
<1>4. recv[n] \in [pc : {"receive", "offer", "ended"}, m : Nat]
  OBVIOUS
<1>5. recv[n].m \in Nat /\ Holds(n) \in Nat
  BY <1>4 DEF Holds
<1>6. Len(got[n]) \in Nat /\ Len(Buf(n)) \in Nat /\ Len(sock[n]) \in Nat
  BY <1>1, <1>3
<1>7. QED
  BY <1>1, <1>3, <1>5, <1>6 DEF Ahead

LEMMA PublishKeeps == ClusterInv /\ Publish => ClusterInv'
<1> SUFFICES ASSUME ClusterInv, Publish PROVE ClusterInv'
  OBVIOUS
<1> USE DEF ClusterInv
<1>1. ClusterType'
  BY DEF ClusterType, Publish
<1>2. ASSUME NEW n \in Nodes PROVE Good(n)'
  <2>1. /\ got'[n] = got[n] /\ Buf(n)' = Buf(n) /\ recv'[n] = recv[n]
        /\ conn'[n] = conn[n] /\ stop'[n] = stop[n] /\ Ahead(n)' = Ahead(n)
        /\ Holds(n)' = Holds(n) /\ sent' = sent + 1
    BY DEF Publish, Buf, Holds, Ahead
  <2>2. CASE conn[n] = "up"
    <3>1. sock'[n] = Append(sock[n], Ahead(n) + Len(sock[n]) + 1)
      BY <2>2, AtNode DEF Publish, Good, Line
    <3>2. Follows(sock'[n], Ahead(n)) /\ Len(sock'[n]) = Len(sock[n]) + 1
      BY <3>1, AtNode, FollowsAppend DEF Good, Line
    <3>3. QED
      BY <2>1, <2>2, <3>2, AtNode DEF Good, Line, Cut
  <2>3. CASE conn[n] # "up"
    <3>1. sock'[n] = sock[n]
      BY <2>3 DEF Publish
    <3>2. QED
      BY <2>1, <2>3, <3>1 DEF Good, Line, Cut
  <2>4. QED
    BY <2>2, <2>3
<1>3. QED
  BY <1>1, <1>2

LEMMA ReceiveKeeps == \A n \in Nodes : ClusterInv /\ Receive(n) => ClusterInv'
<1> SUFFICES ASSUME NEW n \in Nodes, ClusterInv, Receive(n) PROVE ClusterInv'
  OBVIOUS
<1> USE DEF ClusterInv
<1>1. ClusterType'
  <2>1. Tail(sock[n]) \in Seq(Nat) /\ Head(sock[n]) \in Nat
    BY AtNode DEF Receive
  <2>2. QED
    BY <2>1 DEF ClusterType, Receive
<1>2. ASSUME NEW k \in Nodes, k # n PROVE Good(k)'
  BY <1>2, SameIsGood DEF Same, Receive, ClusterType
<1>3. Good(n)'
  <2>1. /\ recv'[n] = [pc |-> "offer", m |-> Head(sock[n])]
        /\ sock'[n] = Tail(sock[n]) /\ sock[n] # <<>> /\ recv[n].pc = "receive"
        /\ got'[n] = got[n] /\ out'[n] = out[n]
        /\ conn'[n] = conn[n] /\ stop'[n] = stop[n] /\ sent' = sent
    BY DEF Receive, ClusterType
  <2>2. Buf(n)' = Buf(n) /\ Holds(n) = 0 /\ Holds(n)' = 1 /\ Ahead(n)' = Ahead(n) + 1
    BY <2>1, AtNode DEF Buf, Holds, Ahead
  <2>3. /\ Head(sock[n]) = Ahead(n) + 1 /\ Follows(Tail(sock[n]), Ahead(n) + 1)
        /\ Len(Tail(sock[n])) = Len(sock[n]) - 1
    BY <2>1, AtNode, FollowsTail DEF Good, Line
  <2>4. Ahead(n) = Len(got[n]) + Len(Buf(n))
    BY <2>2, AtNode DEF Ahead
  <2>5. Ahead(n) \in Nat /\ sock[n] \in Seq(Nat) /\ sent \in Nat
    BY AtNode
  <2>6. recv'[n].m = Len(got'[n]) + Len(Buf(n)') + 1
    BY <2>1, <2>2, <2>3, <2>4
  <2>7. Follows(sock'[n], Ahead(n)') /\ (conn'[n] = "up" => Ahead(n)' + Len(sock'[n]) = sent')
    <3>1. Follows(sock'[n], Ahead(n)')
      BY <2>1, <2>2, <2>3
    <3> DEFINE a == Ahead(n)
               b == Len(sock[n])
    <3>2. a \in Nat /\ b \in Nat
      BY <2>5
    <3>3. Ahead(n)' = a + 1 /\ Len(sock'[n]) = b - 1 /\ (conn[n] = "up" => a + b = sent)
      BY <2>1, <2>2, <2>3 DEF Good, Line
    <3> HIDE DEF a, b
    <3>4. (conn'[n] = "up" => Ahead(n)' + Len(sock'[n]) = sent')
      BY <2>1, <3>2, <3>3
    <3>5. QED
      BY <3>1, <3>4
  <2>8. Line(n)'
    BY <2>1, <2>2, <2>6, <2>7 DEF Good, Line
  <2>9. QED
    BY <2>1, <2>8 DEF Good, Cut
<1>4. QED
  BY <1>1, <1>2, <1>3


LEMMA ReceiveErrorKeeps == \A n \in Nodes : ClusterInv /\ ReceiveError(n) => ClusterInv'
<1> SUFFICES ASSUME NEW n \in Nodes, ClusterInv, ReceiveError(n) PROVE ClusterInv'
  OBVIOUS
<1> USE DEF ClusterInv
<1>1. ClusterType'
  <2>1. out' \in [Nodes -> [buf : Seq(Nat), closed : BOOLEAN]]
    BY DEF ClusterType, ReceiveError
  <2>2. sock' \in [Nodes -> Seq(Nat)] /\ conn' \in [Nodes -> {"up", "broken", "closed"}]
    BY DEF ClusterType, ReceiveError
  <2>3. QED
    BY <2>1, <2>2 DEF ClusterType, ReceiveError
<1>2. ASSUME NEW k \in Nodes, k # n PROVE Good(k)'
  BY <1>2, SameIsGood DEF Same, ReceiveError, ClusterType
<1>3. Good(n)'
  <2>1. /\ recv[n].pc = "receive" /\ recv'[n].pc = "ended" /\ conn'[n] = "closed"
        /\ sock'[n] = <<>> /\ Buf(n)' = Buf(n) /\ got'[n] = got[n]
    BY DEF ReceiveError, ClusterType, Buf
  <2>2. Follows(<<>>, Ahead(n)')
    BY DEF Follows
  <2>3. QED
    BY <2>1, <2>2 DEF Good, Line, Cut
<1>4. QED
  BY <1>1, <1>2, <1>3


LEMMA OfferKeeps == \A n \in Nodes : ClusterInv /\ Offer(n) => ClusterInv'
<1> SUFFICES ASSUME NEW n \in Nodes, ClusterInv, Offer(n) PROVE ClusterInv'
  OBVIOUS
<1> USE DEF ClusterInv
<1>1. ClusterType'
  <2>1. Append(Buf(n), recv[n].m) \in Seq(Nat)
    BY AtNode
  <2>2. QED
    BY <2>1 DEF ClusterType, Offer, Buf
<1>2. ASSUME NEW k \in Nodes, k # n PROVE Good(k)'
  BY <1>2, SameIsGood DEF Same, Offer, ClusterType
<1>3. Good(n)'
  <2>1. /\ Buf(n)' = Append(Buf(n), recv[n].m) /\ recv'[n].pc = "receive"
        /\ recv[n].pc = "offer" /\ sock'[n] = sock[n] /\ got'[n] = got[n]
        /\ conn'[n] = conn[n] /\ stop'[n] = stop[n] /\ sent' = sent
    BY DEF Offer, ClusterType, Buf
  <2>2. Follows(Buf(n)', Len(got[n])) /\ Len(Buf(n)') = Len(Buf(n)) + 1
    BY <2>1, AtNode, FollowsAppend DEF Good, Line
  <2>3. Holds(n) = 1 /\ Holds(n)' = 0
    BY <2>1 DEF Holds
  <2>4. got[n] \in Seq(Nat) /\ Buf(n) \in Seq(Nat)
    BY AtNode
  <2>5. Ahead(n)' = Ahead(n)
    <3>1. Ahead(n)' = Len(got'[n]) + Len(Buf(n)') + Holds(n)'
      BY DEF Ahead
    <3>2. Ahead(n) = Len(got[n]) + Len(Buf(n)) + Holds(n)
      BY DEF Ahead
    <3>3. Ahead(n)' = Len(got[n]) + (Len(Buf(n)) + 1) + 0
      BY <2>1, <2>2, <2>3, <3>1
    <3>4. QED
      <4> DEFINE a == Len(got[n])
                 b == Len(Buf(n))
      <4>1. a \in Nat /\ b \in Nat
        BY <2>4
      <4>2. Ahead(n) = a + b + 1 /\ Ahead(n)' = a + (b + 1) + 0
        BY <2>3, <3>2, <3>3
      <4> HIDE DEF a, b
      <4>3. QED
        BY <4>1, <4>2
  <2>6. QED
    BY <2>1, <2>2, <2>5 DEF Good, Line, Cut
<1>4. QED
  BY <1>1, <1>2, <1>3


LEMMA OfferCancelledKeeps == \A n \in Nodes : ClusterInv /\ OfferCancelled(n) => ClusterInv'
<1> SUFFICES ASSUME NEW n \in Nodes, ClusterInv, OfferCancelled(n) PROVE ClusterInv'
  OBVIOUS
<1> USE DEF ClusterInv
<1>1. ClusterType'
  BY DEF ClusterType, OfferCancelled
<1>2. ASSUME NEW k \in Nodes, k # n PROVE Good(k)'
  BY <1>2, SameIsGood DEF Same, OfferCancelled, ClusterType
<1>3. Good(n)'
  <2>1. /\ recv'[n].pc = "ended" /\ conn[n] = "closed" /\ conn'[n] = "closed"
        /\ sock[n] = <<>> /\ sock'[n] = <<>> /\ Buf(n)' = Buf(n) /\ got'[n] = got[n]
    BY DEF OfferCancelled, ClusterType, Buf, Good, Cut
  <2>2. Follows(<<>>, Ahead(n)')
    BY DEF Follows
  <2>3. QED
    BY <2>1, <2>2 DEF Good, Line, Cut
<1>4. QED
  BY <1>1, <1>2, <1>3


LEMMA DispatchKeeps == \A n \in Nodes : ClusterInv /\ Dispatch(n) => ClusterInv'
<1> SUFFICES ASSUME NEW n \in Nodes, ClusterInv, Dispatch(n) PROVE ClusterInv'
  OBVIOUS
<1> USE DEF ClusterInv
<1>1. ClusterType'
  <2>1. Tail(Buf(n)) \in Seq(Nat) /\ Append(got[n], Head(Buf(n))) \in Seq(Nat)
    BY AtNode DEF Dispatch, Buf
  <2>2. QED
    BY <2>1 DEF ClusterType, Dispatch, Buf
<1>2. ASSUME NEW k \in Nodes, k # n PROVE Good(k)'
  BY <1>2, SameIsGood DEF Same, Dispatch, ClusterType
<1>3. Good(n)'
  <2>1. /\ got'[n] = Append(got[n], Head(Buf(n))) /\ Buf(n)' = Tail(Buf(n))
        /\ Buf(n) # <<>> /\ sock'[n] = sock[n] /\ recv'[n] = recv[n]
        /\ conn'[n] = conn[n] /\ stop'[n] = stop[n] /\ sent' = sent
    BY DEF Dispatch, ClusterType, Buf
  <2>2. /\ Head(Buf(n)) = Len(got[n]) + 1 /\ Follows(Tail(Buf(n)), Len(got[n]) + 1)
        /\ Len(Tail(Buf(n))) = Len(Buf(n)) - 1
    BY <2>1, AtNode, FollowsTail DEF Good, Line
  <2>3. Head(Buf(n)) = 0 + Len(got[n]) + 1
    BY <2>2, AtNode
  <2>4. Follows(got'[n], 0) /\ Len(got'[n]) = Len(got[n]) + 1
    BY <2>1, <2>3, AtNode, FollowsAppend DEF Good, Line
  <2>5. Ahead(n)' = Ahead(n) /\ Len(got'[n]) + Len(Buf(n)') = Len(got[n]) + Len(Buf(n))
    <3>1. Len(got[n]) \in Nat /\ Len(Buf(n)) \in Nat /\ Holds(n) \in Nat
      BY AtNode
    <3>2. Holds(n)' = Holds(n)
      BY <2>1 DEF Holds
    <3>3. QED
      BY <2>1, <2>2, <2>4, <3>1, <3>2 DEF Ahead
  <2>6. QED
    BY <2>1, <2>2, <2>4, <2>5 DEF Good, Line, Cut
<1>4. QED
  BY <1>1, <1>2, <1>3


LEMMA BreakKeeps == \A n \in Nodes : ClusterInv /\ Break(n) => ClusterInv'
<1> SUFFICES ASSUME NEW n \in Nodes, ClusterInv, Break(n) PROVE ClusterInv'
  OBVIOUS
<1> USE DEF ClusterInv
<1>1. ClusterType'
  BY DEF ClusterType, Break
<1>2. ASSUME NEW k \in Nodes, k # n PROVE Good(k)'
  BY <1>2, SameIsGood DEF Same, Break, ClusterType
<1>3. Good(n)'
  <2>1. /\ recv'[n] = recv[n] /\ conn'[n] # "up" /\ sock'[n] = <<>>
        /\ Buf(n)' = Buf(n) /\ got'[n] = got[n]
        /\ stop'[n] \in {"waiting", "returned"} => conn'[n] = "closed"
    BY DEF Break, ClusterType, Buf, Good, Cut
  <2>2. Follows(<<>>, Ahead(n)')
    BY DEF Follows
  <2>3. QED
    BY <2>1, <2>2 DEF Good, Line, Cut
<1>4. QED
  BY <1>1, <1>2, <1>3


LEMMA StopCancelKeeps == \A n \in Nodes : ClusterInv /\ StopCancel(n) => ClusterInv'
<1> SUFFICES ASSUME NEW n \in Nodes, ClusterInv, StopCancel(n) PROVE ClusterInv'
  OBVIOUS
<1> USE DEF ClusterInv
<1>1. ClusterType'
  BY DEF ClusterType, StopCancel
<1>2. ASSUME NEW k \in Nodes, k # n PROVE Good(k)'
  BY <1>2, SameIsGood DEF Same, StopCancel, ClusterType
<1>3. Good(n)'
  <2>1. /\ recv'[n] = recv[n] /\ conn'[n] # "up" /\ sock'[n] = <<>>
        /\ Buf(n)' = Buf(n) /\ got'[n] = got[n]
        /\ stop'[n] \in {"waiting", "returned"} => conn'[n] = "closed"
    BY DEF StopCancel, ClusterType, Buf, Good, Cut
  <2>2. Follows(<<>>, Ahead(n)')
    BY DEF Follows
  <2>3. QED
    BY <2>1, <2>2 DEF Good, Line, Cut
<1>4. QED
  BY <1>1, <1>2, <1>3


\* The other steps touch nothing that a message is in.
LEMMA QuietKeeps ==
    \A n \in Nodes :
        ClusterInv /\ (DispatchClosed(n) \/ DispatchDone(n) \/ StopBegin(n) \/ StopReturn(n))
        => ClusterInv'
BY DEF ClusterInv, ClusterType, Good, Line, Cut, Buf, Holds, Ahead,
       DispatchClosed, DispatchDone, StopBegin, StopReturn

LEMMA ClusterInductive == ClusterInv /\ [Next]_vars => ClusterInv'
<1>1. ClusterInv /\ UNCHANGED vars => ClusterInv'
  BY DEF ClusterInv, ClusterType, Good, Line, Cut, Buf, Holds, Ahead, vars
<1>2. QED
  BY <1>1, PublishKeeps, ReceiveKeeps, ReceiveErrorKeeps, OfferKeeps, OfferCancelledKeeps,
     DispatchKeeps, BreakKeeps, StopCancelKeeps, QuietKeeps
  DEF Next, Bridge, Dispatcher, Stopper

\* A full buffer, a break and a cancellation between any two steps included, a node
\* has dispatched the first so many messages, each once and in the order of
\* Publish; and what is on its way to a node whose subscription is up is the rest.
THEOREM InPublishedOrder == Spec => []PublishedOrder
<1>1. ClusterInv => PublishedOrder
  <2> SUFFICES ASSUME ClusterInv, NEW n \in Nodes
      PROVE  LET held == IF recv[n].pc = "offer" THEN <<recv[n].m>> ELSE <<>>
                 path == got[n] \o out[n].buf \o held \o sock[n]
             IN  /\ \A i \in DOMAIN path : path[i] = i
                 /\ conn[n] = "up" => Len(path) = sent
    BY DEF PublishedOrder
  <2> DEFINE held == IF recv[n].pc = "offer" THEN <<recv[n].m>> ELSE <<>>
             front == got[n] \o Buf(n)
             path == (front \o held) \o sock[n]
  <2> USE DEF ClusterInv
  <2>1. got[n] \in Seq(Nat) /\ Buf(n) \in Seq(Nat) /\ sock[n] \in Seq(Nat)
    BY AtNode
  <2>2. Follows(front, 0) /\ front \in Seq(Nat) /\ Len(front) = Len(got[n]) + Len(Buf(n))
    <3>1. Follows(got[n], 0) /\ Follows(Buf(n), 0 + Len(got[n]))
      BY AtNode DEF Good, Line
    <3>2. QED
      BY <2>1, <3>1, FollowsConcat
  <2>3. held \in Seq(Nat) /\ Len(held) = Holds(n) /\ Follows(held, 0 + Len(front))
    <3>1. CASE recv[n].pc = "offer"
      <4>1. recv[n].m = Len(front) + 1 /\ recv[n].m \in Nat /\ Len(front) \in Nat
        BY <2>2, <3>1, AtNode DEF Good, Line
      <4> HIDE DEF front
      <4>2. QED
        BY <3>1, <4>1 DEF Follows, Holds
    <3>2. CASE recv[n].pc # "offer"
      BY <3>2 DEF Follows, Holds
    <3>3. QED
      BY <3>1, <3>2
  <2>4. /\ Follows(front \o held, 0) /\ front \o held \in Seq(Nat)
        /\ Len(front \o held) = Ahead(n)
    <3> HIDE DEF front, held
    <3>1. QED
      BY <2>2, <2>3, FollowsConcat DEF Ahead
  <2>5. Follows(path, 0) /\ path \in Seq(Nat) /\ Len(path) = Ahead(n) + Len(sock[n])
    <3>1. Follows(sock[n], 0 + Len(front \o held))
      <4>1. Follows(sock[n], Ahead(n)) /\ Ahead(n) \in Nat
        BY AtNode DEF Good, Line
      <4> HIDE DEF front, held
      <4>2. QED
        BY <2>4, <4>1
    <3> HIDE DEF front, held
    <3>2. QED
      BY <2>1, <2>4, <3>1, FollowsConcat
  <2>6. \A i \in DOMAIN path : path[i] = i
    <3> HIDE DEF path
    <3>1. QED
      BY <2>5 DEF Follows
  <2>7. conn[n] = "up" => Len(path) = sent
    BY <2>5 DEF Good, Line
  <2>8. QED
    BY <2>6, <2>7 DEF Buf
<1>2. QED
  BY <1>1, ClusterInitial, ClusterInductive, PTL DEF Spec

-----------------------------------------------------------------------------
(* WsServer with MemoryRoom: operations on the rooms are one step, so nobody  *)
(* is ever inside one.                                                        *)

Conns == Server!Conns

NoOpUnderWay == op = [a \in Server!Actors |-> Server!NoOp]

\* The two maps mirror each other at all times, and the clean-up leaves nothing in
\* either: what is there later is of another goroutine than the connection's own.
MirrorInv ==
    /\ \A c \in Conns, r \in Rooms : c \in roomFds[r] <=> r \in fdRooms[c]
    /\ \A c \in Conns : pc[c] \in {"unroomed", "gone"} => c \in late \/ fdRooms[c] = {}
    /\ \A c \in Conns : pc[c] = "gone" => closed[c]

ServerInv == Server!TypeOK /\ NoOpUnderWay /\ MirrorInv

LEMMA ServerNoOp == Server!NoOp \in Server!Op /\ Server!NoOp.kind = "none" /\ Server!NoOp.rooms = {}
<1>1. <<ServerNode, 1>> \in Server!Conns
  BY ServerAssumption DEF Server!Conns
<1>2. (CHOOSE c \in Server!Conns : TRUE) \in Server!Conns
  BY <1>1
<1>3. QED
  BY <1>2 DEF Server!NoOp, Server!Op

LEMMA ServerInitial == Server!Init => ServerInv
<1> SUFFICES ASSUME Server!Init PROVE ServerInv
  OBVIOUS
<1>1. op \in [Server!Actors -> Server!Op] /\ NoOpUnderWay
  BY ServerNoOp DEF Server!Init, NoOpUnderWay
<1>2. Server!TypeOK
  BY <1>1, ServerAssumption DEF Server!Init, Server!TypeOK, Server!PCs
<1>3. MirrorInv
  BY DEF Server!Init, MirrorInv, Conns
<1>4. QED
  BY <1>1, <1>2, <1>3 DEF ServerInv

LEMMA NoRedisStep ==
    \A a \in Server!Actors : ServerInv => ~Server!RedisStep(a) /\ ~Server!RedisError(a)
BY ServerNoOp DEF ServerInv, NoOpUnderWay, Server!RedisStep, Server!RedisError, Server!RedisLook,
       Server!RedisFdSet, Server!RedisRoomSet, Server!RedisFails, Server!Free

\* What the operations of MemoryRoom do to the two maps.
RoomMaps ==
    /\ roomFds \in [Rooms -> SUBSET Conns] /\ fdRooms \in [Conns -> SUBSET Rooms]
    /\ \A c \in Conns, r \in Rooms : c \in roomFds[r] <=> r \in fdRooms[c]

LEMMA MemAddMirrors ==
    ASSUME RoomMaps, NEW c \in Conns, NEW rs \in SUBSET Rooms, Server!MemAdd(c, rs)
    PROVE  RoomMaps' /\ fdRooms' = [fdRooms EXCEPT ![c] = @ \union rs]
<1> DEFINE C == Conns
<1>1. roomFds' \in [Rooms -> SUBSET C] /\ fdRooms' \in [C -> SUBSET Rooms]
  <2> HIDE DEF C
  <2>1. c \in C /\ roomFds \in [Rooms -> SUBSET C] /\ fdRooms \in [C -> SUBSET Rooms]
    BY DEF RoomMaps, C
  <2>2. QED
    BY <2>1 DEF Server!MemAdd
<1>2. \A d \in C, r \in Rooms : d \in roomFds'[r] <=> r \in fdRooms'[d]
  <2> HIDE DEF C
  <2>1. /\ c \in C /\ roomFds \in [Rooms -> SUBSET C] /\ fdRooms \in [C -> SUBSET Rooms]
        /\ \A d \in C, r \in Rooms : d \in roomFds[r] <=> r \in fdRooms[d]
    BY DEF RoomMaps, C
  <2>2. QED
    BY <2>1 DEF Server!MemAdd
<1>3. QED
  BY <1>1, <1>2 DEF RoomMaps, Server!MemAdd, Conns, Server!Conns

LEMMA MemDeleteMirrors ==
    ASSUME RoomMaps, NEW c \in Conns, NEW rs \in SUBSET Rooms, Server!MemDelete(c, rs)
    PROVE  RoomMaps' /\ fdRooms' = [fdRooms EXCEPT ![c] = @ \ rs]
<1> DEFINE C == Conns
<1>1. roomFds' \in [Rooms -> SUBSET C] /\ fdRooms' \in [C -> SUBSET Rooms]
  <2> HIDE DEF C
  <2>1. c \in C /\ roomFds \in [Rooms -> SUBSET C] /\ fdRooms \in [C -> SUBSET Rooms]
    BY DEF RoomMaps, C
  <2>2. QED
    BY <2>1 DEF Server!MemDelete
<1>2. \A d \in C, r \in Rooms : d \in roomFds'[r] <=> r \in fdRooms'[d]
  <2> HIDE DEF C
  <2>1. /\ c \in C /\ roomFds \in [Rooms -> SUBSET C] /\ fdRooms \in [C -> SUBSET Rooms]
        /\ \A d \in C, r \in Rooms : d \in roomFds[r] <=> r \in fdRooms[d]
    BY DEF RoomMaps, C
  <2>2. QED
    BY <2>1 DEF Server!MemDelete
<1>3. QED
  BY <1>1, <1>2 DEF RoomMaps, Server!MemDelete, Conns, Server!Conns

LEMMA ServerInductive == ServerInv /\ [Server!Next]_sVars => ServerInv'
<1> SUFFICES ASSUME ServerInv, [Server!Next]_sVars PROVE ServerInv'
  OBVIOUS
<1> USE ServerAssumption DEF ServerInv, Server!TypeOK, NoOpUnderWay, MirrorInv, Conns, Server!Conns,
        Server!Node, Server!PCs, Server!Goto, Server!roomVars, Server!srvVars
<1>1. ASSUME NEW c \in Server!Conns, Server!Upgrade(c) PROVE ServerInv'
  BY <1>1 DEF Server!Upgrade
<1>2. ASSUME NEW c \in Server!Conns, Server!Store(c) PROVE ServerInv'
  BY <1>2 DEF Server!Store
<1>3. ASSUME NEW c \in Server!Conns, Server!OpenReturns(c) PROVE ServerInv'
  BY <1>3 DEF Server!OpenReturns
<1>4. ASSUME NEW c \in Server!Conns, Server!MessageReturns(c) PROVE ServerInv'
  BY <1>4 DEF Server!MessageReturns
<1>5. ASSUME NEW c \in Server!Conns, Server!ReadFails(c) PROVE ServerInv'
  BY <1>5 DEF Server!ReadFails
<1>6. ASSUME NEW c \in Server!Conns, Server!Unlist(c) PROVE ServerInv'
  BY <1>6 DEF Server!Unlist
<1>7. ASSUME NEW c \in Server!Conns, Server!Unroom(c) PROVE ServerInv'
  <2>1. RoomMaps' /\ fdRooms' = [fdRooms EXCEPT ![c] = @ \ fdRooms[c]]
    <3>1. RoomMaps
      BY DEF RoomMaps
    <3>2. QED
      BY <1>7, <3>1, MemDeleteMirrors DEF Server!Unroom, Server!RoomDeleteAll
  <2>2. QED
    BY <1>7, <2>1 DEF RoomMaps, Server!Unroom, Server!RoomDeleteAll
<1>8. ASSUME NEW c \in Server!Conns, Server!Finish(c) PROVE ServerInv'
  BY <1>8 DEF Server!Finish, Server!HangUp
<1>9. ASSUME NEW c \in Server!Conns, Server!Message(c) PROVE ServerInv'
  BY <1>9 DEF Server!Message
<1>10. ASSUME NEW c \in Server!Conns, Server!OpenPanics(c) PROVE ServerInv'
  BY <1>10 DEF Server!OpenPanics
<1>11. ASSUME NEW c \in Server!Conns, Server!MessagePanics(c) PROVE ServerInv'
  BY <1>11 DEF Server!MessagePanics
<1>12. ASSUME NEW c \in Server!Conns, Server!PeerLeaves(c) PROVE ServerInv'
  BY <1>12 DEF Server!PeerLeaves
<1>13. ASSUME NEW c \in Server!Conns, Server!CloseConn(c) PROVE ServerInv'
  BY <1>13 DEF Server!CloseConn, Server!HangUp
<1>14. ASSUME NEW a \in Joiners, NEW c \in Server!Conns, NEW r \in Rooms, Server!Join(a, c, r)
       PROVE  ServerInv'
  <2>1. RoomMaps' /\ fdRooms' = [fdRooms EXCEPT ![c] = @ \union {r}]
    <3>1. RoomMaps
      BY DEF RoomMaps
    <3>2. QED
      BY <1>14, <3>1, MemAddMirrors DEF Server!Join, Server!RoomAdd
  <2>2. pc[c] \in {"unroomed", "gone"} => c \in late'
    BY <1>14 DEF Server!Join, Server!MayUse, Server!InCallback
  <2>3. QED
    BY <1>14, <2>1, <2>2 DEF RoomMaps, Server!Join, Server!RoomAdd
<1>15. ASSUME NEW a \in Joiners, NEW c \in Server!Conns, Server!Leave(a, c) PROVE ServerInv'
  <2>1. PICK rs \in SUBSET Rooms : RoomMaps' /\ fdRooms' = [fdRooms EXCEPT ![c] = @ \ rs]
    <3>1. RoomMaps /\ fdRooms[c] \in SUBSET Rooms
      BY DEF RoomMaps
    <3>2. Server!MemDelete(c, fdRooms[c]) \/ \E r \in Rooms : Server!MemDelete(c, {r})
      BY <1>15 DEF Server!Leave, Server!RoomDelete, Server!RoomDeleteAll
    <3>3. PICK rs \in SUBSET Rooms : Server!MemDelete(c, rs)
      <4> HIDE DEF ServerInv, Server!TypeOK, MirrorInv, NoOpUnderWay, Server!Conns
      <4>1. \A r \in Rooms : {r} \in SUBSET Rooms
        OBVIOUS
      <4>2. QED
        BY <3>1, <3>2, <4>1
    <3>4. QED
      BY <3>1, <3>3, MemDeleteMirrors
  <2>2. op' = op
    BY <1>15 DEF Server!Leave, Server!RoomDelete, Server!RoomDeleteAll
  <2>3. QED
    BY <1>15, <2>1, <2>2 DEF RoomMaps, Server!Leave
<1>16. CASE Server!CloseBegin(ServerNode)
  BY <1>16 DEF Server!CloseBegin, Server!RangeBegin, Server!Own
<1>17. CASE Server!ClearDone(ServerNode)
  BY <1>17 DEF Server!ClearDone, Server!RangeBegin, Server!Own
<1>18. CASE Server!CloseDone(ServerNode)
  BY <1>18 DEF Server!CloseDone
<1>19. CASE Server!Restart(ServerNode)
  BY <1>19 DEF Server!Restart, Server!Own
<1>20. ASSUME NEW c \in Server!Conns, Server!ClearOne(ServerNode, c) PROVE ServerInv'
  <2>1. RoomMaps' /\ fdRooms' = [fdRooms EXCEPT ![c] = @ \ fdRooms[c]]
    <3>1. RoomMaps
      BY DEF RoomMaps
    <3>2. QED
      BY <1>20, <3>1, MemDeleteMirrors DEF Server!ClearOne, Server!RoomDeleteAll, Server!Own
  <2>2. QED
    BY <1>20, <2>1 DEF RoomMaps, Server!ClearOne, Server!RoomDeleteAll, Server!Own
<1>21. ASSUME NEW c \in Server!Conns, Server!DropOne(ServerNode, c) PROVE ServerInv'
  BY <1>21 DEF Server!DropOne, Server!HangUp, Server!Own
<1>22. ASSUME NEW c \in Server!Conns, Server!ClosePanics(c) PROVE ServerInv'
  BY <1>22 DEF Server!ClosePanics
<1>u. CASE UNCHANGED sVars
  BY <1>u DEF sVars
<1>23. ASSUME Server!Next PROVE ServerInv'
  <2> HIDE DEF ServerInv, Server!Conns, Server!Goto, Conns
  <2>1. CASE \E c \in Server!Conns :
          \/ Server!Upgrade(c) \/ Server!ServeStep(c) \/ Server!Message(c)
          \/ Server!OpenPanics(c) \/ Server!MessagePanics(c) \/ Server!ClosePanics(c)
          \/ Server!PeerLeaves(c) \/ Server!CloseConn(c)
    BY <2>1, <1>1, <1>2, <1>3, <1>4, <1>5, <1>6, <1>7, <1>8, <1>9, <1>10, <1>11, <1>12, <1>13, <1>22
       DEF Server!ServeStep
  <2>2. CASE \E c \in Server!Conns : \E a \in Joiners :
                Server!Leave(a, c) \/ \E r \in Rooms : Server!Join(a, c, r)
    BY <2>2, <1>14, <1>15
  <2>3. CASE \E n \in {ServerNode} : Server!CloseBegin(n) \/ Server!CloseStep(n) \/ Server!Restart(n)
    BY <2>3, <1>16, <1>17, <1>18, <1>19, <1>20, <1>21 DEF Server!CloseStep
  <2>4. QED
    BY <1>23, <2>1, <2>2, <2>3, NoRedisStep DEF Server!Next
<1>24. QED
  BY <1>u, <1>23

\* Whatever callbacks and other goroutines join and leave, whoever closes a connection
\* and whichever callback panics: when ServeHTTP has returned the connection is closed
\* and in no room, unless another goroutine has put it into one since its clean-up; and
\* MemoryRoom's two maps agree after every operation.
THEOREM RoomsStayTidy == MCSpec => []RoomsTidy
<1>1. MCInit => ServerInv
  BY ServerInitial DEF MCInit
<1>2. ServerInv /\ [MCNext]_<<which, vars, sVars>> => ServerInv'
  <2> SUFFICES ASSUME ServerInv, [MCNext]_<<which, vars, sVars>> PROVE ServerInv'
    OBVIOUS
  <2>1. [Server!Next]_sVars
    BY DEF MCNext
  <2>2. QED
    BY <2>1, ServerInductive
<1>3. ServerInv => RoomsTidy
  BY DEF ServerInv, MirrorInv, Conns, RoomsTidy, Server!GoneIsForgotten, Server!RoomsMirror,
         NoOpUnderWay, Server!Free
<1>4. QED
  BY <1>1, <1>2, <1>3, PTL DEF MCSpec
=============================================================================
