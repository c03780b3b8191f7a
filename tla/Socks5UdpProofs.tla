--------------------------- MODULE Socks5UdpProofs ---------------------------
(***************************************************************************)
(* Safety of a SOCKS5 UDP association for any senders, targets, plans,     *)
(* limits and token space.                                                 *)
(*                                                                         *)
(* That no reply is stranded needs what holds while the loop is awake: an  *)
(* edge of the relay socket is either still armed or was reported to this  *)
(* very iteration as client_writable, and a flush that was reported stops  *)
(* early only at a full socket, whose draining gives the next edge.        *)
(*                                                                         *)
(* That an association does not end early needs, besides, that a hang-up   *)
(* the poll reported is a real one (hup => fin in Counts).                 *)
(***************************************************************************)
EXTENDS Socks5Udp, FiniteSetTheorems, SequenceTheorems, TLAPS

Types ==
  /\ pc \in {"start", "head", "poll", "broken", "control", "client", "serve", "closed"}
  /\ hinted \in BOOLEAN
  /\ client_address \in ControlIp \cup {NoClient}
  /\ peers \in [Endpoint -> SUBSET Target]
  /\ pending \in Seq(ControlIp)
  /\ relay_writable \in BOOLEAN /\ room \in BOOLEAN /\ client_writable \in BOOLEAN
  /\ inbox \in Seq(Packet)

(* A request that is not answered yet has left nothing behind. *)
Unstarted ==
  pc = "start" => /\ ~hinted /\ client_address = NoClient
                  /\ \A e \in Endpoint : peers[e] = {}

Pinned ==
  pc # "closed" /\ ~hinted =>
    (client_address # NoClient <=> \E e \in Endpoint : peers[e] # {})
Addressed ==
  \A i \in 1..Len(pending) : client_address # NoClient /\ pending[i] = client_address

(* Until replies are received, the interest agrees with the queue. *)
Interested ==
  pc \in {"start", "head", "poll", "control", "client"} => (relay_writable <=> pending # << >>)

(* An edge that the queue waits for is armed, or reported and not used. *)
Edged ==
  pc # "start" /\ relay_writable /\ room /\ ~client_writable => ClientToken \in armed
Unreported == pc \in {"start", "head", "poll"} => ~client_writable

IInv == Types /\ Unstarted /\ Pinned /\ Addressed /\ Interested /\ Edged /\ Unreported

(* The empty queues and the empty table have their types. *)
LEMMA Nothings ==
  /\ << >> \in Seq(ControlIp) /\ << >> \in Seq(Packet)
  /\ NoPeers \in [Endpoint -> SUBSET Target]
<1>1. \A S : << >> \in Seq(S)
  OBVIOUS
<1>2. NoPeers \in [Endpoint -> SUBSET Target]
  BY DEF NoPeers
<1> QED
  BY <1>1, <1>2

LEMMA Start == Init => IInv
<1> SUFFICES ASSUME Init PROVE IInv
  OBVIOUS
<1>1. \A e \in Endpoint : peers[e] = {}
  BY DEF Init, NoPeers
<1>2. Types
  BY Nothings DEF Init, Types
<1>3. Unstarted /\ Pinned
  BY <1>1 DEF Init, Unstarted, Pinned
<1>4. Addressed /\ Interested /\ Edged /\ Unreported
  BY DEF Init, Addressed, Interested, Edged, Unreported
<1> QED
  BY <1>2, <1>3, <1>4 DEF IInv

LEMMA EndKeeps ==
  ASSUME IInv, End
  PROVE  IInv'
<1>1. Types'
  BY Nothings DEF End, Types
<1>2. Unstarted' /\ Pinned' /\ Interested' /\ Unreported'
  BY DEF End, Unstarted, Pinned, Interested, Unreported
<1>3. Addressed' /\ Edged'
  BY DEF End, Addressed, Edged
<1> QED
  BY <1>1, <1>2, <1>3 DEF IInv

----------------------------------------------------------------------------
(* Steps that touch neither the queue, nor the client, nor the interest:   *)
(* they only go on in the loop, take packets, or arm tokens.               *)
Served == <<hinted, client_address, peers, pending, relay_writable, room, client_writable>>

LEMMA QuietKeeps ==
  ASSUME IInv, UNCHANGED Served, armed \subseteq armed', inbox' \in Seq(Packet),
         \/ pc' = pc
         \/ pc = "head" /\ pc' = "poll"
         \/ pc = "poll" /\ pc' \in {"head", "broken"}
         \/ pc = "control" /\ pc' = "client"
         \/ pc = "client" /\ pc' = "serve"
  PROVE  IInv'
BY DEF Served, IInv, Types, Unstarted, Pinned, Addressed, Interested, Edged, Unreported

LEMMA LoopQuietKeeps ==
  ASSUME IInv, LoopHead \/ PollError \/ CheckControl \/ Interrupted \/ EndClientBurst \/ NextToken \/ EndBurst
  PROVE  IInv'
<1> USE DEF Served, routeVars, clientVars, replyVars, eventVars, kernelVars
<1>0. inbox \in Seq(Packet)
  BY DEF IInv, Types
<1>1. CASE LoopHead \/ PollError
  BY <1>0, <1>1, EndKeeps, QuietKeeps DEF LoopHead, PollError
<1>2. CASE CheckControl
  BY <1>0, <1>2, EndKeeps, QuietKeeps DEF CheckControl
<1>3. CASE Interrupted \/ EndClientBurst
  BY <1>0, <1>3, QuietKeeps DEF Interrupted, EndClientBurst
<1>4. CASE NextToken \/ EndBurst
  BY <1>0, <1>4, QuietKeeps DEF NextToken, EndBurst
<1> QED
  BY <1>1, <1>2, <1>3, <1>4

LEMMA KernelQuietKeeps ==
  ASSUME IInv, ClientSends \/ PeerSends \/ ControlSends \/ Tick
  PROVE  IInv'
<1> USE DEF Served, routeVars, clientVars, replyVars, eventVars, kernelVars
<1>0. inbox \in Seq(Packet)
  BY DEF IInv, Types
<1>1. CASE ClientSends
  <2>1. inbox' \in Seq(Packet)
    BY <1>0, <1>1 DEF ClientSends
  <2> QED
    BY <1>1, <2>1, QuietKeeps DEF ClientSends
<1>2. CASE PeerSends
  BY <1>0, <1>2, QuietKeeps DEF PeerSends
<1>3. CASE ControlSends
  BY <1>0, <1>3, QuietKeeps DEF ControlSends
<1>4. CASE Tick
  BY <1>0, <1>4, QuietKeeps DEF Tick
<1> QED
  BY <1>1, <1>2, <1>3, <1>4

----------------------------------------------------------------------------
(* The request: a hint fixes the client, which nothing waits for yet.      *)
LEMMA AssociateKeeps ==
  ASSUME IInv, Associate
  PROVE  IInv'
<1>1. CASE End
  BY <1>1, EndKeeps
<1>2. CASE ~End
  <2> USE <1>2 DEF IInv, Associate, routeVars, replyVars, eventVars, kernelVars
  <2>1. pending = << >> /\ ~relay_writable
    <3>1. pending = << >>
      BY DEF Types, Unstarted, Addressed
    <3> QED
      BY <3>1 DEF Interested
  <2>2. Types'
    BY DEF Types
  <2>3. Unstarted' /\ Pinned'
    BY DEF Unstarted, Pinned, Types
  <2>4. Addressed' /\ Interested' /\ Edged' /\ Unreported'
    BY <2>1 DEF Addressed, Interested, Edged, Unreported
  <2> QED
    BY <2>2, <2>3, <2>4
<1> QED
  BY <1>1, <1>2

(* poll: an edge is reported, or stays armed because it did not fit.       *)
LEMMA PollKeeps ==
  ASSUME IInv, Poll
  PROVE  IInv'
<1> USE DEF IInv, routeVars, clientVars, replyVars, kernelVars
<1>1. PICK B \in PollResult :
        /\ client_writable' = (ClientToken \in B /\ relay_writable /\ room)
        /\ armed' = Reportable \ B
  BY DEF Poll
<1>2. Types'
  BY <1>1 DEF Poll, Types
<1>3. Unstarted' /\ Pinned' /\ Addressed' /\ Interested' /\ Unreported'
  BY DEF Poll, Unstarted, Pinned, Addressed, Interested, Unreported
<1>4. ASSUME relay_writable', room', ~client_writable'
      PROVE  ClientToken \in armed'
  <2>1. relay_writable /\ room /\ ClientToken \notin B
    BY <1>1, <1>4 DEF Poll
  <2>2. ClientToken \in armed
    BY <2>1 DEF Poll, Edged, Unreported
  <2>3. ClientToken \in Reportable
    BY <2>1, <2>2 DEF Reportable, ClientToken, ControlToken
  <2> QED
    BY <1>1, <2>1, <2>3
<1> QED
  BY <1>2, <1>3, <1>4 DEF Edged

(* A packet of the client may pin it, and only when it was forwarded.      *)
LEMMA ClientPacketKeeps ==
  ASSUME IInv, ClientPacket
  PROVE  IInv'
<1> USE DEF routeVars, replyVars
<1>1. inbox' \in Seq(Packet)
  BY DEF IInv, Types, ClientPacket, InBurst
<1>2. CASE ~is_client_packet(Head(inbox)[1])
  BY <1>1, <1>2, QuietKeeps DEF ClientPacket, Served
<1>3. CASE is_client_packet(Head(inbox)[1])
  <2> DEFINE source == Head(inbox)[1]
             t == Head(inbox)[2]
  <2>1. source \in ControlIp /\ t \in Target \cup {Malformed}
    <3>1. Head(inbox) \in Packet /\ Head(inbox) # Fault
      BY DEF IInv, Types, ClientPacket, InBurst
    <3>2. Head(inbox) \in Sender \X (Target \cup {Malformed})
      BY <3>1 DEF Packet
    <3>3. source \in ControlIp
      BY <1>3 DEF is_client_packet, IInv, Types
    <3> QED
      BY <3>2, <3>3
  <2>2. PICK o \in Outcome :
          /\ peers' = IF Accepted(t, o) /\ Handled(t) THEN [peers EXCEPT ![Plan[t]] = @ \cup {t}] ELSE peers
          /\ client_address' = IF Accepted(t, o) THEN PinnedBy(source) ELSE client_address
          /\ armed \subseteq armed'
    BY <1>3 DEF ClientPacket, HandleClientPacket
  <2>3. CASE ~Accepted(t, o)
    BY <1>1, <2>2, <2>3, QuietKeeps DEF ClientPacket, Served
  <2>4. CASE Accepted(t, o)
    <3>1. t \in Target /\ Plan[t] \in Endpoint /\ Handled(t)
      BY <2>1, <2>4, AssociationAssumption DEF Accepted, Handled
    <3>2. client_address' = PinnedBy(source) /\ peers' = [peers EXCEPT ![Plan[t]] = @ \cup {t}]
      BY <2>2, <2>4, <3>1
    <3>3. /\ PinnedBy(source) \in ControlIp /\ PinnedBy(source) # NoClient
          /\ client_address # NoClient => PinnedBy(source) = client_address
      BY <2>1, AssociationAssumption DEF PinnedBy, IInv, Types
    <3>4. Types'
      BY <1>1, <3>1, <3>2, <3>3 DEF IInv, Types, ClientPacket
    <3>5. peers'[Plan[t]] # {}
      BY <3>1, <3>2 DEF IInv, Types
    <3>6. Unstarted' /\ Pinned'
      BY <3>1, <3>2, <3>3, <3>5 DEF Unstarted, Pinned, ClientPacket, InBurst
    <3>7. Addressed'
      BY <3>2, <3>3 DEF IInv, Addressed, ClientPacket
    <3>8. Interested' /\ Edged' /\ Unreported'
      BY <2>2 DEF IInv, Interested, Edged, Unreported, ClientPacket
    <3> QED
      BY <3>4, <3>6, <3>7, <3>8 DEF IInv
  <2> QED
    BY <2>3, <2>4
<1> QED
  BY <1>2, <1>3

(* A reply is sent or queued for the client that is pinned by now.         *)
LEMMA ReceiveKeeps ==
  ASSUME IInv, Receive
  PROVE  IInv'
<1> USE DEF IInv, Receive, Serving, routeVars
<1>1. \/ pending' = pending
      \/ client_address # NoClient /\ pending' = Append(pending, client_address)
  BY DEF SendOrQueue, HasClient
<1>2. room' \in BOOLEAN /\ (room' => room)
  BY DEF SendOrQueue, Types
<1>3. Types'
  BY <1>1, <1>2 DEF Types
<1>4. Addressed'
  <2>1. client_address' = client_address
    OBVIOUS
  <2>2. Addressed /\ pending \in Seq(ControlIp) /\ client_address \in ControlIp \cup {NoClient}
    BY DEF Types
  <2> HIDE DEF IInv, Receive, Serving, routeVars
  <2>3. CASE pending' = pending
    BY <2>1, <2>2, <2>3 DEF Addressed
  <2>4. CASE client_address # NoClient /\ pending' = Append(pending, client_address)
    <3>1. /\ Len(pending') = Len(pending) + 1 /\ pending'[Len(pending) + 1] = client_address
          /\ \A i \in 1..Len(pending) : pending'[i] = pending[i]
      BY <2>2, <2>4, AppendProperties
    <3>2. Len(pending) \in Nat
      BY <2>2
    <3>3. \A i \in 1..Len(pending') : i \in 1..Len(pending) \/ i = Len(pending) + 1
      BY <3>1, <3>2
    <3> QED
      BY <2>1, <2>2, <2>4, <3>1, <3>3 DEF Addressed
  <2> QED
    BY <1>1, <2>3, <2>4
<1>5. Unstarted' /\ Pinned' /\ Interested' /\ Unreported'
  BY DEF Unstarted, Pinned, Interested, Unreported
<1>6. Edged'
  BY <1>2 DEF Edged
<1> QED
  BY <1>3, <1>4, <1>5, <1>6

(* The end of an iteration: what the flush leaves waits at a full socket,  *)
(* or was never offered a writable one and still has its edge.             *)
LEMMA EndIterationKeeps ==
  ASSUME IInv, EndIteration
  PROVE  IInv'
<1> USE DEF IInv, routeVars, kernelVars
<1>1. PICK k \in 0..Len(pending) :
        /\ pending' = SubSeq(pending, k + 1, Len(pending))
        /\ client_writable /\ k < Len(pending) => room' = FALSE
        /\ ~client_writable => pending' = pending /\ room' = room
        /\ room' \in BOOLEAN
  <2>1. CASE client_writable
    BY <2>1 DEF EndIteration, Flush, Types
  <2>2. CASE ~client_writable
    <3>1. pending = SubSeq(pending, 0 + 1, Len(pending)) /\ 0 \in 0..Len(pending)
      BY DEF Types
    <3>2. pending' = pending /\ room' = room
      BY <2>2 DEF EndIteration, Flush
    <3> QED
      BY <2>2, <3>1, <3>2 DEF Types
  <2> QED
    BY <2>1, <2>2
<1>2. pending' \in Seq(ControlIp)
  BY <1>1 DEF Types
<1>3. relay_writable' \in BOOLEAN /\ (relay_writable' <=> pending' # << >>)
  BY DEF EndIteration, wants_writable
<1>4. Types'
  BY <1>1, <1>2, <1>3 DEF EndIteration, Types
<1>5. Addressed'
  <2>1. \A i \in 1..Len(pending') : \E j \in 1..Len(pending) : pending'[i] = pending[j]
    <3>1. \A i \in 1..Len(pending') : pending'[i] = pending[k + i] /\ k + i \in 1..Len(pending)
      BY <1>1 DEF Types
    <3> QED
      BY <3>1
  <2> QED
    BY <2>1 DEF Addressed, EndIteration
<1>6. Unstarted' /\ Pinned' /\ Interested' /\ Unreported'
  BY <1>3 DEF Unstarted, Pinned, Interested, Unreported, EndIteration
<1>7. ASSUME relay_writable', room'
      PROVE  ClientToken \in armed'
  <2>1. CASE ~relay_writable
    BY <1>7, <2>1 DEF EndIteration, Types
  <2>2. CASE relay_writable /\ ~client_writable
    BY <1>1, <1>7, <2>2 DEF Edged, EndIteration
  <2>3. CASE client_writable
    <3>1. k = Len(pending)
      BY <1>1, <1>7, <2>3 DEF Types
    <3>2. pending' = << >>
      BY <1>1, <3>1 DEF Types
    <3> QED
      BY <1>3, <1>7, <3>2
  <2> QED
    BY <2>1, <2>2, <2>3
<1> QED
  BY <1>4, <1>5, <1>6, <1>7 DEF Edged

(* A send buffer that drains gives the edge the interest asks for.         *)
LEMMA RelayDrainsKeeps ==
  ASSUME IInv, RelayDrains
  PROVE  IInv'
BY DEF RelayDrains, Open, routeVars, clientVars, eventVars, kernelVars,
       IInv, Types, Unstarted, Pinned, Addressed, Interested, Edged, Unreported

LEMMA StepKeeps == IInv /\ [Next]_vars => IInv'
<1> SUFFICES ASSUME IInv, [Next]_vars PROVE IInv'
  OBVIOUS
<1>1. CASE TimedOut \/ PollFails \/ ClientFails \/ RouteFails
  BY <1>1, EndKeeps DEF TimedOut, PollFails, ClientFails, RouteFails
<1>2. CASE Returned \/ UNCHANGED vars
  BY <1>2, QuietKeeps
  DEF Returned, vars, Served, routeVars, clientVars, replyVars, eventVars, kernelVars, IInv, Types
<1> QED
  BY <1>1, <1>2, LoopQuietKeeps, KernelQuietKeeps, AssociateKeeps, PollKeeps, ClientPacketKeeps,
     ReceiveKeeps, EndIterationKeeps, RelayDrainsKeeps
  DEF Next, Loop

LEMMA Invariant == Spec => []IInv
BY Start, StepKeeps, PTL DEF Spec

(* However many addresses compete: only a forwarded datagram pins the      *)
(* client, and every reply that waits is for it (handle_udp_associate,     *)
(* send_or_queue_client_reply).                                            *)
THEOREM RepliesAreTheClients == Spec => []OnlyClientServed
<1>1. IInv => OnlyClientServed
  BY DEF IInv, Pinned, Addressed, OnlyClientServed
<1> QED
  BY <1>1, Invariant, PTL

(* The loop never sleeps on replies that the relay socket could take (the  *)
(* flush and the reregistration at the end of an iteration).               *)
THEOREM RepliesAreNotStranded == Spec => []NoSleepOnReplies
<1>1. IInv => NoSleepOnReplies
  BY DEF IInv, Interested, Edged, Unreported, NoSleepOnReplies
<1> QED
  BY <1>1, Invariant, PTL

----------------------------------------------------------------------------
(* The rest of the types, and the limits.                                   *)

Counts ==
  /\ idle \in 0..IdleTimeout /\ left \in 0..Burst /\ unread \in 0..ControlBound
  /\ hup \in BOOLEAN /\ control_event \in BOOLEAN /\ fin \in BOOLEAN
  /\ hup => fin
Tokens ==
  /\ routes \in [Endpoint -> SUBSET Token] /\ next \in Token
  /\ batch \subseteq Token /\ cur \in Token \cup {NoToken} /\ armed \subseteq Event
  /\ rx \in [Token -> Seq(Target \cup {Fault})]
Limits ==
  /\ Len(pending) <= MaxPending
  /\ Cardinality(OpenRoutes(routes)) <= MaxRoutes
  /\ \A e \in PeerChecked : IsFiniteSet(peers[e]) /\ Cardinality(peers[e]) <= MaxPeers

LEMMA CountsAtStart == Init => Counts
<1> SUFFICES ASSUME Init PROVE Counts
  OBVIOUS
<1>1. idle \in 0..IdleTimeout /\ left \in 0..Burst /\ unread \in 0..ControlBound
  BY AssociationAssumption DEF Init
<1>2. hup = FALSE /\ control_event = FALSE /\ fin = FALSE
  BY DEF Init
<1> QED
  BY <1>1, <1>2, ZenonT(30) DEF Counts

LEMMA StepKeepsCounts ==
  ASSUME IInv, Counts, [Next]_vars
  PROVE  Counts'
<1> USE DEF routeVars, clientVars, replyVars, eventVars, kernelVars
<1>1. 0 \in 0..IdleTimeout /\ 0 \in 0..Burst /\ 0 \in 0..ControlBound /\ Burst \in 0..Burst
  BY AssociationAssumption
<1>2. CASE End
  BY <1>1, <1>2 DEF End, Counts
<1>3. CASE ~End
  <2>1. idle' \in {0, idle} \/ (idle < IdleTimeout /\ idle' = idle + 1)
    BY <1>3 DEF Next, vars, Loop, Associate, LoopHead, TimedOut, PollError, PollFails, Poll, CheckControl, ClientPacket,
         HandleClientPacket, Interrupted, ClientFails, EndClientBurst, NextToken, Receive, SendOrQueue,
         EndBurst, RouteFails, EndIteration, Flush, ClientSends, PeerSends, ControlSends, RelayDrains,
         Tick, Returned
  <2>2. left' \in {0, Burst, left} \/ (left > 0 /\ left' = left - 1)
    BY <1>3 DEF Next, vars, Loop, Associate, LoopHead, TimedOut, PollError, PollFails, Poll, CheckControl, ClientPacket, InBurst,
         Interrupted, ClientFails, EndClientBurst, NextToken, Receive,
         EndBurst, RouteFails, EndIteration, ClientSends, PeerSends, ControlSends, RelayDrains,
         Tick, Returned
  <2>3. \/ unread' \in {0, unread}
        \/ unread > ControlReads /\ unread' = unread - ControlReads
        \/ unread < ControlBound /\ unread' = unread + 1
    BY <1>3 DEF Next, vars, Loop, Associate, LoopHead, TimedOut, PollError, PollFails, Poll, CheckControl, ClientPacket,
         Interrupted, ClientFails, EndClientBurst, NextToken, Receive,
         EndBurst, RouteFails, EndIteration, ClientSends, PeerSends, ControlSends, RelayDrains,
         Tick, Returned
  <2>4. ASSUME ~Poll
        PROVE  /\ hup' = hup \/ hup' = FALSE
               /\ control_event' = control_event \/ control_event' = FALSE
               /\ fin' = fin \/ fin' = TRUE
    <3>1. CASE Associate \/ LoopHead \/ PollError \/ CheckControl
      BY <1>3, <3>1, ZenonT(30) DEF Associate, LoopHead, PollError, CheckControl
    <3>2. CASE TimedOut \/ PollFails \/ ClientFails \/ RouteFails
      BY <1>3, <3>2 DEF TimedOut, PollFails, ClientFails, RouteFails
    <3>3. CASE ClientPacket \/ Interrupted \/ EndClientBurst
      BY <3>3, ZenonT(30) DEF ClientPacket, Interrupted, EndClientBurst
    <3>4. CASE NextToken \/ Receive \/ EndBurst
      BY <3>4, ZenonT(30) DEF NextToken, Receive, EndBurst
    <3>5. CASE EndIteration
      BY <3>5, ZenonT(30) DEF EndIteration
    <3>6. CASE ClientSends \/ PeerSends \/ RelayDrains \/ Tick
      BY <3>6, ZenonT(30) DEF ClientSends, PeerSends, RelayDrains, Tick
    <3>7. CASE ControlSends
      BY <3>7, ZenonT(30) DEF ControlSends
    <3>8. CASE Returned \/ UNCHANGED vars
      BY <3>8, ZenonT(30) DEF Returned, vars
    <3> QED
      BY <2>4, <3>1, <3>2, <3>3, <3>4, <3>5, <3>6, <3>7, <3>8, ZenonT(30) DEF Next, Loop
  <2>5. ASSUME Poll
        PROVE  /\ hup' \in BOOLEAN /\ control_event' \in BOOLEAN
               /\ (hup' => fin) /\ fin' = fin
    <3>1. PICK B \in PollResult :
            control_event' = (ControlToken \in B) /\ hup' = ReadClosed(B)
      BY <2>5 DEF Poll
    <3>2. fin' = fin
      BY <2>5 DEF Poll
    <3>3. ReadClosed(B) \in BOOLEAN /\ (ControlToken \in B) \in BOOLEAN /\ (ReadClosed(B) => fin)
      BY DEF ReadClosed
    <3> QED
      BY <3>1, <3>2, <3>3, ZenonT(30)
  <2>6. idle' \in 0..IdleTimeout /\ left' \in 0..Burst /\ unread' \in 0..ControlBound
    BY <1>1, <2>1, <2>2, <2>3, AssociationAssumption DEF Counts
  <2>7. /\ hup' \in BOOLEAN /\ control_event' \in BOOLEAN /\ fin' \in BOOLEAN
        /\ hup' => fin'
    <3>1. CASE Poll
      BY <2>5, <3>1, ZenonT(30) DEF Counts
    <3>2. CASE ~Poll
      <4>1. /\ hup \in BOOLEAN /\ control_event \in BOOLEAN /\ fin \in BOOLEAN
            /\ hup => fin
        BY DEF Counts
      <4>2. /\ hup' = hup \/ hup' = FALSE
            /\ control_event' = control_event \/ control_event' = FALSE
            /\ fin' = fin \/ fin' = TRUE
        BY <2>4, <3>2
      <4>3. hup' \in BOOLEAN /\ control_event' \in BOOLEAN /\ fin' \in BOOLEAN
        BY <4>1, <4>2
      <4>4. hup' => fin'
        <5>1. CASE fin' = TRUE
          BY <5>1
        <5>2. CASE hup' = FALSE
          BY <5>2
        <5>3. CASE hup' = hup /\ fin' = fin
          BY <4>1, <5>3, ZenonT(30)
        <5> QED
          BY <4>2, <5>1, <5>2, <5>3, ZenonT(30)
      <4> QED
        BY <4>3, <4>4
    <3> QED
      BY <3>1, <3>2
  <2> QED
    BY <2>6, <2>7 DEF Counts
<1> QED
  BY <1>2, <1>3

\* An association ends only because it was idle for UDP_IDLE_TIMEOUT, because
\* its control connection ended, or on the error of poll or of a socket: no
\* packet ends it, whoever sent it (handle_udp_associate).
THEOREM NeverEndsEarly == Spec => EndsForAReason
<1>1. Init => Counts
  BY CountsAtStart
<1>2. IInv /\ Counts /\ [Next]_vars => Counts'
  BY StepKeepsCounts
<1>3. ASSUME Counts, [Next]_vars, pc \notin {"start", "closed"}, pc' = "closed"
      PROVE  \/ idle = IdleTimeout \/ fin \/ pc = "broken"
             \/ InBurst /\ Head(inbox) = Fault
             \/ Serving /\ left > 0 /\ CurReceived = Fault
  <2>1. CASE LoopHead \/ TimedOut
    BY <1>3, <2>1, AssociationAssumption DEF LoopHead, TimedOut, Deadline, Counts
  <2>2. CASE CheckControl
    BY <1>3, <2>2 DEF CheckControl, control_event_is_closed, Counts
  <2>3. CASE PollFails \/ ClientFails \/ RouteFails
    BY <2>3 DEF PollFails, ClientFails, RouteFails
  <2> QED
    BY <1>3, <2>1, <2>2, <2>3
    DEF Next, vars, Loop, Associate, PollError, Poll, ClientPacket, Interrupted, EndClientBurst, NextToken,
        Receive, EndBurst, EndIteration, ClientSends, PeerSends, ControlSends, RelayDrains, Tick,
        Returned
<1>4. Counts /\ [Next]_vars =>
        [pc \notin {"start", "closed"} /\ pc' = "closed" =>
           \/ idle = IdleTimeout \/ fin \/ pc = "broken"
           \/ InBurst /\ Head(inbox) = Fault
           \/ Serving /\ left > 0 /\ CurReceived = Fault]_vars
  BY <1>3
<1> QED
  BY <1>1, <1>2, <1>4, Invariant, PTL DEF Spec, EndsForAReason

\* send_with for one target: a fresh route of one endpoint at most, below
\* MAX_DATAGRAM_ROUTES, and an allocator that stays within the token space.
LEMMA SendWithKeeps ==
  ASSUME NEW table \in [Endpoint -> SUBSET Token], NEW n \in Token,
         NEW e \in Endpoint, NEW o \in Outcome, Cardinality(OpenRoutes(table)) <= MaxRoutes
  PROVE  /\ RoutesAfter(table, n, e, o) \in [Endpoint -> SUBSET Token]
         /\ NextAfter(table, n, e, o) \in Token
         /\ Cardinality(OpenRoutes(RoutesAfter(table, n, e, o))) <= MaxRoutes
<1>1. CASE TakesTokens(table, n, e, o)
  <2>1. Sources[e] \in Nat /\ n + Sources[e] <= MaxUsize /\ e \notin OpenRoutes(table)
    BY <1>1, RouteAssumption DEF TakesTokens, CanAllocate, OpenRoutes
  <2>2. NextAfter(table, n, e, o) \in Token
    BY <1>1, <2>1, RouteAssumption DEF NextAfter, Token
  <2>3. Allocated(n, Sources[e]) \in SUBSET Token
    BY <2>1, RouteAssumption DEF Allocated, Token
  <2>4. \/ RoutesAfter(table, n, e, o) = table
        \/ RoutesAfter(table, n, e, o) = [table EXCEPT ![e] = Allocated(n, Sources[e])]
    BY DEF RoutesAfter
  <2>5. RoutesAfter(table, n, e, o) \in [Endpoint -> SUBSET Token]
    BY <2>3, <2>4
  <2>6. OpenRoutes(RoutesAfter(table, n, e, o)) \subseteq OpenRoutes(table) \cup {e}
    BY <2>4 DEF OpenRoutes
  <2>7. /\ IsFiniteSet(OpenRoutes(table)) /\ Cardinality(OpenRoutes(table)) \in Nat
        /\ Cardinality(OpenRoutes(table)) < MaxRoutes
    BY <1>1, RouteAssumption, FS_Subset, FS_CardinalityType DEF OpenRoutes, TakesTokens
  <2>8. /\ IsFiniteSet(OpenRoutes(table) \cup {e})
        /\ Cardinality(OpenRoutes(table) \cup {e}) = Cardinality(OpenRoutes(table)) + 1
    BY <2>1, <2>7, FS_AddElement
  <2>9. /\ Cardinality(OpenRoutes(RoutesAfter(table, n, e, o))) \in Nat
        /\ Cardinality(OpenRoutes(RoutesAfter(table, n, e, o)))
             <= Cardinality(OpenRoutes(table) \cup {e})
    BY <2>6, <2>8, FS_Subset, FS_CardinalityType
  <2> QED
    BY <2>2, <2>5, <2>7, <2>8, <2>9, RouteAssumption
<1>2. CASE ~TakesTokens(table, n, e, o)
  BY <1>2 DEF RoutesAfter, NextAfter
<1> QED
  BY <1>1, <1>2

\* receive_ready leaves a suffix of every queue it visits.
LEMMA RxAfterKeeps ==
  ASSUME NEW S, NEW q \in [Token -> Seq(S)], NEW tokens, NEW trusted
  PROVE  RxAfter(tokens, q, trusted) \in [Token -> Seq(S)]
<1>1. ASSUME NEW t \in Token
      PROVE  SubSeq(q[t], Taken(q[t], trusted) + 1, Len(q[t])) \in Seq(S)
  <2>1. q[t] \in Seq(S) /\ Len(q[t]) \in Nat
    BY LenProperties
  <2>2. FirstHit(q[t], trusted) # {} => Only(FirstHit(q[t], trusted)) \in 1..Len(q[t])
    BY DEF Only, FirstHit
  <2>3. Taken(q[t], trusted) \in Nat
    BY <2>1, <2>2, RouteAssumption DEF Taken
  <2>4. \A i \in (Taken(q[t], trusted) + 1)..Len(q[t]) : q[t][i] \in S
    BY <2>1, <2>3, ElementOfSeq
  <2> QED
    BY <2>1, <2>3, <2>4, SubSeqProperties
<1> QED
  BY <1>1 DEF RxAfter

\* The empty tables of an association that has not started, or has ended.
LEMMA EmptyTables ==
  /\ NoRoutes \in [Endpoint -> SUBSET Token] /\ Cardinality(OpenRoutes(NoRoutes)) <= MaxRoutes
  /\ \A e \in PeerChecked : IsFiniteSet(NoPeers[e]) /\ Cardinality(NoPeers[e]) <= MaxPeers
  /\ [t \in Token |-> << >>] \in [Token -> Seq(Target \cup {Fault})]
  /\ Len(<< >>) <= MaxPending
<1>1. NoRoutes \in [Endpoint -> SUBSET Token] /\ OpenRoutes(NoRoutes) = {}
  BY DEF NoRoutes, OpenRoutes
<1>2. IsFiniteSet({}) /\ Cardinality({}) = 0 /\ \A e \in PeerChecked : NoPeers[e] = {}
  BY FS_EmptySet, AssociationAssumption DEF NoPeers
<1>3. << >> \in Seq(Target \cup {Fault}) /\ Len(<< >>) = 0
  OBVIOUS
<1>4. 0 <= MaxPending /\ 0 <= MaxRoutes /\ 0 <= MaxPeers
  BY RouteAssumption, AssociationAssumption
<1> QED
  BY <1>1, <1>2, <1>3, <1>4

LEMMA EndKeepsTokens ==
  ASSUME Tokens, End
  PROVE  Tokens' /\ Limits'
<1>1. /\ routes' = NoRoutes /\ peers' = NoPeers /\ next' = next /\ batch' = {}
      /\ cur' = NoToken /\ armed' = {} /\ rx' = [t \in Token |-> << >>] /\ pending' = << >>
  BY DEF End
<1>2. Tokens'
  BY <1>1, EmptyTables, ZenonT(30) DEF Tokens
<1>3. Limits'
  BY <1>1, EmptyTables, ZenonT(30) DEF Limits, OpenRoutes
<1> QED
  BY <1>2, <1>3

\* A packet of the client: its route and its target.
LEMMA PacketKeepsTokens ==
  ASSUME IInv, Tokens, Limits, ClientPacket
  PROVE  Tokens' /\ Limits'
<1> DEFINE source == Head(inbox)[1]
           t == Head(inbox)[2]
           e == Plan[t]
<1>1. UNCHANGED <<batch, cur, rx, pending>>
  BY DEF ClientPacket, replyVars
<1>2. CASE UNCHANGED <<routes, next, peers, armed>>
  BY <1>1, <1>2 DEF Tokens, Limits, OpenRoutes
<1>3. ASSUME HandleClientPacket(source, t) PROVE Tokens' /\ Limits'
  <2>1. PICK o \in Outcome :
          LET table == IF Handled(t) THEN RoutesAfter(routes, next, e, o) ELSE routes
              ok    == Accepted(t, o)
          IN  /\ routes' = table
              /\ next' = IF Handled(t) THEN NextAfter(routes, next, e, o) ELSE next
              /\ peers' = IF ok /\ Handled(t) THEN [peers EXCEPT ![e] = @ \cup {t}] ELSE peers
              /\ armed' = IF ok /\ Handled(t) THEN armed \cup CarrierEdge(table, e) ELSE armed
    BY <1>3 DEF HandleClientPacket
  <2>2. CASE ~Handled(t)
    BY <1>2, <2>1, <2>2
  <2>3. CASE Handled(t)
    <3>1. t \in Target /\ e \in Endpoint
      <4>1. Head(inbox) \in Packet /\ Head(inbox) # Fault
        BY DEF IInv, Types, ClientPacket, InBurst
      <4>2. t \in Target
        BY <2>3, <4>1 DEF Packet, Handled
      <4> QED
        BY <2>3, <4>2, AssociationAssumption DEF Handled
    <3>2. /\ routes' = RoutesAfter(routes, next, e, o) /\ next' = NextAfter(routes, next, e, o)
          /\ \/ peers' = peers
             \/ peers' = [peers EXCEPT ![e] = peers[e] \cup {t}] /\ PeerAdmitted(e, t)
          /\ armed' = armed \/ armed' = armed \cup CarrierEdge(routes', e)
      BY <2>1, <2>3 DEF Accepted
    <3> HIDE DEF source, t, e
    <3>3. /\ routes' \in [Endpoint -> SUBSET Token] /\ next' \in Token
          /\ Cardinality(OpenRoutes(routes')) <= MaxRoutes
      BY <3>1, <3>2, SendWithKeeps DEF Tokens, Limits
    <3>4. armed' \subseteq Event
      BY <3>1, <3>2, <3>3 DEF CarrierEdge, Event, Tokens
    <3>5. ASSUME NEW f \in PeerChecked
          PROVE  IsFiniteSet(peers'[f]) /\ Cardinality(peers'[f]) <= MaxPeers
      <4>1. IsFiniteSet(peers[f]) /\ Cardinality(peers[f]) \in Nat /\ Cardinality(peers[f]) <= MaxPeers
        BY FS_CardinalityType DEF Limits
      <4>2. CASE peers'[f] = peers[f]
        BY <4>1, <4>2
      <4>3. CASE peers'[f] # peers[f]
        <5>1. f = e /\ peers'[f] = peers[f] \cup {t} /\ PeerAdmitted(f, t)
          BY <3>1, <3>2, <4>3, AssociationAssumption DEF IInv, Types
        <5>2. t \notin peers[f]
          BY <4>3, <5>1
        <5>3. Cardinality(peers[f]) < MaxPeers
          BY <5>1, <5>2 DEF PeerAdmitted
        <5>4. IsFiniteSet(peers'[f]) /\ Cardinality(peers'[f]) = Cardinality(peers[f]) + 1
          BY <4>1, <5>1, <5>2, FS_AddElement
        <5> QED
          BY <4>1, <5>3, <5>4, AssociationAssumption
      <4> QED
        BY <4>2, <4>3
    <3>6. Tokens'
      BY <1>1, <3>3, <3>4 DEF Tokens
    <3>7. Limits'
      BY <1>1, <3>3, <3>5 DEF Limits, OpenRoutes
    <3> QED
      BY <3>6, <3>7
  <2> QED
    BY <2>2, <2>3
<1> QED
  BY <1>2, <1>3 DEF ClientPacket, routeVars

\* The other steps of the loop and of the environment: what is queued stays
\* within MAX_PENDING_CLIENT_REPLIES, and the tables stay as they are.
LEMMA StepKeepsTokens ==
  ASSUME IInv, Tokens, Limits, [Next]_vars
  PROVE  Tokens' /\ Limits'
<1> USE DEF routeVars, clientVars, replyVars, eventVars, kernelVars
<1>1. CASE End
  BY <1>1, EndKeepsTokens
<1>2. CASE ClientPacket
  BY <1>2, PacketKeepsTokens
<1>3. ASSUME UNCHANGED <<routes, peers, next>>, Len(pending') <= MaxPending,
             batch' \subseteq Token, cur' \in Token \cup {NoToken}, armed' \subseteq Event,
             rx' \in [Token -> Seq(Target \cup {Fault})]
      PROVE  Tokens' /\ Limits'
  BY <1>3 DEF Tokens, Limits, OpenRoutes
<1>4. ASSUME UNCHANGED <<routes, peers, next, pending, batch, cur, rx>>, armed' \subseteq Event
      PROVE  Tokens' /\ Limits'
  BY <1>3, <1>4 DEF Tokens, Limits
<1>5. armed \subseteq Event /\ ControlToken \in Event /\ ClientToken \in Event /\ Token \subseteq Event
  BY DEF Tokens, Event
<1>6. CASE ~End /\ (Associate \/ LoopHead \/ PollError \/ CheckControl)
  BY <1>4, <1>5, <1>6 DEF Associate, LoopHead, PollError, CheckControl
<1>7. CASE Poll
  <2>1. PICK B \in PollResult : batch' = B \cap Token /\ armed' = Reportable \ B
    BY <1>7 DEF Poll
  <2>2. batch' \subseteq Token /\ armed' \subseteq Event
    BY <1>5, <2>1 DEF Reportable
  <2> QED
    BY <1>3, <1>7, <2>2 DEF Poll, Tokens, Limits
<1>8. CASE Interrupted \/ EndClientBurst \/ RelayDrains \/ ControlSends \/ Tick \/ ClientSends
  BY <1>4, <1>5, <1>8 DEF Interrupted, EndClientBurst, RelayDrains, ControlSends, Tick, ClientSends
<1>9. CASE NextToken
  BY <1>3, <1>9 DEF NextToken, Tokens, Limits
<1>10. CASE Receive
  <2>1. rx' \in [Token -> Seq(Target \cup {Fault})]
    BY <1>10, RxAfterKeeps DEF Receive, Tokens
  <2>2. Len(pending') <= MaxPending
    <3>1. \/ pending' = pending
          \/ pending' = Append(pending, client_address) /\ ~QueueFull
      BY <1>10 DEF Receive, SendOrQueue
    <3>2. pending \in Seq(ControlIp \cup {NoClient}) /\ client_address \in ControlIp \cup {NoClient}
      BY DEF IInv, Types
    <3>3. Len(pending) \in Nat /\ Len(Append(pending, client_address)) = Len(pending) + 1
      BY <3>2
    <3> QED
      BY <3>1, <3>3, AssociationAssumption DEF QueueFull, Limits
  <2> QED
    BY <1>3, <1>10, <2>1, <2>2 DEF Receive, Tokens
<1>11. CASE EndBurst
  <2>1. rx' \in [Token -> Seq(Target \cup {Fault})]
    BY <1>11, RxAfterKeeps DEF EndBurst, Tokens
  <2> QED
    BY <1>3, <1>11, <2>1 DEF EndBurst, Tokens, Limits
<1>12. CASE EndIteration
  <2>1. Len(pending') <= MaxPending
    <3>1. \/ pending' = pending
          \/ \E k \in 0..Len(pending) : pending' = SubSeq(pending, k + 1, Len(pending))
      BY <1>12 DEF EndIteration, Flush
    <3>2. pending \in Seq(ControlIp) /\ Len(pending) \in Nat
      BY DEF IInv, Types
    <3>3. ASSUME NEW k \in 0..Len(pending)
          PROVE  Len(SubSeq(pending, k + 1, Len(pending))) = Len(pending) - k
      BY <3>2
    <3> QED
      BY <3>1, <3>2, <3>3, AssociationAssumption DEF Limits
  <2>2. armed' \subseteq Event
    BY <1>5, <1>12 DEF EndIteration
  <2> QED
    BY <1>3, <1>12, <2>1, <2>2 DEF EndIteration, Tokens
<1>13. CASE PeerSends
  <2>1. PICK t \in owned_tokens(routes), d \in Target \cup {Fault} :
          rx' = [rx EXCEPT ![t] = Append(@, d)] /\ armed' = armed \cup {t}
    BY <1>13 DEF PeerSends
  <2>2. t \in Token
    BY DEF owned_tokens, Tokens
  <2>3. rx' \in [Token -> Seq(Target \cup {Fault})]
    BY <2>1, <2>2, AppendProperties DEF Tokens
  <2>4. armed' \subseteq Event
    BY <1>5, <2>1, <2>2
  <2> QED
    BY <1>3, <1>13, <2>3, <2>4 DEF PeerSends, Tokens, Limits
<1>14. CASE Returned \/ UNCHANGED vars
  BY <1>4, <1>5, <1>14 DEF Returned, vars
<1> QED
  BY <1>1, <1>2, <1>6, <1>7, <1>8, <1>9, <1>10, <1>11, <1>12, <1>13, <1>14
  DEF Next, Loop, TimedOut, PollFails, ClientFails, RouteFails

\* Every variable of an association keeps its type, and the queued replies,
\* the routes and the authorised peers stay within their limits
\* (MAX_PENDING_CLIENT_REPLIES, MAX_DATAGRAM_ROUTES, MAX_DATAGRAM_REMOTE_PEERS).
THEOREM TypeCorrect == Spec => []TypeOK
<1>1. Init => Counts
  BY CountsAtStart
<1>2. Init => Tokens /\ Limits
  <2> SUFFICES ASSUME Init PROVE Tokens /\ Limits
    OBVIOUS
  <2>1. next \in Token
    BY RouteAssumption DEF Init, Token
  <2>2. Tokens
    BY <2>1, EmptyTables, ZenonT(30) DEF Init, Tokens
  <2>3. Limits
    BY EmptyTables, ZenonT(30) DEF Init, Limits
  <2> QED
    BY <2>2, <2>3
<1>3. IInv /\ Counts /\ [Next]_vars => Counts'
  BY StepKeepsCounts
<1>4. IInv /\ Tokens /\ Limits /\ [Next]_vars => Tokens' /\ Limits'
  BY StepKeepsTokens
<1>5. IInv /\ Counts /\ Tokens /\ Limits => TypeOK
  <2> SUFFICES ASSUME IInv, Counts, Tokens, Limits PROVE TypeOK
    OBVIOUS
  <2>1. pending \in Seq(ControlIp \cup {NoClient})
    BY DEF IInv, Types
  <2> QED
    BY <2>1, ZenonT(30) DEF IInv, Types, Counts, Tokens, Limits, TypeOK
<1> QED
  BY <1>1, <1>2, <1>3, <1>4, <1>5, Invariant, PTL DEF Spec
=============================================================================
