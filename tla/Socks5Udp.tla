----------------------------- MODULE Socks5Udp -----------------------------
(***************************************************************************)
(* One SOCKS5 UDP ASSOCIATE session (handle_udp_associate of               *)
(* crates/daemon/src/socks5.rs): a TCP control connection that owns the    *)
(* lifetime of the association, the UDP relay socket that faces the        *)
(* client, the routes it opens (DatagramRoutes) and a queue of replies     *)
(* that the relay socket could not take.                                   *)
(*                                                                         *)
(* One iteration of the loop is Poll, CheckControl, a burst of             *)
(* ClientPacket steps, a burst of Receive steps per ready token, and       *)
(* EndIteration (flush, then reregister).  The kernel, the client, the     *)
(* remote peers and the clock move between any two of them.  Readiness is  *)
(* edge-triggered: an event is reported once per edge, with the mask the   *)
(* descriptor has when poll looks at it.                                   *)
(***************************************************************************)
EXTENDS DatagramRoutes

CONSTANTS
  Sender,        \* addresses that datagrams reach the relay socket from
  ControlIp,     \* those on the IP address of the TCP control peer
  Target,        \* destinations, and sources of replies
  Malformed,     \* a packet parse_udp_request refuses
  Plan, Reject,  \* Plan[t]: the endpoint policy selects for t, or Reject
  UdpEndpoint,   \* endpoints whose capabilities support UDP
  PeerChecked,   \* endpoints whose execution keeps remote_peers (DIRECT)
  MaxPeers,      \* MAX_DATAGRAM_REMOTE_PEERS
  MaxPending,    \* MAX_PENDING_CLIENT_REPLIES
  Burst,         \* MAX_UDP_EVENT_BURST
  EventCapacity, \* events one poll returns at most
  ControlReads,  \* reads control_event_is_closed makes at most
  IdleTimeout,   \* UDP_IDLE_TIMEOUT
  QueueBound,    \* bound: datagrams the kernel holds per socket
  ControlBound,  \* bound: chunks of bytes waiting at the control connection
  NoClient, NoToken

ASSUME AssociationAssumption ==
  /\ ControlIp \subseteq Sender /\ NoClient \notin Sender
  /\ Plan \in [Target -> Endpoint \cup {Reject}] /\ Reject \notin Endpoint
  /\ Malformed \notin Target /\ Fault \notin Target /\ Nothing \notin Target
  /\ UdpEndpoint \subseteq Endpoint /\ PeerChecked \subseteq Endpoint
  /\ EventCapacity \in Nat \ {0}
  /\ MaxPeers \in Nat \ {0} /\ MaxPending \in Nat \ {0} /\ Burst \in Nat \ {0}
  /\ ControlReads \in Nat \ {0} /\ IdleTimeout \in Nat \ {0}
  /\ QueueBound \in Nat /\ ControlBound \in Nat
  /\ NoToken \notin Nat
  /\ FirstToken = 2

ControlToken == 0
ClientToken  == 1

VARIABLES
  pc,             \* start, head, poll, broken, control, client, serve or closed
  hinted,         \* the request named the client's port
  client_address,
  idle,           \* time since last_activity, stopping at the timeout
  routes, peers,  \* the route table, and the targets each route has reached
  next,           \* the allocator's next_token
  pending,        \* pending_replies: the addresses they go to
  relay_writable, \* the relay socket is registered for WRITABLE
  batch,          \* outbound tokens of the events the last poll returned
  hup,            \* ... with an event for the control connection: is_read_closed
  control_event,  \* ... with an event for the control connection
  client_writable,\* ... with an event for the relay socket: is_writable
  cur,            \* the outbound token being served
  left,           \* iterations left in the current burst
  unread, fin,    \* kernel: chunks waiting at the control connection; its end (EOF, reset)
  inbox,          \* kernel: datagrams waiting at the relay socket
  room,           \* kernel: the relay socket's send buffer has room
  rx,             \* kernel and carriers: datagrams waiting at each source
  armed           \* kernel: tokens with an edge not yet returned by poll

routeVars  == <<routes, peers, next>>
clientVars == <<hinted, client_address, idle>>
replyVars  == <<pending, relay_writable, room>>
eventVars  == <<batch, hup, control_event, client_writable, cur, left>>
kernelVars == <<unread, fin, inbox, rx>>
vars == <<pc, routeVars, clientVars, replyVars, eventVars, kernelVars, armed>>

Packet == (Sender \X (Target \cup {Malformed})) \cup {Fault}

Event == Token \cup {ControlToken, ClientToken}

\* The state of one association, between two statements of the loop in
\* handle_udp_associate: its sockets, routes, queue and the events still to be
\* handled, with the limits on queued replies, routes and authorised peers.
TypeOK ==
  /\ pc \in {"start", "head", "poll", "broken", "control", "client", "serve", "closed"}
  /\ hinted \in BOOLEAN
  /\ client_address \in ControlIp \cup {NoClient}
  /\ idle \in 0..IdleTimeout
  /\ routes \in [Endpoint -> SUBSET Token]
  /\ peers \in [Endpoint -> SUBSET Target]
  /\ next \in Token
  /\ pending \in Seq(ControlIp \cup {NoClient})
  /\ relay_writable \in BOOLEAN /\ room \in BOOLEAN
  /\ batch \subseteq Token
  /\ hup \in BOOLEAN /\ control_event \in BOOLEAN /\ client_writable \in BOOLEAN
  /\ cur \in Token \cup {NoToken}
  /\ left \in 0..Burst
  /\ unread \in 0..ControlBound /\ fin \in BOOLEAN
  /\ inbox \in Seq(Packet)
  /\ rx \in [Token -> Seq(Target \cup {Fault})]
  /\ armed \subseteq Event
  /\ Len(pending) <= MaxPending
  /\ Cardinality(OpenRoutes(routes)) <= MaxRoutes
  /\ \A e \in PeerChecked : Cardinality(peers[e]) <= MaxPeers

NoPeers == [e \in Endpoint |-> {}]

Init ==
  /\ pc = "start"
  /\ hinted = FALSE /\ client_address = NoClient /\ idle = 0
  /\ routes = NoRoutes /\ peers = NoPeers /\ next = FirstToken
  /\ pending = << >> /\ relay_writable = FALSE /\ room = TRUE
  /\ batch = {} /\ cur = NoToken /\ left = 0
  /\ hup = FALSE /\ control_event = FALSE /\ client_writable = FALSE
  /\ unread = 0 /\ fin = FALSE
  /\ inbox = << >> /\ rx = [t \in Token |-> << >>] /\ armed = {}

----------------------------------------------------------------------------
(* handle_udp_associate returns: the relay socket, the routes and the queue *)
(* are dropped with it.                                                     *)

End ==
  /\ pc' = "closed"
  /\ hinted' = FALSE /\ client_address' = NoClient /\ idle' = 0
  /\ routes' = NoRoutes /\ peers' = NoPeers
  /\ pending' = << >> /\ relay_writable' = FALSE /\ room' = TRUE
  /\ batch' = {} /\ cur' = NoToken /\ left' = 0
  /\ hup' = FALSE /\ control_event' = FALSE /\ client_writable' = FALSE
  /\ unread' = 0 /\ inbox' = << >> /\ rx' = [t \in Token |-> << >>] /\ armed' = {}
  /\ UNCHANGED <<next, fin>>

\* The request: a hint with another IP than the control peer's is refused; a
\* hint with a port fixes the client address at once.
Associate ==
  /\ pc = "start"
  /\ \/ End
     \/ /\ pc' = "head"
        /\ client_address' \in ControlIp \cup {NoClient}
        /\ hinted' = (client_address' # NoClient)
        /\ armed' = IF unread > 0 \/ fin THEN {ControlToken} ELSE {}
        /\ UNCHANGED <<idle, routeVars, replyVars, eventVars, kernelVars>>

----------------------------------------------------------------------------
(* The head of the loop.                                                    *)

\* Mutant: remaining computed one unit short.
DeadlineEarly == idle + 1 >= IdleTimeout

Deadline == idle >= IdleTimeout

\* remaining is computed, and is zero or becomes the timeout of the poll.
LoopHead ==
  /\ pc = "head"
  /\ IF Deadline THEN End
     ELSE /\ pc' = "poll"
          /\ UNCHANGED <<routeVars, clientVars, replyVars, eventVars, kernelVars, armed>>

\* poll timed out: the events are empty.
TimedOut == pc = "poll" /\ Deadline /\ End

\* The descriptors among the armed ones whose mask is not empty.
Reportable ==
  {t \in armed : /\ t = ControlToken => unread > 0 \/ fin
                 /\ t = ClientToken => inbox # << >> \/ (relay_writable /\ room)}

\* A sleeping poll is interrupted, and the loop starts again, or fails.
PollError ==
  /\ pc = "poll" /\ Reportable = {}
  /\ pc' \in {"head", "broken"}
  /\ UNCHANGED <<routeVars, clientVars, replyVars, eventVars, kernelVars, armed>>

PollFails == pc = "broken" /\ End

PollResult ==
  {B \in SUBSET Reportable :
     Cardinality(B) = IF Cardinality(Reportable) < EventCapacity
                        THEN Cardinality(Reportable) ELSE EventCapacity}

\* Mutant: is_read_closed and is_error are not asked.
NotAsked(B) == FALSE

\* The event of the control connection, if any, has is_read_closed or is_error.
ReadClosed(B) == ControlToken \in B /\ fin

\* poll returns, and the flags the loop derives from its events.
Poll ==
  /\ pc = "poll" /\ Reportable # {}
  /\ \E B \in PollResult :
       /\ control_event' = (ControlToken \in B)
       /\ hup' = ReadClosed(B)
       /\ client_writable' = (ClientToken \in B /\ relay_writable /\ room)
       /\ left' = IF ClientToken \in B /\ inbox # << >> THEN Burst ELSE 0
       /\ batch' = B \cap Token
       /\ armed' = Reportable \ B
  /\ pc' = "control"
  /\ UNCHANGED <<routeVars, clientVars, replyVars, cur, kernelVars>>

\* is_read_closed or is_error, or end of file within the bounded reads.
control_event_is_closed == hup \/ (control_event /\ fin /\ unread < ControlReads)

CheckControl ==
  /\ pc = "control"
  /\ IF control_event_is_closed THEN End
     ELSE /\ pc' = "client"
          /\ unread' = IF ~control_event THEN unread
                       ELSE IF unread > ControlReads THEN unread - ControlReads ELSE 0
          /\ control_event' = FALSE
          /\ UNCHANGED <<routeVars, clientVars, replyVars, batch, hup, client_writable,
                         cur, left, fin, inbox, rx, armed>>

----------------------------------------------------------------------------
(* The client burst.                                                        *)

InBurst == pc = "client" /\ left > 0 /\ inbox # << >>

is_client_packet(source) ==
  IF client_address = NoClient THEN source \in ControlIp ELSE source = client_address

PeerAdmitted(e, t) ==
  e \in PeerChecked => t \in peers[e] \/ Cardinality(peers[e]) < MaxPeers

\* parse_udp_request, plan_action and the capabilities of the endpoint.
Handled(t) == t # Malformed /\ Plan[t] # Reject /\ Plan[t] \in UdpEndpoint

\* Mutant: any packet from the client's IP address is taken as accepted.
AcceptsAny(t, o) == TRUE

\* handle_udp_client_packet returned true.
Accepted(t, o) ==
  /\ Handled(t)
  /\ SendSucceeds(routes, next, Plan[t], o)
  /\ PeerAdmitted(Plan[t], t)

\* The client address a packet leaves behind.
PinnedBy(source) == IF client_address = NoClient THEN source ELSE client_address

\* A framed carrier asks for WRITABLE when a frame was queued, and gets it.
CarrierEdge(table, e) == IF e \in PeerChecked THEN {} ELSE table[e]

HandleClientPacket(source, t) ==
  \E o \in Outcome :
    LET table == IF Handled(t) THEN RoutesAfter(routes, next, Plan[t], o) ELSE routes
        ok    == Accepted(t, o)
    IN  /\ routes' = table
        /\ next' = IF Handled(t) THEN NextAfter(routes, next, Plan[t], o) ELSE next
        /\ peers' = IF ok /\ Handled(t) THEN [peers EXCEPT ![Plan[t]] = @ \cup {t}] ELSE peers
        /\ armed' = IF ok /\ Handled(t) THEN armed \cup CarrierEdge(table, Plan[t]) ELSE armed
        /\ client_address' = IF ok THEN PinnedBy(source) ELSE client_address
        /\ idle' = IF ok THEN 0 ELSE idle

ClientPacket ==
  /\ InBurst /\ Head(inbox) # Fault
  /\ IF is_client_packet(Head(inbox)[1])
       THEN HandleClientPacket(Head(inbox)[1], Head(inbox)[2])
       ELSE UNCHANGED <<routeVars, client_address, idle, armed>>
  /\ inbox' = Tail(inbox)
  /\ left' = left - 1
  /\ UNCHANGED <<pc, hinted, replyVars, batch, hup, control_event, client_writable, cur,
                 unread, fin, rx>>

\* recv_from was interrupted: the iteration is spent all the same.
Interrupted ==
  /\ pc = "client" /\ left > 0
  /\ left' = left - 1
  /\ UNCHANGED <<pc, routeVars, clientVars, replyVars, batch, hup, control_event,
                 client_writable, cur, kernelVars, armed>>

ClientFails == InBurst /\ Head(inbox) = Fault /\ End

EndClientBurst ==
  /\ pc = "client" /\ (left = 0 \/ inbox = << >>)
  /\ pc' = "serve" /\ left' = 0
  /\ UNCHANGED <<routeVars, clientVars, replyVars, batch, hup, control_event,
                 client_writable, cur, kernelVars, armed>>

----------------------------------------------------------------------------
(* The outbound bursts.                                                     *)

NextToken ==
  /\ pc = "serve" /\ cur = NoToken
  /\ \E t \in batch : cur' = t /\ batch' = batch \ {t}
  /\ left' = Burst
  /\ UNCHANGED <<pc, routeVars, clientVars, replyVars, hup, control_event,
                 client_writable, kernelVars, armed>>

RouteOf(t) == {e \in Endpoint : t \in routes[e]}

Trusted(e) == IF e \in PeerChecked THEN peers[e] ELSE Target

CurTokens   == UNION {routes[e] : e \in RouteOf(cur)}
CurTrusted  == UNION {Trusted(e) : e \in RouteOf(cur)}
CurReceived == Received(CurTokens, rx, CurTrusted)

Serving == pc = "serve" /\ cur # NoToken

QueueFull == Len(pending) >= MaxPending

\* send_or_queue_client_reply: send_to took the reply, failed, or would block
\* (or was interrupted) and the reply was queued, if the queue had room.
SendOrQueue ==
  \/ /\ room
     /\ room' \in BOOLEAN
     /\ idle' \in {0, idle}
     /\ UNCHANGED pending
  \/ /\ IF QueueFull THEN UNCHANGED <<pending, idle>>
                     ELSE pending' = Append(pending, client_address) /\ idle' = 0
     /\ UNCHANGED room

HasClient == client_address # NoClient

\* receive_ready returned a datagram; without a client address it is dropped.
Receive ==
  /\ Serving /\ left > 0
  /\ CurReceived \in Target
  /\ IF HasClient THEN SendOrQueue ELSE UNCHANGED <<pending, room, idle>>
  /\ rx' = RxAfter(CurTokens, rx, CurTrusted)
  /\ left' = left - 1
  /\ UNCHANGED <<pc, routeVars, hinted, client_address, relay_writable, batch, hup,
                 control_event, client_writable, cur, unread, fin, inbox, armed>>

EndBurst ==
  /\ Serving /\ (left = 0 \/ CurReceived = Nothing)
  /\ rx' = IF left > 0 THEN RxAfter(CurTokens, rx, CurTrusted) ELSE rx
  /\ cur' = NoToken /\ left' = 0
  /\ UNCHANGED <<pc, routeVars, clientVars, replyVars, batch, hup, control_event,
                 client_writable, unread, fin, inbox, armed>>

\* receive_ready(..)? : an error of one route ends the association.
RouteFails == Serving /\ left > 0 /\ CurReceived = Fault /\ End

----------------------------------------------------------------------------
(* The tail of the loop: flush when the relay socket was reported writable, *)
(* then make the interest agree with the queue.                             *)

\* flush_pending_client_replies takes the first k replies; it stops early
\* only when the socket would block.
Flush ==
  \/ /\ client_writable
     /\ \E k \in 0..Len(pending) :
          /\ ~room => k = 0
          /\ pending' = SubSeq(pending, k + 1, Len(pending))
          /\ idle' \in IF k > 0 THEN {0, idle} ELSE {idle}
          /\ IF k < Len(pending) THEN room' = FALSE
             ELSE IF k > 0 THEN room' \in BOOLEAN ELSE UNCHANGED room
  \/ ~client_writable /\ UNCHANGED <<pending, idle, room>>

\* Mutant: writable interest is never asked for.
NeverWritable(queue) == FALSE

wants_writable(queue) == queue # << >>

EndIteration ==
  /\ pc = "serve" /\ cur = NoToken /\ batch = {}
  /\ Flush
  /\ relay_writable' = wants_writable(pending')
  /\ armed' = IF relay_writable' # relay_writable
                 /\ (inbox # << >> \/ (relay_writable' /\ room'))
                THEN armed \cup {ClientToken} ELSE armed
  /\ client_writable' = FALSE /\ hup' = FALSE
  /\ pc' = "head"
  /\ UNCHANGED <<routeVars, hinted, client_address, batch, control_event, cur, left,
                 kernelVars>>

----------------------------------------------------------------------------
(* The environment.                                                         *)

Open == pc \notin {"start", "closed"}

ClientSends ==
  /\ Open /\ Len(inbox) < QueueBound
  /\ \E d \in Packet : inbox' = Append(inbox, d)
  /\ armed' = armed \cup {ClientToken}
  /\ UNCHANGED <<pc, routeVars, clientVars, replyVars, eventVars, unread, fin, rx>>

PeerSends ==
  /\ \E t \in owned_tokens(routes), d \in Target \cup {Fault} :
       /\ Len(rx[t]) < QueueBound
       /\ rx' = [rx EXCEPT ![t] = Append(@, d)]
       /\ armed' = armed \cup {t}
  /\ UNCHANGED <<pc, routeVars, clientVars, replyVars, eventVars, unread, fin, inbox>>

ControlSends ==
  /\ pc # "closed" /\ ~fin
  /\ \/ unread < ControlBound /\ unread' = unread + 1 /\ UNCHANGED fin
     \/ fin' = TRUE /\ UNCHANGED unread
  /\ armed' = IF Open THEN armed \cup {ControlToken} ELSE armed
  /\ UNCHANGED <<pc, routeVars, clientVars, replyVars, eventVars, inbox, rx>>

\* The send buffer drains: an edge when the socket is registered for WRITABLE.
RelayDrains ==
  /\ Open /\ ~room
  /\ room' = TRUE
  /\ armed' = IF relay_writable THEN armed \cup {ClientToken} ELSE armed
  /\ UNCHANGED <<pc, routeVars, clientVars, pending, relay_writable, eventVars, kernelVars>>

Tick ==
  /\ Open /\ idle < IdleTimeout
  /\ idle' = idle + 1
  /\ UNCHANGED <<pc, routeVars, hinted, client_address, replyVars, eventVars, kernelVars, armed>>

Loop ==
  \/ Associate \/ LoopHead \/ TimedOut \/ Poll \/ PollFails \/ CheckControl
  \/ ClientPacket \/ Interrupted \/ ClientFails \/ EndClientBurst
  \/ NextToken \/ Receive \/ EndBurst \/ RouteFails \/ EndIteration

\* handle_udp_associate has returned.
Returned == pc = "closed" /\ UNCHANGED vars

Next ==
  Loop \/ PollError \/ ClientSends \/ PeerSends \/ ControlSends \/ RelayDrains \/ Tick \/ Returned

Spec == Init /\ [][Next]_vars

\* The association has a thread of its own and the clock runs.
FairSpec == Spec /\ WF_vars(Loop) /\ WF_vars(Tick)
----------------------------------------------------------------------------
(* Safety.                                                                  *)

\* Without a hint the client address is pinned exactly when a datagram of the
\* client has left by some route: malformed, rejected or failed packets never
\* claim it.  Every reply that waits goes to the pinned client, whose packets
\* are the only ones that can have caused it.
OnlyClientServed ==
  /\ pc # "closed" /\ ~hinted =>
       (client_address # NoClient <=> \E e \in Endpoint : peers[e] # {})
  /\ \A i \in 1..Len(pending) : client_address # NoClient /\ pending[i] = client_address

\* The loop never goes back to sleep on queued replies that the relay socket
\* could take: an edge is pending for it (the reregistration after the flush).
NoSleepOnReplies ==
  pc = "poll" => /\ relay_writable <=> pending # << >>
                 /\ pending # << >> /\ room => ClientToken \in armed

\* An association ends by itself only when it was idle for the whole timeout;
\* otherwise the control connection closed, or poll, the relay socket or a
\* route failed.  No packet of the client's or of a peer's ends it, malformed,
\* rejected, untrusted or beyond a limit as it may be (handle_udp_associate).
EndsForAReason ==
  [][pc \notin {"start", "closed"} /\ pc' = "closed" =>
       \/ idle = IdleTimeout \/ fin \/ pc = "broken"
       \/ InBurst /\ Head(inbox) = Fault
       \/ Serving /\ left > 0 /\ CurReceived = Fault]_vars

----------------------------------------------------------------------------
(* Liveness, under FairSpec.                                                *)

\* Closing the control connection ends the association, however much the
\* client sent on it before and whatever else keeps the association active;
\* and so does staying idle (control_event_is_closed, the deadline of poll).
AssociationEnds ==
  /\ fin ~> pc = "closed"
  /\ (pc # "closed" /\ idle = IdleTimeout) ~> (pc = "closed" \/ idle = 0)
=============================================================================
