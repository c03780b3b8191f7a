--------------------------- MODULE TransparentUdp ---------------------------
(***************************************************************************)
(* The transparent (TPROXY) UDP listener of crates/daemon/src/             *)
(* transparent_udp.rs: one thread, one poller, a table of clients, a       *)
(* listener-wide token allocator and a cache of source-correct reply       *)
(* sockets.                                                                *)
(*                                                                         *)
(* One iteration of serve_forever is Wake (poll, then both clean-ups), a   *)
(* burst of HandleInbound steps, Collect (the snapshot outbound_ready) and *)
(* a burst of Reply steps per ready token.  Datagrams arrive and time      *)
(* passes between any two of those steps.                                  *)
(*                                                                         *)
(* Instants are kept as ages: age[c] is now - last_activity, stopping at   *)
(* the timeout (every comparison in the code is against the timeout or     *)
(* between two instants that are younger than it).                         *)
(***************************************************************************)
EXTENDS DatagramRoutes

CONSTANTS
  Client,        \* client socket addresses
  Target,        \* original destinations, and sources of replies
  Plan,          \* Plan[t]: the endpoint policy selects for t, or Reject
  Reject,
  UdpEndpoint,   \* endpoints whose capabilities support UDP
  PeerChecked,   \* endpoints whose execution keeps remote_peers (DIRECT)
  Deliverable,   \* reply sources that are IPs of the listener's family
  MaxClients, MaxReplySockets, MaxPeers, Burst, EventCapacity,
  IdleTimeout, ReplyTimeout,
  QueueBound,    \* bound: datagrams the kernel holds per socket
  NoClient, Absent

ASSUME ListenerAssumption ==
  /\ IsFiniteSet(Client) /\ IsFiniteSet(Target)
  /\ Plan \in [Target -> Endpoint \cup {Reject}]
  /\ Reject \notin Endpoint
  /\ UdpEndpoint \subseteq Endpoint /\ PeerChecked \subseteq Endpoint
  /\ Deliverable \subseteq Target
  /\ MaxClients \in Nat \ {0} /\ MaxReplySockets \in Nat \ {0}
  /\ MaxPeers \in Nat \ {0} /\ Burst \in Nat \ {0}
  /\ EventCapacity \in Nat \ {0}
  /\ IdleTimeout \in Nat \ {0} /\ ReplyTimeout \in Nat \ {0}
  /\ QueueBound \in Nat
  /\ NoClient \notin Client /\ Fault \notin Target /\ Nothing \notin Target
  /\ Absent \notin Nat
  /\ FirstToken = 1

InboundToken == 0

VARIABLES
  pc,            \* where serve_forever stands
  clients,       \* the keys of the client table
  age,           \* age[c]: time since c's last_activity
  routes,        \* routes[c]: the route table of c's ClientState
  peers,         \* peers[c][e]: targets a datagram left for by that route
  next,          \* the allocator's next_token
  token_clients, \* token -> client, or NoClient
  replies,       \* replies[s]: age of the reply socket bound to s, or Absent
  batch,         \* tokens of the events the last poll returned
  ready,         \* outbound_ready: <<token, client>> pairs still to serve
  cur,           \* the pair being served, << >> between two pairs
  left,          \* iterations left in the current burst
  inbox,         \* kernel: datagrams waiting at the listening socket
  rx,            \* kernel and carriers: datagrams waiting at each source
  armed          \* kernel: tokens with an edge not yet returned by poll

tableVars == <<clients, age, routes, peers, next, token_clients>>
loopVars  == <<pc, batch, ready, cur, left>>
vars == <<tableVars, replies, loopVars, inbox, rx, armed>>

Inbound == (Client \X Target) \cup {Fault}

\* The tables of serve_forever (clients, token_clients, reply sockets), the
\* sockets under them, and the pairs of outbound_ready still to be served.
TypeOK ==
  /\ pc \in {"poll", "inbound", "serve", "failed"}
  /\ clients \subseteq Client
  /\ age \in [Client -> 0..IdleTimeout]
  /\ routes \in [Client -> [Endpoint -> SUBSET Token]]
  /\ peers \in [Client -> [Endpoint -> SUBSET Target]]
  /\ next \in Token
  /\ token_clients \in [Token -> Client \cup {NoClient}]
  /\ replies \in [Target -> (0..ReplyTimeout) \cup {Absent}]
  /\ batch \subseteq Token \cup {InboundToken}
  /\ ready \subseteq Token \X Client
  /\ cur \in (Token \X Client) \cup {<< >>}
  /\ left \in 0..Burst
  /\ inbox \in Seq(Inbound)
  /\ rx \in [Token -> Seq(Target \cup {Fault})]
  /\ armed \subseteq Token \cup {InboundToken}

NoPeers == [e \in Endpoint |-> {}]

Init ==
  /\ pc = "poll"
  /\ clients = {}
  /\ age = [c \in Client |-> 0]
  /\ routes = [c \in Client |-> NoRoutes]
  /\ peers = [c \in Client |-> NoPeers]
  /\ next = FirstToken
  /\ token_clients = [t \in Token |-> NoClient]
  /\ replies = [s \in Target |-> Absent]
  /\ batch = {} /\ ready = {} /\ cur = << >> /\ left = 0
  /\ inbox = << >>
  /\ rx = [t \in Token |-> << >>]
  /\ armed = {}

----------------------------------------------------------------------------
(* cleanup_idle_clients: drop the expired clients with their routes, their  *)
(* sockets and their entries in token_clients.                              *)

\* Mutant: expires one tick early.
ExpiredEarly == {c \in clients : age[c] + 1 >= IdleTimeout}

Expired == {c \in clients : age[c] >= IdleTimeout}

OwnedBy(S) == UNION {owned_tokens(routes[c]) : c \in S}

\* What is left of each table once the clients in S are dropped.
RoutesWithout(S) == [c \in Client |-> IF c \in S THEN NoRoutes ELSE routes[c]]
PeersWithout(S)  == [c \in Client |-> IF c \in S THEN NoPeers ELSE peers[c]]
\* Mutant: cleanup leaves the dropped clients' tokens behind.
OwnersLeft(S) == token_clients

OwnersWithout(S) ==
  [t \in Token |-> IF t \in OwnedBy(S) THEN NoClient ELSE token_clients[t]]

AgeWithout(S)    == [c \in Client |-> IF c \in S THEN 0 ELSE age[c]]

\* Closing the sockets of a dropped route discards what waits at them.
RxWithout(S)    == [t \in Token |-> IF t \in OwnedBy(S) THEN << >> ELSE rx[t]]
ArmedWithout(S) == armed \ OwnedBy(S)

\* ReplySocketCache::cleanup_expired.
FreshReplies ==
  [s \in Target |-> IF replies[s] # Absent /\ replies[s] >= ReplyTimeout
                      THEN Absent ELSE replies[s]]

----------------------------------------------------------------------------
(* poll returns: with as many pending events as fit its buffer, or because  *)
(* next_client_timeout has run out.  Both clean-ups follow at once.  A poll *)
(* that was interrupted is repeated, which changes nothing.                 *)

PollResult ==
  {B \in SUBSET armed :
     Cardinality(B) = IF Cardinality(armed) < EventCapacity
                        THEN Cardinality(armed) ELSE EventCapacity}

\* Mutant: poll without a timeout.
NoTimeout == FALSE

next_client_timeout == Expired # {}

Wake ==
  /\ pc = "poll"
  /\ armed # {} \/ next_client_timeout
  /\ \E B \in PollResult :
       /\ batch' = B
       /\ armed' = ArmedWithout(Expired) \ B
       /\ left' = IF InboundToken \in B THEN Burst ELSE 0
  /\ pc' = "inbound"
  /\ clients' = clients \ Expired
  /\ age' = AgeWithout(Expired)
  /\ routes' = RoutesWithout(Expired)
  /\ peers' = PeersWithout(Expired)
  /\ token_clients' = OwnersWithout(Expired)
  /\ rx' = RxWithout(Expired)
  /\ replies' = FreshReplies
  /\ UNCHANGED <<next, ready, cur, inbox>>

----------------------------------------------------------------------------
(* handle_inbound.                                                          *)

Handled(e) == e # Reject /\ e \in UdpEndpoint

\* DirectDatagramAssociation::send_to_resolved refuses a new peer at the limit.
PeerAdmitted(known, e, t) ==
  e \in PeerChecked => t \in known \/ Cardinality(known) < MaxPeers

\* One iteration of `for _ in 0..MAX_EVENT_BURST`.
BurstLeft == left - 1

\* A client the table does not hold: make room, insert it, send, undo on error.
NewClientDatagram(c, t, o) ==
  LET e      == Plan[t]
      kept   == clients \ Expired
      table  == RoutesAfter(NoRoutes, next, e, o)
      ok     == SendSucceeds(NoRoutes, next, e, o)
      room   == Cardinality(kept) < MaxClients
      done   == room /\ ok
  IN  /\ clients' = IF done THEN kept \cup {c} ELSE kept
      /\ routes' = IF done THEN [RoutesWithout(Expired) EXCEPT ![c] = table]
                           ELSE RoutesWithout(Expired)
      /\ peers' = IF done THEN [PeersWithout(Expired) EXCEPT ![c] = [NoPeers EXCEPT ![e] = {t}]]
                          ELSE PeersWithout(Expired)
      /\ token_clients' = [k \in Token |-> IF done /\ k \in owned_tokens(table)
                                             THEN c ELSE OwnersWithout(Expired)[k]]
      /\ age' = [AgeWithout(Expired) EXCEPT ![c] = 0]
      /\ next' = IF room THEN NextAfter(NoRoutes, next, e, o) ELSE next
      /\ rx' = RxWithout(Expired)
      /\ armed' = ArmedWithout(Expired)

\* A client the table holds: its route stays when its first send fails.
KnownClientDatagram(c, t, o) ==
  LET e     == Plan[t]
      table == RoutesAfter(routes[c], next, e, o)
      ok    == SendSucceeds(routes[c], next, e, o) /\ PeerAdmitted(peers[c][e], e, t)
  IN  /\ routes' = [routes EXCEPT ![c] = table]
      /\ next' = NextAfter(routes[c], next, e, o)
      /\ peers' = IF ok THEN [peers EXCEPT ![c][e] = @ \cup {t}] ELSE peers
      /\ token_clients' = [k \in Token |-> IF ok /\ k \in owned_tokens(table)
                                             THEN c ELSE token_clients[k]]
      /\ age' = IF ok THEN [age EXCEPT ![c] = 0] ELSE age
      /\ UNCHANGED <<clients, rx, armed>>

InBurst == pc = "inbound" /\ left > 0 /\ inbox # << >>

HandleInbound ==
  /\ InBurst
  /\ Head(inbox) # Fault
  /\ LET c == Head(inbox)[1]
         t == Head(inbox)[2]
     IN  \/ ~Handled(Plan[t]) /\ UNCHANGED <<tableVars, rx, armed>>
         \/ /\ Handled(Plan[t])
            /\ \E o \in Outcome : IF c \in clients THEN KnownClientDatagram(c, t, o)
                                                   ELSE NewClientDatagram(c, t, o)
  /\ inbox' = Tail(inbox)
  /\ left' = BurstLeft
  /\ UNCHANGED <<pc, batch, ready, cur, replies>>

----------------------------------------------------------------------------
(* The outbound half.                                                       *)

\* Mutant: a token without an owner is served for every client.
UnownedToo ==
  {p \in batch \X Client : p[1] \in Token /\ token_clients[p[1]] \in {p[2], NoClient}}

\* The filter_map over the events that yields outbound_ready.
ReadyPairs == {p \in batch \X Client : p[1] \in Token /\ token_clients[p[1]] = p[2]}

\* EAGAIN, EINTR, the end of the burst, or no inbound event at all: compute
\* outbound_ready, once, after the inbound half.
Collect ==
  /\ pc = "inbound"
  /\ ready' = ReadyPairs
  /\ pc' = "serve"
  /\ batch' = {} /\ left' = 0
  /\ UNCHANGED <<tableVars, replies, cur, inbox, rx, armed>>

\* Pairs are served one after the other, in the order of the events.
NextPair ==
  /\ pc = "serve" /\ cur = << >>
  /\ \E p \in ready : cur' = p /\ ready' = ready \ {p}
  /\ left' = Burst
  /\ UNCHANGED <<tableVars, replies, pc, batch, inbox, rx, armed>>

EndIteration ==
  /\ pc = "serve" /\ cur = << >> /\ ready = {}
  /\ pc' = "poll"
  /\ UNCHANGED <<tableVars, replies, batch, ready, cur, left, inbox, rx, armed>>

\* ReplySocketCache::send: the sockets that remain before a new one is bound.
\* Mutant: len() > MAX_REPLY_SOCKETS.
CrowdedLate == Cardinality({s \in Target : FreshReplies[s] # Absent}) > MaxReplySockets

Crowded == Cardinality({s \in Target : FreshReplies[s] # Absent}) >= MaxReplySockets

Oldest ==
  {s \in Target : /\ FreshReplies[s] # Absent
                  /\ \A r \in Target : FreshReplies[r] # Absent => FreshReplies[r] <= FreshReplies[s]}

MadeRoom ==
  IF Crowded THEN {[FreshReplies EXCEPT ![s] = Absent] : s \in Oldest} ELSE {FreshReplies}

\* The cache after sending from source s; bound and sent are what bind and
\* send_to return.
RepliesAfter(s, bound, sent) ==
  IF s \notin Deliverable THEN {replies}
  ELSE IF replies[s] # Absent THEN {IF sent THEN [replies EXCEPT ![s] = 0] ELSE replies}
  ELSE IF bound THEN {[m EXCEPT ![s] = 0] : m \in MadeRoom}
  ELSE MadeRoom

Delivered(s, bound, sent) ==
  s \in Deliverable /\ (replies[s] # Absent \/ bound) /\ sent

RouteOf(c, t) == {e \in Endpoint : t \in routes[c][e]}

\* Mutant: no remote_peers check.
TrustAll(c, e) == Target

Trusted(c, e) == IF e \in PeerChecked THEN peers[c][e] ELSE Target

\* The route receive_ready finds for the pair being served: its sources and
\* the peers it accepts (none when the token is not of this client).
CurTokens == UNION {routes[cur[2]][e] : e \in RouteOf(cur[2], cur[1])}
CurTrusted == UNION {Trusted(cur[2], e) : e \in RouteOf(cur[2], cur[1])}
CurReceived == Received(CurTokens, rx, CurTrusted)

Serving == pc = "serve" /\ cur # << >>

\* receive_ready returned a datagram: send it on to the client.
Reply ==
  /\ Serving /\ left > 0
  /\ cur[2] \in clients
  /\ CurReceived \in Target
  /\ \E bound, sent \in BOOLEAN :
       /\ replies' \in RepliesAfter(CurReceived, bound, sent)
       /\ age' = IF Delivered(CurReceived, bound, sent)
                   THEN [age EXCEPT ![cur[2]] = 0] ELSE age
  /\ rx' = RxAfter(CurTokens, rx, CurTrusted)
  /\ left' = BurstLeft
  /\ UNCHANGED <<clients, routes, peers, next, token_clients, pc, batch, ready, cur, inbox, armed>>

\* receive_ready returned None, the client has gone, or the burst is over.
EndBurst ==
  /\ Serving
  /\ left = 0 \/ cur[2] \notin clients \/ CurReceived = Nothing
  /\ rx' = IF left > 0 /\ cur[2] \in clients THEN RxAfter(CurTokens, rx, CurTrusted) ELSE rx
  /\ token_clients' = IF left > 0 /\ cur[2] \notin clients
                        THEN [token_clients EXCEPT ![cur[1]] = NoClient] ELSE token_clients
  /\ cur' = << >> /\ left' = 0
  /\ UNCHANGED <<clients, age, routes, peers, next, replies, pc, batch, ready, inbox, armed>>

----------------------------------------------------------------------------
(* serve_forever returns an error: everything it owns is dropped.           *)

Fail ==
  /\ pc' = "failed"
  /\ clients' = {}
  /\ routes' = RoutesWithout(Client)
  /\ peers' = PeersWithout(Client)
  /\ token_clients' = [t \in Token |-> NoClient]
  /\ replies' = [s \in Target |-> Absent]
  /\ rx' = [t \in Token |-> << >>]
  /\ inbox' = << >> /\ armed' = {} /\ batch' = {} /\ ready' = {} /\ cur' = << >>
  /\ left' = 0
  /\ age' = AgeWithout(Client)
  /\ UNCHANGED next

\* poll failed otherwise than by an interruption.
PollFails == pc = "poll" /\ Fail

\* recv_original_datagram: truncated, no client address or no original
\* destination, port zero, or a socket error.
InboundFails == InBurst /\ Head(inbox) = Fault /\ Fail

\* receive_ready(..)? : an error of one client's route ends the listener.
RouteFails ==
  /\ Serving /\ left > 0 /\ cur[2] \in clients
  /\ CurReceived = Fault
  /\ Fail

----------------------------------------------------------------------------
(* The environment: the kernel, the remote peers and the clock.             *)

\* Edge-triggered readiness: every arrival at a registered socket arms it.
ClientSends ==
  /\ pc # "failed" /\ Len(inbox) < QueueBound
  /\ \E d \in Inbound : inbox' = Append(inbox, d)
  /\ armed' = armed \cup {InboundToken}
  /\ UNCHANGED <<tableVars, replies, loopVars, rx>>

PeerSends ==
  /\ \E t \in OwnedBy(clients), d \in Target \cup {Fault} :
       /\ Len(rx[t]) < QueueBound
       /\ rx' = [rx EXCEPT ![t] = Append(@, d)]
       /\ armed' = armed \cup {t}
  /\ UNCHANGED <<tableVars, replies, loopVars, inbox>>

Older(a, limit) == IF a < limit THEN a + 1 ELSE a

Tick ==
  /\ age' = [c \in Client |-> IF c \in clients THEN Older(age[c], IdleTimeout) ELSE age[c]]
  /\ replies' = [s \in Target |->
       IF replies[s] = Absent THEN Absent ELSE Older(replies[s], ReplyTimeout)]
  /\ UNCHANGED <<clients, routes, peers, next, token_clients, loopVars, inbox, rx, armed>>

Loop ==
  \/ Wake \/ HandleInbound \/ Collect \/ NextPair \/ EndIteration
  \/ Reply \/ EndBurst \/ InboundFails \/ RouteFails

Next == Loop \/ PollFails \/ ClientSends \/ PeerSends \/ Tick

Spec == Init /\ [][Next]_vars

\* The listener has a thread of its own and the clock runs.
FairSpec == Spec /\ WF_vars(Loop) /\ WF_vars(Tick)
----------------------------------------------------------------------------
(* Safety.                                                                  *)

\* token_clients never dangles: the client a token leads to is in the table
\* and owns that token (cleanup_idle_clients and the undo in handle_inbound).
OwnersAreLive ==
  \A t \in Token : token_clients[t] # NoClient =>
    /\ token_clients[t] \in clients
    /\ t \in owned_tokens(routes[token_clients[t]])

\* No two routes, of one client or of two, were registered with the same
\* token, so readiness leads to one route (the listener-wide allocator).
TokensNotShared ==
  \A c, d \in Client, e, f \in Endpoint :
    c # d \/ e # f => routes[c][e] \cap routes[d][f] = {}

\* Once a datagram has left by a route, the readiness of that route is
\* dispatched to its client, although a failed first send leaves a route
\* whose tokens are not in token_clients (handle_inbound's early return).
AnswersAreDispatched ==
  \A c \in Client, e \in Endpoint : peers[c][e] # {} =>
    /\ c \in clients
    /\ routes[c][e] # {}
    /\ \A t \in routes[c][e] : token_clients[t] = c

\* A pair of outbound_ready still leads to a live client that owns the token
\* when its turn comes: the branch of serve_forever for a client that has gone
\* is never taken.
ServedClientsAreLive ==
  /\ pc # "serve" => ready = {} /\ cur = << >>
  /\ \A p \in ready : p[2] \in clients /\ token_clients[p[1]] = p[2]
  /\ cur # << >> => cur[2] \in clients /\ token_clients[cur[1]] = cur[2]

\* The limits hold in every state, whatever mixture of clients, failed sends,
\* expiries and evictions led to it.
Bounded ==
  /\ Cardinality(clients) <= MaxClients
  /\ \A c \in Client : Cardinality(OpenRoutes(routes[c])) <= MaxRoutes
  /\ \A c \in Client, e \in PeerChecked : Cardinality(peers[c][e]) <= MaxPeers
  /\ Cardinality({s \in Target : replies[s] # Absent}) <= MaxReplySockets

\* A client leaves the table only when it has been idle for the whole timeout,
\* or with the listener: neither another client's datagram nor a failed send
\* of its own removes an established client.
ActiveClientsKept ==
  [][\A c \in clients : c \notin clients' =>
       age[c] >= IdleTimeout \/ pc' = "failed"]_vars

\* A socket that speaks for source s is bound only while serving a client
\* that has itself reached s, when the route filters its peers.
OnlyContactedSourcesSpeak ==
  [][\A s \in Target : replies[s] = Absent /\ replies'[s] # Absent =>
       \E e \in RouteOf(cur[2], cur[1]) :
         e \in PeerChecked => s \in peers[cur[2]][e]]_vars

----------------------------------------------------------------------------
(* Liveness, under FairSpec.                                                *)

\* A client idle for the timeout is dropped, or becomes active before that:
\* poll never sleeps past the deadline of the oldest client, and no socket
\* that is always ready keeps the loop from its clean-ups (MAX_EVENT_BURST).
IdleClientsReleased ==
  \A c \in Client :
    (c \in clients /\ age[c] = IdleTimeout) ~> (c \notin clients \/ age[c] = 0)
=============================================================================
