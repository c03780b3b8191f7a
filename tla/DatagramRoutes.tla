--------------------------- MODULE DatagramRoutes ---------------------------
(***************************************************************************)
(* The route set that a UDP inbound owns (crates/daemon/src/datagram.rs):  *)
(* one lazily opened datagram execution per policy-selected endpoint, the  *)
(* readiness tokens each execution was registered with, and the allocator  *)
(* those tokens come from.  A route table maps every endpoint to the set   *)
(* of tokens of its route; the empty set stands for "no route" (a route    *)
(* with zero readiness sources is refused by the allocator).               *)
(*                                                                         *)
(* The module has no state of its own: TransparentUdp keeps one table per  *)
(* client and Socks5Udp keeps one per association.                         *)
(***************************************************************************)
EXTENDS Integers, FiniteSets, Sequences

CONSTANTS
  Endpoint,     \* the endpoints policy can select
  Sources,      \* Sources[e]: readiness_source_count of an execution of e
  MaxRoutes,    \* MAX_DATAGRAM_ROUTES
  FirstToken,   \* the first token of the inbound's allocator
  MaxUsize,     \* usize::MAX, the end of the token space
  DrainLimit,   \* MAX_UNTRUSTED_DRAIN_PER_RECEIVE
  Fault,        \* an error waiting at a source: socket error, bad frame, EOF
  Nothing       \* Ok(None)

ASSUME RouteAssumption ==
  /\ IsFiniteSet(Endpoint)
  /\ Sources \in [Endpoint -> Nat]
  /\ MaxRoutes \in Nat
  /\ FirstToken \in Nat
  /\ MaxUsize \in Nat
  /\ FirstToken <= MaxUsize
  /\ DrainLimit \in Nat \ {0}
  /\ Nothing # Fault

Token == FirstToken..MaxUsize

\* What the calls send_with makes into other components return: the endpoint's
\* datagram factory, the registration with the poller, the send itself.
Outcome == [open : BOOLEAN, register : BOOLEAN, send : BOOLEAN]

NoRoutes == [e \in Endpoint |-> {}]

OpenRoutes(table) == {e \in Endpoint : table[e] # {}}

owned_tokens(table) == UNION {table[e] : e \in Endpoint}

----------------------------------------------------------------------------
(* DatagramTokenAllocator: consecutive tokens, never handed out twice.      *)

CanAllocate(next, count) == count # 0 /\ next + count <= MaxUsize

Allocated(next, count) == next..(next + count - 1)

----------------------------------------------------------------------------
(* DatagramRouteSet::send_with, split into what it leaves behind.           *)

\* The tokens for a first use of endpoint e are taken from the allocator ...
TakesTokens(table, next, e, o) ==
  /\ table[e] = {}
  /\ Cardinality(OpenRoutes(table)) < MaxRoutes
  /\ o.open
  /\ CanAllocate(next, Sources[e])

\* Mutant: the allocator hands out the same range again.
StuckNext(table, next, e, o) == next

NextAfter(table, next, e, o) ==
  IF TakesTokens(table, next, e, o) THEN next + Sources[e] ELSE next

\* ... but the route is only kept when the registration succeeds.
RoutesAfter(table, next, e, o) ==
  IF TakesTokens(table, next, e, o) /\ o.register
    THEN [table EXCEPT ![e] = Allocated(next, Sources[e])]
    ELSE table

\* Mutant: a route that could not be opened counts as sent.
SentUnopened(table, next, e, o) == o.send

\* The route stays in the table when the send that opened it fails.
SendSucceeds(table, next, e, o) ==
  RoutesAfter(table, next, e, o)[e] # {} /\ o.send

----------------------------------------------------------------------------
(* DatagramRouteSet::receive_ready over a DIRECT or a framed execution.     *)
(* rx[t] is the queue of datagrams waiting at source t of the route.        *)

Only(S) == CHOOSE x \in S : TRUE

\* receive_from_socket skips at most DrainLimit datagrams of strangers.  The
\* place of the first datagram it stops at: one element, or none.
FirstHit(queue, trusted) ==
  {i \in 1..Len(queue) :
     /\ i <= DrainLimit
     /\ queue[i] \in trusted \cup {Fault}
     /\ \A j \in 1..(i - 1) : queue[j] \notin trusted \cup {Fault}}

Taken(queue, trusted) ==
  IF FirstHit(queue, trusted) # {} THEN Only(FirstHit(queue, trusted))
  ELSE IF Len(queue) < DrainLimit THEN Len(queue) ELSE DrainLimit

\* The sources of a route are tried in token order until one has a datagram.
FirstSource(tokens, rx, trusted) ==
  {t \in tokens :
     /\ FirstHit(rx[t], trusted) # {}
     /\ \A u \in tokens : u < t => FirstHit(rx[u], trusted) = {}}

Received(tokens, rx, trusted) ==
  IF FirstSource(tokens, rx, trusted) = {} THEN Nothing
  ELSE LET t == Only(FirstSource(tokens, rx, trusted))
       IN  rx[t][Only(FirstHit(rx[t], trusted))]

Visited(tokens, rx, trusted) ==
  {t \in tokens : \A u \in FirstSource(tokens, rx, trusted) : t <= u}

RxAfter(tokens, rx, trusted) ==
  [t \in DOMAIN rx |->
     IF t \in Visited(tokens, rx, trusted)
       THEN SubSeq(rx[t], Taken(rx[t], trusted) + 1, Len(rx[t]))
       ELSE rx[t]]
=============================================================================
