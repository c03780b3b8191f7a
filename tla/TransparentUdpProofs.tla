------------------------ MODULE TransparentUdpProofs ------------------------
(***************************************************************************)
(* Theorems about TransparentUdp for every set of clients, endpoints and   *)
(* targets, every plan, every limit and every token space.                 *)
(*                                                                         *)
(* Readiness reaches the right client because of four facts that only hold *)
(* together: a token belongs to one route, token_clients leads only to     *)
(* live owners, every route a datagram has left by is in token_clients,    *)
(* and what the allocator has yet to hand out is owned by nobody.          *)
(*                                                                         *)
(* The limits are kept step by step: each table grows by one element at a  *)
(* time, right after the check of its limit, and the cache of reply        *)
(* sockets evicts before it binds.                                         *)
(***************************************************************************)
EXTENDS TransparentUdp, FiniteSetTheorems, SequenceTheorems, TLAPS

\* The tables an iteration works on: the clients, their routes, what they have
\* reached, the allocator and token_clients.
TablesOf(cl, rt, pr, nx, tc) ==
  /\ cl \subseteq Client
  /\ rt \in [Client -> [Endpoint -> SUBSET Token]]
  /\ pr \in [Client -> [Endpoint -> SUBSET Target]]
  /\ nx \in Token
  /\ tc \in [Token -> Client \cup {NoClient}]

OwnersLive(cl, rt, tc) ==
  \A t \in Token : tc[t] # NoClient => tc[t] \in cl /\ \E e \in Endpoint : t \in rt[tc[t]][e]

NotShared(rt) ==
  \A c, d \in Client, e, f \in Endpoint : c # d \/ e # f => rt[c][e] \cap rt[d][f] = {}

Dispatched(cl, rt, pr, tc) ==
  \A c \in Client, e \in Endpoint : pr[c][e] # {} =>
    /\ c \in cl
    /\ rt[c][e] # {}
    /\ \A t \in rt[c][e] : tc[t] = c

\* What the allocator will hand out is owned by no route.
Fresh(rt, nx) == \A c \in Client, e \in Endpoint : \A t \in rt[c][e] : t < nx

\* A client outside the table has no route and has reached nobody.
OnlyClients(cl, rt, pr) ==
  \A c \in Client : c \notin cl => rt[c] = NoRoutes /\ pr[c] = NoPeers

DispatchOf(cl, rt, pr, nx, tc) ==
  /\ OwnersLive(cl, rt, tc)
  /\ NotShared(rt)
  /\ Dispatched(cl, rt, pr, tc)
  /\ Fresh(rt, nx)
  /\ OnlyClients(cl, rt, pr)

TablesOK == TablesOf(clients, routes, peers, next, token_clients)
Dispatch == DispatchOf(clients, routes, peers, next, token_clients)

IInv == TypeOK /\ Dispatch /\ ServedClientsAreLive

----------------------------------------------------------------------------
(* The operators of DatagramRoutes.                                         *)

\* send_with changes the table at one endpoint only, where it may put a
\* fresh, non-empty range of tokens; the allocator never runs backwards.
LEMMA SendWithFacts ==
  ASSUME NEW table \in [Endpoint -> SUBSET Token], NEW n \in Token,
         NEW e \in Endpoint, NEW o \in Outcome
  PROVE  /\ RoutesAfter(table, n, e, o) \in [Endpoint -> SUBSET Token]
         /\ NextAfter(table, n, e, o) \in Token
         /\ n <= NextAfter(table, n, e, o)
         /\ \A f \in Endpoint :
              \/ RoutesAfter(table, n, e, o)[f] = table[f]
              \/ /\ f = e
                 /\ table[f] = {}
                 /\ RoutesAfter(table, n, e, o)[f] = n..(NextAfter(table, n, e, o) - 1)
<1>1. CASE TakesTokens(table, n, e, o)
  <2>1. Sources[e] \in Nat /\ n + Sources[e] <= MaxUsize /\ table[e] = {}
    BY <1>1, RouteAssumption DEF TakesTokens, CanAllocate
  <2>2. Allocated(n, Sources[e]) \in SUBSET Token
    BY <2>1, RouteAssumption DEF Allocated, Token
  <2>3. NextAfter(table, n, e, o) = n + Sources[e]
    BY <1>1 DEF NextAfter
  <2>4. NextAfter(table, n, e, o) \in Token /\ n <= NextAfter(table, n, e, o)
    BY <2>1, <2>3, RouteAssumption DEF Token
  <2>5. \/ RoutesAfter(table, n, e, o) = table
        \/ RoutesAfter(table, n, e, o) = [table EXCEPT ![e] = Allocated(n, Sources[e])]
    BY DEF RoutesAfter
  <2>6. Allocated(n, Sources[e]) = n..(NextAfter(table, n, e, o) - 1)
    BY <2>1, <2>3, RouteAssumption DEF Allocated, Token
  <2>7. RoutesAfter(table, n, e, o) \in [Endpoint -> SUBSET Token]
    BY <2>2, <2>5
  <2>8. \A f \in Endpoint :
          \/ RoutesAfter(table, n, e, o)[f] = table[f]
          \/ f = e /\ RoutesAfter(table, n, e, o)[f] = Allocated(n, Sources[e])
    BY <2>5
  <2> QED
    BY <2>1, <2>4, <2>6, <2>7, <2>8
<1>2. CASE ~TakesTokens(table, n, e, o)
  BY <1>2, RouteAssumption DEF RoutesAfter, NextAfter, Token
<1> QED
  BY <1>1, <1>2

\* receive_from_socket takes no more than what is queued.
LEMMA TakenType ==
  ASSUME NEW S, NEW q \in Seq(S), NEW trusted
  PROVE  Taken(q, trusted) \in 0..Len(q)
<1>1. CASE FirstHit(q, trusted) # {}
  <2>1. Only(FirstHit(q, trusted)) \in FirstHit(q, trusted)
    BY <1>1 DEF Only
  <2>2. FirstHit(q, trusted) \subseteq 1..Len(q)
    BY DEF FirstHit
  <2> QED
    BY <1>1, <2>1, <2>2, LenProperties DEF Taken
<1>2. CASE FirstHit(q, trusted) = {}
  BY <1>2, LenProperties, RouteAssumption DEF Taken
<1> QED
  BY <1>1, <1>2

\* receive_ready leaves a suffix of every queue it visits.
LEMMA RxAfterType ==
  ASSUME NEW S, NEW q \in [Token -> Seq(S)], NEW tokens, NEW trusted
  PROVE  RxAfter(tokens, q, trusted) \in [Token -> Seq(S)]
<1>1. ASSUME NEW t \in Token
      PROVE  SubSeq(q[t], Taken(q[t], trusted) + 1, Len(q[t])) \in Seq(S)
  <2>1. q[t] \in Seq(S) /\ Len(q[t]) \in Nat /\ Taken(q[t], trusted) \in 0..Len(q[t])
    BY TakenType, LenProperties
  <2>2. \A i \in (Taken(q[t], trusted) + 1)..Len(q[t]) : q[t][i] \in S
    BY <2>1, ElementOfSeq
  <2> QED
    BY <2>1, <2>2, SubSeqProperties
<1> QED
  BY <1>1 DEF RxAfter

\* A token is owned by a route table exactly when some route of it holds it.
LEMMA OwnedTokens ==
  ASSUME NEW table, NEW t
  PROVE  t \in owned_tokens(table) <=> \E e \in Endpoint : t \in table[e]
BY DEF owned_tokens

\* The tokens of a set of clients are those that one of them owns.
LEMMA OwnedByMember ==
  ASSUME NEW S, NEW t
  PROVE  t \in OwnedBy(S) <=> \E c \in S, e \in Endpoint : t \in routes[c][e]
BY OwnedTokens DEF OwnedBy

----------------------------------------------------------------------------
(* Dropping clients, by a clean-up or with the failed send of a new one.    *)

\* cleanup_idle_clients removes a client together with its routes, its peers
\* and its tokens, so what remains is dispatched as before.
LEMMA DropKeepsDispatch ==
  ASSUME TablesOK, Dispatch, NEW S \in SUBSET clients, NEW nx \in Token, next <= nx
  PROVE  /\ TablesOf(clients \ S, RoutesWithout(S), PeersWithout(S), nx, OwnersWithout(S))
         /\ DispatchOf(clients \ S, RoutesWithout(S), PeersWithout(S), nx, OwnersWithout(S))
<1> DEFINE rt == RoutesWithout(S)
           pr == PeersWithout(S)
           tc == OwnersWithout(S)
<1> USE DEF TablesOK, TablesOf
<1>1. \A c \in Client, e \in Endpoint :
        /\ rt[c][e] = IF c \in S THEN {} ELSE routes[c][e]
        /\ pr[c][e] = IF c \in S THEN {} ELSE peers[c][e]
  BY DEF RoutesWithout, PeersWithout, NoRoutes, NoPeers
<1>2. \A t \in Token : tc[t] = IF t \in OwnedBy(S) THEN NoClient ELSE token_clients[t]
  BY DEF OwnersWithout
<1>3. TablesOf(clients \ S, rt, pr, nx, tc)
  BY DEF RoutesWithout, PeersWithout, OwnersWithout, NoRoutes, NoPeers
<1>4. \A c \in Client : c \notin clients \ S => rt[c] = NoRoutes /\ pr[c] = NoPeers
  BY DEF Dispatch, DispatchOf, OnlyClients, RoutesWithout, PeersWithout
<1> HIDE DEF rt, pr, tc
<1>5. OwnersLive(clients \ S, rt, tc)
  <2> SUFFICES ASSUME NEW t \in Token, tc[t] # NoClient
               PROVE  tc[t] \in clients \ S /\ \E e \in Endpoint : t \in rt[tc[t]][e]
    BY DEF OwnersLive
  <2>1. t \notin OwnedBy(S) /\ tc[t] = token_clients[t]
    BY <1>2
  <2>2. PICK e \in Endpoint : token_clients[t] \in clients /\ t \in routes[token_clients[t]][e]
    BY <2>1 DEF Dispatch, DispatchOf, OwnersLive
  <2>3. token_clients[t] \notin S /\ token_clients[t] \in Client
    BY <2>1, <2>2, OwnedByMember
  <2> QED
    BY <1>1, <2>1, <2>2, <2>3
<1>6. NotShared(rt)
  BY <1>1 DEF Dispatch, DispatchOf, NotShared
<1>7. Dispatched(clients \ S, rt, pr, tc)
  <2> SUFFICES ASSUME NEW c \in Client, NEW e \in Endpoint, pr[c][e] # {}
               PROVE  /\ c \in clients \ S /\ rt[c][e] # {}
                      /\ \A t \in rt[c][e] : tc[t] = c
    BY DEF Dispatched
  <2>1. c \notin S /\ peers[c][e] # {}
    BY <1>1
  <2>2. c \in clients /\ routes[c][e] # {} /\ rt[c][e] = routes[c][e]
    BY <1>1, <2>1 DEF Dispatch, DispatchOf, Dispatched
  <2>3. ASSUME NEW t \in routes[c][e]
        PROVE  t \in Token /\ t \notin OwnedBy(S) /\ token_clients[t] = c
    <3>1. t \in Token /\ token_clients[t] = c
      BY <2>1 DEF Dispatch, DispatchOf, Dispatched
    <3>2. \A d \in S, f \in Endpoint : d \in Client /\ t \notin routes[d][f]
      BY <2>1 DEF Dispatch, DispatchOf, NotShared
    <3> QED
      BY <3>1, <3>2, OwnedByMember
  <2> QED
    BY <1>2, <2>1, <2>2, <2>3
<1>8. Fresh(rt, nx)
  <2>1. Fresh(routes, next) /\ routes \in [Client -> [Endpoint -> SUBSET Token]]
    BY DEF Dispatch, DispatchOf
  <2>2. Token \subseteq Int /\ next \in Token /\ nx \in Token
    BY RouteAssumption DEF Token
  <2> SUFFICES ASSUME NEW c \in Client, NEW e \in Endpoint, NEW k \in rt[c][e]
               PROVE  k < nx
    BY DEF Fresh
  <2>3. k \in routes[c][e]
    BY <1>1
  <2>4. k \in Token /\ k < next
    BY <2>1, <2>3 DEF Fresh
  <2> QED
    BY <2>2, <2>4
<1> QED
  BY <1>3, <1>4, <1>5, <1>6, <1>7, <1>8 DEF DispatchOf, OnlyClients, rt, pr, tc

----------------------------------------------------------------------------
(* Sending for a client: its table may gain one route of fresh tokens.      *)

SentRoutes(rt, nx, c, e, o) == [rt EXCEPT ![c] = RoutesAfter(rt[c], nx, e, o)]
SentPeers(pr, c, e, t) == [pr EXCEPT ![c][e] = pr[c][e] \cup {t}]
SentOwners(rt, nx, tc, c, e, o) ==
  [k \in Token |-> IF k \in owned_tokens(RoutesAfter(rt[c], nx, e, o)) THEN c ELSE tc[k]]

\* send_with leaves tables of the right types.
LEMMA SendKeepsTables ==
  ASSUME NEW cl, NEW rt, NEW pr, NEW nx, NEW tc, TablesOf(cl, rt, pr, nx, tc),
         NEW c \in Client, NEW e \in Endpoint, NEW o \in Outcome, NEW t \in Target
  PROVE  /\ TablesOf(cl \cup {c}, SentRoutes(rt, nx, c, e, o), SentPeers(pr, c, e, t),
                     NextAfter(rt[c], nx, e, o), SentOwners(rt, nx, tc, c, e, o))
         /\ TablesOf(cl, SentRoutes(rt, nx, c, e, o), pr, NextAfter(rt[c], nx, e, o), tc)
<1>1. rt[c] \in [Endpoint -> SUBSET Token] /\ nx \in Token
  BY DEF TablesOf
<1>2. /\ RoutesAfter(rt[c], nx, e, o) \in [Endpoint -> SUBSET Token]
      /\ NextAfter(rt[c], nx, e, o) \in Token
  BY <1>1, SendWithFacts
<1> QED
  BY <1>2 DEF TablesOf, SentRoutes, SentPeers, SentOwners

\* The routes after a send: every other route is as it was, and the route of
\* (c, e) is too, or is a fresh range of tokens where there was none.
LEMMA SendRoutes ==
  ASSUME NEW cl, NEW rt, NEW pr, NEW nx, NEW tc, TablesOf(cl, rt, pr, nx, tc),
         DispatchOf(cl, rt, pr, nx, tc),
         NEW c \in Client, NEW e \in Endpoint, NEW o \in Outcome
  PROVE  LET m  == NextAfter(rt[c], nx, e, o)
             r2 == SentRoutes(rt, nx, c, e, o)
         IN  /\ NotShared(r2)
             /\ Fresh(r2, m)
             /\ \A d \in Client, f \in Endpoint :
                  \/ r2[d][f] = rt[d][f]
                  \/ d = c /\ f = e /\ rt[d][f] = {} /\ \A k \in r2[d][f] : nx <= k
<1> DEFINE m  == NextAfter(rt[c], nx, e, o)
           T  == RoutesAfter(rt[c], nx, e, o)
           r2 == SentRoutes(rt, nx, c, e, o)
<1>1. rt[c] \in [Endpoint -> SUBSET Token] /\ nx \in Token /\ rt \in [Client -> [Endpoint -> SUBSET Token]]
  BY DEF TablesOf
<1>2. /\ T \in [Endpoint -> SUBSET Token] /\ m \in Token /\ nx <= m
      /\ \A f \in Endpoint : \/ T[f] = rt[c][f]
                             \/ f = e /\ rt[c][f] = {} /\ T[f] = nx..(m - 1)
  BY <1>1, SendWithFacts
<1>3. \A d \in Client, f \in Endpoint : r2[d][f] = IF d = c THEN T[f] ELSE rt[d][f]
  BY <1>1 DEF SentRoutes
<1> HIDE DEF m, T, r2
<1>4. \A d \in Client, f \in Endpoint :
        \/ r2[d][f] = rt[d][f]
        \/ d = c /\ f = e /\ rt[d][f] = {} /\ r2[d][f] = nx..(m - 1)
  BY <1>2, <1>3
<1>5. \A d \in Client, f \in Endpoint : \A k \in rt[d][f] : k \in Token /\ k < nx
  BY <1>1 DEF DispatchOf, Fresh
<1>6. nx \in Int /\ m \in Int /\ Token \subseteq Int
  BY <1>1, <1>2, RouteAssumption DEF Token
<1>7. Fresh(r2, m)
  <2> SUFFICES ASSUME NEW d \in Client, NEW f \in Endpoint, NEW k \in r2[d][f]
               PROVE  k < m
    BY DEF Fresh
  <2>1. CASE r2[d][f] = rt[d][f]
    <3>1. k \in Token /\ k < nx
      BY <1>5, <2>1
    <3>2. k \in Int /\ nx <= m
      BY Zenon, <1>2, <1>6, <3>1
    <3> QED
      BY <1>6, <3>1, <3>2
  <2>2. CASE r2[d][f] = nx..(m - 1)
    BY <1>6, <2>2
  <2> QED
    BY <1>4, <2>1, <2>2
<1>8. NotShared(r2)
  <2> SUFFICES ASSUME NEW d1 \in Client, NEW d2 \in Client, NEW f1 \in Endpoint, NEW f2 \in Endpoint,
                      d1 # d2 \/ f1 # f2, NEW k \in r2[d1][f1], k \in r2[d2][f2]
               PROVE  FALSE
    BY DEF NotShared
  <2>1. CASE r2[d1][f1] = rt[d1][f1] /\ r2[d2][f2] = rt[d2][f2]
    BY <2>1 DEF DispatchOf, NotShared
  <2>2. CASE r2[d1][f1] # rt[d1][f1]
    BY <1>4, <1>5, <1>6, <2>2
  <2>3. CASE r2[d2][f2] # rt[d2][f2]
    BY <1>4, <1>5, <1>6, <2>3
  <2> QED
    BY <2>1, <2>2, <2>3
<1>9. \A d \in Client, f \in Endpoint :
        \/ r2[d][f] = rt[d][f]
        \/ d = c /\ f = e /\ rt[d][f] = {} /\ \A k \in r2[d][f] : nx <= k
  BY <1>4, <1>6
<1> QED
  BY <1>7, <1>8, <1>9 DEF m, T, r2

\* A send that succeeds puts all the client's tokens into token_clients.
LEMMA SuccessKeepsDispatch ==
  ASSUME NEW cl, NEW rt, NEW pr, NEW nx, NEW tc, TablesOf(cl, rt, pr, nx, tc),
         DispatchOf(cl, rt, pr, nx, tc),
         NEW c \in Client, NEW e \in Endpoint, NEW o \in Outcome, NEW t \in Target,
         RoutesAfter(rt[c], nx, e, o)[e] # {}
  PROVE  DispatchOf(cl \cup {c}, SentRoutes(rt, nx, c, e, o), SentPeers(pr, c, e, t),
                    NextAfter(rt[c], nx, e, o), SentOwners(rt, nx, tc, c, e, o))
<1> DEFINE T  == RoutesAfter(rt[c], nx, e, o)
           m  == NextAfter(rt[c], nx, e, o)
           r2 == SentRoutes(rt, nx, c, e, o)
           p2 == SentPeers(pr, c, e, t)
           t2 == SentOwners(rt, nx, tc, c, e, o)
           c2 == cl \cup {c}
<1>1. /\ NotShared(r2) /\ Fresh(r2, m)
      /\ \A d \in Client, f \in Endpoint : r2[d][f] = rt[d][f] \/ rt[d][f] = {}
      /\ \A d \in Client, f \in Endpoint : d # c => r2[d][f] = rt[d][f]
  BY SMTT(20), SendRoutes
<1>2. r2 \in [Client -> [Endpoint -> SUBSET Token]]
  <2>1. T \in [Endpoint -> SUBSET Token]
    BY SendWithFacts DEF TablesOf
  <2> QED
    BY <2>1 DEF TablesOf, SentRoutes
<1>3. r2[c] = T /\ T[e] # {} /\ \A d \in Client : d # c => r2[d] = rt[d] /\ p2[d] = pr[d]
  BY DEF TablesOf, SentRoutes, SentPeers
<1>4. \A f \in Endpoint : f # e => p2[c][f] = pr[c][f]
  BY DEF TablesOf, SentPeers
<1>5. \A k \in Token : t2[k] = IF \E f \in Endpoint : k \in r2[c][f] THEN c ELSE tc[k]
  BY <1>3, OwnedTokens DEF SentOwners
<1>6. TablesOf(cl, rt, pr, nx, tc) /\ DispatchOf(cl, rt, pr, nx, tc)
  OBVIOUS
<1> HIDE DEF T, m, r2, p2, t2
<1>7. OwnersLive(c2, r2, t2)
  <2> SUFFICES ASSUME NEW k \in Token, t2[k] # NoClient
               PROVE  t2[k] \in c2 /\ \E f \in Endpoint : k \in r2[t2[k]][f]
    BY DEF OwnersLive
  <2>1. CASE \E f \in Endpoint : k \in r2[c][f]
    BY <1>5, <2>1
  <2>2. CASE ~\E f \in Endpoint : k \in r2[c][f]
    <3>1. t2[k] = tc[k]
      BY <1>5, <2>2
    <3>2. PICK f \in Endpoint : tc[k] \in cl /\ k \in rt[tc[k]][f]
      BY <1>6, <3>1 DEF DispatchOf, OwnersLive
    <3>3. tc[k] \in Client
      BY <1>6, <3>2 DEF TablesOf
    <3> QED
      BY SMTT(20), <1>1, <3>1, <3>2, <3>3
  <2> QED
    BY <2>1, <2>2
<1>8. Dispatched(c2, r2, p2, t2)
  <2> SUFFICES ASSUME NEW d \in Client, NEW f \in Endpoint, p2[d][f] # {}
               PROVE  d \in c2 /\ r2[d][f] # {} /\ \A k \in r2[d][f] : t2[k] = d
    BY DEF Dispatched
  <2>1. CASE d = c
    <3>1. r2[c][f] # {}
      BY SMTT(20), <1>1, <1>3, <1>4, <1>6, <2>1 DEF DispatchOf, Dispatched
    <3>2. \A k \in r2[c][f] : k \in Token /\ t2[k] = c
      BY <1>2, <1>5
    <3> QED
      BY <2>1, <3>1, <3>2
  <2>2. CASE d # c
    <3>1. pr[d][f] # {} /\ r2[d][f] = rt[d][f]
      BY <1>1, <1>3, <2>2
    <3>2. d \in cl /\ rt[d][f] # {} /\ \A k \in rt[d][f] : tc[k] = d
      BY <1>6, <3>1 DEF DispatchOf, Dispatched
    <3>3. \A k \in r2[d][f] : k \in Token /\ ~\E g \in Endpoint : k \in r2[c][g]
      <4>1. r2[d][f] \subseteq Token
        BY <1>2
      <4>2. ASSUME NEW g \in Endpoint PROVE r2[d][f] \cap r2[c][g] = {}
        BY <1>1, <2>2 DEF NotShared
      <4> QED
        BY <4>1, <4>2
    <3> QED
      BY <1>5, <3>1, <3>2, <3>3
  <2> QED
    BY <2>1, <2>2
<1>9. OnlyClients(c2, r2, p2)
  BY <1>3, <1>6 DEF DispatchOf, OnlyClients
<1> QED
  BY <1>1, <1>7, <1>8, <1>9 DEF DispatchOf, T, m, r2, p2, t2

\* A send that fails may leave a route whose tokens are not in token_clients.
LEMMA FailureKeepsDispatch ==
  ASSUME NEW cl, NEW rt, NEW pr, NEW nx, NEW tc, TablesOf(cl, rt, pr, nx, tc),
         DispatchOf(cl, rt, pr, nx, tc),
         NEW c \in cl, NEW e \in Endpoint, NEW o \in Outcome
  PROVE  DispatchOf(cl, SentRoutes(rt, nx, c, e, o), pr,
                    NextAfter(rt[c], nx, e, o), tc)
<1> DEFINE m  == NextAfter(rt[c], nx, e, o)
           r2 == SentRoutes(rt, nx, c, e, o)
<1>1. c \in Client
  BY DEF TablesOf
<1>2. /\ NotShared(r2) /\ Fresh(r2, m)
      /\ \A d \in Client, f \in Endpoint : r2[d][f] = rt[d][f] \/ rt[d][f] = {}
  BY SMTT(20), <1>1, SendRoutes
<1>3. \A d \in Client : d # c => r2[d] = rt[d]
  BY DEF TablesOf, SentRoutes
<1>4. TablesOf(cl, rt, pr, nx, tc) /\ DispatchOf(cl, rt, pr, nx, tc)
  OBVIOUS
<1> HIDE DEF m, r2
<1>5. OwnersLive(cl, r2, tc)
  BY <1>2, <1>4 DEF DispatchOf, OwnersLive, TablesOf
<1>6. Dispatched(cl, r2, pr, tc)
  BY <1>2, <1>4 DEF DispatchOf, Dispatched
<1>7. OnlyClients(cl, r2, pr)
  BY <1>3, <1>4 DEF DispatchOf, OnlyClients
<1> QED
  BY <1>2, <1>5, <1>6, <1>7 DEF DispatchOf, m, r2

----------------------------------------------------------------------------
(* The actions: first the tables, then the rest of the state.               *)

tables == <<clients, routes, peers, next, token_clients>>

\* A step that leaves the client tables alone keeps what is known of them.
LEMMA StutterKeepsTables ==
  ASSUME TablesOK, Dispatch, UNCHANGED tables
  PROVE  TablesOK' /\ Dispatch'
BY DEF TablesOK, Dispatch, tables, TablesOf, DispatchOf, OwnersLive, NotShared,
       Dispatched, Fresh, OnlyClients

\* The type invariant covers the client tables.
LEMMA TypeTables == TypeOK => TablesOK
BY DEF TypeOK, TablesOK, TablesOf

\* The clean-up after poll keeps the tables.
LEMMA WakeKeepsTables ==
  ASSUME TablesOK, Dispatch, Wake
  PROVE  TablesOK' /\ Dispatch'
<1>1. Expired \in SUBSET clients
  BY DEF Expired
<1>2. next \in Token /\ next <= next
  BY RouteAssumption DEF TablesOK, TablesOf, Token
<1>3. /\ clients' = clients \ Expired /\ routes' = RoutesWithout(Expired)
      /\ peers' = PeersWithout(Expired) /\ token_clients' = OwnersWithout(Expired)
      /\ next' = next
  BY DEF Wake
<1>4. /\ TablesOf(clients \ Expired, RoutesWithout(Expired), PeersWithout(Expired), next, OwnersWithout(Expired))
      /\ DispatchOf(clients \ Expired, RoutesWithout(Expired), PeersWithout(Expired), next, OwnersWithout(Expired))
  BY <1>1, <1>2, DropKeepsDispatch
<1>5. /\ TablesOf(clients', routes', peers', next', token_clients')
      /\ DispatchOf(clients', routes', peers', next', token_clients')
  BY <1>3, <1>4
<1> QED
  BY <1>5 DEF TablesOK, Dispatch, TablesOf, DispatchOf, OwnersLive, NotShared,
       Dispatched, Fresh, OnlyClients

\* To show TablesOK' and Dispatch' it is enough to name the new tables.
LEMMA NewTables ==
  ASSUME NEW cl, NEW rt, NEW pr, NEW nx, NEW tc,
         TablesOf(cl, rt, pr, nx, tc), DispatchOf(cl, rt, pr, nx, tc),
         clients' = cl, routes' = rt, peers' = pr, next' = nx, token_clients' = tc
  PROVE  TablesOK' /\ Dispatch'
BY DEF TablesOK, Dispatch, TablesOf, DispatchOf, OwnersLive, NotShared,
       Dispatched, Fresh, OnlyClients

\* handle_inbound for a client of the table keeps the tables.
LEMMA KnownClientKeepsTables ==
  ASSUME TablesOK, Dispatch, NEW c \in clients, NEW t \in Target, NEW o \in Outcome,
         Plan[t] \in Endpoint, KnownClientDatagram(c, t, o)
  PROVE  TablesOK' /\ Dispatch'
<1> DEFINE e  == Plan[t]
           T  == RoutesAfter(routes[c], next, e, o)
           ok == SendSucceeds(routes[c], next, e, o) /\ PeerAdmitted(peers[c][e], e, t)
           m  == NextAfter(routes[c], next, e, o)
           r2 == SentRoutes(routes, next, c, e, o)
           p2 == SentPeers(peers, c, e, t)
           t2 == SentOwners(routes, next, token_clients, c, e, o)
<1>1. /\ TablesOf(clients, routes, peers, next, token_clients)
      /\ DispatchOf(clients, routes, peers, next, token_clients)
      /\ c \in Client
  BY DEF TablesOK, Dispatch, TablesOf
<1>2. /\ routes' = r2 /\ next' = m /\ clients' = clients
      /\ peers' = IF ok THEN p2 ELSE peers
      /\ token_clients' = [k \in Token |-> IF ok /\ k \in owned_tokens(T) THEN c ELSE token_clients[k]]
  BY DEF KnownClientDatagram, SentRoutes, SentPeers
<1>3. CASE ok
  <2>1. T[e] # {}
    BY <1>3 DEF SendSucceeds
  <2>2. peers' = p2 /\ token_clients' = t2 /\ clients' = clients \cup {c}
    BY Zenon, <1>2, <1>3 DEF SentOwners
  <2>3. TablesOf(clients \cup {c}, r2, p2, m, t2)
    BY <1>1, SendKeepsTables
  <2>4. DispatchOf(clients \cup {c}, r2, p2, m, t2)
    BY Zenon, <1>1, <2>1, SuccessKeepsDispatch
  <2> HIDE DEF r2, p2, m, t2, ok
  <2> QED
    BY Zenon, <1>2, <2>2, <2>3, <2>4, NewTables
<1>4. CASE ~ok
  <2>1. peers' = peers /\ token_clients' = token_clients
    BY <1>1, <1>2, <1>4 DEF TablesOf
  <2>2. TablesOf(clients, r2, peers, m, token_clients)
    BY Zenon, <1>1, SendKeepsTables
  <2>3. DispatchOf(clients, r2, peers, m, token_clients)
    BY Zenon, <1>1, FailureKeepsDispatch
  <2> HIDE DEF r2, m, ok
  <2> QED
    BY <1>2, <2>1, <2>2, <2>3, NewTables
<1> QED
  BY <1>3, <1>4

\* handle_inbound for a new client, undone or not, keeps the tables.
LEMMA NewClientKeepsTables ==
  ASSUME TablesOK, Dispatch, NEW c \in Client, c \notin clients, NEW t \in Target,
         NEW o \in Outcome, Plan[t] \in Endpoint, NewClientDatagram(c, t, o)
  PROVE  TablesOK' /\ Dispatch'
<1> DEFINE e    == Plan[t]
           kept == clients \ Expired
           rt   == RoutesWithout(Expired)
           pr   == PeersWithout(Expired)
           tc   == OwnersWithout(Expired)
           T    == RoutesAfter(NoRoutes, next, e, o)
           m    == NextAfter(NoRoutes, next, e, o)
           room == Cardinality(kept) < MaxClients
           done == room /\ SendSucceeds(NoRoutes, next, e, o)
           r2   == SentRoutes(rt, next, c, e, o)
           p2   == SentPeers(pr, c, e, t)
           t2   == SentOwners(rt, next, tc, c, e, o)
<1>1. Expired \in SUBSET clients /\ next \in Token /\ next <= next
  BY RouteAssumption DEF Expired, TablesOK, TablesOf, Token
<1>2. TablesOf(kept, rt, pr, next, tc) /\ DispatchOf(kept, rt, pr, next, tc)
  BY <1>1, DropKeepsDispatch
<1>3. rt[c] = NoRoutes /\ pr[c] = NoPeers
  BY <1>1 DEF RoutesWithout, PeersWithout, Dispatch, DispatchOf, OnlyClients
<1>4. NoRoutes \in [Endpoint -> SUBSET Token]
  BY DEF NoRoutes
<1>5. m \in Token /\ next <= m
  BY <1>1, <1>4, SendWithFacts
<1>6. /\ clients' = IF done THEN kept \cup {c} ELSE kept
      /\ routes' = IF done THEN r2 ELSE rt
      /\ peers' = IF done THEN [pr EXCEPT ![c] = [NoPeers EXCEPT ![e] = {t}]] ELSE pr
      /\ token_clients' = [k \in Token |-> IF done /\ k \in owned_tokens(T) THEN c ELSE tc[k]]
      /\ next' = IF room THEN m ELSE next
  BY <1>3 DEF NewClientDatagram, SentRoutes
<1>7. CASE done
  <2>1. T[e] # {}
    BY Zenon, <1>7 DEF SendSucceeds
  <2>2. [pr EXCEPT ![c] = [NoPeers EXCEPT ![e] = {t}]] = p2
    BY Zenon, <1>2, <1>3 DEF TablesOf, NoPeers, SentPeers
  <2>3. clients' = kept \cup {c} /\ routes' = r2 /\ peers' = p2 /\ next' = m /\ token_clients' = t2
    BY Zenon, <1>3, <1>6, <1>7, <2>2 DEF SentOwners
  <2>4. TablesOf(kept \cup {c}, r2, p2, m, t2)
    BY Zenon, <1>2, <1>3, SendKeepsTables
  <2>5. DispatchOf(kept \cup {c}, r2, p2, m, t2)
    BY Zenon, <1>2, <1>3, <2>1, SuccessKeepsDispatch
  <2> HIDE DEF kept, r2, p2, m, t2
  <2> QED
    BY <2>3, <2>4, <2>5, NewTables
<1>8. CASE ~done
  <2>1. tc \in [Token -> Client \cup {NoClient}]
    BY <1>2 DEF TablesOf
  <2>2. /\ clients' = kept /\ routes' = rt /\ peers' = pr /\ token_clients' = tc
        /\ next' \in Token /\ next <= next'
    BY <1>1, <1>5, <1>6, <1>8, <2>1
  <2>3. TablesOf(kept, rt, pr, next', tc) /\ DispatchOf(kept, rt, pr, next', tc)
    BY <1>1, <2>2, DropKeepsDispatch
  <2> HIDE DEF kept, rt, pr, tc
  <2> QED
    BY <2>2, <2>3, NewTables
<1> QED
  BY <1>7, <1>8

\* What recv_original_datagram returns is a client and a target.
LEMMA InboundDatagram ==
  ASSUME TypeOK, InBurst, Head(inbox) # Fault
  PROVE  Head(inbox)[1] \in Client /\ Head(inbox)[2] \in Target
<1>1. Head(inbox) \in Inbound
  BY HeadTailProperties DEF TypeOK, InBurst
<1> QED
  BY <1>1 DEF Inbound

\* handle_inbound keeps the tables.
LEMMA InboundKeepsTables ==
  ASSUME TypeOK, Dispatch, HandleInbound
  PROVE  TablesOK' /\ Dispatch'
<1> DEFINE c == Head(inbox)[1]
           t == Head(inbox)[2]
<1>1. c \in Client /\ t \in Target
  BY InboundDatagram DEF HandleInbound
<1>2. TablesOK
  BY TypeTables
<1>3. CASE ~Handled(Plan[t])
  BY <1>2, <1>3, StutterKeepsTables DEF HandleInbound, tableVars, tables
<1>4. CASE Handled(Plan[t])
  <2>1. Plan[t] \in Endpoint
    BY <1>1, <1>4, ListenerAssumption DEF Handled
  <2>2. PICK o \in Outcome : IF c \in clients THEN KnownClientDatagram(c, t, o)
                                              ELSE NewClientDatagram(c, t, o)
    BY <1>4 DEF HandleInbound
  <2> QED
    BY <1>1, <1>2, <2>1, <2>2, KnownClientKeepsTables, NewClientKeepsTables
<1> QED
  BY Zenon, <1>3, <1>4

\* Dropping everything with the listener keeps the tables.
LEMMA FailKeepsTables ==
  ASSUME TablesOK, Fail
  PROVE  TablesOK' /\ Dispatch'
<1>1. /\ clients' = {} /\ routes' = [c \in Client |-> NoRoutes]
      /\ peers' = [c \in Client |-> NoPeers]
      /\ next' = next /\ token_clients' = [t \in Token |-> NoClient]
  BY DEF Fail, RoutesWithout, PeersWithout
<1>2. TablesOf({}, [c \in Client |-> NoRoutes], [c \in Client |-> NoPeers], next,
               [t \in Token |-> NoClient])
  BY DEF TablesOK, TablesOf, NoRoutes, NoPeers
<1>3. DispatchOf({}, [c \in Client |-> NoRoutes], [c \in Client |-> NoPeers], next,
                 [t \in Token |-> NoClient])
  BY DEF DispatchOf, OwnersLive, NotShared, Dispatched, Fresh, OnlyClients, NoRoutes, NoPeers
<1> QED
  BY <1>1, <1>2, <1>3, NewTables

\* Only Wake, HandleInbound and the two failures touch the tables: EndBurst
\* finds the client of the pair it serves, so it removes no token.
LEMMA StepKeepsTables ==
  ASSUME IInv, [Next]_vars
  PROVE  TablesOK' /\ Dispatch'
<1> USE TypeTables DEF IInv
<1>1. CASE Wake
  BY <1>1, WakeKeepsTables
<1>2. CASE HandleInbound
  BY <1>2, InboundKeepsTables
<1>3. CASE PollFails \/ InboundFails \/ RouteFails
  BY <1>3, FailKeepsTables DEF PollFails, InboundFails, RouteFails
<1>4. CASE EndBurst
  BY <1>4, StutterKeepsTables DEF EndBurst, tables, Serving, ServedClientsAreLive
<1>5. CASE Collect \/ NextPair \/ EndIteration \/ Reply
  BY <1>5, StutterKeepsTables DEF Collect, NextPair, EndIteration, Reply, tableVars, tables
<1>6. CASE ClientSends \/ PeerSends \/ Tick
  BY <1>6, StutterKeepsTables DEF ClientSends, PeerSends, Tick, tableVars, tables
<1>7. CASE UNCHANGED vars
  BY <1>7, StutterKeepsTables DEF vars, tableVars, tables
<1> QED
  BY <1>1, <1>2, <1>3, <1>4, <1>5, <1>6, <1>7 DEF Next, Loop

----------------------------------------------------------------------------

\* Nothing between Collect and the end of the iteration removes a client, so
\* the pairs of outbound_ready stay valid.
LEMMA StepKeepsServed ==
  ASSUME IInv, [Next]_vars
  PROVE  ServedClientsAreLive'
<1> USE DEF IInv, ServedClientsAreLive
<1>1. CASE Wake
  BY Zenon, <1>1 DEF Wake
<1>2. CASE HandleInbound
  BY Zenon, <1>2 DEF HandleInbound, InBurst
<1>3. CASE PollFails \/ InboundFails \/ RouteFails
  BY <1>3 DEF PollFails, InboundFails, RouteFails, Fail
<1>4. CASE EndBurst
  BY <1>4 DEF EndBurst, Serving
<1>5. CASE Collect
  <2>1. \A p \in ready' : p[1] \in Token /\ p[2] \in Client /\ token_clients[p[1]] = p[2]
    BY <1>5 DEF Collect, ReadyPairs
  <2>2. \A p \in ready' : p[2] \in clients
    BY Zenon, <2>1, ListenerAssumption DEF Dispatch, DispatchOf, OwnersLive
  <2> QED
    BY <1>5, <2>1, <2>2 DEF Collect, ReadyPairs, tableVars
<1>6. CASE NextPair
  BY <1>6 DEF NextPair, tableVars
<1>7. CASE EndIteration
  BY <1>7 DEF EndIteration, tableVars
<1>8. CASE Reply
  BY <1>8 DEF Reply
<1>9. CASE ClientSends \/ PeerSends \/ Tick \/ UNCHANGED vars
  BY <1>9 DEF ClientSends, PeerSends, Tick, vars, tableVars, loopVars
<1> QED
  BY Zenon, <1>1, <1>2, <1>3, <1>4, <1>5, <1>6, <1>7, <1>8, <1>9 DEF Next, Loop

----------------------------------------------------------------------------
(* The rest of the type invariant.                                          *)

RestOK ==
  /\ pc \in {"poll", "inbound", "serve", "failed"}
  /\ age \in [Client -> 0..IdleTimeout]
  /\ replies \in [Target -> (0..ReplyTimeout) \cup {Absent}]
  /\ batch \subseteq Token \cup {InboundToken}
  /\ ready \subseteq Token \X Client
  /\ cur \in (Token \X Client) \cup {<< >>}
  /\ left \in 0..Burst
  /\ inbox \in Seq(Inbound)
  /\ rx \in [Token -> Seq(Target \cup {Fault})]
  /\ armed \subseteq Token \cup {InboundToken}

\* The type invariant is the one of the tables and the one of the rest.
LEMMA TypeParts == TypeOK <=> TablesOK /\ RestOK
BY DEF TypeOK, TablesOK, TablesOf, RestOK

\* Closing the sockets of dropped clients keeps the kernel's queues typed.
LEMMA RxWithoutType ==
  ASSUME RestOK, NEW S
  PROVE  /\ RxWithout(S) \in [Token -> Seq(Target \cup {Fault})]
         /\ ArmedWithout(S) \subseteq Token \cup {InboundToken}
         /\ AgeWithout(S) \in [Client -> 0..IdleTimeout]
<1>1. << >> \in Seq(Target \cup {Fault})
  BY EmptySeq
<1> QED
  BY <1>1, ListenerAssumption DEF RestOK, RxWithout, ArmedWithout, AgeWithout

\* ReplySocketCache::cleanup_expired keeps the cache typed.
LEMMA FreshRepliesType ==
  ASSUME RestOK
  PROVE  FreshReplies \in [Target -> (0..ReplyTimeout) \cup {Absent}]
BY DEF RestOK, FreshReplies

\* So does the eviction before a new socket is bound.
LEMMA MadeRoomType ==
  ASSUME RestOK, NEW m \in MadeRoom
  PROVE  m \in [Target -> (0..ReplyTimeout) \cup {Absent}]
BY FreshRepliesType DEF MadeRoom

\* So does ReplySocketCache::send.
LEMMA RepliesAfterType ==
  ASSUME RestOK, NEW s \in Target, NEW bound, NEW sent, NEW m \in RepliesAfter(s, bound, sent)
  PROVE  m \in [Target -> (0..ReplyTimeout) \cup {Absent}]
<1>1. 0 \in 0..ReplyTimeout /\ replies \in [Target -> (0..ReplyTimeout) \cup {Absent}]
  BY ListenerAssumption DEF RestOK
<1>2. \A q \in MadeRoom : q \in [Target -> (0..ReplyTimeout) \cup {Absent}]
  BY MadeRoomType
<1>3. \/ m = replies
      \/ m = [replies EXCEPT ![s] = 0]
      \/ m \in MadeRoom
      \/ \E q \in MadeRoom : m = [q EXCEPT ![s] = 0]
  BY DEF RepliesAfter
<1> QED
  BY <1>1, <1>2, <1>3

\* A burst counts down from MAX_EVENT_BURST to zero.
LEMMA BurstLeftType ==
  ASSUME RestOK, left > 0
  PROVE  BurstLeft \in 0..Burst
BY ListenerAssumption DEF RestOK, BurstLeft

\* The state left when serve_forever returns is typed.
LEMMA FailType ==
  ASSUME RestOK, Fail
  PROVE  RestOK'
<1>1. AgeWithout(Client) \in [Client -> 0..IdleTimeout]
  BY RxWithoutType
<1>2. << >> \in Seq(Inbound) /\ << >> \in Seq(Target \cup {Fault})
  BY EmptySeq
<1> QED
  BY <1>1, <1>2, ListenerAssumption DEF RestOK, Fail

\* handle_inbound keeps the types of what is not a client table.
LEMMA InboundType ==
  ASSUME TypeOK, RestOK, HandleInbound
  PROVE  RestOK'
<1> DEFINE c == Head(inbox)[1]
           t == Head(inbox)[2]
<1>1. c \in Client /\ t \in Target
  BY Zenon, InboundDatagram DEF HandleInbound
<1>2. Tail(inbox) \in Seq(Inbound)
  BY Zenon, HeadTailProperties DEF HandleInbound, InBurst, RestOK
<1>3. BurstLeft \in 0..Burst
  BY BurstLeftType DEF HandleInbound, InBurst
<1>4. /\ age' \in [Client -> 0..IdleTimeout]
      /\ rx' \in [Token -> Seq(Target \cup {Fault})]
      /\ armed' \subseteq Token \cup {InboundToken}
  <2>1. CASE UNCHANGED <<age, rx, armed>>
    BY <2>1 DEF RestOK
  <2>2. ASSUME NEW o \in Outcome, KnownClientDatagram(c, t, o) PROVE <1>4!:
    <3>1. /\ age' = age \/ age' = [age EXCEPT ![c] = 0]
          /\ rx' = rx /\ armed' = armed
      BY Zenon, <2>2 DEF KnownClientDatagram
    <3>2. age \in [Client -> 0..IdleTimeout] /\ 0 \in 0..IdleTimeout
      BY ListenerAssumption DEF RestOK
    <3>3. age' \in [Client -> 0..IdleTimeout]
      BY <1>1, <3>1, <3>2
    <3> QED
      BY <3>1, <3>3 DEF RestOK
  <2>3. ASSUME NEW o \in Outcome, NewClientDatagram(c, t, o) PROVE <1>4!:
    <3>1. /\ age' = [AgeWithout(Expired) EXCEPT ![c] = 0]
          /\ rx' = RxWithout(Expired) /\ armed' = ArmedWithout(Expired)
      BY Zenon, <2>3 DEF NewClientDatagram
    <3> QED
      BY <1>1, <3>1, RxWithoutType, ListenerAssumption
  <2> QED
    BY <2>1, <2>2, <2>3 DEF HandleInbound, tableVars
<1> QED
  BY <1>2, <1>3, <1>4 DEF HandleInbound, RestOK

\* Serving a reply keeps them too.
LEMMA ReplyType ==
  ASSUME RestOK, Reply
  PROVE  RestOK'
<1>1. replies' \in [Target -> (0..ReplyTimeout) \cup {Absent}]
  BY RepliesAfterType DEF Reply
<1>2. rx' \in [Token -> Seq(Target \cup {Fault})]
  BY Zenon, RxAfterType DEF Reply, RestOK
<1>3. BurstLeft \in 0..Burst
  BY BurstLeftType DEF Reply
<1>4. age' \in [Client -> 0..IdleTimeout]
  <2>1. age' = age \/ age' = [age EXCEPT ![cur[2]] = 0]
    BY DEF Reply
  <2>2. 0 \in 0..IdleTimeout
    BY ListenerAssumption
  <2> QED
    BY <2>1, <2>2 DEF RestOK
<1> QED
  BY <1>1, <1>2, <1>3, <1>4 DEF Reply, RestOK

\* Every step keeps them.
LEMMA StepKeepsRest ==
  ASSUME IInv, [Next]_vars
  PROVE  RestOK'
<1>1. RestOK /\ TablesOK /\ TypeOK
  BY TypeParts DEF IInv
<1>2. CASE Wake
  <2>1. /\ RxWithout(Expired) \in [Token -> Seq(Target \cup {Fault})]
        /\ ArmedWithout(Expired) \subseteq Token \cup {InboundToken}
        /\ AgeWithout(Expired) \in [Client -> 0..IdleTimeout]
        /\ FreshReplies \in [Target -> (0..ReplyTimeout) \cup {Absent}]
    BY <1>1, RxWithoutType, FreshRepliesType
  <2>2. batch' \subseteq Token \cup {InboundToken} /\ armed' \subseteq Token \cup {InboundToken}
    BY <1>1, <1>2, <2>1 DEF Wake, PollResult, RestOK
  <2>3. left' \in 0..Burst
    BY <1>2, ListenerAssumption DEF Wake
  <2> QED
    BY <1>1, <1>2, <2>1, <2>2, <2>3 DEF Wake, RestOK
<1>3. CASE HandleInbound
  BY <1>1, <1>3, InboundType
<1>4. CASE PollFails \/ InboundFails \/ RouteFails
  BY <1>1, <1>4, FailType DEF PollFails, InboundFails, RouteFails
<1>5. CASE EndBurst
  <2>1. rx' \in [Token -> Seq(Target \cup {Fault})]
    BY <1>1, <1>5, RxAfterType DEF EndBurst, RestOK
  <2> QED
    BY SMTT(20), <1>1, <1>5, <2>1, ListenerAssumption DEF EndBurst, RestOK
<1>6. CASE Collect
  <2>1. ReadyPairs \subseteq Token \X Client
    BY DEF ReadyPairs
  <2>2. 0 \in 0..Burst
    BY ListenerAssumption
  <2>3. ready' \subseteq Token \X Client /\ left' \in 0..Burst
    BY <1>6, <2>1, <2>2 DEF Collect
  <2> QED
    BY <1>1, <1>6, <2>3 DEF Collect, RestOK, tableVars
<1>7. CASE NextPair
  BY <1>1, <1>7, ListenerAssumption DEF NextPair, RestOK, tableVars
<1>8. CASE EndIteration
  BY <1>1, <1>8 DEF EndIteration, RestOK, tableVars
<1>9. CASE Reply
  BY <1>1, <1>9, ReplyType
<1>10. CASE ClientSends
  BY <1>1, <1>10, AppendProperties DEF ClientSends, RestOK, tableVars, loopVars
<1>11. CASE PeerSends
  <2>1. PICK t \in OwnedBy(clients), d \in Target \cup {Fault} :
          rx' = [rx EXCEPT ![t] = Append(@, d)] /\ armed' = armed \cup {t}
    BY Zenon, <1>11 DEF PeerSends
  <2>2. t \in Token
    BY <1>1, OwnedByMember DEF TablesOK, TablesOf
  <2>3. Append(rx[t], d) \in Seq(Target \cup {Fault})
    BY <1>1, <2>2, AppendProperties DEF RestOK
  <2> QED
    BY Zenon, <1>1, <1>11, <2>1, <2>2, <2>3 DEF PeerSends, RestOK, tableVars, loopVars
<1>12. CASE Tick
  <2>1. age' \in [Client -> 0..IdleTimeout]
    BY <1>1, <1>12, ListenerAssumption DEF Tick, Older, RestOK
  <2>2. replies' \in [Target -> (0..ReplyTimeout) \cup {Absent}]
    BY <1>1, <1>12, ListenerAssumption DEF Tick, Older, RestOK
  <2> QED
    BY <1>1, <1>12, <2>1, <2>2 DEF Tick, RestOK, loopVars
<1>13. CASE UNCHANGED vars
  BY <1>1, <1>13 DEF vars, tableVars, loopVars, RestOK
<1> QED
  BY <1>2, <1>3, <1>4, <1>5, <1>6, <1>7, <1>8, <1>9, <1>10, <1>11, <1>12, <1>13 DEF Next, Loop

----------------------------------------------------------------------------
(* The theorems.                                                            *)

\* The inductive invariant holds when serve_forever starts.
LEMMA InitIInv == Init => IInv
<1> SUFFICES ASSUME Init PROVE IInv
  OBVIOUS
<1>1. RestOK
  BY EmptySeq, ListenerAssumption DEF Init, RestOK
<1>2. TablesOK
  BY RouteAssumption DEF Init, TablesOK, TablesOf, NoRoutes, NoPeers, Token
<1>3. Dispatch
  BY DEF Init, Dispatch, DispatchOf, OwnersLive, NotShared, Dispatched, Fresh, OnlyClients,
         NoRoutes, NoPeers
<1>4. ServedClientsAreLive
  BY DEF Init, ServedClientsAreLive
<1> QED
  BY <1>1, <1>2, <1>3, <1>4, TypeParts DEF IInv

\* Every step preserves it.
LEMMA StepIInv == IInv /\ [Next]_vars => IInv'
<1> SUFFICES ASSUME IInv, [Next]_vars PROVE IInv'
  OBVIOUS
<1>1. TablesOK' /\ Dispatch'
  BY StepKeepsTables
<1>2. RestOK'
  BY StepKeepsRest
<1>3. TypeOK'
  BY <1>1, <1>2 DEF TypeOK, TablesOK, TablesOf, RestOK
<1> QED
  BY <1>1, <1>3, StepKeepsServed DEF IInv

\* The parts of Dispatch are the properties the runs check.
LEMMA DispatchParts ==
  Dispatch => OwnersAreLive /\ TokensNotShared /\ AnswersAreDispatched
BY Zenon, OwnedTokens DEF Dispatch, DispatchOf, OwnersLive, NotShared, Dispatched,
       OwnersAreLive, TokensNotShared, AnswersAreDispatched

\* The inductive invariant holds in every reachable state of the listener.
THEOREM Invariance == Spec => []IInv
BY InitIInv, StepIInv, PTL DEF Spec

\* Every variable of the listener keeps its type.
THEOREM TypeCorrect == Spec => []TypeOK
<1>1. IInv => TypeOK
  BY DEF IInv
<1> QED
  BY <1>1, Invariance, PTL

\* token_clients only ever leads to a client in the table that owns the token.
THEOREM NoDanglingToken == Spec => []OwnersAreLive
<1>1. IInv => OwnersAreLive
  BY DispatchParts DEF IInv
<1> QED
  BY <1>1, Invariance, PTL

\* The listener-wide allocator gives every readiness source its own token.
THEOREM NoSharedToken == Spec => []TokensNotShared
<1>1. IInv => TokensNotShared
  BY DispatchParts DEF IInv
<1> QED
  BY <1>1, Invariance, PTL

\* The answers to a datagram that has left are dispatched to its client.
THEOREM AnswersReachClient == Spec => []AnswersAreDispatched
<1>1. IInv => AnswersAreDispatched
  BY DispatchParts DEF IInv
<1> QED
  BY <1>1, Invariance, PTL

\* serve_forever never finds that the client of a ready token has gone.
THEOREM GoneBranchIsDead == Spec => []ServedClientsAreLive
<1>1. IInv => ServedClientsAreLive
  BY DEF IInv
<1> QED
  BY <1>1, Invariance, PTL

\* Nothing but its own idleness, or the end of the listener, removes a client.
THEOREM ActiveClientsStay == Spec => ActiveClientsKept
<1>1. ASSUME [Next]_vars, NEW c \in clients, c \notin clients'
      PROVE  age[c] >= IdleTimeout \/ pc' = "failed"
  <2>1. CASE Wake
    BY <1>1, <2>1 DEF Wake, Expired
  <2>2. CASE HandleInbound
    BY Zenon, <1>1, <2>2 DEF HandleInbound, KnownClientDatagram, NewClientDatagram, Expired, tableVars
  <2>3. CASE PollFails \/ InboundFails \/ RouteFails
    BY Zenon, <2>3 DEF PollFails, InboundFails, RouteFails, Fail
  <2>4. CASE UNCHANGED clients
    BY <1>1, <2>4
  <2> QED
    BY Zenon, <1>1, <2>1, <2>2, <2>3, <2>4
       DEF Next, Loop, Collect, NextPair, EndIteration, Reply, EndBurst, ClientSends,
           PeerSends, Tick, tableVars, vars
<1>2. [Next]_vars => [\A c \in clients : c \notin clients' =>
                        age[c] >= IdleTimeout \/ pc' = "failed"]_vars
  BY <1>1
<1> QED
  BY <1>2, PTL DEF Spec, ActiveClientsKept

----------------------------------------------------------------------------
(* The limits.  Each needs only itself and the types: a step that adds to a *)
(* table has compared its size with the limit before.                       *)

\* Adding to a finite set of fewer than k elements, or removing from it.
LEMMA GrowsWithin ==
  ASSUME NEW S, IsFiniteSet(S), NEW x, NEW k \in Nat, x \in S \/ Cardinality(S) < k,
         Cardinality(S) <= k, NEW T \in SUBSET (S \cup {x})
  PROVE  IsFiniteSet(T) /\ Cardinality(T) <= k
<1>1. IsFiniteSet(S \cup {x}) /\ Cardinality(S) \in Nat
  BY FS_AddElement, FS_CardinalityType
<1>2. Cardinality(S \cup {x}) <= k
  <2>1. CASE x \in S
    <3>1. S \cup {x} = S
      BY <2>1
    <3> QED
      BY <3>1
  <2>2. CASE x \notin S
    <3>1. Cardinality(S \cup {x}) = Cardinality(S) + 1
      BY <2>2, FS_AddElement
    <3> QED
      BY <1>1, <2>2, <3>1
  <2> QED
    BY <2>1, <2>2
<1>3. IsFiniteSet(T) /\ Cardinality(T) <= Cardinality(S \cup {x})
  BY <1>1, FS_Subset
<1>4. Cardinality(T) \in Nat /\ Cardinality(S \cup {x}) \in Nat
  BY <1>1, <1>3, FS_CardinalityType
<1> QED
  BY <1>2, <1>3, <1>4

\* send_with opens a route only below MAX_DATAGRAM_ROUTES.
LEMMA SendWithBound ==
  ASSUME NEW table \in [Endpoint -> SUBSET Token], NEW n, NEW e \in Endpoint, NEW o,
         Cardinality(OpenRoutes(table)) <= MaxRoutes
  PROVE  Cardinality(OpenRoutes(RoutesAfter(table, n, e, o))) <= MaxRoutes
<1>1. CASE TakesTokens(table, n, e, o) /\ o.register
  <2>1. RoutesAfter(table, n, e, o) = [table EXCEPT ![e] = Allocated(n, Sources[e])]
    BY <1>1 DEF RoutesAfter
  <2>2. OpenRoutes(RoutesAfter(table, n, e, o)) \in SUBSET (OpenRoutes(table) \cup {e})
    BY <2>1 DEF OpenRoutes
  <2>3. IsFiniteSet(OpenRoutes(table))
    BY RouteAssumption, FS_Subset DEF OpenRoutes
  <2>4. Cardinality(OpenRoutes(table)) < MaxRoutes /\ MaxRoutes \in Nat
    BY <1>1, RouteAssumption DEF TakesTokens
  <2> QED
    BY <2>2, <2>3, <2>4, GrowsWithin
<1>2. CASE ~(TakesTokens(table, n, e, o) /\ o.register)
  BY <1>2 DEF RoutesAfter
<1> QED
  BY <1>1, <1>2

\* The client table.
LEMMA StepKeepsClients ==
  ASSUME IInv, [Next]_vars, Cardinality(clients) <= MaxClients
  PROVE  Cardinality(clients') <= MaxClients
<1>1. IsFiniteSet(clients) /\ Cardinality(clients) \in Nat /\ MaxClients \in Nat
  BY ListenerAssumption, FS_Subset, FS_CardinalityType DEF IInv, TypeOK
<1>2. \A S \in SUBSET clients : IsFiniteSet(S) /\ Cardinality(S) \in Nat /\ Cardinality(S) <= MaxClients
  <2> SUFFICES ASSUME NEW S \in SUBSET clients
               PROVE  IsFiniteSet(S) /\ Cardinality(S) \in Nat /\ Cardinality(S) <= MaxClients
    OBVIOUS
  <2>1. IsFiniteSet(S) /\ Cardinality(S) <= Cardinality(clients)
    BY <1>1, FS_Subset
  <2>2. Cardinality(S) \in Nat
    BY <2>1, FS_CardinalityType
  <2> QED
    BY <1>1, <2>1, <2>2
<1>3. ASSUME NEW c, NEW t, NEW o, NewClientDatagram(c, t, o)
      PROVE  Cardinality(clients') <= MaxClients
  <2> DEFINE kept == clients \ Expired
  <2>1. kept \in SUBSET clients
    OBVIOUS
  <2>2. \/ clients' = kept
        \/ clients' = kept \cup {c} /\ Cardinality(kept) < MaxClients
    BY Zenon, <1>3 DEF NewClientDatagram
  <2> HIDE DEF kept
  <2>3. IsFiniteSet(kept) /\ Cardinality(kept) <= MaxClients
    BY <1>2, <2>1
  <2>4. ASSUME clients' = kept \cup {c}, Cardinality(kept) < MaxClients
        PROVE  Cardinality(clients') <= MaxClients
    BY <1>1, <2>3, <2>4, GrowsWithin
  <2> QED
    BY <2>2, <2>3, <2>4
<1>4. clients' \in SUBSET clients \/ \E c, t, o : NewClientDatagram(c, t, o)
  BY Zenon DEF Next, Loop, Wake, HandleInbound, KnownClientDatagram, PollFails, InboundFails, RouteFails, Fail,
         Collect, NextPair, EndIteration, Reply, EndBurst, ClientSends, PeerSends, Tick,
         tableVars, vars
<1> QED
  BY <1>2, <1>3, <1>4

\* A step changes the routes of a client by dropping them or by one send, and
\* what the client has reached by dropping it or by one admitted target.
LEMMA StepAtClient ==
  ASSUME IInv, [Next]_vars, NEW c \in Client
  PROVE  /\ \/ routes'[c] \in {routes[c], NoRoutes}
            \/ \E table \in {routes[c], NoRoutes}, e \in Endpoint, o \in Outcome :
                 routes'[c] = RoutesAfter(table, next, e, o)
         /\ \A e \in PeerChecked :
              \/ peers'[c][e] \in {peers[c][e], {}}
              \/ \E t \in Target, known \in {peers[c][e], {}} :
                   peers'[c][e] = known \cup {t} /\ PeerAdmitted(known, e, t)
<1> DEFINE Goal == /\ \/ routes'[c] \in {routes[c], NoRoutes}
                      \/ \E table \in {routes[c], NoRoutes}, e \in Endpoint, o \in Outcome :
                           routes'[c] = RoutesAfter(table, next, e, o)
                   /\ \A e \in PeerChecked :
                        \/ peers'[c][e] \in {peers[c][e], {}}
                        \/ \E t \in Target, known \in {peers[c][e], {}} :
                             peers'[c][e] = known \cup {t} /\ PeerAdmitted(known, e, t)
<1>1. /\ routes \in [Client -> [Endpoint -> SUBSET Token]]
      /\ peers \in [Client -> [Endpoint -> SUBSET Target]] /\ PeerChecked \subseteq Endpoint
  BY ListenerAssumption DEF IInv, TypeOK
<1>2. ASSUME NEW S \in SUBSET Client, routes' = RoutesWithout(S), peers' = PeersWithout(S)
      PROVE  Goal
  BY <1>1, <1>2 DEF RoutesWithout, PeersWithout, NoPeers
<1>3. ASSUME HandleInbound PROVE Goal
  <2> DEFINE d == Head(inbox)[1]
             t == Head(inbox)[2]
             e == Plan[t]
  <2>1. d \in Client /\ t \in Target
    BY Zenon, <1>3, InboundDatagram DEF HandleInbound, IInv
  <2>2. CASE UNCHANGED <<routes, peers>>
    BY Zenon, <2>2
  <2>3. ASSUME NEW o \in Outcome, e \in Endpoint, KnownClientDatagram(d, t, o) PROVE Goal
    <3>1. /\ routes' = [routes EXCEPT ![d] = RoutesAfter(routes[d], next, e, o)]
          /\ \/ peers' = peers
             \/ /\ peers' = [peers EXCEPT ![d] = [peers[d] EXCEPT ![e] = peers[d][e] \cup {t}]]
                /\ PeerAdmitted(peers[d][e], e, t)
      BY Zenon, <2>3 DEF KnownClientDatagram
    <3> HIDE DEF d, t, e
    <3>2. routes'[c] = routes[c] \/ routes'[c] = RoutesAfter(routes[c], next, e, o)
      BY <1>1, <2>1, <3>1
    <3>3. ASSUME NEW f \in PeerChecked
          PROVE  \/ peers'[c][f] = peers[c][f]
                 \/ peers'[c][f] = peers[c][f] \cup {t} /\ PeerAdmitted(peers[c][f], f, t)
      BY <1>1, <2>1, <2>3, <3>1
    <3> QED
      BY Zenon, <2>1, <2>3, <3>2, <3>3
  <2>4. ASSUME NEW o \in Outcome, e \in Endpoint, NewClientDatagram(d, t, o) PROVE Goal
    <3>1. \/ routes' = RoutesWithout(Expired) /\ peers' = PeersWithout(Expired)
          \/ /\ routes' = [RoutesWithout(Expired) EXCEPT ![d] = RoutesAfter(NoRoutes, next, e, o)]
             /\ peers' = [PeersWithout(Expired) EXCEPT ![d] = [NoPeers EXCEPT ![e] = {t}]]
      BY Zenon, <2>4 DEF NewClientDatagram
    <3> HIDE DEF d, t, e
    <3>2. Expired \in SUBSET Client
      BY DEF Expired, IInv, TypeOK
    <3>3. CASE routes' = RoutesWithout(Expired) /\ peers' = PeersWithout(Expired)
      BY Zenon, <1>2, <3>2, <3>3
    <3>4. CASE /\ routes' = [RoutesWithout(Expired) EXCEPT ![d] = RoutesAfter(NoRoutes, next, e, o)]
               /\ peers' = [PeersWithout(Expired) EXCEPT ![d] = [NoPeers EXCEPT ![e] = {t}]]
      <4>1. \/ routes'[c] \in {routes[c], NoRoutes}
            \/ routes'[c] = RoutesAfter(NoRoutes, next, e, o)
        BY <1>1, <2>1, <3>4 DEF RoutesWithout
      <4>2. PeerAdmitted({}, e, t)
        BY FS_EmptySet, ListenerAssumption DEF PeerAdmitted
      <4>3. ASSUME NEW f \in PeerChecked
            PROVE  peers'[c][f] \in {peers[c][f], {}} \/ (f = e /\ peers'[c][f] = {t})
        BY Zenon, <1>1, <2>1, <3>4 DEF PeersWithout, NoPeers
      <4>4. {t} = {} \cup {t}
        OBVIOUS
      <4> QED
        BY Zenon, <2>1, <2>4, <4>1, <4>2, <4>3, <4>4
    <3> QED
      BY Zenon, <3>1, <3>3, <3>4
  <2>5. Handled(e) => e \in Endpoint
    BY <2>1, ListenerAssumption DEF Handled
  <2> QED
    BY Zenon, <1>3, <2>2, <2>3, <2>4, <2>5 DEF HandleInbound, tableVars
<1>4. CASE Wake
  <2>1. Expired \in SUBSET Client
    BY DEF Expired, IInv, TypeOK
  <2> QED
    BY Zenon, <1>2, <1>4, <2>1 DEF Wake
<1>5. CASE PollFails \/ InboundFails \/ RouteFails
  BY Zenon, <1>2, <1>5 DEF PollFails, InboundFails, RouteFails, Fail
<1>6. CASE UNCHANGED <<routes, peers>>
  BY Zenon, <1>6
<1> QED
  BY Zenon, <1>3, <1>4, <1>5, <1>6
  DEF Next, Loop, Collect, NextPair, EndIteration, Reply, EndBurst, ClientSends, PeerSends, Tick,
      tableVars, vars

\* The routes and the authorised peers of each client.
LEMMA StepKeepsRoutes ==
  ASSUME IInv, [Next]_vars, Bounded, NEW c \in Client
  PROVE  /\ Cardinality(OpenRoutes(routes'[c])) <= MaxRoutes
         /\ \A e \in PeerChecked : Cardinality(peers'[c][e]) <= MaxPeers
<1>1. /\ NoRoutes \in [Endpoint -> SUBSET Token] /\ routes[c] \in [Endpoint -> SUBSET Token]
      /\ \A e \in PeerChecked : peers[c][e] \in SUBSET Target
  BY ListenerAssumption DEF NoRoutes, IInv, TypeOK
<1>2. OpenRoutes(NoRoutes) = {} /\ Cardinality({}) = 0 /\ IsFiniteSet({})
  BY FS_EmptySet DEF OpenRoutes, NoRoutes
<1>3. \A table \in {routes[c], NoRoutes} : Cardinality(OpenRoutes(table)) <= MaxRoutes
  <2>1. Cardinality(OpenRoutes(routes[c])) <= MaxRoutes
    BY Zenon DEF Bounded
  <2>2. Cardinality(OpenRoutes(NoRoutes)) <= MaxRoutes
    BY <1>2, RouteAssumption
  <2> QED
    BY <2>1, <2>2
<1>4. Cardinality(OpenRoutes(routes'[c])) <= MaxRoutes
  <2>1. \A table \in {routes[c], NoRoutes} : table \in [Endpoint -> SUBSET Token]
    BY <1>1
  <2>2. \A table \in {routes[c], NoRoutes}, e \in Endpoint, o \in Outcome :
          Cardinality(OpenRoutes(RoutesAfter(table, next, e, o))) <= MaxRoutes
    BY Zenon, <1>3, <2>1, SendWithBound
  <2>3. \/ routes'[c] \in {routes[c], NoRoutes}
        \/ \E table \in {routes[c], NoRoutes}, e \in Endpoint, o \in Outcome :
             routes'[c] = RoutesAfter(table, next, e, o)
    BY Zenon, StepAtClient
  <2> QED
    BY ONLY <1>3, <2>2, <2>3, ZenonT(30)
<1>5. ASSUME NEW e \in PeerChecked PROVE Cardinality(peers'[c][e]) <= MaxPeers
  <2>1. \A known \in {peers[c][e], {}} : IsFiniteSet(known) /\ Cardinality(known) <= MaxPeers
    <3>1. IsFiniteSet(peers[c][e])
      BY Zenon, <1>1, ListenerAssumption, FS_Subset
    <3>2. Cardinality(peers[c][e]) <= MaxPeers
      BY DEF Bounded
    <3>3. Cardinality({}) <= MaxPeers
      BY <1>2, ListenerAssumption
    <3> QED
      BY <1>2, <3>1, <3>2, <3>3
  <2>2. ASSUME NEW t \in Target, NEW known \in {peers[c][e], {}}, PeerAdmitted(known, e, t)
        PROVE  Cardinality(known \cup {t}) <= MaxPeers
    <3>1. t \in known \/ Cardinality(known) < MaxPeers
      BY <2>2 DEF PeerAdmitted
    <3> QED
      BY Zenon, <2>1, <3>1, GrowsWithin, ListenerAssumption
  <2>3. \/ peers'[c][e] \in {peers[c][e], {}}
        \/ \E t \in Target, known \in {peers[c][e], {}} :
             peers'[c][e] = known \cup {t} /\ PeerAdmitted(known, e, t)
    BY Zenon, StepAtClient
  <2> QED
    BY ONLY <2>1, <2>2, <2>3, ZenonT(30)
<1> QED
  BY <1>4, <1>5

\* The reply sockets bound in a cache, and the ones a step may leave.
Bound(m) == {s \in Target : m[s] # Absent}

LEMMA StepKeepsReplies ==
  ASSUME IInv, [Next]_vars, Cardinality(Bound(replies)) <= MaxReplySockets
  PROVE  Cardinality(Bound(replies')) <= MaxReplySockets
<1>1. MaxReplySockets \in Nat /\ \A m : IsFiniteSet(Bound(m)) /\ Cardinality(Bound(m)) \in Nat
  BY Zenon, ListenerAssumption, FS_Subset, FS_CardinalityType DEF Bound
<1>2. ASSUME NEW m, Bound(m) \subseteq Bound(replies)
      PROVE  Cardinality(Bound(m)) <= MaxReplySockets
  <2>1. Cardinality(Bound(m)) <= Cardinality(Bound(replies))
    BY <1>1, <1>2, FS_Subset
  <2> QED
    BY <1>1, <2>1
<1>3. Bound(FreshReplies) \subseteq Bound(replies)
  BY DEF Bound, FreshReplies
<1>4. \A m \in MadeRoom : /\ m \in [Target -> (0..ReplyTimeout) \cup {Absent}]
                          /\ Bound(m) \subseteq Bound(replies)
                          /\ Cardinality(Bound(m)) < MaxReplySockets
  <2> SUFFICES ASSUME NEW m \in MadeRoom
               PROVE  /\ m \in [Target -> (0..ReplyTimeout) \cup {Absent}]
                      /\ Bound(m) \subseteq Bound(replies)
                      /\ Cardinality(Bound(m)) < MaxReplySockets
    OBVIOUS
  <2>1. /\ FreshReplies \in [Target -> (0..ReplyTimeout) \cup {Absent}]
        /\ m \in [Target -> (0..ReplyTimeout) \cup {Absent}]
    BY TypeParts, FreshRepliesType, MadeRoomType DEF IInv
  <2>2. CASE Crowded
    <3>1. PICK s \in Oldest : m = [FreshReplies EXCEPT ![s] = Absent]
      BY <2>2 DEF MadeRoom
    <3>2. s \in Bound(FreshReplies) /\ Bound(m) = Bound(FreshReplies) \ {s}
      BY <2>1, <3>1 DEF Oldest, Bound
    <3>3. Cardinality(Bound(m)) = Cardinality(Bound(FreshReplies)) - 1
      BY Zenon, <1>1, <3>2, FS_RemoveElement
    <3>4. Cardinality(Bound(FreshReplies)) <= MaxReplySockets
      BY <1>2, <1>3
    <3> QED
      BY <1>1, <1>3, <2>1, <3>2, <3>3, <3>4
  <2>3. CASE ~Crowded
    <3>1. m = FreshReplies /\ ~(Cardinality(Bound(FreshReplies)) >= MaxReplySockets)
      BY <2>3 DEF MadeRoom, Crowded, Bound
    <3> QED
      BY <1>1, <1>3, <2>1, <3>1
  <2> QED
    BY <2>2, <2>3
<1>5. CASE Reply
  <2> DEFINE s == CurReceived
  <2>1. /\ s \in Target
        /\ \/ replies' = replies
           \/ replies[s] # Absent /\ replies' = [replies EXCEPT ![s] = 0]
           \/ replies' \in MadeRoom
           \/ \E m \in MadeRoom : replies' = [m EXCEPT ![s] = 0]
    BY <1>5 DEF Reply, RepliesAfter
  <2> HIDE DEF s
  <2>2. replies \in [Target -> (0..ReplyTimeout) \cup {Absent}]
    BY DEF IInv, TypeOK
  <2>3. CASE replies[s] # Absent /\ replies' = [replies EXCEPT ![s] = 0]
    BY <1>2, <2>1, <2>2, <2>3 DEF Bound
  <2>4. ASSUME NEW m \in MadeRoom, replies' = [m EXCEPT ![s] = 0]
        PROVE  Cardinality(Bound(replies')) <= MaxReplySockets
    <3>1. Bound(replies') \in SUBSET (Bound(m) \cup {s})
      BY <1>4, <2>1, <2>4 DEF Bound
    <3>2. Cardinality(Bound(m)) < MaxReplySockets /\ Cardinality(Bound(m)) <= MaxReplySockets
      BY <1>1, <1>4
    <3> QED
      BY <1>1, <3>1, <3>2, GrowsWithin
  <2>5. CASE replies' = replies \/ replies' \in MadeRoom
    BY <1>2, <1>4, <2>5
  <2> QED
    BY <2>1, <2>3, <2>4, <2>5
<1>6. CASE Tick
  <2>1. Bound(replies') \subseteq Bound(replies)
    BY <1>6 DEF Tick, Bound
  <2> QED
    BY <1>2, <2>1
<1>7. CASE Wake
  BY <1>2, <1>3, <1>7 DEF Wake
<1>8. CASE PollFails \/ InboundFails \/ RouteFails
  <2>1. Bound(replies') = {}
    BY <1>8 DEF PollFails, InboundFails, RouteFails, Fail, Bound
  <2> QED
    BY <1>2, <2>1
<1>9. CASE UNCHANGED replies
  BY <1>9
<1> QED
  BY Zenon, <1>5, <1>6, <1>7, <1>8, <1>9
  DEF Next, Loop, HandleInbound, Collect, NextPair, EndIteration, EndBurst, ClientSends, PeerSends,
      vars

\* No mixture of clients, failed sends, expiries and evictions exceeds a
\* limit: MAX_TRANSPARENT_UDP_CLIENTS, MAX_DATAGRAM_ROUTES,
\* MAX_DATAGRAM_REMOTE_PEERS and MAX_REPLY_SOCKETS.
THEOREM LimitsHold == Spec => []Bounded
<1>1. Init => Bounded
  <2> SUFFICES ASSUME Init PROVE Bounded
    OBVIOUS
  <2>1. Cardinality({}) = 0
    BY FS_EmptySet
  <2>2. /\ clients = {} /\ {s \in Target : replies[s] # Absent} = {}
        /\ \A c \in Client : OpenRoutes(routes[c]) = {} /\ \A e \in PeerChecked : peers[c][e] = {}
    BY ListenerAssumption DEF Init, NoRoutes, NoPeers, OpenRoutes
  <2>3. 0 <= MaxClients /\ 0 <= MaxRoutes /\ 0 <= MaxPeers /\ 0 <= MaxReplySockets
    BY RouteAssumption, ListenerAssumption
  <2> QED
    BY ONLY <2>1, <2>2, <2>3, ZenonT(30) DEF Bounded
<1>2. IInv /\ Bounded /\ [Next]_vars => Bounded'
  <2> SUFFICES ASSUME IInv, Bounded, [Next]_vars PROVE Bounded'
    OBVIOUS
  <2>1. Cardinality(clients) <= MaxClients /\ Cardinality(Bound(replies)) <= MaxReplySockets
    BY DEF Bounded, Bound
  <2>2. Cardinality(clients') <= MaxClients /\ Cardinality(Bound(replies')) <= MaxReplySockets
    BY <2>1, StepKeepsClients, StepKeepsReplies
  <2>3. \A c \in Client : /\ Cardinality(OpenRoutes(routes'[c])) <= MaxRoutes
                          /\ \A e \in PeerChecked : Cardinality(peers'[c][e]) <= MaxPeers
    BY StepKeepsRoutes
  <2> QED
    BY Zenon, <2>2, <2>3 DEF Bounded, Bound, OpenRoutes
<1> QED
  BY <1>1, <1>2, Invariance, PTL DEF Spec

\* What receive_ready hands out was trusted by the route, or is its error.
LEMMA ReceivedIsTrusted ==
  ASSUME NEW tokens, NEW q, NEW trusted, Received(tokens, q, trusted) # Nothing
  PROVE  Received(tokens, q, trusted) \in trusted \cup {Fault}
<1> DEFINE first == FirstSource(tokens, q, trusted)
           t     == Only(first)
           hits  == FirstHit(q[t], trusted)
<1>1. first # {}
  BY Zenon DEF Received
<1>2. t \in first
  BY <1>1 DEF Only
<1>3. hits # {}
  BY Zenon, <1>2 DEF FirstSource
<1>4. Only(hits) \in hits
  BY Zenon, <1>3 DEF Only
<1>5. q[t][Only(hits)] \in trusted \cup {Fault}
  BY Zenon, <1>4 DEF FirstHit
<1>6. Received(tokens, q, trusted) = q[t][Only(hits)]
  BY Zenon, <1>1 DEF Received
<1> QED
  BY Zenon, <1>5, <1>6

\* ReplySocketCache::send binds no socket for another source than its own.
LEMMA OnlyTheSourceIsBound ==
  ASSUME IInv, NEW s \in Target, NEW bound, NEW sent, NEW m \in RepliesAfter(s, bound, sent),
         NEW r \in Target, r # s, m[r] # Absent
  PROVE  replies[r] # Absent
<1>1. RestOK /\ replies \in [Target -> (0..ReplyTimeout) \cup {Absent}]
  BY TypeParts DEF IInv, RestOK
<1>2. ASSUME NEW q \in MadeRoom, q[r] # Absent PROVE replies[r] # Absent
  <2>1. FreshReplies \in [Target -> (0..ReplyTimeout) \cup {Absent}]
    BY <1>1, FreshRepliesType
  <2>2. q = FreshReplies \/ \E x \in Target : q = [FreshReplies EXCEPT ![x] = Absent]
    BY DEF MadeRoom, Oldest
  <2>3. FreshReplies[r] # Absent
    BY <1>2, <2>1, <2>2
  <2> QED
    BY <2>3 DEF FreshReplies
<1>3. \A q \in MadeRoom : q \in [Target -> (0..ReplyTimeout) \cup {Absent}]
  BY <1>1, MadeRoomType
<1>4. \/ m = replies
      \/ m = [replies EXCEPT ![s] = 0]
      \/ m \in MadeRoom
      \/ \E q \in MadeRoom : m = [q EXCEPT ![s] = 0]
  BY DEF RepliesAfter
<1> QED
  BY <1>1, <1>2, <1>3, <1>4

\* Whoever sends datagrams to a client's DIRECT route, the listener speaks for
\* a new source only after that client has reached it (receive_from_socket
\* with remote_peers, ReplySocketCache::send).
THEOREM SourcesWereContacted == Spec => OnlyContactedSourcesSpeak
<1> DEFINE Reached(s) == \E e \in RouteOf(cur[2], cur[1]) :
                           e \in PeerChecked => s \in peers[cur[2]][e]
<1>1. ASSUME IInv, [Next]_vars, NEW s \in Target, replies[s] = Absent, replies'[s] # Absent
      PROVE  Reached(s)
  <2>1. CASE Reply
    <3>1. CurReceived \in Target /\ CurReceived = s
      <4>1. /\ CurReceived \in Target
            /\ \E bound, sent \in BOOLEAN : replies' \in RepliesAfter(CurReceived, bound, sent)
        BY <2>1 DEF Reply
      <4> QED
        BY <1>1, <4>1, OnlyTheSourceIsBound
    <3>2. s # Nothing /\ s # Fault
      BY ListenerAssumption
    <3>3. s \in CurTrusted
      BY <3>1, <3>2, ReceivedIsTrusted DEF CurReceived
    <3>4. PICK e \in RouteOf(cur[2], cur[1]) : s \in Trusted(cur[2], e)
      BY <3>3 DEF CurTrusted
    <3> QED
      BY <3>4 DEF Trusted
  <2>2. CASE Tick
    BY Zenon, <1>1, <2>2 DEF Tick
  <2>3. CASE Wake
    BY Zenon, <1>1, <2>3 DEF Wake, FreshReplies
  <2>4. CASE PollFails \/ InboundFails \/ RouteFails
    BY Zenon, <1>1, <2>4 DEF PollFails, InboundFails, RouteFails, Fail
  <2>5. CASE UNCHANGED replies
    BY Zenon, <1>1, <2>5
  <2> QED
    BY Zenon, <1>1, <2>1, <2>2, <2>3, <2>4, <2>5
    DEF Next, Loop, HandleInbound, Collect, NextPair, EndIteration, EndBurst, ClientSends,
        PeerSends, vars
<1>2. IInv /\ [Next]_vars =>
        [\A s \in Target : replies[s] = Absent /\ replies'[s] # Absent => Reached(s)]_vars
  BY <1>1
<1> QED
  BY <1>2, Invariance, PTL DEF Spec, OnlyContactedSourcesSpeak
=============================================================================
