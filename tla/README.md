# Commeatus: a TLA+ verification project

Commeatus is a proxy core and daemon: it accepts flows from SOCKS5, HTTP
CONNECT and transparent (TPROXY) listeners, lets a policy decide whether a flow
is rejected, leaves directly or leaves by a named proxy, and then relays it.
This directory models the parts of it in which threads, sockets, timers and
failures meet, checks the models with TLC on small instances, and proves the
central properties with TLAPS for every instance.

Paths below are relative to `crates/`. `PROJECT.json` gives the source lines of
every definition, the runs, a mutation for every property (a plausible fault of
the code under which the property fails), the hazards and the theorems.

## 1. Inventory

### Components

| Part | Source | State | Operations | What makes it correct |
|---|---|---|---|---|
| Transparent UDP listener | `daemon/src/transparent_udp.rs` | `clients`, `token_clients`, reply sockets, allocator | `serve_forever`, `handle_inbound`, the two clean-ups, `ReplySocketCache::send` | readiness reaches the right, live client; limits; active clients stay; idle state goes |
| Datagram routes | `daemon/src/datagram.rs` | one route per endpoint, tokens, authorised peers | `send_with`, `receive_ready`, `allocate`, the direct `send`/`receive` | one execution per endpoint, no token twice, only contacted peers answer |
| SOCKS5 UDP association | `daemon/src/socks5.rs` | pinned client, routes, reply queue, write interest, last activity | `handle_udp_associate` and its helpers | the client is pinned by its traffic; the control connection owns the lifetime; no reply is slept on |
| Server | `daemon/src/server.rs` | connection counter, accept-error counters, exit channel | `run`, `serve_forever`, `try_acquire`, `spawn_connection`, permit drop | the counter is exact, the limit holds, a dead listener ends the server |
| DNS engine | `dns/src/lib.rs` | cache behind a mutex, hosts, resolver chain | `resolve`, `DnsCache::get`/`insert` | a hit is never older than its TTL; capacity; eviction order |
| DoT resolver | `dns/src/dot.rs`, `dns/src/wire.rs` | session behind a mutex, id counter | `resolve`, `resolve_family`, `exchange` | a lookup gets its own answers; the stream stays in step |
| TCP transport | `transport/src/lib.rs` | two sockets, two threads | `relay_to_client` | half-close after the last byte; errors wake the other thread; join |
| TLS transport | `transport/src/tls.rs` | two buffers, registrations, closing flags, rustls | `relay_to_client`, `TlsFramedSession` | closure comes last and is real; nothing overtaken or lost; no lost wake-up |
| Trojan datagrams | `daemon/src/trojan_datagram.rs`, `trojan.rs` | pending frames, receive buffer, registration | `send`, `receive`, `service_ready` | frames whole and in order; limits; no lost wake-up |
| Policy | `core/src/policy.rs`, `runtime.rs`, `plan.rs`, `flow.rs` | immutable compiled rules | `PolicyEngine::new`, `decide`, `Runtime::plan` | tier, then order of the text |
| Configuration | `daemon/src/config.rs` | active snapshot | `parse_config_at`, `reload`, `snapshot` | last known good; limits; no dangling reference; the resolvers that are listed, no others |
| Outbound registry | `daemon/src/outbound.rs`, `proxy.rs` | endpoints of a snapshot | `plan_action`, `connect_tcp`, `open_datagram` | a flow leaves as planned or not at all |
| Sessions and handshakes | `daemon/src/protocol.rs`, `http_connect.rs`, `socks5.rs`, `transparent_tcp.rs`, `proxy.rs` | the step of a handler, its buffer, timeouts, dial deadline | `handle`, `handshake_stream`, `connect_direct` | bounded reads; one true verdict; leftovers are kept; negotiation ends |
| Pure algorithms | `core/src/cidr.rs`, `core/src/domain_set.rs`, `compat/src/lib.rs`, `dns/src/wire.rs`, `HostsTable` | none | `contains`, `matches`, `compile_blocklist`, `parse_hosts`, `decode_name`, the alias closure | agreement with a reference definition |
| Shell, probe, CLI, eBPF | `platform`, `daemon/src/main.rs`, `../scripts`, `../ebpf` | the kernel's | | out of scope |

### How they interact

`Server::run` starts a thread per listener. A stream listener spawns a thread
per connection under a permit; that thread negotiates, calls
`proxy::plan_action`, connects through `OutboundRegistry::connect_tcp` (which may
resolve names through the shared `DnsEngine`, hence the shared DoT session) and
hands both sockets to the `relay_to_client` of its transport. A SOCKS5 UDP
association and the transparent UDP listener are single-threaded `mio` loops that
own `DatagramRouteSet`s; the executions behind the routes are direct sockets or
`TrojanDatagramExecution`s on a `TlsFramedSession`. All of them read one
immutable configuration snapshot.

Shared between threads: the connection counter, the DNS cache, the DoT session
and the configuration store. Everything else belongs to one loop, where the
interleaving is with the kernel, the peers and the clock.

### What is hard

* **Edge-triggered readiness.** `mio` reports an edge once. Every loop that stops
  before its source would block, and every change of interest, can lose the
  wake-up it later sleeps on.
* **Two tables for one fact.** `clients` and `token_clients`, `pending` and
  `pending_bytes`, the counter and the permits must agree through partial
  failures and expiries.
* **Values read early and used late.** `now` in the DNS engine, the counter in
  `try_acquire`, `outbound_ready`, a configuration snapshot.
* **Closing.** Half-closes, unclean TLS ends, FINs reported together with data,
  errors that must wake a blocked thread.
* **Limits** on clients, routes, peers, tokens, reply sockets, queues, buffers,
  cache entries and configuration objects.

`PROJECT.json` lists these hazards one by one at their lines, with the properties
that would catch each one going wrong, or the reason why no property does.

## 2. Modules at a glance

| Part | Modules | Model-checked | Proved |
|---|---|---|---|
| Transparent UDP | `TransparentUdp` on the operators of `DatagramRoutes` | yes | dispatch, limits, active clients, sources |
| SOCKS5 UDP | `Socks5Udp` on the same operators | yes | pinning, no stranded reply, reasons to end |
| Server | `Server`, refining the abstract `ConnectionLimiter` | yes | counter, limit, refinement |
| DNS engine | `DnsEngine` | yes | freshness, capacity, eviction |
| DoT | `DotResolver`, with the codec `DnsWire` | yes | session in step, own answers |
| TCP sessions | `Session`, composed with `TcpRelay` | yes | order of ends, blame for failures (`TcpRelay`) |
| TLS relay | `TlsRelay` | yes | order of closures |
| Trojan datagrams | `TrojanDatagram` | yes | no |
| Configuration | `Config` on `Policy`, `Cidr`, `DomainSet`, `Assets` | yes | no |

Modules with proofs use no recursive operator. `DomainSet`, `Policy` and
`DnsWire` do, because their code walks labels, matchers and records; they are for
TLC alone.

## 3. Modules

An action is one atomic piece of a handler: what runs between two points at which
another actor can be observed. Names follow the source (`handle_inbound` becomes
`HandleInbound`, helpers keep their names). Failures of calls into the kernel or
into a library are nondeterministic outcomes. Definitions marked *Mutant* or
*plausible fault* are not used by any specification; `PROJECT.json` substitutes
them one at a time to show that a property depends on the code it is about.

* **DatagramRoutes** has no state. A route table maps an endpoint to its tokens.
  `RoutesAfter`, `NextAfter` and `SendSucceeds` are the three effects of
  `send_with` given what opening, registering and sending returned; `Received`
  and `RxAfter` are `receive_ready` with the drain limit on untrusted sources.
* **TransparentUdp** is the loop of `serve_forever`: `Wake` (poll and both
  clean-ups), `HandleInbound` (one datagram of the burst), `Collect`
  (`outbound_ready`), `NextPair`, `Reply`, `EndBurst`, `EndIteration`, and the three
  ways in which an error ends it: of the poll, of the inbound socket, of a route. Ages are counted in ticks and saturate at the
  timeouts, which is all the code compares them with.
* **Socks5Udp** is `handle_udp_associate`: poll, the control check, the client
  burst, the burst of each ready route, the flush and the reregistration. A poll may
  be interrupted, which starts the loop again, or fail, which ends it. The
  kernel's edges, the send buffer of the relay socket and the bytes on the control
  connection are explicit.
* **Server** models `try_acquire` at the grain of its atomic operations.
  **ConnectionLimiter** is its abstract specification: a counting semaphore.
* **DnsEngine** separates the moments of `resolve`: the reading of the clock, the
  cache look-up, each resolver and the insertion. An answer carries the instant
  at which it was given, so that its age can be stated.
* **DotResolver** separates taking an id, taking the lock, connecting, writing
  and reading. Questions carry the lookup they belong to, as history: the code
  compares only id, name and family.
* **DnsWire** holds the pure functions of `wire.rs`: `decode_name` byte by byte with
  compression pointers, the checks of a response, the alias closure, and how
  `DotResolver::resolve` combines the two families. A byte has 4 bits instead of 8,
  so that all short messages can be enumerated; its top two still tell a label from
  a pointer.
* **TcpRelay** is two blocking copies over explicit kernel queues.
* **Session** extends it with all that comes before: the negotiation of each
  listener, the plan, `connect_direct` over the addresses of a name or the dial of a
  proxy, the upstream handshake, the reply to the client, the leftover of a CONNECT
  header and the hand-over, whose setup may fail as well. The same sockets, peers and timeouts carry through, so
  what a handshake leaves in a queue, or forgets to reset, is there when the relay
  starts. A unit of a stream is one part of a message or one piece of tunnelled data.
  A session that is handed to the TLS relay or to the UDP association ends here; in
  those two modules it starts. `TlsRelay` starts with whatever plaintext the
  handshakes left in rustls.
* **TlsRelay** is the loop of the TLS relay, in units of one read. rustls is
  modelled by its interface as the code uses it: a full writer takes nothing,
  `wants_read` is false while plaintext waits, the reader fails on an end without
  close_notify, and received records may be invalid. An edge is kept only if the
  interest registered at that moment covers it; a FIN or a reset passes any interest.
* **TrojanDatagram** is `send`, `receive` and `service_ready` on streams cut into
  units, so that frames are split and coalesced everywhere. The callers' part is in
  it: an event starts a burst of at most `MAX_EVENT_BURST` receives, and a send that
  failed leaves the execution, with what is pending, in its route.
* **Policy** is the tier sort, the first match and every matcher, the composite ones
  included. **Cidr** and **DomainSet** are the matchers of networks and names,
  **Assets** the files a configuration names: block lists and hosts tables.
  **Config** compiles texts (each arm of `parse_config_at` yields the set of drafts a
  line may leave) and checks them. Loaders do this outside the lock, so it is one
  step, and swap the result in with another; readers plan and connect flows.

The MC modules hold the constant values of the instances and symmetry sets.
Symmetry is used only in `tproxy_clients`, `dns` and `config`, whose properties are
invariants and action properties, and only over identities that no constant
tells apart. `MCDotResolver` and `MCConfig` also hold the comparison of pure
operators with their reference definitions. These are evaluated in the states
before the first lookup or reload, since they do not depend on the state.

## 4. Runs

One run per module, or per composition, asks all its questions of one instance; the
listener has two, because its client tables and its reply sockets multiply.

| Run | Instance | Distinct states | Shows |
|---|---|---|---|
| `tproxy_clients` | 2 clients, DIRECT with two sockets, Trojan, 2 routes each, 3 tokens | 560,987 | dispatch of readiness through failed sends, failed allocations and expiries, up to token exhaustion; active clients stay |
| `tproxy_replies` | 2 clients for 1 slot, 1 route, 1 peer; 2 DIRECT targets for that peer; 3 sources for 2 reply sockets; a rejected target | 286,492 | limits; only contacted sources speak; idle clients go, however busy the sockets are |
| `socks` | 2 addresses of the client's host and a stranger; a DIRECT and a Trojan target, malformed packets; a queue of 1; bytes and a close on the control connection; polls that fail | 571,384 | pinned by forwarded traffic, replies go to that client only, and never wait without an edge; the association ends for a reason, and when it must |
| `server` | 2 stream listeners, 1 UDP listener, 3 session names, limit 2, 2 retries | 13,347 | exact counter, refinement of `ConnectionLimiter`, a listener that gave up ends the server |
| `dns` | 2 threads, 3 names and a hosts name, 2 entries, 2 resolvers, TTLs of zero, below and above the maximum | 5,489,416 | freshness, capacity, eviction |
| `dot` | 2 threads with 2 lookups each of 2 names; 3 ids, so that they wrap; a silent server; all messages of up to 6 bytes over five representative values, chains of pointers, all lists of up to 3 records and answers that count one too many | 95,301 | session in step, own answers, the lock is given back; names are decoded as written; an answer is what the aliases lead to |
| `session` | 3 listeners, 6 routes, every accepting, refusing and malformed exchange; headers at and over the limit; 2 units up, 1 down, send buffers of 1; ends and resets at any time; failed hand-overs | 152,101 | the tunnel is intact, the client hears one true verdict, one deadline for all addresses, the negotiation ends; then the order of ends, blame, wake-up by errors, ends passed on |
| `tls` | 3 units up, 2 down, 0 or 1 left by the handshakes, buffers of 1, resets, invalid records | 420,066 | closure comes last on both sides, the relay ends |
| `trojan` | 3 frames out of 2 units, 5 in of 1 or 2 or malformed; bursts of 2, a TLS buffer of 2, 2 pending frames or 3 units, a receive buffer of 5 | 286,393 | both streams in order with whole frames; nothing is stuck, but for an edge that a full burst used up |
| `config` | 2 loaders, 2 reloads, 1 reader; three lines that every text needs with up to 3 of all directives, in any order, before or behind them, texts that lack one and texts that are too long; every assignment of tiers; all short matchers, names, block lists and pairs of hosts files | 174,091 | last known good, DNS as written, a flow obeys the text of one snapshot, authority before order, texts mean what they say |

**Pure algorithms.** Four properties compare operators translated from the code with
definitions that say the intended result directly:

* `NamesDecode`: `decode_name` against a reading of the bytes as a path, for every
  message of up to 6 bytes (zero, two lengths that are also letters, a reserved one, a
  pointer) and every offset; it inverts `encode_name`, also behind chains of pointers
  up to one hop too many.
* `AnswerMatchesRecords`: the iterated alias closure against reachability in the
  graph of aliases, for every order of the records, and the counts of a header
  against the limit on records.
* `TextsMeanWhatTheySay`: matchers against label-wise and bit-wise coverage, names up
  to one character too long against their labels, block lists against "some line
  covers it and no exception does", hosts tables against the order of mention, and
  the compiler against what makes a text acceptable.
* `DecidesByAuthority`: the sorted rules and the first match against the least rule
  by tier and position.

**Why the bounds are enough.** The limits of the code are set to between 1 and 6, with
more demand than that. Met and exceeded in some behaviour, or by some input, are the
limits on clients, routes, peers, tokens, reply sockets, queued replies, bursts,
unread control bytes, permits, accept errors, cache entries and TTLs, HTTP heads, pending
frames and bytes, received plaintext, alias and pointer hops, answer records and
addresses, labels and names, and on the length of a configuration, its listeners,
resolvers, endpoints, rules, files and their entries. Not among them are
limits on the bytes of a packet, a DNS message or a file, which the models have at
most as a failure, a Trojan frame larger than the whole TLS buffer, and rustls's own
bound on received plaintext. Two clients or threads are the least that
interfere, and every pair of handlers that share state meets in some interleaving of
two. Id and token spaces are small enough to wrap or to be exhausted. Data is longer
than the buffers between the peers, so that writes are partial and reads leave a
rest. Clocks run past every timeout. Names of 4 characters over two letters and
the dot have every kind of boundary: leading, trailing, doubled, inside a label.

**Fairness.** `tproxy_clients`, `dns` and `config` assume none. For the others:

* the thread of a loop, a handler, a copy, a lookup or the supervisor keeps running
  (weak fairness of its steps): each has an OS thread of its own;
* the clock advances, since `poll` and socket reads have timeouts and
  `Instant::now()` is monotonic; in `Session` a read or write on a socket with a
  timeout ends, which is weak fairness of the handler's own step;
* in the `FairSpec` of the TLS and Trojan modules, peers read what they are sent.
  Without it flow control may block a relay for ever, which is no fault of the
  relay. In `Session` it is a hypothesis (`PeersRead`) of `EofPassedOn` and of the
  part of `NegotiationEnds` about a leftover, whose write to a direct connection has
  no timeout. `ErrorEnds` does not need it, which is the point of `Shutdown::Both`.
* Nothing is assumed of peers *sending*, of servers answering, or of the order in
  which a `Mutex` is granted. `LockReleased` therefore states that the lock is
  released, not that every waiter gets it.

Deadlock is checked in every run.

### Disagreements

Two runs check one statement each of the repository's documents or tests that the
code does not keep. The counterexamples are behaviours of the modelled code;
`PROJECT.json` quotes the statements.

| Run | What happens |
|---|---|
| `tls_upload` | The relay reads one chunk per client event. The rest waits for another event, and is dropped when that event carries the FIN (`tls.rs:427`). |
| `trojan_limits` | A send that finds the rustls buffer full fails with `WriteZero`, below both limits on what may be pending (`trojan_datagram.rs:118`). The rest of its frame stays pending, and `receive` fails in the same way unless there is room by then. |

Three further behaviours are in the models but have no run of their own; the
hazards name them:

* A reply socket whose first `send_to` failed outlives its client. With no client
  left the poll has no timeout, so the socket stays until the next datagram
  (`transparent_udp.rs:408`; ADR-0016 calls the idle lifetime bounded).
* An error on one client's route leaves `serve_forever` through `?` and takes all
  clients with it (`transparent_udp.rs:224`; ADR-0012 says that the affected path
  fails). `ActiveClientsKept` states exactly this exception.
* Frames behind a full burst stay in a stream carrier's buffer with no edge to
  come (`socks5.rs:300`), and when the whole burst was served from that buffer, so
  does what waits in the socket or in rustls. `NothingStuck` states exactly this
  exception.

## 5. Theorems

TLAPS checks these for every value of the constants that satisfies the named
assumptions (finite sets, positive limits, distinct marker values).

* **TransparentUdpProofs** (`ListenerAssumption`, `RouteAssumption`). `TypeCorrect`,
  `NoDanglingToken`, `NoSharedToken`, `AnswersReachClient`, `GoneBranchIsDead`,
  `LimitsHold`, and the action properties `ActiveClientsStay` and
  `SourcesWereContacted`. No one of the dispatch properties is
  inductive. The invariant `IInv` adds that the allocator's next token is above all
  tokens in use (`Fresh`: a new route cannot collide) and that a client outside the
  table owns nothing (`OnlyClients`: a client inserted again starts clean). The
  proof is split into what a drop, a successful send and a failed send do to the
  tables; the actions then only choose among the three.
* **ServerProofs** (`ServerAssumption`). `CounterIsExact`, `LimitHolds` and
  `ImplementsLimiter`, the refinement of `ConnectionLimiter`. The counter and the
  number of permits change together in every atomic step. The limit follows from
  the success of the exchange, not from the earlier load.
* **DnsEngineProofs** (`EngineAssumption`, `NotAnAnswer`). `NeverStale`,
  `NeverOverfull`, `TypeCorrect` and the action property `GoodEntriesStay`. The invariant dates entries: an entry is inserted
  at an instant no later than the one at which its answer was given, because `now`
  is read before the resolver is asked (`Dates`, `Waiting`).
* **DotResolverProofs** (`DotAssumption`). `InSync`, `AnswersAreOwn`, `TypeCorrect`.
  The invariant says that the session carries nothing but the question, or the
  answer, of the lock's holder. Ids play no part, so wrapping does no harm.
* **TcpRelayProofs** (`SndBufAssumption`). `EndOfStreamIsLast` and `FailureNeedsReset`,
  for streams of any length. `EofComesLast` alone is not inductive: a copy also ends
  when its source was shut down for reading, and a write also fails when its sink was
  shut down for writing. Both happen only after the other copy failed (`Unfailed`),
  and a failure needs a reset (`Blamed`) because no socket has a timeout any more
  (`Untimed`). The theorems are about the specification of the relay alone, which
  starts with cleared timeouts; the `session` run checks the same two properties where
  the relay inherits its sockets from a negotiation.
* **Socks5UdpProofs** (`AssociationAssumption`, `RouteAssumption`).
  `RepliesAreTheClients`, `RepliesAreNotStranded`, `TypeCorrect` and the action
  property `NeverEndsEarly`. What holds while the loop sleeps
  must be carried through a wake: an edge of the relay socket is either still armed or
  was reported to this very iteration (`Edged`), interest agrees with the queue until
  replies are received (`Interested`), and the client is pinned exactly when a route
  has a peer, unless the request named it (`Pinned`).
* **TlsRelayProofs** (`RelayAssumption`). `TypeCorrect` and `ClosuresInOrder`, for
  streams and buffers of any size. The property speaks of what was passed on; the
  invariant says where a close_notify can be on its way (last in every queue of its
  direction: `Received`, `Notified`), and that a FIN or a reset is never reported
  without an event on which the relay reads or writes (`Reported`), so that it is not
  taken for a clean end.

Type correctness is proved, in these modules, as part of the invariants.

Only model-checked:

* everything about `Session` beyond the relay, `TrojanDatagram` and
  `Config`;
* all liveness, which is outside what this prover handles, as is `ENABLED`;
* the pure algorithms. What a recursive operator computes for every input needs
  induction over data, which the installed provers cannot instantiate, and a module
  with a recursive operator, or with bitwise conjunction, cannot hold theorems.

`TypeOK` of `TrojanDatagram` and `Config` documents the state and is not listed in a
run.

## 6. Not modelled

* **External parts**, modelled only as the code uses them: the kernel's sockets,
  `mio`/epoll, rustls, the system resolver, `RwLock` and `Mutex` (without
  poisoning).
* **TransparentUdp**: writable edges of a Trojan carrier (see `TrojanDatagram`), a
  reply `send_to` that blocks, a registration that fails for the second of two
  sources.
* **Socks5Udp**: failures of `encode_udp_response` and of `reregister`, which end
  the association as other errors do. Read errors on the control connection count
  as its end.
* **DnsEngine** and **DotResolver**: statistics counters. The answers in
  `DotResolver` are abstract; `DnsWire` has their contents, and the two meet only in
  the run. A label of `DnsWire` holds no literal dot.
* **Session**: the encoding of addresses, which are one unit, and the bytes of
  status lines. Writes are of one unit, so a partly written message is not told
  apart from an unwritten one.
* **TlsRelay**: an interrupted `poll` (which ends the relay), rustls's own bound on
  received plaintext, and the blocking handshake, which is a call of rustls that
  succeeds or fails (`DialProxy` of `Session` has both outcomes).
* **TrojanDatagram**: an output buffer that is too small (callers pass the largest
  packet), the overflow of `pending_bytes`, which the limit forestalls, invalid TLS
  records, which fail the execution as a reset does, rustls's own bound on received
  plaintext, and the bytes of the encoding. The verifier and the TCP preface of
  `trojan.rs` are computed once and have no state.
* **Config**: splitting a line into fields, the syntax of addresses and
  identifiers, the statistics of a block list. `ConfigStore::reload` is a public
  interface; the daemon's command line itself loads a configuration once.
* The platform probe, the command line, the scripts and the eBPF placeholder have
  no state of the program to model.
