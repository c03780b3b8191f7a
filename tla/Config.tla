------------------------------- MODULE Config -------------------------------
(***************************************************************************)
(* The configuration compiler and store of the daemon (config.rs) and what *)
(* a flow does with the snapshot it runs under (proxy.rs, outbound.rs).    *)
(*                                                                         *)
(* A text is a sequence of lines [op, name, arg].  A loader is a thread    *)
(* inside ConfigStore::reload: it compiles its candidate outside the lock, *)
(* touching nothing that others see, then takes the lock and swaps it in.  *)
(* A reader is a server that took one snapshot and sends flows through its *)
(* runtime, its DNS chain and its outbound registry.                       *)
(*                                                                         *)
(* The field "text" of a draft is history: it is what the properties       *)
(* compare the compiled parts with, and no operation reads it.             *)
(***************************************************************************)
EXTENDS Policy, Assets

CONSTANTS
  Loaders, Readers,   \* threads in ConfigStore::reload, and snapshot holders
  FirstText,          \* the text the store was created with
  Texts,              \* Texts[n]: what the n-th call of reload may be given;
                      \* bound: there are Len(Texts) calls
  Flows,              \* the flows a reader may be asked to carry
  Public,             \* listener addresses that are not loopback
  Files,              \* Files[path]: the lines of a block list or hosts file
  MAX_LISTENERS, MAX_RULES, MAX_PROXY_ENDPOINTS, MAX_DNS_RESOLVERS,
  MAX_FILES,          \* MAX_FILES[op]: MAX_BLOCKLISTS and MAX_HOSTS_FILES
  MAX_CONFIG_BYTES    \* in lines

VARIABLES
  active,    \* ConfigStore.active: the compiled configuration in force
  pc,        \* where each loader and reader is
  draft,     \* draft[t]: the candidate loader t has compiled
  reloads,   \* calls to reload so far
  snap,      \* snap[r]: the configuration reader r runs under
  flow,      \* flow[r]: the flow reader r carries
  action,    \* action[r]: what its plan said
  egress     \* egress[r]: how it left the process

vars == <<active, pc, draft, reloads, snap, flow, action, egress>>

Empty == [version |-> FALSE, public |-> None, listeners |-> <<>>,
          resolvers |-> <<>>, endpoints |-> <<>>, refs |-> {},
          default |-> None, rules |-> <<>>, files |-> {}, hosts |-> NoHosts, text |-> <<>>]

(* One configuration line is handled by one arm of the match: the result   *)
(* is the set of drafts it may leave, and the empty set is an early Err.   *)
When(ok, d) == IF ok THEN {d} ELSE {}
Unused(seq, key) == \A i \in DOMAIN seq : seq[i] # key
-----------------------------------------------------------------------------
(* parse_action: "direct" and "reject" name no endpoint. *)
proxy_ref(act) == {act} \ {"direct", "reject"}

VersionLine(d, l) ==
  When(l.name = "1" /\ ~d.version, [d EXCEPT !.version = TRUE])

AllowPublicLine(d, l) ==
  When(d.public = None /\ l.name \in {"true", "false"},
       [d EXCEPT !.public = l.name])

(* Two listeners may share an address only across UDP and TCP. *)
ListenLine(d, l) ==
  LET key == <<l.name = "tproxy-udp", l.arg>>
  IN  When(Len(d.listeners) < MAX_LISTENERS /\ Unused(d.listeners, key),
           [d EXCEPT !.listeners = Append(@, key)])

ResolverLine(d, l) ==
  When(Len(d.resolvers) < MAX_DNS_RESOLVERS /\ Unused(d.resolvers, l.name),
       [d EXCEPT !.resolvers = Append(@, l.name)])

EndpointKinds == {"socks5", "socks5-tls", "http", "http-tls", "trojan-tls"}

(* arg is the protocol and its transport; Trojan is accepted over TLS only *)
(* and is the one that comes with a datagram provider.                     *)
EndpointLine(d, l) ==
  When(/\ Len(d.endpoints) < MAX_PROXY_ENDPOINTS
       /\ \A i \in DOMAIN d.endpoints : d.endpoints[i].id # l.name
       /\ l.arg \in EndpointKinds,
       [d EXCEPT !.endpoints = Append(@, [id |-> l.name, kind |-> l.arg])])

DefaultLine(d, l) ==
  When(d.default = None,
       [d EXCEPT !.default = l.name, !.refs = @ \cup proxy_ref(l.name)])

(* ensure_rule_capacity, then a rule with the next id. *)
PushRule(d, matcher, act) ==
  When(Len(d.rules) < MAX_RULES,
       [d EXCEPT !.rules = Append(@, [id |-> Len(d.rules) + 1,
                                      tier |-> "UserHard",
                                      matcher |-> matcher, action |-> act])])

(* load_blocklist and load_hosts: the file may be missing or too large, or *)
(* not compile.  Repeated paths are refused before that.                   *)
AssetLoads == BOOLEAN
AssetLine(d, l, loads) ==
  UNION {IF l.op = "blocklist"
         THEN UNION {PushRule(e, [on |-> "filter", value |-> f], "reject") :
                       f \in compile_blocklist(Files[l.name])}
         ELSE {[e EXCEPT !.hosts = merge(@, t)] : t \in parse_hosts(Files[l.name])} :
           e \in When(/\ Cardinality({f \in d.files : f[1] = l.op}) < MAX_FILES[l.op]
                      /\ <<l.op, l.name>> \notin d.files
                      /\ loads,
                      [d EXCEPT !.files = @ \cup {<<l.op, l.name>>}])}

(* normalize_domain of config.rs does not check the labels of a name. *)
normalize_matcher(text) ==
  {name \in {lower(trim_matches(text))} : Len(name) \in 1..MAX_DOMAIN_LENGTH}

(* The matcher of parse_rule, as a set of at most one: networks are masked *)
(* and port 0 is refused.                                                  *)
parse_matcher(m) ==
  CASE m.on \in {"domain-exact", "domain-suffix"} ->
         {[on |-> m.on, value |-> n] : n \in normalize_matcher(m.value)}
    [] m.on = "cidr" -> {[on |-> "cidr", value |-> c] : c \in parse_cidr(m.value.address, m.value.prefix)}
    [] m.on = "port" -> When(m.value # 0, m)
    [] OTHER         -> {m}

RuleLine(d, l) ==
  {[e EXCEPT !.refs = @ \cup proxy_ref(l.name)] :
     e \in UNION {PushRule(d, m, l.name) : m \in parse_matcher(l.arg)}}

(* The body of the loop over the lines.  Every other directive, and every  *)
(* line with a malformed field, is an error.                               *)
Compile(d, l, loads) ==
  LET next ==
    CASE l.op = "version"  -> VersionLine(d, l)
      [] l.op = "allow-public-listen" -> AllowPublicLine(d, l)
      [] l.op = "listen"   -> ListenLine(d, l)
      [] l.op = "resolver" -> ResolverLine(d, l)
      [] l.op = "endpoint" -> EndpointLine(d, l)
      [] l.op = "default"  -> DefaultLine(d, l)
      [] l.op \in {"blocklist", "hosts"} -> AssetLine(d, l, loads)
      [] l.op = "rule"     -> RuleLine(d, l)
      [] OTHER             -> {}
  IN  {[e EXCEPT !.text = Append(@, l)] : e \in next}
-----------------------------------------------------------------------------
(* Plausible faults of the checks on the whole candidate. *)
AnyOptIn(d) == \A i \in DOMAIN d.listeners : d.listeners[i][2] \in Public => d.public # None
AlwaysSystem(d) == Append(SelectSeq(d.resolvers, LAMBDA r : r # "system"), "system")
-----------------------------------------------------------------------------
(* Non-loopback listeners need `allow-public-listen true`, wherever in the *)
(* text it stands.                                                         *)
PublicAllowed(d) ==
  d.public # "true" => \A i \in DOMAIN d.listeners : d.listeners[i][2] \notin Public

(* OutboundRegistry::new refuses a repeated id and Trojan without TLS;     *)
(* then every endpoint the policy mentions must be in the registry.        *)
Ids(d) == {d.endpoints[i].id : i \in DOMAIN d.endpoints}
RegistryAccepts(d) ==
  /\ Cardinality(Ids(d)) = Len(d.endpoints)
  /\ \A i \in DOMAIN d.endpoints : d.endpoints[i].kind # "trojan"
ReferencesDefined(d) == d.refs \subseteq Ids(d)

(* The checks between the loop and the construction of CompiledConfig. *)
Complete(d) ==
  /\ d.version
  /\ d.listeners # <<>>
  /\ PublicAllowed(d)
  /\ d.default # None
  /\ RegistryAccepts(d)
  /\ ReferencesDefined(d)

(* The resolver chain of the DNS engine: the system resolver stands in     *)
(* only when no resolver is configured at all.                             *)
Chain(d) == IF d.resolvers = <<>> THEN <<"system">> ELSE d.resolvers

(* CompiledConfig. *)
Build(d) ==
  [listeners |-> d.listeners, chain |-> Chain(d), hosts |-> d.hosts, default |-> d.default,
   rules |-> Compiled(d.rules), endpoints |-> d.endpoints, text |-> d.text]

(* parse_config_at: the candidates a text may compile to, none if any line *)
(* is refused or the whole is not complete.                                *)
parse_config_at(text, loads) ==
  LET After(drafts, l) == UNION {Compile(d, l, loads) : d \in drafts}
  IN  {d \in FoldLeft(After, {Empty}, text) : Len(text) <= MAX_CONFIG_BYTES /\ Complete(d)}

(* The configuration the store was created with. *)
First == Build(CHOOSE d \in parse_config_at(FirstText, TRUE) : TRUE)

(* OutboundRegistry::connect_tcp and open_datagram: the endpoint a flow    *)
(* leaves by, or why there is none.  Every protocol carries TCP; only an   *)
(* endpoint with a datagram provider carries UDP.                          *)
kinds(registry, act) == {registry[i].kind : i \in {j \in DOMAIN registry : registry[j].id = act}}
connect_tcp(registry, act) ==
  IF act = "direct" \/ kinds(registry, act) # {} THEN act ELSE "unregistered"
open_datagram(registry, act) ==
  CASE act = "direct" -> act
    [] act # "direct" /\ kinds(registry, act) = {} -> "unregistered"
    [] act # "direct" /\ "trojan-tls" \in kinds(registry, act) -> act
    [] OTHER -> "unsupported"
Attempt(registry, act, transport) ==
  IF transport = "tcp" THEN connect_tcp(registry, act) ELSE open_datagram(registry, act)
-----------------------------------------------------------------------------
Init ==
  /\ active = First
  /\ pc = [t \in Loaders \cup Readers |-> "idle"]
  /\ draft = [t \in Loaders |-> Empty]
  /\ reloads = 0
  /\ snap = [r \in Readers |-> First]
  /\ flow = [r \in Readers |-> None]
  /\ action = [r \in Readers |-> None]
  /\ egress = [r \in Readers |-> None]

reading == <<snap, flow, action, egress>>

(* reload compiles its text, and returns Err if it is refused. *)
Reload(t) ==
  /\ pc[t] = "idle" /\ reloads < Len(Texts)
  /\ reloads' = reloads + 1
  /\ \E text \in Texts[reloads + 1], loads \in AssetLoads :
       LET candidates == parse_config_at(text, loads)
       IN  \/ candidates = {} /\ UNCHANGED <<pc, draft>>
           \/ \E d \in candidates : /\ draft' = [draft EXCEPT ![t] = d]
                                    /\ pc' = [pc EXCEPT ![t] = "install"]
  /\ UNCHANGED <<active, reading>>

(* The write lock is taken and the candidate becomes the active snapshot. *)
Install(t) ==
  /\ pc[t] = "install"
  /\ active' = Build(draft[t])
  /\ pc' = [pc EXCEPT ![t] = "idle"]
  /\ draft' = [draft EXCEPT ![t] = Empty]
  /\ UNCHANGED <<reloads, reading>>

(* ConfigStore::snapshot, and Server::bind on it. *)
Snapshot(r) ==
  /\ pc[r] \in {"idle", "done"}
  /\ snap' = [snap EXCEPT ![r] = active]
  /\ pc' = [pc EXCEPT ![r] = "serve"]
  /\ flow' = [flow EXCEPT ![r] = None]
  /\ action' = [action EXCEPT ![r] = None]
  /\ egress' = [egress EXCEPT ![r] = None]
  /\ UNCHANGED <<active, draft, reloads>>

(* A plausible fault: the registry of the store instead of the snapshot's. *)
ExecuteOnActive(r) ==
  /\ pc[r] = "planned"
  /\ \E out \in {"failed", Attempt(active.endpoints, action[r], flow[r].transport)} :
       egress' = [egress EXCEPT ![r] = out]
  /\ pc' = [pc EXCEPT ![r] = "done"]
  /\ UNCHANGED <<active, draft, reloads, snap, flow, action>>

(* proxy::plan_action on a new flow.  A rejected flow ends here. *)
PlanFlow(r) ==
  /\ pc[r] \in {"serve", "done"}
  /\ \E f \in Flows :
       LET act == decide(snap[r].rules, snap[r].default, f).action
       IN  /\ flow' = [flow EXCEPT ![r] = f]
           /\ action' = [action EXCEPT ![r] = act]
           /\ egress' = [egress EXCEPT ![r] = IF act = "reject" THEN "reject" ELSE None]
           /\ pc' = [pc EXCEPT ![r] = IF act = "reject" THEN "done" ELSE "planned"]
  /\ UNCHANGED <<active, draft, reloads, snap>>

(* connect_tcp or open_datagram on the planned endpoint; the network, the  *)
(* DNS or the handshake may fail, and nothing is tried in its place.       *)
Execute(r) ==
  /\ pc[r] = "planned"
  /\ \E out \in {"failed", Attempt(snap[r].endpoints, action[r], flow[r].transport)} :
       egress' = [egress EXCEPT ![r] = out]
  /\ pc' = [pc EXCEPT ![r] = "done"]
  /\ UNCHANGED <<active, draft, reloads, snap, flow, action>>

Next ==
  \/ \E t \in Loaders : Reload(t) \/ Install(t)
  \/ \E r \in Readers : Snapshot(r) \/ PlanFlow(r) \/ Execute(r)

Spec == Init /\ [][Next]_vars
-----------------------------------------------------------------------------
(* What a text says, read without the compiler. *)
With(text, op) == SelectSeq(text, LAMBDA l : l.op = op)
Says(text, op, name) == \E i \in DOMAIN text : text[i].op = op /\ text[i].name = name
(* The same for names and addresses: a name is under a zone if it is the   *)
(* zone or ends with a dot and the zone, and two addresses are in the same *)
(* network if the bits before the prefix agree.                            *)
Plain(name) == lower(trim_matches(name))
Under(name, zone) == name = zone \/ IsSuffix(<<".">> \o zone, name)
Covers(m, f) ==
  LET named == f.host.kind = "domain"
      name  == lower(trim_end_matches(f.host.name))
      host(a, prefix) == a.bits \div 2^(WIDTH[a.kind] - prefix)
  IN  CASE m.on = "any"           -> TRUE
        [] m.on = "transport"     -> f.transport = m.value
        [] m.on = "port"          -> f.port = m.value
        [] m.on = "domain-exact"  -> named /\ name = Plain(m.value)
        [] m.on = "domain-suffix" -> named /\ Under(name, Plain(m.value))
        [] m.on = "ip"            -> ~named /\ f.host = m.value
        [] m.on = "cidr"          -> /\ f.host.kind = m.value.address.kind
                                     /\ host(f.host, m.value.prefix) = host(m.value.address, m.value.prefix)

(* What a block list says of a name: some line blocks it, none excepts it. *)
Listed(line) == {Plain(n) : n \in {x \in ToSet(line.names) : lower(x) # Localhost}}
Blocks(file, name) ==
  /\ \E i \in DOMAIN file : \E n \in Listed(file[i]) :
       IF file[i].form = "suffix" THEN Under(name, n) ELSE file[i].form \in {"plain", "hosts"} /\ name = n
  /\ ~\E i \in DOMAIN file : file[i].form = "allow" /\ \E n \in Listed(file[i]) : Under(name, n)

(* What hosts files say of a name: each address once, in order of mention. *)
Addresses(files, name) ==
  LET lines == SelectSeq(FlattenSeq(files), LAMBDA l : \E i \in DOMAIN l.names : Plain(l.names[i]) = name)
      first == {i \in DOMAIN lines : \A j \in 1..(i - 1) : lines[j].address # lines[i].address}
  IN  [i \in 1..Cardinality(first) |->
         lines[CHOOSE j \in first : Cardinality({k \in first : k <= j}) = i].address]

Deciders(text, f) ==
  {i \in DOMAIN text :
     \/ text[i].op = "rule" /\ Covers(text[i].arg, f)
     \/ /\ text[i].op = "blocklist" /\ f.host.kind = "domain"
        /\ Blocks(Files[text[i].name], f.host.name)}
Prescribed(text, f) ==
  LET hits == Deciders(text, f)
      l    == IF hits = {} THEN With(text, "default")[1]
              ELSE text[CHOOSE i \in hits : \A j \in hits : i <= j]
      act  == IF l.op = "blocklist" THEN "reject" ELSE l.name
  IN  IF /\ f.transport = "udp" /\ act \notin {"direct", "reject"}
         /\ ~\E i \in DOMAIN text : text[i] = [op |-> "endpoint", name |-> act, arg |-> "trojan-tls"]
      THEN "unsupported" ELSE act

Snapshots == {active} \cup {snap[r] : r \in Readers}

(* The threads, and what each of them holds. *)
TypeOK ==
  /\ pc \in [Loaders \cup Readers -> {"idle", "install", "serve", "planned", "done"}]
  /\ reloads \in 0..Len(Texts)
  /\ \A t \in Loaders : pc[t] = "idle" <=> draft[t] = Empty

(* A text that is acceptable as a whole, wherever its lines stand.         *)
Repeated(text, op) ==
  \E i, j \in DOMAIN text : i # j /\ text[i].op = op /\ text[j].op = op /\ text[i].name = text[j].name
Mentioned(text) == {text[i].name : i \in {j \in DOMAIN text : text[j].op \in {"rule", "default"}}}
Understood(l) ==
  CASE l.op = "version"             -> l.name = "1"
    [] l.op = "allow-public-listen" -> l.name \in {"true", "false"}
    [] l.op = "endpoint"            -> l.arg \in EndpointKinds
    [] l.op = "rule"                -> l.arg # [on |-> "port", value |-> 0]
    [] l.op = "blocklist"           -> compile_blocklist(Files[l.name]) # {}
    [] l.op = "hosts"               -> parse_hosts(Files[l.name]) # {}
    [] OTHER                        -> l.op \in {"listen", "resolver", "default"}
Acceptable(text) ==
  LET count(op) == Len(With(text, op))
      listen    == With(text, "listen")
      udp(l)    == l.name = "tproxy-udp"
  IN  /\ Len(text) <= MAX_CONFIG_BYTES /\ \A i \in DOMAIN text : Understood(text[i])
      /\ count("version") = 1 /\ count("default") = 1 /\ count("allow-public-listen") <= 1
      /\ count("listen") \in 1..MAX_LISTENERS /\ count("resolver") <= MAX_DNS_RESOLVERS
      /\ count("endpoint") <= MAX_PROXY_ENDPOINTS /\ count("rule") + count("blocklist") <= MAX_RULES
      /\ \A op \in DOMAIN MAX_FILES : count(op) <= MAX_FILES[op]
      /\ \A op \in {"resolver", "endpoint"} \cup DOMAIN MAX_FILES : ~Repeated(text, op)
      /\ \A i, j \in DOMAIN listen : listen[i].arg = listen[j].arg /\ udp(listen[i]) = udp(listen[j]) => i = j
      /\ (\E i \in DOMAIN listen : listen[i].arg \in Public) => Says(text, "allow-public-listen", "true")
      /\ \A act \in Mentioned(text) \ {"direct", "reject"} : \E i \in DOMAIN text :
           text[i].op = "endpoint" /\ text[i].name = act

(* The configuration in force, and every snapshot a server still runs      *)
(* under, comes from a text that is acceptable as a whole: no directive    *)
(* too many, too few or twice, a public listener only if the text opts in, *)
(* no endpoint mentioned that is not declared, whichever comes first.  A   *)
(* reload that failed, before or after others succeeded or while they were *)
(* under way, leaves no trace (ConfigStore::reload, parse_config_at).      *)
LastKnownGood == \A c \in Snapshots : Acceptable(c.text)

(* A DNS engine asks exactly the resolvers its text lists, in that order,  *)
(* and the system resolver only if the text lists none; and it answers     *)
(* from its hosts table exactly the names that the listed files hold, with *)
(* their addresses in order of mention (the DnsEngine built at the end of  *)
(* parse_config_at, HostsTable::parse and merge).                          *)
DnsAsWritten ==
  \A c \in Snapshots :
    LET listed == With(c.text, "resolver")
        hosts  == With(c.text, "hosts")
        files  == [i \in DOMAIN hosts |-> Files[hosts[i].name]]
        names  == UNION {{Plain(n) : n \in ToSet(l.names)} : l \in ToSet(FlattenSeq(files))}
    IN  /\ c.chain = IF listed = <<>> THEN <<"system">>
                     ELSE [i \in DOMAIN listed |-> listed[i].name]
        /\ c.hosts = [n \in names |-> Addresses(files, n)]

(* A finished flow left by the endpoint that the first line of its own     *)
(* snapshot's text to match it prescribes, or it failed: a rejected or     *)
(* proxied flow never leaves directly, a planned proxy is always in the    *)
(* registry, declared before or after the rule that names it, and a reload *)
(* between plan and connection does not redirect a flow (plan_action,      *)
(* connect_tcp, open_datagram, the check of referenced_endpoints).         *)
PolicyObeyed ==
  \A r \in Readers :
    pc[r] = "done" => egress[r] \in {"failed", Prescribed(snap[r].text, flow[r])}

(* However the rules of a candidate are tiered, no decision is overruled   *)
(* by a stronger or an earlier rule (PolicyEngine::new, then decide): the  *)
(* chosen rule matches, every rule of a stronger tier does not, nor does   *)
(* an earlier one of its own tier, and the default acts only when nothing  *)
(* matches.                                                                *)
DecidesByAuthority ==
  \A t \in Loaders : pc[t] = "install" =>
    \A tier \in [DOMAIN draft[t].rules -> Range(Tiers)], f \in Flows :
      LET rules == [i \in DOMAIN tier |-> [draft[t].rules[i] EXCEPT !.tier = tier[i]]]
          d     == decide(Compiled(rules), draft[t].default, f)
          hits  == {i \in DOMAIN rules : matches(rules[i].matcher, f)}
      IN  IF hits = {} THEN d.rule = 0
          ELSE /\ d.rule \in hits
               /\ \A i \in hits : \/ rank(d.tier) < rank(rules[i].tier)
                                  \/ d.tier = rules[i].tier /\ d.rule <= i
=============================================================================
