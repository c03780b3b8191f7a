------------------------------- MODULE Policy -------------------------------
(***************************************************************************)
(* The policy engine of commeatus-core (policy.rs, runtime.rs): rules are  *)
(* precedence-compiled once, then a flow takes the first rule it matches.  *)
(*                                                                         *)
(* A flow is [uid, package, network, host, port, transport]; its host is a *)
(* domain [kind, name] or an address [kind, bits].  A matcher is           *)
(* [on, value], and the value of a composite one is a sequence.            *)
(***************************************************************************)
EXTENDS Cidr, DomainSet

(* PolicyTier and its rank: the smaller, the stronger. *)
Tiers == <<"UserHard", "Safety", "Compatibility", "Adaptive", "Default">>
rank(tier) == CHOOSE i \in DOMAIN Tiers : Tiers[i] = tier

None == "none"   \* an absent option

(* Target::flow: the daemon knows neither the process nor the network. *)
NewFlow(host, port, transport) ==
  [uid |-> None, package |-> None, network |-> "unknown",
   host |-> host, port |-> port, transport |-> transport]

(* Matcher::matches.  Domain matchers never match an address, and address  *)
(* matchers never match a name.                                            *)
RECURSIVE matches(_, _)
matches(m, flow) ==
  LET named == flow.host.kind = "domain"
  IN  CASE m.on = "any" -> TRUE
        [] m.on \in {"uid", "package", "network", "transport", "port"} -> flow[m.on] = m.value
        [] m.on = "domain-exact"  -> named /\ lower(flow.host.name) = lower(m.value)
        [] m.on = "domain-suffix" -> named /\ domain_matches_suffix(flow.host.name, m.value)
        [] m.on = "filter" -> named /\ is_blocked(m.value, flow.host.name)
        [] m.on = "ip"     -> ~named /\ flow.host = m.value
        [] m.on = "cidr"   -> ~named /\ contains(m.value, flow.host)
        [] m.on = "all"    -> \A i \in DOMAIN m.value : matches(m.value[i], flow)
        [] m.on = "any-of" -> \E i \in DOMAIN m.value : matches(m.value[i], flow)
        [] m.on = "not"    -> ~matches(m.value[1], flow)
-----------------------------------------------------------------------------
(* A plausible fault of precedence compilation. *)
Unsorted(rules) == rules
-----------------------------------------------------------------------------
(* PolicyEngine::new: a stable sort of the rules by tier rank. *)
Compiled(rules) ==
  LET Of(i) == SelectSeq(rules, LAMBDA r : rank(r.tier) = i)
  IN  FlattenSeq([i \in DOMAIN Tiers |-> Of(i)])

(* The position `find` stops at, as a set of at most one element. *)
FirstMatch(rules, flow) ==
  {i \in DOMAIN rules : /\ matches(rules[i].matcher, flow)
                        /\ \A j \in 1..i-1 : ~matches(rules[j].matcher, flow)}

(* PolicyEngine::decide over compiled rules, and Runtime::plan: rule 0     *)
(* stands for "no rule", the default action.                               *)
decide(compiled, default, flow) ==
  LET hit == FirstMatch(compiled, flow)
  IN  IF hit = {}
      THEN [rule |-> 0, tier |-> "Default", action |-> default]
      ELSE LET r == compiled[CHOOSE i \in hit : TRUE]
           IN  [rule |-> r.id, tier |-> r.tier, action |-> r.action]
=============================================================================
