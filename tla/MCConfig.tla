------------------------------ MODULE MCConfig ------------------------------
(***************************************************************************)
(* Small instances of Config: the texts a reload may be handed, the files  *)
(* they name and the flows a server may be asked to carry.  What matchers  *)
(* and files mean is checked over all bounded inputs before the first      *)
(* reload.                                                                 *)
(***************************************************************************)
EXTENDS Config

Line(op, name, arg) == [op |-> op, name |-> name, arg |-> arg]
Match(on, value) == [on |-> on, value |-> value]
FileLine(form, names, address) == [form |-> form, names |-> names, address |-> address]

Zone == <<"a">>
Host == <<"b", ".", "a">>

(* The store starts with a proxy, which a reload may take away. *)
FirstLines ==
  <<Line("version", "1", None), Line("listen", "socks5", "loopback"),
    Line("endpoint", "p", "socks5"), Line("default", "p", None)>>

(* Every directive, with values that are refused as well. *)
MoreLines ==
  {Line("version", "1", None), Line("listen", "http", "loopback"),
   Line("listen", "tproxy-udp", "loopback"), Line("listen", "tproxy-udp", "lan"),
   Line("allow-public-listen", "false", None), Line("allow-public-listen", "true", None),
   Line("resolver", "system", None), Line("resolver", "dot", None), Line("resolver", "dot2", None),
   Line("hosts", "hosts", None), Line("hosts", "more", None), Line("hosts", "list", None),
   Line("endpoint", "p", "trojan-tls"), Line("endpoint", "p", "trojan"), Line("endpoint", "q", "socks5"),
   Line("rule", "reject", Match("domain-suffix", Host)),
   Line("rule", "p", Match("transport", "udp")), Line("rule", "direct", Match("port", 0)),
   Line("blocklist", "list", None), Line("blocklist", "bad", None), Line("unknown", None, None)}

(* What every text needs, with up to three more lines behind or before it; *)
(* texts that lack some of it, and one that is too long.                   *)
Core(default) ==
  <<Line("version", "1", None), Line("listen", "socks5", "loopback"), Line("default", default, None)>>
TooLong ==
  Core("direct") \o <<Line("hosts", "hosts", None), Line("hosts", "more", None),
                     Line("resolver", "dot", None), Line("resolver", "system", None)>>
ManyTexts ==
  {Core("direct") \o more : more \in BoundedSeq(MoreLines, 3)}
    \cup {more \o Core("p") : more \in BoundedSeq(MoreLines, 3)}
    \cup {Remove(Core("direct"), l) : l \in Range(Core("direct"))} \cup {TooLong}

(* A second reload: another proxy under the old name, and a text that is   *)
(* refused.                                                                *)
FewTexts ==
  {<<Line("hosts", "hosts", None)>> \o Core("p")
     \o <<Line("endpoint", "p", "http-tls"), Line("resolver", "system", None)>>, Core("p")}
ReloadTexts == <<ManyTexts, FewTexts>>

LoaderSymmetry == Permutations(Loaders)

SomeFiles ==
  [list  |-> <<FileLine("suffix", <<Zone>>, None), FileLine("allow", <<Host>>, None)>>,
   bad   |-> <<FileLine("plain", <<Zone, Host>>, None)>>,
   hosts |-> <<FileLine("hosts", <<Zone, Host>>, "x"), FileLine("hosts", <<<<"A", ".">>>>, "y")>>,
   more  |-> <<FileLine("hosts", <<Zone>>, "y"), FileLine("hosts", <<Zone, Host>>, "z")>>]

Domain(name) == [kind |-> "domain", name |-> name]
SomeFlows ==
  {NewFlow(Domain(Zone), 1, "tcp"), NewFlow(Domain(Host), 1, "udp")}

PublicAddresses == {"lan"}
FileLimits == [op \in {"blocklist", "hosts"} |-> IF op = "hosts" THEN 2 ELSE 1]
Widths == [kind \in {"v4", "v6"} |-> IF kind = "v4" THEN 2 ELSE 3]
-----------------------------------------------------------------------------
(* All short names as listeners hand them over, and all short matchers.    *)
FlowNames == {n \in BoundedSeq({"a", "b", "."}, 4) : n # <<>> /\ trim_end_matches(n) = n}
AllAddresses == UNION {[kind : {k}, bits : 0..(2^WIDTH[k] - 1)] : k \in DOMAIN WIDTH}
AllFlows == {NewFlow(h, 1, "tcp") : h \in {Domain(n) : n \in FlowNames} \cup AllAddresses}
IdentifiedFlows == {[f EXCEPT !.uid = "root", !.package = "app"] : f \in SomeFlows}
AllMatchers ==
  [on : {"domain-exact", "domain-suffix"}, value : BoundedSeq({"a", "A", "b", "."}, 3)]
    \cup [on : {"cidr"}, value : [address : AllAddresses, prefix : 0..4]]
    \cup [on : {"ip"}, value : AllAddresses] \cup [on : {"port"}, value : 0..2]
    \cup [on : {"transport"}, value : {"tcp", "udp"}] \cup {Match("any", None)}

(* Composite matchers, which only an embedder writes, are duals of each    *)
(* other, empty ones included.                                             *)
Parts == {Match("any", None), Match("uid", "root"), Match("package", "app"), Match("network", "wifi"),
          Match("domain-suffix", Host), Match("transport", "udp")}
Inverted(s) == [i \in DOMAIN s |-> Match("not", <<s[i]>>)]

MatchersAgree ==
  /\ \A m \in AllMatchers : \A p \in parse_matcher(m), f \in AllFlows : matches(p, f) <=> Covers(m, f)
  /\ \A s \in BoundedSeq(Parts, 2), f \in SomeFlows \cup IdentifiedFlows :
       /\ matches(Match("not", <<Match("any-of", s)>>), f) <=> matches(Match("all", Inverted(s)), f)
       /\ matches(Match("all", s), f) <=> Len(SelectSeq(s, LAMBDA m : matches(m, f))) = Len(s)

(* Names up to one character too long: what lies between two dots, or a    *)
(* dot and an end, is a label.                                             *)
ValidName(n) ==
  /\ Len(n) \in 1..MAX_DOMAIN_LENGTH
  /\ \A i \in 1..(Len(n) + 1) : \A j \in (i - 1)..Len(n) :
       /\ i = 1 \/ n[i - 1] = "."
       /\ j = Len(n) \/ n[j + 1] = "."
       /\ \A k \in i..j : n[k] # "."
       => j - i + 1 \in 1..MAX_LABEL
NamesAgree ==
  \A n \in BoundedSeq({"a", "A", "."}, MAX_DOMAIN_LENGTH + 1) :
    normalize_domain(n) = {m \in {Plain(n)} : ValidName(m)}

(* All short block lists, and pairs of hosts files. *)
Spellings == {Zone, Host, <<"b", "a">>, <<".", "A", ".">>, <<"a", ".", ".", "b">>}
ListLines ==
  [form : {"allow", "suffix", "plain", "hosts"}, names : {<<t>> : t \in Spellings}, address : {None}]
    \cup {FileLine("comment", <<>>, None), FileLine("plain", <<Zone, Host>>, None),
          FileLine("hosts", <<Zone, Host>>, None), FileLine("hosts", <<Localhost, Zone>>, None),
          FileLine("hosts", <<Localhost>>, None)}
HostLines ==
  [form : {"hosts"}, names : {<<Zone>>, <<Host, Zone>>, <<<<".", "A", ".">>>>, <<<<>>>>, <<>>}, address : {"x", "y"}]
    \cup {FileLine("comment", <<>>, None), FileLine("plain", <<Zone>>, None)}
SomeNames == {Zone, Host, <<"b", "a">>, <<"b", ".", "b", "a">>, <<"a", ".", "b", ".", "a">>,
              <<"b", "b">>, <<"a", ".", "b">>, <<"b", "b", ".", "a">>}

(* What a block list or a hosts file may not hold. *)
BadLine(line) ==
  \/ \E n \in Listed(line) : n = <<>> \/ \E i \in 1..(Len(n) - 1) : n[i] = "." /\ n[i + 1] = "."
  \/ line.form \in {"plain", "hosts"} /\ Cardinality(Listed(line)) > 1
Counted(file) == Cardinality({i \in DOMAIN file : Listed(file[i]) # {}})

ListsAgree ==
  \A file \in BoundedSeq(ListLines, 3) :
    LET compiled == compile_blocklist(file)
    IN  /\ compiled = {} <=> Counted(file) > MAX_BLOCKLIST_ENTRIES \/ \E i \in DOMAIN file : BadLine(file[i])
        /\ \A f \in compiled, n \in SomeNames : is_blocked(f, n) <=> Blocks(file, n)

BadHosts(file) ==
  \/ Len(FlattenSeq([i \in DOMAIN file |-> file[i].names])) > MAX_HOSTS_ENTRIES
  \/ \E i \in DOMAIN file : \/ file[i].form = "plain" \/ <<>> \in ToSet(file[i].names)
                            \/ file[i].form = "hosts" /\ file[i].names = <<>>

HostsAgree ==
  /\ \A f \in BoundedSeq(HostLines, 2) : parse_hosts(f) = {} <=> BadHosts(f)
  /\ \A f, g \in BoundedSeq(HostLines, 2) : \A t \in parse_hosts(f), u \in parse_hosts(g) :
       merge(t, u) = [n \in DOMAIN t \cup DOMAIN u |-> Addresses(<<f, g>>, n)]

(* A text is refused only if it is not acceptable, or a file is missing. *)
TextsTaken ==
  \A n \in DOMAIN Texts : \A text \in Texts[n] :
    Acceptable(text) => parse_config_at(text, TRUE) # {}

BeforeReloads == reloads = 0 /\ active = First

(* A configuration means what its texts say.  A rule covers names at a     *)
(* label boundary and without regard to case, and networks by exactly the  *)
(* bits of their prefix, 0 and the whole width included (parse_rule, then  *)
(* Matcher::matches, domain_matches_suffix, IpCidr::contains).  A block    *)
(* list blocks exactly the names that some line covers and no exception    *)
(* does, whatever the order and the repetition of its lines, and a merged  *)
(* hosts table gives each name its addresses in order of mention; a file   *)
(* with a name that is too long or a line that is not understood is        *)
(* refused as a whole (compile_blocklist, DomainFilter::is_blocked,        *)
(* HostsTable::merge).  And no acceptable text is refused                  *)
(* (parse_config_at).                                                      *)
TextsMeanWhatTheySay ==
  BeforeReloads => MatchersAgree /\ NamesAgree /\ ListsAgree /\ HostsAgree /\ TextsTaken
=============================================================================
