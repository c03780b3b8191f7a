------------------------------- MODULE Assets -------------------------------
(***************************************************************************)
(* The files a configuration names: block lists (crates/compat/src/lib.rs) *)
(* and hosts files (HostsTable of crates/dns/src/lib.rs).  A file is a     *)
(* sequence of lines [form, names, address]; fields that are not names are *)
(* abstracted to what the parsers tell apart.                              *)
(***************************************************************************)
EXTENDS DomainSet

CONSTANTS MAX_BLOCKLIST_ENTRIES, MAX_HOSTS_ENTRIES

Localhost == <<"b", "b">>   \* stands for the names of is_localhost_alias

is_localhost_alias(name) == lower(name) = Localhost

(* parse_line: what a line adds, as a set of at most one entry, or Refused. *)
(* A hosts line may name one host besides localhost.                        *)
Refused == {[kind |-> "error", domain |-> <<>>]}
Entry(kind, text) == IF normalize_domain(text) = {} THEN Refused
                     ELSE {[kind |-> kind, domain |-> n] : n \in normalize_domain(text)}
parse_line(line) ==
  LET hosts == SelectSeq(line.names, LAMBDA n : ~is_localhost_alias(n))
  IN  CASE line.form = "comment" -> {}
        [] line.form = "allow"   -> Entry("AllowSuffix", line.names[1])
        [] line.form = "suffix"  -> Entry("BlockSuffix", line.names[1])
        [] line.form = "plain"   -> IF Len(line.names) > 1 THEN Refused
                                    ELSE Entry("BlockExact", line.names[1])
        [] line.form = "hosts"   -> CASE Len(hosts) = 0 -> {}
                                      [] Len(hosts) = 1 -> Entry("BlockExact", hosts[1])
                                      [] OTHER -> Refused

Domains(entries, kind) == {e.domain : e \in {x \in ToSet(entries) : x.kind = kind}}

(* compile_blocklist, as a set of at most one filter; entries are counted  *)
(* before duplicates are removed.                                          *)
compile_blocklist(file) ==
  LET entries == FoldLeft(LAMBDA acc, line : acc \o SetToSeq(parse_line(line)), <<>>, file)
  IN  {f \in {[blocked |-> [exact |-> Domains(entries, "BlockExact"), suffixes |-> Domains(entries, "BlockSuffix")],
               allowed |-> [exact |-> {}, suffixes |-> Domains(entries, "AllowSuffix")]]} :
         Len(entries) <= MAX_BLOCKLIST_ENTRIES /\ Domains(entries, "error") = {}}
-----------------------------------------------------------------------------
(* normalize_name of the DNS engine applies the same checks. *)
normalize_name(text) == normalize_domain(text)

(* A hosts table: a function from names to their addresses. *)
NoHosts == [n \in {} |-> <<>>]

AddAddress(table, name, address) ==
  LET known == IF name \in DOMAIN table THEN table[name] ELSE <<>>
  IN  [n \in DOMAIN table \cup {name} |->
         IF n # name THEN table[n] ELSE IF Contains(known, address) THEN known ELSE Append(known, address)]

AddName(acc, name, address) ==
  IF acc.error \/ acc.entries >= MAX_HOSTS_ENTRIES \/ normalize_name(name) = {}
  THEN [acc EXCEPT !.error = TRUE]
  ELSE [acc EXCEPT !.table = AddAddress(@, CHOOSE n \in normalize_name(name) : TRUE, address),
                   !.entries = @ + 1]

AddLine(acc, line) ==
  CASE line.form = "comment" -> acc
    [] line.form = "hosts" /\ line.names # <<>> ->
         FoldLeft(LAMBDA a, name : AddName(a, name, line.address), acc, line.names)
    [] OTHER -> [acc EXCEPT !.error = TRUE]

(* HostsTable::parse, as a set of at most one table. *)
parse_hosts(file) ==
  LET parsed == FoldLeft(AddLine, [table |-> NoHosts, entries |-> 0, error |-> FALSE], file)
  IN  {t \in {parsed.table} : ~parsed.error}

merge(table, other) ==
  [n \in DOMAIN table \cup DOMAIN other |->
     CASE n \notin DOMAIN other -> table[n]
       [] n \notin DOMAIN table -> other[n]
       [] OTHER -> table[n] \o SelectSeq(other[n], LAMBDA a : ~Contains(table[n], a))]
=============================================================================
