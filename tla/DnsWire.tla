------------------------------- MODULE DnsWire -------------------------------
(***************************************************************************)
(* The DNS messages of crates/dns/src/wire.rs: names with compression, the *)
(* checks of a response, the addresses it gives through its aliases, and   *)
(* how DotResolver::resolve combines the two address families.             *)
(*                                                                         *)
(* Offsets count from 0, as in the code.  A byte has BITS bits; its top two *)
(* tell labels from compression pointers.  No label holds a dot.           *)
(***************************************************************************)
EXTENDS Naturals, Sequences, FiniteSets, SequencesExt, FiniteSetsExt

CONSTANTS
  BITS,                       \* bound: 8 in the code
  MAX_NAME,                   \* bound: 253 in the code
  MAX_DNS_NAME_POINTER_HOPS,
  MAX_DNS_ALIAS_HOPS,
  MAX_RESOLVED_ADDRESSES,
  MAX_DNS_ANSWER_RECORDS,
  MaxMessage                  \* bound: the messages whose names are decoded

ASSUME WireAssumption ==
  /\ BITS \in Nat \ {0, 1, 2} /\ MAX_NAME \in Nat \ {0}
  /\ MAX_DNS_NAME_POINTER_HOPS \in Nat /\ MAX_DNS_ALIAS_HOPS \in Nat
  /\ MAX_RESOLVED_ADDRESSES \in Nat \ {0} /\ MAX_DNS_ANSWER_RECORDS \in Nat
  /\ MaxMessage \in Nat

Failed(kind) == [error |-> kind]
IsError(r) == "error" \in DOMAIN r
-----------------------------------------------------------------------------
(* Names.                                                                  *)

Quarter == 2^(BITS - 2)
IsPointer(byte) == byte >= 3 * Quarter
IsAscii(byte) == byte < 2 * Quarter
to_ascii_lowercase(byte) == IF byte = 2 THEN 1 ELSE byte   \* 2 is the capital of 1

encode_name(name) == FoldLeft(LAMBDA out, label : out \o <<Len(label)>> \o label, <<>>, name) \o <<0>>

(* A plausible fault: the caller goes on after the last pointer. *)
AfterLastPointer(resume, cursor) == cursor + 2

(* Where the caller goes on: after the first pointer.  0 is None. *)
Resume(resume, cursor) == IF resume = 0 THEN cursor + 2 ELSE resume

FollowPointer(message, d) ==
  LET pointer == (message[d.cursor + 1] % Quarter) * 2^BITS + message[d.cursor + 2]
  IN  IF \/ d.cursor + 1 >= Len(message)
         \/ pointer >= Len(message) \/ pointer >= d.cursor
         \/ d.hops >= MAX_DNS_NAME_POINTER_HOPS
      THEN Failed("InvalidResponse")
      ELSE [d EXCEPT !.resume = Resume(@, d.cursor), !.cursor = pointer, !.hops = @ + 1]

TakeLabel(message, d) ==
  LET length == message[d.cursor + 1]
      end    == d.cursor + 1 + length
      label  == SubSeq(message, d.cursor + 2, end)
      size   == d.size + length + (IF d.labels = <<>> THEN 0 ELSE 1)
  IN  IF \/ length >= Quarter \/ end > Len(message)
         \/ \E i \in DOMAIN label : ~IsAscii(label[i])
         \/ size > MAX_NAME
      THEN Failed("InvalidResponse")
      ELSE [d EXCEPT !.cursor = end, !.size = size,
                     !.labels = Append(@, [i \in DOMAIN label |-> to_ascii_lowercase(label[i])])]

RECURSIVE DecodeLoop(_, _)
DecodeLoop(message, d) ==
  IF IsError(d) THEN d
  ELSE IF d.cursor >= Len(message) THEN Failed("InvalidResponse")
  ELSE IF IsPointer(message[d.cursor + 1]) THEN DecodeLoop(message, FollowPointer(message, d))
  ELSE IF message[d.cursor + 1] # 0 THEN DecodeLoop(message, TakeLabel(message, d))
  ELSE IF d.labels = <<>> THEN Failed("InvalidResponse")
  ELSE [name |-> d.labels, offset |-> IF d.resume = 0 THEN d.cursor + 1 ELSE d.resume]

decode_name(message, offset) ==
  DecodeLoop(message, [cursor |-> offset, resume |-> 0, labels |-> <<>>, hops |-> 0, size |-> 0])
-----------------------------------------------------------------------------
(* The addresses of a response.  A record is an alias, an address of the   *)
(* family asked for, or something else; its data may be malformed.         *)

(* An Option<Duration> is a set of at most one TTL. *)
None == {}

min_ttl(current, candidate) == {Min(current \cup {candidate})}

FollowAlias(acc, record) ==
  IF acc.bad \/ record.kind # "alias" \/ record.owner \notin acc.names THEN acc
  ELSE IF record.data = "malformed" THEN [acc EXCEPT !.bad = TRUE]
  ELSE [acc EXCEPT !.ttl = min_ttl(@, record.ttl), !.names = @ \cup {record.data},
                   !.changed = @ \/ record.data \notin acc.names]

(* A plausible fault: one pass over the records, whatever their order. *)
OnePass(passes) == 0

MorePasses(passes) == passes - 1

RECURSIVE FollowAliases(_, _, _)
FollowAliases(records, acc, passes) ==
  IF passes = 0 THEN acc
  ELSE LET next == FoldLeft(FollowAlias, [acc EXCEPT !.changed = FALSE], records)
       IN  IF next.bad \/ ~next.changed THEN next
           ELSE IF Cardinality(next.names) > MAX_DNS_ALIAS_HOPS + 1 THEN [next EXCEPT !.bad = TRUE]
           ELSE FollowAliases(records, next, MorePasses(passes))

AppendNew(s, e) == IF Contains(s, e) THEN s ELSE Append(s, e)

TakeAddress(acc, record) ==
  IF acc.bad \/ record.kind # "address" \/ record.owner \notin acc.names THEN acc
  ELSE IF record.data = "malformed" THEN [acc EXCEPT !.bad = TRUE]
  ELSE [acc EXCEPT !.ttl = min_ttl(@, record.ttl), !.addresses = AppendNew(@, record.data)]

(* The first addresses are taken, then duplicates are removed. *)
deduplicate_bounded(addresses) ==
  FoldLeft(AppendNew, <<>>, SubSeq(addresses, 1, Min({Len(addresses), MAX_RESOLVED_ADDRESSES})))

DnsAnswer(addresses, ttl) ==
  LET usable == deduplicate_bounded(addresses)
  IN  IF usable = <<>> THEN Failed("NoRecords") ELSE [addresses |-> usable, ttl |-> ttl]

resolve_addresses_through_aliases(query, records) ==
  LET followed == FollowAliases(records, [names |-> {query}, ttl |-> None, changed |-> FALSE,
                                          addresses |-> <<>>, bad |-> FALSE], MAX_DNS_ALIAS_HOPS)
      taken == FoldLeft(TakeAddress, followed, records)
  IN  IF taken.bad THEN Failed("InvalidResponse") ELSE DnsAnswer(taken.addresses, taken.ttl)
-----------------------------------------------------------------------------
(* Plausible fault: the response code is looked at before the id. *)
CodeFirst(asked, message) == message.id # asked.id /\ message.rcode = 0

WrongId(asked, message) == message.id # asked.id

(* The order of the checks decides which kind of error comes out, and with *)
(* it whether the session survives.                                        *)
parse_address_response(asked, message) ==
  IF WrongId(asked, message) \/ ~message.qr THEN Failed("InvalidResponse")
  ELSE IF message.tc THEN Failed("ResolverFailure")
  ELSE IF message.rcode = 3 THEN Failed("NoRecords")
  ELSE IF message.rcode # 0 THEN Failed("ResolverFailure")
  ELSE IF message.questions # <<asked.question>> \/ Len(message.records) > MAX_DNS_ANSWER_RECORDS
       THEN Failed("InvalidResponse")
  ELSE resolve_addresses_through_aliases(asked.question, message.records)

(* DotResolver::resolve: the A answer, then the AAAA answer; the last error *)
(* is returned if there is no address at all.                               *)
CombineFamilies(a, aaaa) ==
  LET good == SelectSeq(<<a, aaaa>>, LAMBDA r : ~IsError(r))
      bad  == SelectSeq(<<a, aaaa>>, IsError)
  IN  IF good = <<>> THEN Last(bad)
      ELSE DnsAnswer(FoldLeft(AppendNew, <<>>, FlattenSeq([i \in DOMAIN good |-> good[i].addresses])),
                     FoldLeft(LAMBDA ttl, r : IF r.ttl = None THEN ttl ELSE {Min(ttl \cup r.ttl)}, None, good))
-----------------------------------------------------------------------------
(* What decoding means, without a loop, its limits and its state: the      *)
(* labels from an offset on, and where the bytes of that name end.         *)

Bytes == {0, 1, 2, 2 * Quarter, 3 * Quarter}
Messages == BoundedSeq(Bytes, MaxMessage)
Target(m, o) == (m[o + 1] % Quarter) * 2^BITS + m[o + 2]
Lower(bytes) == [i \in DOMAIN bytes |-> to_ascii_lowercase(bytes[i])]
LowerName(name) == [i \in DOMAIN name |-> Lower(name[i])]

RECURSIVE LabelsAt(_, _)
LabelsAt(m, o) ==
  CASE m[o + 1] = 0            -> <<>>
    [] IsPointer(m[o + 1])     -> LabelsAt(m, Target(m, o))
    [] m[o + 1] \in 1..(Quarter - 1) ->
         <<Lower(SubSeq(m, o + 2, o + 1 + m[o + 1]))>> \o LabelsAt(m, o + 1 + m[o + 1])

RECURSIVE EndOfName(_, _)
EndOfName(m, o) ==
  CASE m[o + 1] = 0            -> o + 1
    [] IsPointer(m[o + 1])     -> o + 2
    [] m[o + 1] \in 1..(Quarter - 1) -> EndOfName(m, o + 1 + m[o + 1])

(* Names of the bounded alphabet, and their length with the dots. *)
Labels == BoundedSeq({1, 2}, 2) \ {<<>>}
Names == {n \in BoundedSeq(Labels, 2) : n # <<>>}
Size(n) == Len(encode_name(n)) - 2
Fits(n) == Size(n) <= MAX_NAME

(* A name, and pointers behind it, each of them to the one before. *)
PointedTo(n, hops) ==
  encode_name(n) \o FlattenSeq([i \in 1..hops |->
    <<3 * Quarter, IF i = 1 THEN 0 ELSE Len(encode_name(n)) + 2 * (i - 2)>>])

(* decode_name reads what the bytes say, wherever they come from, and the  *)
(* caller goes on behind the name's own bytes; a name that encode_name     *)
(* wrote, whole, as the tail of a compressed name or behind a chain of     *)
(* pointers, is decoded unless it or the chain is too long.                *)
DecodedNames ==
  /\ \A m \in Messages : \A o \in 0..Len(m) :
       LET r == decode_name(m, o)
       IN  ~IsError(r) => r = [name |-> LabelsAt(m, o), offset |-> EndOfName(m, o)]
  /\ \A n \in Names, front \in Names :
       LET m == encode_name(n) \o Front(encode_name(front)) \o <<3 * Quarter, 0>>
       IN  /\ Fits(n) => decode_name(m, 0) = [name |-> LowerName(n), offset |-> Len(encode_name(n))]
           /\ decode_name(m, Len(encode_name(n))) =
                IF Fits(front \o n) THEN [name |-> LowerName(front \o n), offset |-> Len(m)]
                ELSE Failed("InvalidResponse")
  /\ \A n \in Names, hops \in 1..(MAX_DNS_NAME_POINTER_HOPS + 1) :
       LET m == PointedTo(n, hops)
       IN  decode_name(m, Len(m) - 2) =
             IF Fits(n) /\ hops <= MAX_DNS_NAME_POINTER_HOPS
             THEN [name |-> LowerName(n), offset |-> Len(m)]
             ELSE Failed("InvalidResponse")
-----------------------------------------------------------------------------
(* What the addresses of a question are: those of the names that aliases   *)
(* lead to.  Everything below is about sets of records, not their order.   *)

Owners == {"q", "n1", "n2", "n3"}
Records ==
  [kind : {"alias"}, owner : Owners \ {"n3"}, data : Owners, ttl : {0, 1}]
    \cup [kind : {"alias"}, owner : {"q", "n1"}, data : {"malformed"}, ttl : {1}]
    \cup [kind : {"address"}, owner : Owners, data : {"a1", "a2"}, ttl : {0, 1}]
    \cup [kind : {"address"}, owner : {"q", "n1"}, data : {"malformed"}, ttl : {1}]
    \cup [kind : {"address"}, owner : {"q"}, data : {"a3"}, ttl : {1}]
    \cup [kind : {"other"}, owner : {"q"}, data : {"a1"}, ttl : {0}]

Of(rs, kind, names) == {r \in rs : r.kind = kind /\ r.owner \in names}

Reached(rs) ==
  {n \in Owners : \A S \in SUBSET Owners :
     "q" \in S /\ (\A r \in Of(rs, "alias", S) : r.data = "malformed" \/ r.data \in S) => n \in S}

Answered(records, result) ==
  LET rs      == ToSet(records)
      aliases == Of(rs, "alias", Reached(rs))
      given   == Of(rs, "address", Reached(rs))
      first(a) == Min({i \in DOMAIN records : records[i] \in given /\ records[i].data = a})
  IN  IF IsError(result)
      THEN Cardinality(aliases) <= MAX_DNS_ALIAS_HOPS =>
             result.error = IF \E r \in aliases \cup given : r.data = "malformed"
                            THEN "InvalidResponse" ELSE "NoRecords"
      ELSE /\ ToSet(result.addresses) \subseteq {r.data : r \in given}
           /\ \A i, j \in DOMAIN result.addresses :
                i < j => first(result.addresses[i]) < first(result.addresses[j])
           /\ Cardinality(aliases) <= MAX_DNS_ALIAS_HOPS =>
                /\ Len(result.addresses) = Min({Cardinality({r.data : r \in given}), MAX_RESOLVED_ADDRESSES})
                /\ result.ttl = {Min({r.ttl : r \in aliases \cup given})}

Asked == [id |-> 1, question |-> "q"]
Header == [id : {0, 1}, qr : BOOLEAN, tc : BOOLEAN, rcode : {0, 2, 3}, questions : {<<>>, <<"q">>, <<"n1">>, <<"q", "q">>}]
WithRecords(h, records) == [x \in DOMAIN h \cup {"records"} |-> IF x = "records" THEN records ELSE h[x]]
Good == [id |-> 1, qr |-> TRUE, tc |-> FALSE, rcode |-> 0, questions |-> <<"q">>]

(* In whatever order the records come, and as long as the aliases stay     *)
(* within the bound, the answer is the addresses of all names they lead to, *)
(* with the smallest TTL on the way; beyond the bound it is never more     *)
(* than that.                                                              *)
AnswersFromRecords ==
  \A records \in BoundedSeq(Records, MAX_DNS_ANSWER_RECORDS) :
    Answered(records, parse_address_response(Asked, WithRecords(Good, records)))

(* A response to another question leaves the session unusable, whatever    *)
(* flags it carries; only a response to this one is a negative answer, and *)
(* one with too many records is no answer at all.                          *)
OwnVerdicts ==
  \A h \in Header, count \in 1..(MAX_DNS_ANSWER_RECORDS + 1) :
    LET record == [kind |-> "address", owner |-> "q", data |-> "a1", ttl |-> 1]
        r      == parse_address_response(Asked, WithRecords(h, [i \in 1..count |-> record]))
    IN  /\ (h.id # Asked.id \/ ~h.qr) => r = Failed("InvalidResponse")
        /\ ~IsError(r) <=> h = Good /\ count <= MAX_DNS_ANSWER_RECORDS

(* Both families together live no longer than either, and an error of one  *)
(* never hides the addresses of the other.                                 *)
FamiliesCombined ==
  LET answers == {Failed("NoRecords"), Failed("ResolverFailure")}
                   \cup [addresses : {<<"a1">>, <<"a2">>, <<"a1", "a2">>}, ttl : {{}, {0}, {1}}]
      ttls(r) == IF IsError(r) THEN {} ELSE r.ttl
      set(r)  == IF IsError(r) THEN {} ELSE ToSet(r.addresses)
  IN  \A a, b \in answers :
        LET r == CombineFamilies(a, b)
        IN  /\ set(r) = {} <=> IsError(a) /\ IsError(b)
            /\ IsError(r) => r = b
            /\ ~IsError(r) => /\ \A t \in ttls(a) \cup ttls(b) : \E u \in r.ttl : u <= t
                              /\ set(r) \subseteq set(a) \cup set(b)
                              /\ Cardinality(set(a) \cup set(b)) <= MAX_RESOLVED_ADDRESSES =>
                                   set(r) = set(a) \cup set(b)
=============================================================================
