--------------------------- MODULE MCDotResolver ---------------------------
(* DotResolver for model checking.                                          *)
(* The codec of its messages, DnsWire, is checked over all bounded inputs   *)
(* before the first lookup.                                                 *)
EXTENDS DotResolver, DnsWire

BeforeLookups == \A t \in Thread : lookups[t] = 0 /\ pc[t] = "idle"

\* Compressed names: decode_name of wire.rs reads what the bytes say, for every
\* short message and every offset, inverts encode_name, and resumes behind the
\* name's own bytes however many pointers it followed.
NamesDecode == BeforeLookups => DecodedNames

\* The alias closure of parse_address_response and the merging of families in
\* DotResolver::resolve: the addresses of exactly the names that aliases lead
\* to, in order of mention, with the smallest TTL on the way, for every order of
\* the records within MAX_DNS_ALIAS_HOPS; and a response to another question
\* is never taken for a negative answer.
AnswerMatchesRecords == BeforeLookups => AnswersFromRecords /\ OwnVerdicts /\ FamiliesCombined
=============================================================================
