------------------------------ MODULE DomainSet ------------------------------
(***************************************************************************)
(* Domain names and sets of them (crates/core/src/domain_set.rs and the    *)
(* suffix matcher of policy.rs).  A name is a sequence of characters: where *)
(* its dots are is what matching is about.  Capitals are those of Capital. *)
(* The sorted vectors of a DomainSet and the binary search in them are     *)
(* sets and membership.                                                    *)
(***************************************************************************)
EXTENDS Naturals, Sequences, FiniteSets, SequencesExt, FiniteSetsExt

CONSTANTS
  MAX_DOMAIN_LENGTH,   \* bound: 253 in the code
  MAX_LABEL            \* bound: 63 in the code

Capital == [c \in {"A"} |-> "a"]
lower(name) == [i \in DOMAIN name |-> IF name[i] \in DOMAIN Capital THEN Capital[name[i]] ELSE name[i]]
Dots(name) == {i \in DOMAIN name : name[i] = "."}
NotDots(name) == DOMAIN name \ Dots(name)

trim_end_matches(name) == SubSeq(name, 1, Max({0} \cup NotDots(name)))
trim_matches(name) ==
  IF NotDots(name) = {} THEN <<>> ELSE SubSeq(name, Min(NotDots(name)), Max(NotDots(name)))

(* normalize_domain, and parse_domain of the block list compiler: a set of *)
(* at most one name.  Labels are neither empty nor too long.               *)
normalize_domain(text) ==
  {name \in {lower(trim_matches(text))} :
     /\ Len(name) \in 1..MAX_DOMAIN_LENGTH
     /\ \A i \in DOMAIN name : name[i] = "." => name[i + 1] # "."
     /\ \A i \in 1..(Len(name) - MAX_LABEL) : \E j \in i..(i + MAX_LABEL) : name[j] = "."}

(* A plausible fault: the search drops one character, not one label. *)
NextCharacter(candidate) == Tail(candidate)

NextLabel(candidate) == SubSeq(candidate, Min(Dots(candidate)) + 1, Len(candidate))

RECURSIVE HasSuffixIn(_, _)
HasSuffixIn(candidate, suffixes) ==
  \/ candidate \in suffixes
  \/ Dots(candidate) # {} /\ HasSuffixIn(NextLabel(candidate), suffixes)

(* DomainSet::matches. *)
set_matches(set, name) ==
  LET domain == trim_end_matches(name)
  IN  /\ Len(domain) \in 1..MAX_DOMAIN_LENGTH
      /\ domain \in set.exact \/ HasSuffixIn(domain, set.suffixes)

is_blocked(filter, name) == set_matches(filter.blocked, name) /\ ~set_matches(filter.allowed, name)

(* domain_matches_suffix of policy.rs, which counts characters instead. *)
domain_matches_suffix(name, text) ==
  LET domain == lower(trim_end_matches(name))
      suffix == lower(trim_matches(text))
      before == Len(domain) - Len(suffix)
  IN  /\ suffix # <<>>
      /\ \/ domain = suffix
         \/ /\ Len(domain) > Len(suffix) /\ domain[before] = "."
            /\ SubSeq(domain, before + 1, Len(domain)) = suffix
=============================================================================
