----------------------------- MODULE DnsEngine -----------------------------
(***************************************************************************)
(* The DNS engine of crates/dns/src/lib.rs: a hosts table, a cache behind  *)
(* a mutex and a chain of resolvers, used by many session threads at once. *)
(*                                                                         *)
(* resolve takes the time once, before its look into the cache, and uses   *)
(* that instant again when it inserts the answer, however long the         *)
(* resolvers took: other threads read, insert and evict in between.  An    *)
(* answer is a record of the name it is for, the instant a resolver gave   *)
(* it and its TTL (NoTtl when the resolver supplies none); its addresses   *)
(* play no part.                                                           *)
(***************************************************************************)
EXTENDS Integers, FiniteSets

CONSTANTS
  Thread, Name,
  Hosts,       \* the names of the hosts table
  Resolvers,   \* the number of resolvers of the chain
  capacity, max_ttl,
  Ttl,         \* bound: the TTLs that resolvers give
  NoTtl,       \* DnsAnswer::ttl() is None
  MaxClock,    \* bound: the last instant
  Absent, Error,
  FromHosts    \* the addresses of the hosts table

ASSUME EngineAssumption ==
  /\ IsFiniteSet(Name) /\ Hosts \subseteq Name
  /\ Resolvers \in Nat \ {0} /\ capacity \in Nat \ {0}
  /\ max_ttl \in Nat \ {0} /\ MaxClock \in Nat
  /\ Ttl \subseteq Nat /\ NoTtl \notin Nat

Answer == [name : Name, born : Nat, ttl : Ttl \cup {NoTtl}]

Entry == [answer : Answer, inserted : Nat, expires : Nat]

ASSUME NotAnAnswer ==
  /\ Absent \notin Entry \cup Answer \cup Name
  /\ Error \notin Answer /\ FromHosts \notin Answer

VARIABLES
  clock,
  entries,   \* the cache: entries[n], or Absent
  pc,        \* pc[t]: idle, get, ask, insert or done
  query,     \* query[t]: the name being resolved
  now,       \* now[t]: the instant resolve started with
  resolver,  \* resolver[t]: the resolver of the chain being asked
  result,    \* result[t]: the answer in hand, FromHosts, Error, or Absent
  cached     \* cached[t]: the answer came from the cache

vars == <<clock, entries, pc, query, now, resolver, result, cached>>

\* The cache maps names to answers with their insertion and expiry times, and
\* every thread is at one step of DnsEngine::resolve with the data of that step.
TypeOK ==
  /\ clock \in Nat
  /\ entries \in [Name -> Entry \cup {Absent}]
  /\ pc \in [Thread -> {"idle", "get", "ask", "insert", "done"}]
  /\ query \in [Thread -> Name \cup {Absent}]
  /\ now \in [Thread -> Nat]
  /\ resolver \in [Thread -> 1..(Resolvers + 1)]
  /\ result \in [Thread -> Answer \cup {Absent, Error, FromHosts}]
  /\ cached \in [Thread -> BOOLEAN]

Init ==
  /\ clock = 0
  /\ entries = [n \in Name |-> Absent]
  /\ pc = [t \in Thread |-> "idle"]
  /\ query = [t \in Thread |-> Absent]
  /\ now = [t \in Thread |-> 0]
  /\ resolver = [t \in Thread |-> 1]
  /\ result = [t \in Thread |-> Absent]
  /\ cached = [t \in Thread |-> FALSE]

Stored == {n \in Name : entries[n] # Absent}

----------------------------------------------------------------------------
(* DnsCache.                                                                *)

Expired(n, at) == entries[n] # Absent /\ entries[n].expires <= at

\* resolver_ttl.unwrap_or(max_ttl).min(max_ttl)
lifetime(answer) ==
  IF answer.ttl = NoTtl THEN max_ttl
  ELSE IF answer.ttl < max_ttl THEN answer.ttl ELSE max_ttl

\* The entries that insert keeps, given the (early) instant it works with.
Retained(at) == {n \in Stored : ~Expired(n, at)}

\* Mutant: no check for room.
NeverFull(n, at) == FALSE

Full(n, at) == n \notin Retained(at) /\ Cardinality(Retained(at)) >= capacity

\* Mutant: max_by_key(inserted).
newest(at) ==
  {n \in Retained(at) : \A m \in Retained(at) : entries[n].inserted >= entries[m].inserted}

oldest(at) ==
  {n \in Retained(at) : \A m \in Retained(at) : entries[n].inserted <= entries[m].inserted}

\* What insert may leave in the cache besides the new entry.
Kept(n, at) ==
  IF Full(n, at) THEN {Retained(at) \ {m} : m \in oldest(at)} ELSE {Retained(at)}

EntryFor(answer, at) ==
  [answer |-> answer, inserted |-> at, expires |-> at + lifetime(answer)]

insert(n, answer, at) ==
  IF lifetime(answer) = 0 THEN UNCHANGED entries
  ELSE \E K \in Kept(n, at) :
         entries' = [m \in Name |-> IF m = n THEN EntryFor(answer, at)
                                    ELSE IF m \in K THEN entries[m] ELSE Absent]

----------------------------------------------------------------------------
(* DnsEngine::resolve, cut where it takes the lock or waits for a resolver. *)

Resolve(t, n) ==
  /\ pc[t] = "idle"
  /\ n \notin Hosts
  /\ pc' = [pc EXCEPT ![t] = "get"]
  /\ query' = [query EXCEPT ![t] = n]
  /\ now' = [now EXCEPT ![t] = clock]
  /\ UNCHANGED <<clock, entries, resolver, result, cached>>

\* hosts.resolve: no cache, no resolver.
ResolveHost(t, n) ==
  /\ pc[t] = "idle"
  /\ n \in Hosts
  /\ pc' = [pc EXCEPT ![t] = "done"]
  /\ query' = [query EXCEPT ![t] = n]
  /\ result' = [result EXCEPT ![t] = FromHosts]
  /\ UNCHANGED <<clock, entries, now, resolver, cached>>

\* cache.get under the lock: an expired entry is removed and counts as a miss.
Get(t) ==
  LET n == query[t]
  IN  /\ pc[t] = "get"
      /\ entries' = IF Expired(n, now[t]) THEN [entries EXCEPT ![n] = Absent] ELSE entries
      /\ IF entries'[n] = Absent
           THEN pc' = [pc EXCEPT ![t] = "ask"] /\ UNCHANGED <<result, cached>>
           ELSE /\ pc' = [pc EXCEPT ![t] = "done"]
                /\ result' = [result EXCEPT ![t] = entries[n].answer]
                /\ cached' = [cached EXCEPT ![t] = TRUE]
      /\ UNCHANGED <<clock, query, now, resolver>>

\* resolver.resolve returned addresses.
Answered(t) ==
  /\ pc[t] = "ask"
  /\ \E ttl \in Ttl \cup {NoTtl} :
       result' = [result EXCEPT ![t] = [name |-> query[t], born |-> clock, ttl |-> ttl]]
  /\ pc' = [pc EXCEPT ![t] = "insert"]
  /\ UNCHANGED <<clock, entries, query, now, resolver, cached>>

LastResolver(t) == resolver[t] = Resolvers

\* It failed or returned no addresses: the next one of the chain is asked.
Failed(t) ==
  /\ pc[t] = "ask"
  /\ resolver' = [resolver EXCEPT ![t] = @ + 1]
  /\ IF LastResolver(t)
       THEN /\ pc' = [pc EXCEPT ![t] = "done"]
            /\ result' = [result EXCEPT ![t] = Error]
       ELSE UNCHANGED <<pc, result>>
  /\ UNCHANGED <<clock, entries, query, now, cached>>

\* Mutant: Instant::now() at the insert.
DatedAtInsert(t) == clock

\* The instant the entry is dated with.
Dated(t) == now[t]

Insert(t) ==
  /\ pc[t] = "insert"
  /\ insert(query[t], result[t], Dated(t))
  /\ pc' = [pc EXCEPT ![t] = "done"]
  /\ UNCHANGED <<clock, query, now, resolver, result, cached>>

\* The caller takes the result.
Return(t) ==
  /\ pc[t] = "done"
  /\ pc' = [pc EXCEPT ![t] = "idle"]
  /\ query' = [query EXCEPT ![t] = Absent]
  /\ now' = [now EXCEPT ![t] = 0]
  /\ resolver' = [resolver EXCEPT ![t] = 1]
  /\ result' = [result EXCEPT ![t] = Absent]
  /\ cached' = [cached EXCEPT ![t] = FALSE]
  /\ UNCHANGED <<clock, entries>>

Tick ==
  /\ clock < MaxClock
  /\ clock' = clock + 1
  /\ UNCHANGED <<entries, pc, query, now, resolver, result, cached>>

Step(t) == Get(t) \/ Answered(t) \/ Failed(t) \/ Insert(t) \/ Return(t)

Next ==
  \/ \E t \in Thread : Step(t) \/ \E n \in Name : Resolve(t, n) \/ ResolveHost(t, n)
  \/ Tick

Spec == Init /\ [][Next]_vars
----------------------------------------------------------------------------

\* An answer taken from the cache is one a resolver gave for the same name,
\* and it was still within its TTL, and within the configured maximum, when
\* the lookup began: slow resolvers and late inserts only shorten a lifetime.
HitsAreFresh ==
  \A t \in Thread : pc[t] = "done" /\ cached[t] =>
    /\ result[t].name = query[t]
    /\ now[t] < result[t].born + lifetime(result[t])

\* The cache never outgrows its capacity, and it holds nothing with a zero TTL
\* and no name of the hosts table.
CacheBounded ==
  /\ Cardinality(Stored) <= capacity
  /\ \A n \in Stored : n \notin Hosts /\ lifetime(entries[n].answer) > 0

\* An entry that is still good is given up only by a full cache, and only when
\* it is the oldest: a lookup that started long ago removes no other.
LiveEntriesKept ==
  [][\A n \in Stored : entries[n].expires > clock /\ entries'[n] = Absent =>
       /\ Cardinality(Stored) = capacity
       /\ \A m \in Stored : entries[n].inserted <= entries[m].inserted]_vars
=============================================================================
