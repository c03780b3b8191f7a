-------------------------- MODULE DnsEngineProofs --------------------------
(***************************************************************************)
(* Freshness and boundedness of the DNS cache, for any number of threads   *)
(* and names, any capacity and any TTLs.                                   *)
(*                                                                         *)
(* HitsAreFresh is not inductive by itself.  The argument is about dates:  *)
(* a lookup's instant is not after the answer it waits for, so an entry is *)
(* dated no later than its answer was born and expires no later than the   *)
(* answer does, whoever inserts it and however late (Dates, Waiting).  The *)
(* same invariant shows which entries an insertion may cost the cache.     *)
(***************************************************************************)
EXTENDS DnsEngine, FiniteSetTheorems, TLAPS

\* An entry is for its name and is dated no later than its answer.
Dates ==
  \A n \in Stored :
    /\ entries[n].answer.name = n
    /\ entries[n].inserted <= entries[n].answer.born
    /\ entries[n].expires = entries[n].inserted + lifetime(entries[n].answer)

\* A lookup under way: its resolver, its name, and the answer in its hand.
Waiting ==
  \A t \in Thread :
    /\ now[t] <= clock
    /\ pc[t] \in {"idle", "get"} => resolver[t] = 1
    /\ pc[t] = "ask" => resolver[t] <= Resolvers
    /\ cached[t] => pc[t] = "done"
    /\ pc[t] \in {"get", "ask", "insert"} => query[t] \in Name \ Hosts
    /\ pc[t] = "insert" => /\ result[t] \in Answer
                           /\ result[t].name = query[t]
                           /\ now[t] <= result[t].born

IInv == TypeOK /\ Dates /\ Waiting /\ HitsAreFresh /\ CacheBounded

\* The effective lifetime of an answer is a number of seconds, at most max_ttl.
LEMMA LifetimeType ==
  ASSUME NEW a \in Answer
  PROVE  lifetime(a) \in Nat /\ lifetime(a) <= max_ttl
<1>1. a.ttl \in Ttl \cup {NoTtl}
  BY DEF Answer
<1>2. a.ttl # NoTtl => a.ttl \in Nat
  BY <1>1, EngineAssumption
<1>3. max_ttl \in Nat
  BY EngineAssumption
<1> QED
  BY <1>2, <1>3 DEF lifetime

\* A new entry is well formed and dated like its lookup.
LEMMA EntryForFacts ==
  ASSUME NEW a \in Answer, NEW at \in Nat
  PROVE  /\ EntryFor(a, at) \in Entry
         /\ EntryFor(a, at).answer = a
         /\ EntryFor(a, at).inserted = at
         /\ EntryFor(a, at).expires = at + lifetime(a)
BY LifetimeType DEF EntryFor, Entry

\* There are finitely many entries.
LEMMA StoredFinite ==
  ASSUME NEW S \in SUBSET Stored
  PROVE  IsFiniteSet(S) /\ Cardinality(S) \in Nat
BY EngineAssumption, FS_Subset, FS_CardinalityType DEF Stored

\* DnsCache::insert leaves room for the entry it adds.
LEMMA KeptHasRoom ==
  ASSUME NEW n \in Name, NEW at, NEW K \in Kept(n, at), Cardinality(Stored) <= capacity
  PROVE  K \subseteq Stored /\ Cardinality(K \cup {n}) <= capacity
<1> DEFINE R == Retained(at)
<1>1. R \subseteq Stored
  BY DEF Retained
<1>2. IsFiniteSet(R) /\ Cardinality(R) \in Nat /\ Cardinality(R) <= capacity
  <2>1. IsFiniteSet(Stored) /\ Cardinality(Stored) \in Nat
    BY StoredFinite
  <2>2. Cardinality(R) <= Cardinality(Stored)
    BY <1>1, <2>1, FS_Subset
  <2> QED
    BY <1>1, <2>1, <2>2, StoredFinite, EngineAssumption
<1>3. CASE Full(n, at)
  <2>1. PICK m \in oldest(at) : K = R \ {m}
    BY <1>3 DEF Kept
  <2>2. m \in R /\ n \notin R
    BY <1>3, <2>1 DEF oldest, Full
  <2>3. IsFiniteSet(K) /\ Cardinality(K) = Cardinality(R) - 1
    BY <1>2, <2>1, <2>2, FS_RemoveElement
  <2>4. Cardinality(K \cup {n}) = Cardinality(K) + 1
    BY <2>1, <2>2, <2>3, FS_AddElement
  <2> QED
    BY <1>1, <1>2, <2>1, <2>3, <2>4, EngineAssumption
<1>4. CASE ~Full(n, at)
  <2>1. K = R
    BY <1>4 DEF Kept
  <2>2. CASE n \in R
    <3>1. K \cup {n} = R
      BY <2>1, <2>2
    <3> QED
      BY <1>1, <1>2, <2>1, <3>1
  <2>3. CASE n \notin R
    <3>1. Cardinality(R) < capacity
      BY <1>2, <1>4, <2>3, EngineAssumption DEF Full
    <3>2. Cardinality(K \cup {n}) = Cardinality(R) + 1
      BY <1>2, <2>1, <2>3, FS_AddElement
    <3> QED
      BY <1>1, <1>2, <2>1, <3>1, <3>2, EngineAssumption
  <2> QED
    BY <2>2, <2>3
<1> QED
  BY <1>3, <1>4

\* What the parts of the invariant about the cache say, for one entry.
CacheOK == entries \in [Name -> Entry \cup {Absent}] /\ Dates /\ CacheBounded

\* A cache that loses entries keeps its invariant.
LEMMA RemoveKeepsCache ==
  ASSUME CacheOK, NEW n \in Name, entries' = [entries EXCEPT ![n] = Absent]
  PROVE  CacheOK'
<1>1. Stored' \subseteq Stored /\ \A m \in Stored' : entries'[m] = entries[m]
  BY DEF Stored, CacheOK
<1>2. Cardinality(Stored') <= Cardinality(Stored)
  BY <1>1, StoredFinite, FS_Subset
<1>3. Cardinality(Stored') \in Nat /\ Cardinality(Stored) \in Nat
  BY <1>1, StoredFinite
<1>4. CacheBounded'
  BY <1>1, <1>2, <1>3, EngineAssumption DEF CacheOK, CacheBounded, lifetime
<1>5. Dates'
  BY <1>1 DEF CacheOK, Dates, lifetime
<1> QED
  BY <1>4, <1>5 DEF CacheOK

\* DnsCache::insert keeps it when the entry is dated no later than its answer.
LEMMA InsertKeepsCache ==
  ASSUME CacheOK, NEW n \in Name \ Hosts, NEW a \in Answer, NEW at \in Nat,
         a.name = n, at <= a.born, insert(n, a, at)
  PROVE  CacheOK'
<1>1. CASE lifetime(a) = 0
  <2>1. entries' = entries
    BY <1>1 DEF insert
  <2> QED
    BY <2>1 DEF CacheOK, Dates, CacheBounded, Stored, lifetime
<1>2. CASE lifetime(a) # 0
  <2>1. PICK K \in Kept(n, at) :
          entries' = [m \in Name |-> IF m = n THEN EntryFor(a, at)
                                     ELSE IF m \in K THEN entries[m] ELSE Absent]
    BY <1>2 DEF insert
  <2>2. K \subseteq Stored /\ Cardinality(K \cup {n}) <= capacity
    BY KeptHasRoom DEF CacheOK, CacheBounded
  <2>3. entries'[n] = EntryFor(a, at) /\ \A m \in K \ {n} : entries'[m] = entries[m]
    BY <2>1, <2>2 DEF Stored
  <2>4. entries' \in [Name -> Entry \cup {Absent}]
    BY <2>1, EntryForFacts DEF CacheOK
  <2>5. Stored' \subseteq K \cup {n}
    BY <2>1 DEF Stored
  <2>6. Cardinality(Stored') <= capacity
    <3>1. IsFiniteSet(K \cup {n})
      BY <2>2, StoredFinite, FS_AddElement
    <3>2. Cardinality(Stored') <= Cardinality(K \cup {n})
      BY <2>5, <3>1, FS_Subset
    <3>3. Cardinality(Stored') \in Nat /\ Cardinality(K \cup {n}) \in Nat
      BY <2>5, <3>1, FS_Subset, FS_CardinalityType
    <3> QED
      BY <2>2, <3>2, <3>3, EngineAssumption
  <2>7. lifetime(a) > 0
    BY <1>2, LifetimeType
  <2>8. CacheBounded'
    BY <2>2, <2>3, <2>5, <2>6, <2>7, EntryForFacts DEF CacheOK, CacheBounded, lifetime
  <2>9. Dates'
    BY SMTT(20), <2>2, <2>3, <2>5, EntryForFacts DEF CacheOK, Dates, lifetime
  <2> QED
    BY <2>4, <2>8, <2>9 DEF CacheOK
<1> QED
  BY <1>1, <1>2

\* The steps that change the cache, and all the others.
LEMMA StepKeepsCache ==
  ASSUME IInv, [Next]_vars
  PROVE  CacheOK'
<1>1. CacheOK
  BY DEF IInv, TypeOK, CacheOK
<1>2. ASSUME NEW t \in Thread, Get(t) PROVE CacheOK'
  <2>1. query[t] \in Name
    BY <1>2 DEF Get, IInv, Waiting
  <2>2. CASE entries' = [entries EXCEPT ![query[t]] = Absent]
    BY <1>1, <2>1, <2>2, RemoveKeepsCache
  <2>3. CASE entries' = entries
    BY <1>1, <2>3 DEF CacheOK, Dates, CacheBounded, Stored, lifetime
  <2> QED
    BY <1>2, <2>2, <2>3 DEF Get
<1>3. ASSUME NEW t \in Thread, Insert(t) PROVE CacheOK'
  <2>1. /\ query[t] \in Name \ Hosts /\ result[t] \in Answer /\ now[t] \in Nat
        /\ result[t].name = query[t] /\ now[t] <= result[t].born
    BY <1>3 DEF Insert, IInv, Waiting, TypeOK
  <2>2. insert(query[t], result[t], now[t])
    BY <1>3 DEF Insert, Dated
  <2> QED
    BY <1>1, <2>1, <2>2, InsertKeepsCache
<1>4. CASE entries' = entries
  BY <1>1, <1>4 DEF CacheOK, Dates, CacheBounded, Stored, lifetime
<1> QED
  BY <1>2, <1>3, <1>4 DEF Next, Step, Resolve, ResolveHost, Answered, Failed, Return, Tick, vars

\* Every variable keeps its type.
LEMMA StepKeepsType ==
  ASSUME IInv, [Next]_vars
  PROVE  TypeOK'
<1>1. entries' \in [Name -> Entry \cup {Absent}]
  BY StepKeepsCache DEF CacheOK
<1>2. ASSUME NEW t \in Thread, Get(t) PROVE result' \in [Thread -> Answer \cup {Absent, Error, FromHosts}]
  <2>1. query[t] \in Name
    BY <1>2 DEF Get, IInv, Waiting
  <2>2. entries'[query[t]] # Absent => entries[query[t]] \in Entry
    BY <1>2, <2>1 DEF Get, IInv, TypeOK
  <2> QED
    BY <1>2, <2>2 DEF Get, IInv, TypeOK, Entry
<1>3. ASSUME NEW t \in Thread, Answered(t) PROVE result' \in [Thread -> Answer \cup {Absent, Error, FromHosts}]
  <2>1. query[t] \in Name
    BY <1>3 DEF Answered, IInv, Waiting
  <2> QED
    BY <1>3, <2>1 DEF Answered, IInv, TypeOK, Answer
<1>4. ASSUME NEW t \in Thread, Failed(t) PROVE resolver' \in [Thread -> 1..(Resolvers + 1)]
  BY <1>4, EngineAssumption DEF Failed, LastResolver, IInv, TypeOK, Waiting
<1>5. result' \in [Thread -> Answer \cup {Absent, Error, FromHosts}]
  BY <1>2, <1>3 DEF IInv, TypeOK, Next, Step, Resolve, ResolveHost, Failed, Insert, Return, Tick, vars
<1>6. resolver' \in [Thread -> 1..(Resolvers + 1)]
  BY SMTT(20), <1>4, EngineAssumption
  DEF IInv, TypeOK, Next, Step, Resolve, ResolveHost, Get, Answered, Insert, Return, Tick, vars
<1>7. /\ clock' \in Nat /\ now' \in [Thread -> Nat]
      /\ query' \in [Thread -> Name \cup {Absent}]
  BY SMTT(20) DEF IInv, TypeOK, Next, Step, Resolve, ResolveHost, Get, Answered, Failed, Insert,
         Return, Tick, vars
<1>8. pc' \in [Thread -> {"idle", "get", "ask", "insert", "done"}]
  BY SMTT(20) DEF IInv, TypeOK, Next, Step, Resolve, ResolveHost, Get, Answered, Failed, Insert,
         Return, Tick, vars
<1>9. cached' \in [Thread -> BOOLEAN]
  <2>1. \/ cached' = cached
        \/ \E t \in Thread : cached' = [cached EXCEPT ![t] = TRUE]
        \/ \E t \in Thread : cached' = [cached EXCEPT ![t] = FALSE]
    BY DEF Next, Step, Resolve, ResolveHost, Get, Answered, Failed, Insert, Return, Tick, vars
  <2>2. cached \in [Thread -> BOOLEAN]
    BY DEF IInv, TypeOK
  <2> QED
    BY <2>1, <2>2
<1> QED
  BY <1>1, <1>5, <1>6, <1>7, <1>8, <1>9 DEF TypeOK

\* A lookup's instant stays behind the clock and behind the answer it waited for.
LEMMA StepKeepsWaiting ==
  ASSUME IInv, [Next]_vars
  PROVE  Waiting'
<1>1. ASSUME NEW t \in Thread, Answered(t) PROVE Waiting'
  <2>1. /\ result'[t] \in Answer /\ result'[t].name = query[t] /\ result'[t].born = clock
    <3>1. query[t] \in Name /\ clock \in Nat
      BY <1>1 DEF Answered, IInv, Waiting, TypeOK
    <3> QED
      BY SMTT(20), <1>1, <3>1 DEF Answered, IInv, TypeOK, Answer
  <2> QED
    BY SMTT(20), <1>1, <2>1 DEF Answered, IInv, TypeOK, Waiting
<1>2. ASSUME NEW t \in Thread, Get(t) PROVE Waiting'
  BY <1>2, EngineAssumption DEF Get, IInv, TypeOK, Waiting
<1>3. ASSUME NEW t \in Thread, Failed(t) PROVE Waiting'
  BY <1>3, EngineAssumption DEF Failed, LastResolver, IInv, TypeOK, Waiting
<1>4. ASSUME NEW t \in Thread, Insert(t) \/ Return(t) PROVE Waiting'
  BY <1>4 DEF Insert, Return, IInv, TypeOK, Waiting
<1>5. ASSUME NEW t \in Thread, NEW n \in Name, Resolve(t, n) \/ ResolveHost(t, n) PROVE Waiting'
  BY <1>5 DEF Resolve, ResolveHost, IInv, TypeOK, Waiting
<1>6. CASE Tick
  BY <1>6 DEF Tick, IInv, TypeOK, Waiting
<1>7. CASE UNCHANGED vars
  BY <1>7 DEF vars, IInv, Waiting
<1> QED
  BY <1>1, <1>2, <1>3, <1>4, <1>5, <1>6, <1>7 DEF Next, Step

\* A hit was within its lifetime when the lookup began.
LEMMA StepKeepsFresh ==
  ASSUME IInv, [Next]_vars
  PROVE  HitsAreFresh'
<1>1. ASSUME NEW t \in Thread, Get(t) PROVE HitsAreFresh'
  <2> DEFINE n == query[t]
  <2>1. n \in Name
    BY <1>1 DEF Get, IInv, Waiting
  <2>2. CASE entries'[n] = Absent
    BY <1>1, <2>2 DEF Get, IInv, TypeOK, HitsAreFresh, lifetime
  <2>3. CASE entries'[n] # Absent
    <3>1. entries' = entries /\ n \in Stored /\ ~Expired(n, now[t])
      BY <1>1, <2>1, <2>3 DEF Get, IInv, TypeOK, Stored, Expired
    <3> DEFINE e == entries[n]
    <3>2. e \in Entry /\ e.answer \in Answer /\ e.expires \in Nat /\ e.inserted \in Nat
      BY <2>1, <3>1 DEF IInv, TypeOK, Stored, Entry
    <3>3. now[t] \in Nat /\ now[t] < e.expires
      BY <3>1, <3>2 DEF Expired, Stored, IInv, TypeOK
    <3>4. e.answer.name = n /\ e.expires <= e.answer.born + lifetime(e.answer)
      <4>1. e.answer.born \in Nat /\ lifetime(e.answer) \in Nat
        BY <3>2, LifetimeType DEF Answer
      <4> QED
        BY <3>1, <3>2, <4>1 DEF IInv, Dates
    <3>5. now[t] < e.answer.born + lifetime(e.answer)
      <4>1. e.answer.born \in Nat /\ lifetime(e.answer) \in Nat
        BY <3>2, LifetimeType DEF Answer
      <4> QED
        BY SMTT(20), <3>2, <3>3, <3>4, <4>1
    <3>6. /\ result'[t] = e.answer /\ now' = now /\ query' = query
          /\ \A u \in Thread \ {t} : /\ pc'[u] = pc[u] /\ cached'[u] = cached[u]
                                      /\ result'[u] = result[u]
      BY <1>1, <2>3 DEF Get, IInv, TypeOK
    <3> QED
      BY SMTT(20), <3>4, <3>5, <3>6 DEF IInv, HitsAreFresh, lifetime
  <2> QED
    BY <2>2, <2>3
<1>2. ASSUME NEW t \in Thread, Answered(t) \/ Failed(t) \/ Insert(t) PROVE HitsAreFresh'
  <2>1. /\ pc[t] # "done" /\ ~cached[t] /\ cached' = cached /\ now' = now /\ query' = query
        /\ \A u \in Thread \ {t} : pc'[u] = pc[u] /\ result'[u] = result[u]
    BY <1>2 DEF Answered, Failed, Insert, IInv, TypeOK, Waiting
  <2> QED
    BY <2>1 DEF IInv, HitsAreFresh, lifetime
<1>3. ASSUME NEW t \in Thread, NEW n \in Name, Resolve(t, n) \/ ResolveHost(t, n)
      PROVE  HitsAreFresh'
  <2>1. /\ ~cached[t] /\ cached' = cached
        /\ \A u \in Thread \ {t} : /\ pc'[u] = pc[u] /\ result'[u] = result[u]
                                    /\ now'[u] = now[u] /\ query'[u] = query[u]
    BY <1>3 DEF Resolve, ResolveHost, IInv, TypeOK, Waiting
  <2> QED
    BY SMTT(20), <2>1 DEF IInv, HitsAreFresh, lifetime
<1>4. ASSUME NEW t \in Thread, Return(t) PROVE HitsAreFresh'
  <2>1. /\ ~cached'[t]
        /\ \A u \in Thread \ {t} : /\ pc'[u] = pc[u] /\ result'[u] = result[u]
                                    /\ now'[u] = now[u] /\ query'[u] = query[u]
                                    /\ cached'[u] = cached[u]
    BY <1>4 DEF Return, IInv, TypeOK
  <2> QED
    BY <2>1 DEF IInv, HitsAreFresh, lifetime
<1>5. CASE Tick \/ UNCHANGED vars
  BY <1>5 DEF Tick, vars, IInv, HitsAreFresh, lifetime
<1> QED
  BY <1>1, <1>2, <1>3, <1>4, <1>5 DEF Next, Step

\* The inductive invariant holds in every reachable state of the engine.
THEOREM Invariance == Spec => []IInv
<1>1. Init => IInv
  <2> SUFFICES ASSUME Init PROVE IInv
    OBVIOUS
  <2>1. Stored = {}
    BY DEF Init, Stored
  <2>2. CacheBounded /\ Dates
    BY <2>1, FS_EmptySet, EngineAssumption DEF CacheBounded, Dates
  <2>3. TypeOK /\ Waiting /\ HitsAreFresh
    BY EngineAssumption DEF Init, TypeOK, Waiting, HitsAreFresh
  <2> QED
    BY <2>2, <2>3 DEF IInv
<1>2. IInv /\ [Next]_vars => IInv'
  BY StepKeepsCache, StepKeepsType, StepKeepsWaiting, StepKeepsFresh DEF IInv, CacheOK
<1> QED
  BY <1>1, <1>2, PTL DEF Spec

\* Whatever a slow resolver or a late insert does, a cached answer is never
\* served beyond its TTL or the configured maximum.
THEOREM NeverStale == Spec => []HitsAreFresh
<1>1. IInv => HitsAreFresh
  BY DEF IInv
<1> QED
  BY <1>1, Invariance, PTL

\* The cache stays within its capacity and holds no zero-TTL answer.
THEOREM NeverOverfull == Spec => []CacheBounded
<1>1. IInv => CacheBounded
  BY DEF IInv
<1> QED
  BY <1>1, Invariance, PTL

\* The engine's state keeps its types.
THEOREM TypeCorrect == Spec => []TypeOK
<1>1. IInv => TypeOK
  BY DEF IInv
<1> QED
  BY <1>1, Invariance, PTL

\* What insert drops of the cache it had, unless it is expired by its own
\* instant: the oldest entry, of a cache that is full.
LEMMA InsertDropsOldest ==
  ASSUME CacheOK, NEW n \in Name, NEW a \in Answer, NEW at \in Nat, insert(n, a, at),
         NEW m \in Stored, ~Expired(m, at), entries'[m] = Absent
  PROVE  /\ Cardinality(Stored) = capacity
         /\ \A k \in Stored : entries[m].inserted <= entries[k].inserted
<1>1. m \in Name /\ entries[m] # Absent /\ m \in Retained(at)
  BY DEF Stored, Retained
<1>2. lifetime(a) # 0
  BY <1>1 DEF insert
<1>3. PICK K \in Kept(n, at) :
        entries' = [k \in Name |-> IF k = n THEN EntryFor(a, at)
                                   ELSE IF k \in K THEN entries[k] ELSE Absent]
  BY <1>2 DEF insert
<1>4. m \notin K
  <2>1. EntryFor(a, at) # Absent
    BY EntryForFacts, NotAnAnswer
  <2> QED
    BY <1>1, <1>3, <2>1
<1>5. Full(n, at) /\ m \in oldest(at)
  BY <1>1, <1>4 DEF Kept
<1>6. Retained(at) = Stored /\ Cardinality(Stored) = capacity
  <2>1. Retained(at) \subseteq Stored /\ IsFiniteSet(Stored) /\ Cardinality(Stored) \in Nat
    BY StoredFinite DEF Retained
  <2>2. Cardinality(Retained(at)) \in Nat /\ Cardinality(Retained(at)) <= Cardinality(Stored)
    BY <2>1, StoredFinite, FS_Subset
  <2>3. Cardinality(Retained(at)) >= capacity /\ Cardinality(Stored) <= capacity
    BY <1>5 DEF Full, CacheOK, CacheBounded
  <2>4. Cardinality(Retained(at)) = Cardinality(Stored) /\ Cardinality(Stored) = capacity
    BY <2>1, <2>2, <2>3, EngineAssumption
  <2> QED
    BY <2>1, <2>4, FS_Subset
<1> QED
  BY <1>5, <1>6 DEF oldest

\* No lookup, however early it started, costs the cache a good entry, unless
\* the cache is full and the entry its oldest (DnsCache::get and insert).
THEOREM GoodEntriesStay == Spec => LiveEntriesKept
<1> DEFINE Dropped(n) == entries[n].expires > clock /\ entries'[n] = Absent
           Oldest(n)  == /\ Cardinality(Stored) = capacity
                         /\ \A m \in Stored : entries[n].inserted <= entries[m].inserted
<1>1. ASSUME IInv, [Next]_vars, NEW n \in Stored, Dropped(n)
      PROVE  Oldest(n)
  <2>1. /\ n \in Name /\ entries[n] \in Entry /\ entries[n] # Absent /\ clock \in Nat
        /\ entries[n].expires \in Nat /\ CacheOK
    BY <1>1 DEF IInv, TypeOK, Stored, Entry, CacheOK
  <2>2. ASSUME NEW t \in Thread PROVE now[t] \in Nat /\ ~Expired(n, now[t])
    <3>1. now[t] \in Nat /\ now[t] <= clock
      BY <1>1 DEF IInv, TypeOK, Waiting
    <3> QED
      BY <1>1, <2>1, <3>1 DEF Expired
  <2>3. ASSUME NEW t \in Thread, Get(t) PROVE FALSE
    <3>1. entries' = IF Expired(query[t], now[t]) THEN [entries EXCEPT ![query[t]] = Absent]
                                                  ELSE entries
      BY <2>3 DEF Get
    <3>2. query[t] # n \/ ~Expired(query[t], now[t])
      BY <2>2
    <3> QED
      BY <1>1, <2>1, <3>1, <3>2 DEF IInv, TypeOK
  <2>4. ASSUME NEW t \in Thread, Insert(t) PROVE Oldest(n)
    <3>1. /\ query[t] \in Name /\ result[t] \in Answer /\ insert(query[t], result[t], now[t])
      BY <1>1, <2>4 DEF Insert, Dated, IInv, Waiting
    <3> QED
      BY <1>1, <2>1, <2>2, <3>1, InsertDropsOldest
  <2>5. CASE entries' = entries
    BY <1>1, <2>1, <2>5
  <2> QED
    BY <1>1, <2>3, <2>4, <2>5
    DEF Next, Step, Resolve, ResolveHost, Answered, Failed, Return, Tick, vars
<1>2. IInv /\ [Next]_vars => [\A n \in Stored : Dropped(n) => Oldest(n)]_vars
  BY <1>1
<1> QED
  BY <1>2, Invariance, PTL DEF Spec, LiveEntriesKept
=============================================================================
