------------------------- MODULE DotResolverProofs -------------------------
(***************************************************************************)
(* A DoT lookup never returns another lookup's addresses, for any number   *)
(* of threads, names, ids and attempts.                                    *)
(*                                                                         *)
(* The id and the question that parse_address_response compares do not     *)
(* carry the argument, since ids wrap and names repeat.  What does is the  *)
(* lock: the session holds nothing but the question of the thread that     *)
(* holds the lock, or its answer, and it is empty when the lock is free.   *)
(***************************************************************************)
EXTENDS DotResolver, TLAPS

Inside == {"connect", "write", "read"}

\* Who is under the lock.
Exclusive == \A t \in Thread : pc[t] \in Inside <=> holder = t

\* Nothing is on the session, or one question is, or its answer.
Empty == owed = {} /\ inbox = <<>>

Carries(q) ==
  \/ owed = {q} /\ inbox = <<>>
  \/ owed = {} /\ \E r \in Response : r.question = q /\ inbox = <<r>>

Owned ==
  /\ ~session => Empty
  /\ holder = Nobody => Empty
  /\ \A t \in Thread :
       /\ pc[t] \in {"connect", "write"} => Empty
       /\ pc[t] = "read" => Carries(asking[t])
       /\ pc[t] \in Inside => (session <=> pc[t] # "connect")

\* A question belongs to the current lookup of its thread, and the families
\* are asked in order.
Asked ==
  \A t \in Thread :
    /\ pc[t] # "idle" => /\ asking[t] \in Question
                         /\ asking[t].by = t /\ asking[t].lookup = lookups[t]
    /\ pc[t] = "idle" => found[t] = {}
    /\ \A r \in found[t] : r.question.by = t /\ r.question.lookup = lookups[t]

Order ==
  \A t \in Thread :
    /\ pc[t] \notin {"idle", "done"} =>
         /\ asking[t].family = "A" => found[t] = {}
         /\ \A r \in found[t] : r.question.family = "A"
    /\ \A r, s \in found[t] : r.question.family = s.question.family => r = s

IInv == TypeOK /\ Exclusive /\ Owned /\ Asked /\ Order


\* What resolve_family leaves behind when it returns.
LEMMA FamilyDoneFacts ==
  ASSUME IInv, NEW t \in Thread, pc[t] \in Inside, FamilyDone(t)
  PROVE  /\ holder' = Nobody /\ attempts' \in [Thread -> 0..(DOT_CONNECT_ATTEMPTS - 1)]
         /\ pc' \in [Thread -> {"idle", "id", "lock", "connect", "write", "read", "done"}]
         /\ asking' \in [Thread -> Question \cup {Nobody}]
         /\ \A u \in Thread \ {t} : pc'[u] = pc[u] /\ asking'[u] = asking[u]
         /\ asking'[t] \in Question
         /\ asking'[t].by = asking[t].by /\ asking'[t].lookup = asking[t].lookup
         /\ \/ asking[t].family = "A" /\ asking'[t].family = "Aaaa" /\ pc'[t] = "id"
            \/ asking[t].family = "Aaaa" /\ pc'[t] = "done"
<1>1. asking[t] \in Question
  BY DEF IInv, Asked, Inside
<1>2. asking[t].family \in {"A", "Aaaa"}
  BY <1>1 DEF Question, Family
<1>3. CASE asking[t].family = "A"
  <2> DEFINE q == [asking[t] EXCEPT !.family = "Aaaa"]
  <2>1. "Aaaa" \in Family /\ 0 \in 0..(IdSpace - 1)
    BY DotAssumption DEF Family
  <2>2. /\ q \in Question
        /\ q.by = asking[t].by /\ q.lookup = asking[t].lookup /\ q.family = "Aaaa"
    BY <1>1, <2>1 DEF Question
  <2>3. /\ asking' = [asking EXCEPT ![t] = q] /\ pc' = [pc EXCEPT ![t] = "id"] /\ holder' = Nobody
        /\ attempts' = [attempts EXCEPT ![t] = 0]
    BY <1>3 DEF FamilyDone, Goto
  <2> HIDE DEF q
  <2>4. attempts' \in [Thread -> 0..(DOT_CONNECT_ATTEMPTS - 1)]
    <3>1. 0 \in 0..(DOT_CONNECT_ATTEMPTS - 1)
      BY DotAssumption
    <3> QED
      BY <2>3, <3>1 DEF IInv, TypeOK
  <2>5. pc' \in [Thread -> {"idle", "id", "lock", "connect", "write", "read", "done"}] /\ pc'[t] = "id"
    BY <2>3 DEF IInv, TypeOK
  <2>6. asking' \in [Thread -> Question \cup {Nobody}] /\ asking'[t] = q
    BY <2>2, <2>3 DEF IInv, TypeOK
  <2>7. \A u \in Thread \ {t} : pc'[u] = pc[u] /\ asking'[u] = asking[u]
    BY <2>3 DEF IInv, TypeOK
  <2> QED
    BY <1>3, <2>2, <2>3, <2>4, <2>5, <2>6, <2>7
<1>4. CASE asking[t].family = "Aaaa"
  <2>1. /\ asking' = asking /\ pc' = [pc EXCEPT ![t] = "done"] /\ holder' = Nobody
        /\ attempts' = [attempts EXCEPT ![t] = 0]
    BY <1>4 DEF FamilyDone, Goto
  <2>2. 0 \in 0..(DOT_CONNECT_ATTEMPTS - 1)
    BY DotAssumption
  <2> QED
    BY <1>1, <1>4, <2>1, <2>2 DEF IInv, TypeOK
<1> QED
  BY <1>2, <1>3, <1>4

\* A step of a thread under the lock that ends its question keeps the
\* invariant, if it leaves the session empty and adds at most its own answer.
LEMMA EndOfFamily ==
  ASSUME IInv, NEW t \in Thread, pc[t] \in Inside, FamilyDone(t),
         session' \in BOOLEAN, Empty', UNCHANGED <<next_id, lookups>>,
         \/ found' = found
         \/ \E r \in Response : /\ r.question = asking[t]
                                /\ found' = [found EXCEPT ![t] = @ \cup {r}]
  PROVE  IInv'
<1>1. /\ holder' = Nobody /\ attempts' \in [Thread -> 0..(DOT_CONNECT_ATTEMPTS - 1)]
      /\ pc' \in [Thread -> {"idle", "id", "lock", "connect", "write", "read", "done"}]
      /\ asking' \in [Thread -> Question \cup {Nobody}]
      /\ \A u \in Thread \ {t} : pc'[u] = pc[u] /\ asking'[u] = asking[u]
      /\ asking'[t] \in Question
      /\ asking'[t].by = asking[t].by /\ asking'[t].lookup = asking[t].lookup
      /\ \/ asking[t].family = "A" /\ asking'[t].family = "Aaaa" /\ pc'[t] = "id"
         \/ asking[t].family = "Aaaa" /\ pc'[t] = "done"
  BY FamilyDoneFacts
<1>2. /\ asking[t] \in Question /\ asking[t].by = t /\ asking[t].lookup = lookups[t]
      /\ holder = t /\ pc[t] \notin {"idle", "done", "id"}
  BY DEF IInv, Asked, Exclusive, Inside
<1>3. /\ found' \in [Thread -> SUBSET Response]
      /\ \A u \in Thread \ {t} : found'[u] = found[u]
      /\ \/ found'[t] = found[t]
         \/ \E r \in Response : r.question = asking[t] /\ found'[t] = found[t] \cup {r}
  <2>1. found \in [Thread -> SUBSET Response]
    BY DEF IInv, TypeOK
  <2>2. CASE found' = found
    BY <2>1, <2>2
  <2>3. ASSUME NEW r \in Response, r.question = asking[t], found' = [found EXCEPT ![t] = @ \cup {r}]
        PROVE  /\ found' \in [Thread -> SUBSET Response]
               /\ \A u \in Thread \ {t} : found'[u] = found[u]
               /\ found'[t] = found[t] \cup {r}
    BY <2>1, <2>3
  <2> QED
    BY <2>2, <2>3
<1>4. TypeOK'
  BY <1>1, <1>3 DEF IInv, TypeOK, Empty
<1>5. Exclusive'
  BY <1>1, <1>2, DotAssumption DEF IInv, Exclusive, Inside
<1>6. Owned'
  BY <1>1, <1>2, <1>5, DotAssumption DEF Owned, Exclusive, Inside
<1>7. Asked'
  BY <1>1, <1>2, <1>3 DEF IInv, Asked
<1>8. Order'
  <2>1. \A r \in found[t] : r.question.family = "A"
    BY <1>2 DEF IInv, Order
  <2>2. asking[t].family = "A" => found[t] = {}
    BY <1>2 DEF IInv, Order
  <2>3. /\ pc'[t] = "id" => \A r \in found'[t] : r.question.family = "A"
        /\ pc'[t] = "id" => asking'[t].family # "A"
        /\ \A r, s \in found'[t] : r.question.family = s.question.family => r = s
    BY <1>1, <1>3, <2>1, <2>2 DEF IInv, Order
  <2>4. \A u \in Thread \ {t} : /\ pc'[u] = pc[u] /\ asking'[u] = asking[u]
                                /\ found'[u] = found[u]
    BY <1>1, <1>3
  <2> QED
    BY <1>1, <2>3, <2>4 DEF IInv, Order
<1> QED
  BY <1>4, <1>5, <1>6, <1>7, <1>8 DEF IInv

\* A failed attempt leaves an empty session for the next one.
LEMMA EndOfAttempt ==
  ASSUME IInv, NEW t \in Thread, pc[t] \in Inside, AttemptFailed(t),
         session' = FALSE, Empty', UNCHANGED <<next_id, lookups, found>>
  PROVE  IInv'
<1>1. CASE Exhausted(t)
  BY <1>1, EndOfFamily DEF AttemptFailed
<1>2. CASE ~Exhausted(t)
  <2>1. /\ pc' = [pc EXCEPT ![t] = "connect"] /\ UNCHANGED <<holder, asking>>
        /\ attempts' = [attempts EXCEPT ![t] = @ + 1]
    BY <1>2 DEF AttemptFailed, Goto, Counted
  <2>2. attempts[t] + 1 \in 0..(DOT_CONNECT_ATTEMPTS - 1)
    <3>1. attempts[t] \in 0..(DOT_CONNECT_ATTEMPTS - 1) /\ DOT_CONNECT_ATTEMPTS \in Nat
      BY DotAssumption DEF IInv, TypeOK
    <3> QED
      BY <1>2, <3>1 DEF Exhausted, Counted
  <2>3. TypeOK'
    <3>1. attempts' \in [Thread -> 0..(DOT_CONNECT_ATTEMPTS - 1)]
      <4>1. attempts \in [Thread -> 0..(DOT_CONNECT_ATTEMPTS - 1)]
        BY DEF IInv, TypeOK
      <4>2. attempts' = [attempts EXCEPT ![t] = attempts[t] + 1]
        BY <2>1
      <4> QED
        BY <2>2, <4>1, <4>2
    <3>2. pc' \in [Thread -> {"idle", "id", "lock", "connect", "write", "read", "done"}]
      BY <2>1 DEF IInv, TypeOK
    <3>3. owed' \subseteq Question /\ inbox' \in Seq(Response)
      BY DEF Empty
    <3>4. session' \in BOOLEAN
      OBVIOUS
    <3> QED
      BY <2>1, <3>1, <3>2, <3>3, <3>4 DEF IInv, TypeOK
  <2>4. Exclusive' /\ Owned'
    BY <2>1 DEF IInv, TypeOK, Exclusive, Owned, Inside
  <2>5. Asked' /\ Order'
    BY <2>1 DEF IInv, TypeOK, Asked, Order, Inside
  <2> QED
    BY <2>3, <2>4, <2>5 DEF IInv
<1> QED
  BY <1>1, <1>2

\* The invariant across the steps that begin a question.
LEMMA BeginKeeps ==
  ASSUME IInv, NEW t \in Thread,
         TakeId(t) \/ Lock(t) \/ \E n \in Name : Resolve(t, n)
  PROVE  IInv'
<1>1. ASSUME NEW n \in Name, Resolve(t, n) PROVE IInv'
  <2> DEFINE q == [by |-> t, lookup |-> lookups[t] + 1, name |-> n, family |-> "A", id |-> 0]
  <2>1. lookups[t] + 1 \in 1..MaxLookups
    BY SMTT(20), <1>1, DotAssumption DEF Resolve, IInv, TypeOK
  <2>2. q \in Question /\ q.by = t /\ q.lookup = lookups[t] + 1
    BY <2>1, DotAssumption DEF Question, Family
  <2> HIDE DEF q
  <2>3. /\ pc[t] = "idle" /\ pc' = [pc EXCEPT ![t] = "id"] /\ asking' = [asking EXCEPT ![t] = q]
        /\ lookups' = [lookups EXCEPT ![t] = lookups[t] + 1]
        /\ found' = [found EXCEPT ![t] = {}]
        /\ UNCHANGED <<next_id, holder, session, owed, inbox, attempts>>
    BY <1>1 DEF Resolve, Goto, q
  <2>4. TypeOK'
    <3>1. lookups' \in [Thread -> 0..MaxLookups]
      BY <2>1, <2>3, DotAssumption DEF IInv, TypeOK
    <3>2. /\ pc' \in [Thread -> {"idle", "id", "lock", "connect", "write", "read", "done"}]
          /\ asking' \in [Thread -> Question \cup {Nobody}]
          /\ found' \in [Thread -> SUBSET Response]
      BY <2>2, <2>3 DEF IInv, TypeOK
    <3> QED
      BY <2>3, <3>1, <3>2 DEF IInv, TypeOK
  <2>5. Exclusive'
    BY <2>3 DEF IInv, TypeOK, Exclusive, Inside
  <2>6. Owned'
    BY <2>3 DEF IInv, TypeOK, Owned, Empty, Carries, Inside
  <2>7. Asked' /\ Order'
    BY SMTT(20), <2>2, <2>3 DEF IInv, TypeOK, Asked, Order
  <2> QED
    BY <2>4, <2>5, <2>6, <2>7 DEF IInv
<1>2. CASE TakeId(t)
  <2> DEFINE q == [asking[t] EXCEPT !.id = next_id]
  <2>1. asking[t] \in Question /\ next_id \in 0..(IdSpace - 1)
    BY <1>2 DEF TakeId, IInv, Asked, TypeOK
  <2>2. /\ q \in Question /\ q.by = asking[t].by /\ q.lookup = asking[t].lookup
        /\ q.family = asking[t].family
    BY <2>1 DEF Question
  <2> HIDE DEF q
  <2>3. /\ pc[t] = "id" /\ pc' = [pc EXCEPT ![t] = "lock"] /\ asking' = [asking EXCEPT ![t] = q]
        /\ UNCHANGED <<holder, session, owed, inbox, attempts, lookups, found>>
    BY <1>2 DEF TakeId, Goto, q
  <2>4. next_id' \in 0..(IdSpace - 1)
    BY <1>2, <2>1, DotAssumption DEF TakeId
  <2>5. TypeOK'
    BY <2>2, <2>3, <2>4 DEF IInv, TypeOK
  <2>6. Exclusive'
    BY <2>3 DEF IInv, TypeOK, Exclusive, Inside
  <2>7. Owned'
    BY <2>3 DEF IInv, TypeOK, Owned, Empty, Carries, Inside
  <2>8. Asked' /\ Order'
    BY <2>2, <2>3 DEF IInv, TypeOK, Asked, Order
  <2> QED
    BY <2>5, <2>6, <2>7, <2>8 DEF IInv
<1>3. CASE Lock(t)
  <2>1. /\ pc[t] = "lock" /\ holder = Nobody /\ holder' = t
        /\ pc' = [pc EXCEPT ![t] = IF session THEN "write" ELSE "connect"]
        /\ UNCHANGED <<next_id, session, owed, inbox, asking, attempts, lookups, found>>
    BY <1>3 DEF Lock, Free, Goto
  <2>2. TypeOK'
    BY <2>1 DEF IInv, TypeOK
  <2>3. Exclusive'
    BY <2>1, DotAssumption DEF IInv, TypeOK, Exclusive, Inside
  <2>4. Empty /\ Empty'
    BY <2>1 DEF IInv, Owned, Empty
  <2>5. Owned'
    BY <2>1, <2>3, <2>4, DotAssumption DEF IInv, TypeOK, Owned, Exclusive, Inside
  <2>6. Asked' /\ Order'
    BY <2>1 DEF IInv, TypeOK, Asked, Order
  <2> QED
    BY <2>2, <2>3, <2>5, <2>6 DEF IInv
<1> QED
  BY <1>1, <1>2, <1>3

\* The invariant across the steps of an exchange.
LEMMA ExchangeKeeps ==
  ASSUME IInv, NEW t \in Thread,
         Connect(t) \/ ConnectFails(t) \/ Write(t) \/ ExchangeFails(t) \/ Read(t)
  PROVE  IInv'
<1>1. CASE Connect(t)
  <2>1. /\ pc[t] = "connect" /\ pc' = [pc EXCEPT ![t] = "write"] /\ session' = TRUE
        /\ UNCHANGED <<next_id, holder, owed, inbox, asking, attempts, lookups, found>>
    BY <1>1 DEF Connect, Goto
  <2>2. TypeOK' /\ Exclusive'
    BY <2>1 DEF IInv, TypeOK, Exclusive, Inside
  <2>3. Owned'
    <3>1. \A u \in Thread \ {t} : pc'[u] \notin Inside
      BY <2>1 DEF IInv, TypeOK, Exclusive, Inside
    <3>2. Empty' /\ holder' # Nobody
      BY <2>1, DotAssumption DEF IInv, Owned, Empty, Exclusive, Inside
    <3> QED
      BY <2>1, <3>1, <3>2 DEF IInv, TypeOK, Owned, Inside
  <2>4. Asked' /\ Order'
    BY <2>1 DEF IInv, TypeOK, Asked, Order
  <2> QED
    BY <2>2, <2>3, <2>4 DEF IInv
<1>2. CASE ConnectFails(t)
  <2>1. pc[t] = "connect" /\ holder = t
    BY <1>2 DEF ConnectFails, IInv, Exclusive, Inside
  <2>2. Empty'
    BY <1>2, <2>1 DEF ConnectFails, IInv, Owned, Empty
  <2>3. pc[t] \in Inside /\ session' = FALSE
    BY <1>2, <2>1 DEF ConnectFails, Inside, IInv, Owned, TypeOK
  <2> QED
    BY <1>2, <2>2, <2>3, EndOfAttempt DEF ConnectFails
<1>3. CASE Write(t)
  <2>1. /\ pc[t] = "write" /\ pc' = [pc EXCEPT ![t] = "read"] /\ owed' = owed \cup {asking[t]}
        /\ UNCHANGED <<next_id, holder, session, inbox, asking, attempts, lookups, found>>
    BY <1>3 DEF Write, Goto
  <2>2. asking[t] \in Question /\ holder = t
    BY <2>1 DEF IInv, Asked, Exclusive, Inside
  <2>3. TypeOK' /\ Exclusive'
    BY <2>1, <2>2 DEF IInv, TypeOK, Exclusive, Inside
  <2>4. owed' = {asking'[t]} /\ inbox' = <<>>
    BY <2>1 DEF IInv, Owned, Empty
  <2>5. Owned'
    <3>1. Carries(asking[t])'
      BY <2>4 DEF Carries
    <3>2. session' /\ holder' # Nobody
      BY <2>1, <2>2, DotAssumption DEF IInv, Owned, Inside
    <3>3. \A u \in Thread \ {t} : pc'[u] \notin Inside
      BY <2>1, <2>2 DEF IInv, TypeOK, Exclusive
    <3> QED
      BY <2>1, <3>1, <3>2, <3>3 DEF IInv, TypeOK, Owned, Inside
  <2>6. Asked' /\ Order'
    BY <2>1 DEF IInv, TypeOK, Asked, Order
  <2> QED
    BY <2>3, <2>5, <2>6 DEF IInv
<1>4. CASE ExchangeFails(t)
  <2>1. pc[t] \in Inside /\ session' = FALSE /\ Empty'
    BY <1>4 DEF ExchangeFails, Inside, Dropped, Empty
  <2> QED
    BY <1>4, <2>1, EndOfAttempt DEF ExchangeFails
<1>5. CASE Read(t)
  <2>1. pc[t] = "read" /\ pc[t] \in Inside /\ inbox # <<>> /\ session
    BY <1>5 DEF Read, Inside, IInv, Owned
  <2>2. PICK r \in Response : r.question = asking[t] /\ inbox = <<r>> /\ owed = {}
    BY <2>1 DEF IInv, Owned, Carries
  <2>3. Head(inbox) = r /\ Tail(inbox) = <<>>
    BY <2>2
  <2>4. Empty' /\ session' \in BOOLEAN
    BY <1>5, <2>1, <2>2, <2>3 DEF Read, Dropped, Empty
  <2>5. \/ found' = found
        \/ found' = [found EXCEPT ![t] = @ \cup {r}]
    <3>1. {x \in {r} : x.kind = "answer"} \in {{}, {r}}
      OBVIOUS
    <3>2. \/ found' = found
          \/ found' = [found EXCEPT ![t] = @ \cup {x \in {r} : x.kind = "answer"}]
      BY <1>5, <2>3 DEF Read
    <3>3. [found EXCEPT ![t] = @ \cup {}] = found
      BY DEF IInv, TypeOK
    <3> QED
      BY <3>1, <3>2, <3>3
  <2>6. FamilyDone(t) /\ UNCHANGED <<next_id, lookups>>
    BY <1>5 DEF Read
  <2> QED
    BY <2>1, <2>2, <2>4, <2>5, <2>6, EndOfFamily
<1> QED
  BY <1>1, <1>2, <1>3, <1>4, <1>5

\* The invariant across a return and across a message of the server.
LEMMA RestKeeps ==
  ASSUME IInv, Serve \/ \E t \in Thread : Return(t)
  PROVE  IInv'
<1>1. ASSUME NEW t \in Thread, Return(t) PROVE IInv'
  <2>1. /\ pc[t] = "done" /\ pc' = [pc EXCEPT ![t] = "idle"]
        /\ asking' = [asking EXCEPT ![t] = Nobody] /\ found' = [found EXCEPT ![t] = {}]
        /\ UNCHANGED <<next_id, holder, session, owed, inbox, attempts, lookups>>
    BY <1>1 DEF Return, Goto
  <2>2. TypeOK' /\ Exclusive'
    BY <2>1 DEF IInv, TypeOK, Exclusive, Inside
  <2>3. Owned'
    BY <2>1 DEF IInv, TypeOK, Owned, Empty, Carries, Inside
  <2>4. Asked' /\ Order'
    BY <2>1 DEF IInv, TypeOK, Asked, Order
  <2> QED
    BY <2>2, <2>3, <2>4 DEF IInv
<1>2. CASE Serve
  <2>1. PICK q \in owed, kind \in {"answer", "negative", "garbled"} :
          /\ owed' = owed \ {q}
          /\ inbox' = Append(inbox, [question |-> q, kind |-> kind])
          /\ UNCHANGED <<next_id, holder, session, pc, asking, attempts, lookups, found>>
    BY <1>2 DEF Serve
  <2> DEFINE r == [question |-> q, kind |-> kind]
  <2>2. q \in Question /\ r \in Response /\ r.question = q
    BY <2>1 DEF IInv, TypeOK, Response
  <2> HIDE DEF r
  <2>3. holder \in Thread /\ pc[holder] = "read" /\ session
    <3>1. ~Empty
      BY <2>1 DEF Empty
    <3>2. holder \in Thread /\ pc[holder] \in Inside
      BY <3>1 DEF IInv, TypeOK, Owned, Exclusive
    <3> QED
      BY <3>1, <3>2 DEF IInv, Owned, Inside
  <2>4. owed = {q} /\ inbox = <<>> /\ q = asking[holder]
    BY <2>1, <2>3 DEF IInv, Owned, Carries
  <2>5. owed' = {} /\ inbox' = <<r>>
    BY <2>1, <2>4 DEF r
  <2>6. TypeOK'
    <3>1. inbox' \in Seq(Response) /\ owed' \subseteq Question
      BY <2>2, <2>5
    <3> QED
      BY <2>1, <3>1 DEF IInv, TypeOK
  <2>7. Exclusive' /\ Asked' /\ Order'
    BY SMTT(20), <2>1 DEF IInv, Exclusive, Asked, Order
  <2>8. Owned'
    <3>1. Carries(asking[holder])'
      BY <2>1, <2>2, <2>4, <2>5 DEF Carries
    <3>2. \A u \in Thread \ {holder} : pc[u] \notin Inside
      BY DEF IInv, Exclusive
    <3> QED
      BY <2>1, <2>3, <3>1, <3>2, DotAssumption DEF Owned, Inside
  <2> QED
    BY <2>6, <2>7, <2>8 DEF IInv
<1> QED
  BY <1>1, <1>2

\* The inductive invariant holds in every reachable state.
THEOREM Invariance == Spec => []IInv
<1>1. Init => IInv
  <2> SUFFICES ASSUME Init PROVE IInv
    OBVIOUS
  <2>1. TypeOK
    <3>1. 1 % IdSpace \in 0..(IdSpace - 1) /\ 0 \in 0..(DOT_CONNECT_ATTEMPTS - 1)
      BY DotAssumption
    <3>2. owed \subseteq Question /\ inbox \in Seq(Response)
      BY DEF Init
    <3>3. /\ session \in BOOLEAN
          /\ pc \in [Thread -> {"idle", "id", "lock", "connect", "write", "read", "done"}]
      BY DEF Init
    <3> QED
      BY <3>1, <3>2, <3>3, DotAssumption DEF Init, TypeOK
  <2>2. Exclusive /\ Owned /\ Asked /\ Order
    BY DotAssumption DEF Init, Exclusive, Owned, Asked, Order, Empty, Inside
  <2> QED
    BY <2>1, <2>2 DEF IInv
<1>2. IInv /\ [Next]_vars => IInv'
  <2> SUFFICES ASSUME IInv, [Next]_vars PROVE IInv'
    OBVIOUS
  <2>1. CASE UNCHANGED vars
    BY SMTT(20), <2>1 DEF vars, IInv, TypeOK, Exclusive, Owned, Asked, Order, Empty, Carries
  <2> QED
    BY <2>1, BeginKeeps, ExchangeKeeps, RestKeeps DEF Next, Step, Finished
<1> QED
  BY <1>1, <1>2, PTL DEF Spec

\* While the lock is free nothing is owed or unread on the session: the next
\* exchange starts in step with the server.
THEOREM InSync == Spec => []SessionInSync
<1>1. IInv => SessionInSync
  BY DEF IInv, Owned, Empty, SessionInSync
<1> QED
  BY <1>1, Invariance, PTL

\* A lookup returns only what the server sent for that very lookup.
THEOREM AnswersAreOwn == Spec => []OwnAnswers
<1>1. IInv => OwnAnswers
  BY SMTT(20) DEF IInv, Asked, Order, OwnAnswers
<1> QED
  BY <1>1, Invariance, PTL

\* The resolver's state keeps its types; no exchange takes more attempts than
\* DOT_CONNECT_ATTEMPTS.
THEOREM TypeCorrect == Spec => []TypeOK
<1>1. IInv => TypeOK
  BY DEF IInv
<1> QED
  BY <1>1, Invariance, PTL
=============================================================================
