---------------------------- MODULE DotResolver ----------------------------
(***************************************************************************)
(* DotResolver of crates/dns/src/dot.rs: session threads that look names   *)
(* up over one persistent DNS-over-TLS session, kept behind a mutex.       *)
(*                                                                         *)
(* A lookup asks for the A and then for the AAAA records.  Each question   *)
(* takes an id from a wrapping counter, then the lock, and under the lock  *)
(* tries at most twice to connect, write the question and read one framed  *)
(* message.  The server answers a question of a live connection late or    *)
(* never, and once at most; dropping a session forgets what was on it.     *)
(***************************************************************************)
EXTENDS Integers, Sequences, FiniteSets

CONSTANTS
  Thread, Name,
  IdSpace,               \* bound: 2^16 ids in the code
  DOT_CONNECT_ATTEMPTS,
  MaxLookups,            \* bound: the lookups of a thread
  Nobody

ASSUME DotAssumption ==
  /\ IdSpace \in Nat \ {0} /\ DOT_CONNECT_ATTEMPTS \in Nat \ {0}
  /\ MaxLookups \in Nat /\ Nobody \notin Thread

Family == {"A", "Aaaa"}

\* A question on the wire, tagged with the lookup that asks it.
Question == [by : Thread, lookup : 1..MaxLookups, name : Name, family : Family,
             id : 0..(IdSpace - 1)]

\* An answer holds addresses; a negative one is well formed and holds none; a
\* garbled one does not parse.
Response == [question : Question, kind : {"answer", "negative", "garbled"}]

VARIABLES
  next_id,
  holder,    \* the thread that holds the lock on state, or Nobody
  session,   \* state.session.is_some()
  owed,      \* the questions the server of this session has yet to answer
  inbox,     \* the responses of this session that are not read yet
  pc,        \* pc[t]: idle, id, lock, connect, write, read or done
  asking,    \* asking[t]: the question of t, Nobody when there is none
  attempts,  \* attempts[t]: the attempts of this exchange that failed
  lookups,   \* lookups[t]: how many lookups t has begun
  found      \* found[t]: the responses whose addresses the lookup returns

vars == <<next_id, holder, session, owed, inbox, pc, asking, attempts, lookups, found>>

\* Every thread is at one step of resolve_family or exchange, the lock has at
\* most one holder, and ids stay within their width (DotState, next_id).
TypeOK ==
  /\ next_id \in 0..(IdSpace - 1)
  /\ holder \in Thread \cup {Nobody}
  /\ session \in BOOLEAN
  /\ owed \subseteq Question
  /\ inbox \in Seq(Response)
  /\ pc \in [Thread -> {"idle", "id", "lock", "connect", "write", "read", "done"}]
  /\ asking \in [Thread -> Question \cup {Nobody}]
  /\ attempts \in [Thread -> 0..(DOT_CONNECT_ATTEMPTS - 1)]
  /\ lookups \in [Thread -> 0..MaxLookups]
  /\ found \in [Thread -> SUBSET Response]

Init ==
  /\ next_id = 1 % IdSpace
  /\ holder = Nobody
  /\ session = FALSE
  /\ owed = {}
  /\ inbox = <<>>
  /\ pc = [t \in Thread |-> "idle"]
  /\ asking = [t \in Thread |-> Nobody]
  /\ attempts = [t \in Thread |-> 0]
  /\ lookups = [t \in Thread |-> 0]
  /\ found = [t \in Thread |-> {}]

Goto(t, label) == pc' = [pc EXCEPT ![t] = label]

\* Resolver::resolve begins with the A records.
Resolve(t, n) ==
  /\ pc[t] = "idle"
  /\ lookups[t] < MaxLookups
  /\ lookups' = [lookups EXCEPT ![t] = @ + 1]
  /\ asking' = [asking EXCEPT ![t] = [by |-> t, lookup |-> lookups[t] + 1, name |-> n,
                                      family |-> "A", id |-> 0]]
  /\ found' = [found EXCEPT ![t] = {}]
  /\ Goto(t, "id")
  /\ UNCHANGED <<next_id, holder, session, owed, inbox, attempts>>

\* next_id.fetch_add(1): the counter wraps.
TakeId(t) ==
  /\ pc[t] = "id"
  /\ asking' = [asking EXCEPT ![t].id = next_id]
  /\ next_id' = (next_id + 1) % IdSpace
  /\ Goto(t, "lock")
  /\ UNCHANGED <<holder, session, owed, inbox, attempts, lookups, found>>

\* Mutant: the session is used without the lock.
NoLock == TRUE

Free == holder = Nobody

Lock(t) ==
  /\ pc[t] = "lock"
  /\ Free
  /\ holder' = t
  /\ Goto(t, IF session THEN "write" ELSE "connect")
  /\ UNCHANGED <<next_id, session, owed, inbox, asking, attempts, lookups, found>>

\* Mutant: state.session is left as it is.
KeptOpen == UNCHANGED <<session, owed, inbox>>

\* state.session = None
Dropped == session' = FALSE /\ owed' = {} /\ inbox' = <<>>

\* resolve_family returns: the lock is released, and the AAAA records follow
\* the A records whether or not those were found.
FamilyDone(t) ==
  /\ holder' = Nobody
  /\ attempts' = [attempts EXCEPT ![t] = 0]
  /\ IF asking[t].family = "A"
       THEN asking' = [asking EXCEPT ![t].family = "Aaaa"] /\ Goto(t, "id")
       ELSE asking' = asking /\ Goto(t, "done")

\* Mutant: a failed attempt is not counted.
Uncounted(t) == attempts[t]

Counted(t) == attempts[t] + 1

Exhausted(t) == Counted(t) = DOT_CONNECT_ATTEMPTS

\* The attempt failed: the for loop goes round, or the exchange fails.
AttemptFailed(t) ==
  IF Exhausted(t) THEN FamilyDone(t)
  ELSE /\ attempts' = [attempts EXCEPT ![t] = Counted(t)]
       /\ Goto(t, IF session' THEN "write" ELSE "connect")
       /\ UNCHANGED <<holder, asking>>

Connect(t) ==
  /\ pc[t] = "connect"
  /\ session' = TRUE
  /\ Goto(t, "write")
  /\ UNCHANGED <<next_id, holder, owed, inbox, asking, attempts, lookups, found>>

ConnectFails(t) ==
  /\ pc[t] = "connect"
  /\ session' = session
  /\ AttemptFailed(t)
  /\ UNCHANGED <<next_id, owed, inbox, lookups, found>>

\* exchange_message: write_all and flush.
Write(t) ==
  /\ pc[t] = "write"
  /\ owed' = owed \cup {asking[t]}
  /\ Goto(t, "read")
  /\ UNCHANGED <<next_id, holder, session, inbox, asking, attempts, lookups, found>>

\* exchange_message fails: an error, a timeout or a short message.
ExchangeFails(t) ==
  /\ pc[t] \in {"write", "read"}
  /\ Dropped
  /\ AttemptFailed(t)
  /\ UNCHANGED <<next_id, lookups, found>>

\* parse_address_response compares the id and, unless the response code or the
\* truncation flag settles it before, the question.
Matches(t, response) ==
  /\ response.kind # "garbled"
  /\ response.question.id = asking[t].id
  /\ response.kind = "answer" => /\ response.question.name = asking[t].name
                                 /\ response.question.family = asking[t].family

\* exchange_message returns the next framed message, and it is parsed.
Read(t) ==
  /\ pc[t] = "read"
  /\ inbox # <<>>
  /\ LET response == Head(inbox)
     IN  IF Matches(t, response)
           THEN /\ found' = [found EXCEPT ![t] = @ \cup
                               {r \in {response} : r.kind = "answer"}]
                /\ inbox' = Tail(inbox)
                /\ UNCHANGED <<session, owed>>
           ELSE Dropped /\ UNCHANGED found
  /\ FamilyDone(t)
  /\ UNCHANGED <<next_id, lookups>>

\* The caller takes the addresses, or the last error when there are none.
Return(t) ==
  /\ pc[t] = "done"
  /\ asking' = [asking EXCEPT ![t] = Nobody]
  /\ found' = [found EXCEPT ![t] = {}]
  /\ Goto(t, "idle")
  /\ UNCHANGED <<next_id, holder, session, owed, inbox, attempts, lookups>>

\* The server answers a question it still owes.
Serve ==
  \E q \in owed, kind \in {"answer", "negative", "garbled"} :
    /\ owed' = owed \ {q}
    /\ inbox' = Append(inbox, [question |-> q, kind |-> kind])
    /\ UNCHANGED <<next_id, holder, session, pc, asking, attempts, lookups, found>>

Step(t) ==
  \/ TakeId(t) \/ Lock(t) \/ Connect(t) \/ ConnectFails(t)
  \/ Write(t) \/ ExchangeFails(t) \/ Read(t) \/ Return(t)

\* Every thread has made all the lookups of the bound.
Finished ==
  /\ \A t \in Thread : pc[t] = "idle" /\ lookups[t] = MaxLookups
  /\ UNCHANGED vars

Next ==
  \/ \E t \in Thread : Step(t) \/ \E n \in Name : Resolve(t, n)
  \/ Serve
  \/ Finished

Spec == Init /\ [][Next]_vars

\* Threads run, and a read ends by the socket's timeout at the latest.
FairSpec == Spec /\ \A t \in Thread : WF_vars(Step(t))
----------------------------------------------------------------------------

\* Response ownership is unambiguous: while nobody holds the lock, nothing is
\* owed or unread on the session that the next exchange will use.
SessionInSync == holder = Nobody /\ session => owed = {} /\ inbox = <<>>

\* A lookup returns only addresses that the server sent for that very lookup,
\* each family's once, however late the answers to other lookups arrive and
\* although ids wrap.
OwnAnswers ==
  \A t \in Thread : \A r, s \in found[t] :
    /\ r.question.by = t /\ r.question.lookup = lookups[t]
    /\ r.question.family = s.question.family => r = s

\* Whatever the server does, a lookup gives the lock back to the others.
LockReleased == \A t \in Thread : (holder = t) ~> (holder # t)
=============================================================================
