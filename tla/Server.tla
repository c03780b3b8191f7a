------------------------------- MODULE Server -------------------------------
(***************************************************************************)
(* The server of crates/daemon/src/server.rs: a supervisor thread (run), a *)
(* thread per listener (serve_forever) and a thread per session, with a    *)
(* connection limit kept in one atomic counter that all of them update.    *)
(*                                                                         *)
(* try_acquire is modelled at the grain of its atomic operations: the      *)
(* load, and every compare_exchange_weak with its spurious failures.       *)
(***************************************************************************)
EXTENDS Integers, FiniteSets

CONSTANTS
  Tcp,         \* the stream listeners
  Udp,         \* the transparent UDP listeners
  Session,     \* names for session threads
  limit,       \* MAX_ACTIVE_CONNECTIONS
  RetryLimit   \* ACCEPT_ERROR_RETRY_LIMIT

ASSUME ServerAssumption ==
  /\ IsFiniteSet(Tcp) /\ IsFiniteSet(Session)
  /\ Tcp \cap Udp = {} /\ Tcp \cap Session = {}
  /\ limit \in Nat /\ RetryLimit \in Nat \ {0}

Listener == Tcp \cup Udp

VARIABLES
  run,      \* the supervisor: starting, waiting or returned
  pc,       \* pc[l]: where the thread of listener l stands
  errors,   \* errors[l]: consecutive_errors
  active,   \* the limiter's atomic counter
  seen,     \* seen[l]: the local variable active of try_acquire
  sessions, \* the session threads that hold a permit
  exits     \* the listeners whose result is in the exit channel

vars == <<run, pc, errors, active, seen, sessions, exits>>

\* Every listener is at one step of serve_forever with its local variables, and
\* fetch_sub never takes the counter below zero (ConnectionPermit::drop).
TypeOK ==
  /\ run \in {"starting", "waiting", "returned"}
  /\ pc \in [Listener -> {"bound", "accept", "load", "try", "spawn", "exited"}]
  /\ errors \in [Listener -> 0..RetryLimit]
  /\ active \in Nat
  /\ seen \in [Listener -> Nat]
  /\ sessions \subseteq Session
  /\ exits \subseteq Listener

Init ==
  /\ run = "starting"
  /\ pc = [l \in Listener |-> "bound"]
  /\ errors = [l \in Listener |-> 0]
  /\ active = 0
  /\ seen = [l \in Listener |-> 0]
  /\ sessions = {}
  /\ exits = {}

\* Threads run until the supervisor returns and the process ends.
Running == run # "returned"

Goto(l, at) == pc' = [pc EXCEPT ![l] = at]

----------------------------------------------------------------------------
(* run: the listener threads are started one after the other.               *)

StartListener(l) ==
  /\ run = "starting" /\ pc[l] = "bound"
  /\ Goto(l, "accept")
  /\ UNCHANGED <<run, errors, active, seen, sessions, exits>>

\* thread::Builder::spawn failed: run returns with listeners already serving.
StartFails ==
  /\ run = "starting" /\ \E l \in Listener : pc[l] = "bound"
  /\ run' = "returned"
  /\ UNCHANGED <<pc, errors, active, seen, sessions, exits>>

AllStarted ==
  /\ run = "starting" /\ \A l \in Listener : pc[l] # "bound"
  /\ run' = "waiting"
  /\ UNCHANGED <<pc, errors, active, seen, sessions, exits>>

\* Mutant: wait for every listener to exit.
AllExited == exits = Listener

SomeExited == exits # {}

\* exit_rx.recv(): the first listener that exits ends the server.
ReceiveExit ==
  /\ run = "waiting" /\ SomeExited
  /\ run' = "returned"
  /\ UNCHANGED <<pc, errors, active, seen, sessions, exits>>

----------------------------------------------------------------------------
(* serve_forever.                                                           *)

Accept(l) ==
  /\ Running /\ pc[l] = "accept" /\ l \in Tcp
  /\ errors' = [errors EXCEPT ![l] = 0]
  /\ Goto(l, "load")
  /\ UNCHANGED <<run, active, seen, sessions, exits>>

AcceptError(l) ==
  /\ Running /\ pc[l] = "accept" /\ l \in Tcp
  /\ errors' = [errors EXCEPT ![l] = @ + 1]
  /\ IF errors[l] + 1 >= RetryLimit
       THEN Goto(l, "exited") /\ exits' = exits \cup {l}
       ELSE UNCHANGED <<pc, exits>>
  /\ UNCHANGED <<run, active, seen, sessions>>

\* transparent_udp::serve_forever returned an error (TransparentUdp!Fail).
UdpExit(l) ==
  /\ Running /\ pc[l] = "accept" /\ l \in Udp
  /\ Goto(l, "exited") /\ exits' = exits \cup {l}
  /\ UNCHANGED <<run, errors, active, seen, sessions>>

----------------------------------------------------------------------------
(* spawn_connection.                                                        *)

Load(l) ==
  /\ Running /\ pc[l] = "load"
  /\ seen' = [seen EXCEPT ![l] = active]
  /\ Goto(l, "try")
  /\ UNCHANGED <<run, errors, active, sessions, exits>>

\* Mutant: active > self.limit.
FullLate(l) == seen[l] > limit

Full(l) == seen[l] >= limit

\* The limit is reached: the connection is closed.
Refuse(l) ==
  /\ Running /\ pc[l] = "try" /\ Full(l)
  /\ Goto(l, "accept")
  /\ UNCHANGED <<run, errors, active, seen, sessions, exits>>

Unchanged(l) == active = seen[l]

Exchange(l) ==
  /\ Running /\ pc[l] = "try" /\ ~Full(l) /\ Unchanged(l)
  /\ active' = seen[l] + 1
  /\ Goto(l, "spawn")
  /\ UNCHANGED <<run, errors, seen, sessions, exits>>

\* compare_exchange_weak may fail whether or not the value changed.
ExchangeFails(l) ==
  /\ Running /\ pc[l] = "try" /\ ~Full(l)
  /\ seen' = [seen EXCEPT ![l] = active]
  /\ UNCHANGED <<run, pc, errors, active, sessions, exits>>

\* The permit moves into the session's thread ...
Spawn(l) ==
  /\ Running /\ pc[l] = "spawn"
  /\ \E s \in Session \ sessions : sessions' = sessions \cup {s}
  /\ Goto(l, "accept")
  /\ UNCHANGED <<run, errors, active, seen, exits>>

\* Mutant: the permit leaks when the thread cannot be created.
Leaked == active

Released == active - 1

\* ... or is dropped with the closure when no thread can be created.
SpawnFails(l) ==
  /\ Running /\ pc[l] = "spawn"
  /\ active' = Released
  /\ Goto(l, "accept")
  /\ UNCHANGED <<run, errors, seen, sessions, exits>>

\* handle_connection returned (or panicked): _permit is dropped.
EndSession(s) ==
  /\ Running /\ s \in sessions
  /\ sessions' = sessions \ {s}
  /\ active' = Released
  /\ UNCHANGED <<run, pc, errors, seen, exits>>

Returned == run = "returned" /\ UNCHANGED vars

Supervisor == AllStarted \/ ReceiveExit \/ \E l \in Listener : StartListener(l)

Next ==
  \/ Supervisor \/ StartFails
  \/ \E l \in Listener :
       \/ Accept(l) \/ AcceptError(l) \/ UdpExit(l) \/ Load(l) \/ Refuse(l)
       \/ Exchange(l) \/ ExchangeFails(l) \/ Spawn(l) \/ SpawnFails(l)
  \/ \E s \in Session : EndSession(s)
  \/ Returned

Spec == Init /\ [][Next]_vars

\* The supervisor's thread is scheduled.
FairSpec == Spec /\ WF_vars(Supervisor)
----------------------------------------------------------------------------

\* The listeners that hold a permit for a session still to be spawned.
Holding == {l \in Tcp : pc[l] = "spawn"}

held == Cardinality(Holding) + Cardinality(sessions)

\* The counter is exactly the number of permits in existence, through every
\* interleaving of acquisitions, failed spawns and dropped permits.
PermitsCounted == active = held

\* There are never more session threads, created or about to be, than the
\* limit, although each listener decides on a value it read earlier.
SessionsBounded == held <= limit

\* The abstract semaphore over the permits that exist.
Limiter == INSTANCE ConnectionLimiter WITH held <- held

\* The server implements the semaphore: permits are taken and given back one
\* at a time, and taken only below the limit (try_acquire and the permit's drop).
LimiterSpec == Limiter!Spec

\* A listener that gave up ends the server: it is never left with a part of
\* its listeners (run returns on the first exit).
FailStop == (\E l \in Listener : pc[l] = "exited") ~> run = "returned"
=============================================================================
