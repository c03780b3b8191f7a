---------------------------- MODULE ServerProofs ----------------------------
(***************************************************************************)
(* The connection limiter for any number of listeners and sessions.        *)
(*                                                                         *)
(* The counter is shown to be the number of permits: each atomic step      *)
(* changes both by the same amount, because a permit is held either by one *)
(* listener between its compare_exchange and its spawn or by one session.  *)
(* The limit follows from the exchange alone, whose success proves that    *)
(* the value compared with the limit earlier is still the current one.     *)
(***************************************************************************)
EXTENDS Server, FiniteSetTheorems, TLAPS

\* Only the thread of a stream listener ever holds a permit.
SpawnInTcp == \A l \in Listener : pc[l] \in {"load", "try", "spawn"} => l \in Tcp

\* A listener that serves has retries left.
RetriesLeft == \A l \in Listener : pc[l] # "exited" => errors[l] < RetryLimit

\* The inductive invariant.
IInv == TypeOK /\ PermitsCounted /\ SessionsBounded /\ SpawnInTcp /\ RetriesLeft

\* The holders of permits are finite in number, so that they can be counted.
LEMMA HoldersFinite ==
  ASSUME TypeOK
  PROVE  /\ IsFiniteSet(Holding) /\ Cardinality(Holding) \in Nat
         /\ IsFiniteSet(sessions) /\ Cardinality(sessions) \in Nat
         /\ held \in Nat
<1>1. IsFiniteSet(Holding)
  BY FS_Subset, ServerAssumption DEF Holding
<1>2. IsFiniteSet(sessions)
  BY FS_Subset, ServerAssumption DEF TypeOK
<1>3. Cardinality(Holding) \in Nat /\ Cardinality(sessions) \in Nat
  BY <1>1, <1>2, FS_CardinalityType
<1> QED
  BY <1>1, <1>2, <1>3 DEF held

\* The holders among the listeners change only when a listener enters or
\* leaves the step between its exchange and its spawn.
LEMMA HoldingMoves ==
  ASSUME TypeOK, NEW l \in Listener, NEW at, Goto(l, at)
  PROVE  /\ pc[l] # "spawn" /\ at # "spawn" => Holding' = Holding
         /\ l \in Tcp /\ at = "spawn" => Holding' = Holding \cup {l}
         /\ l \in Tcp /\ at # "spawn" => Holding' = Holding \ {l}
BY DEF Goto, Holding, TypeOK, Listener

\* What one step does to the number of permits: nothing, one more while the
\* counter was below the limit, or one less.
StepHeld ==
  \/ held' = held /\ active' = active
  \/ active < limit /\ held' = held + 1 /\ active' = active + 1
  \/ held > 0 /\ held' = held - 1 /\ active' = active - 1

\* A listener that takes a permit.
LEMMA ExchangeHeld ==
  ASSUME IInv, NEW l \in Listener, Exchange(l)
  PROVE  StepHeld
<1>1. l \in Tcp /\ l \notin Holding
  BY DEF IInv, Exchange, SpawnInTcp, Holding
<1>2. Holding' = Holding \cup {l} /\ sessions' = sessions
  BY <1>1, HoldingMoves DEF Exchange, IInv
<1>3. Cardinality(Holding') = Cardinality(Holding) + 1
  BY <1>1, <1>2, HoldersFinite, FS_AddElement DEF IInv
<1>4. active < limit /\ active' = active + 1
  BY ServerAssumption DEF Exchange, Full, Unchanged, IInv, TypeOK
<1> QED
  BY <1>2, <1>3, <1>4, HoldersFinite DEF StepHeld, held, IInv

\* A permit that moves from a listener to the session it spawned.
LEMMA SpawnHeld ==
  ASSUME IInv, NEW l \in Listener, Spawn(l)
  PROVE  StepHeld
<1>1. l \in Tcp /\ l \in Holding
  BY DEF IInv, Spawn, SpawnInTcp, Holding
<1>2. Holding' = Holding \ {l}
  BY <1>1, HoldingMoves DEF Spawn, IInv
<1>3. Cardinality(Holding') = Cardinality(Holding) - 1
  BY <1>1, <1>2, HoldersFinite, FS_RemoveElement DEF IInv
<1>4. PICK s \in Session \ sessions : sessions' = sessions \cup {s}
  BY DEF Spawn
<1>5. Cardinality(sessions') = Cardinality(sessions) + 1
  BY <1>4, HoldersFinite, FS_AddElement DEF IInv
<1> QED
  BY <1>3, <1>5, HoldersFinite DEF StepHeld, held, Spawn, IInv

\* A permit that is dropped because no thread could be created.
LEMMA SpawnFailsHeld ==
  ASSUME IInv, NEW l \in Listener, SpawnFails(l)
  PROVE  StepHeld
<1>1. l \in Tcp /\ l \in Holding
  BY DEF IInv, SpawnFails, SpawnInTcp, Holding
<1>2. Holding' = Holding \ {l} /\ sessions' = sessions
  BY <1>1, HoldingMoves DEF SpawnFails, IInv
<1>3. Cardinality(Holding') = Cardinality(Holding) - 1
  BY <1>1, <1>2, HoldersFinite, FS_RemoveElement DEF IInv
<1>4. Cardinality(Holding') \in Nat
  BY <1>2, HoldersFinite, FS_RemoveElement, FS_CardinalityType DEF IInv
<1> QED
  BY <1>2, <1>3, <1>4, HoldersFinite DEF StepHeld, held, SpawnFails, Released, IInv

\* A session that ends.
LEMMA EndSessionHeld ==
  ASSUME IInv, NEW s \in Session, EndSession(s)
  PROVE  StepHeld
<1>1. Holding' = Holding /\ s \in sessions
  BY DEF EndSession, Holding
<1>2. Cardinality(sessions') = Cardinality(sessions) - 1
  BY HoldersFinite, FS_RemoveElement DEF EndSession, IInv
<1>3. Cardinality(sessions') \in Nat
  BY HoldersFinite, FS_RemoveElement, FS_CardinalityType DEF EndSession, IInv
<1> QED
  BY <1>1, <1>2, <1>3, HoldersFinite DEF StepHeld, held, EndSession, Released, IInv

\* Every other step leaves the permits where they are.
LEMMA OtherHeld ==
  ASSUME IInv,
         \/ Supervisor \/ StartFails \/ Returned \/ UNCHANGED vars
         \/ \E l \in Listener : \/ Accept(l) \/ AcceptError(l) \/ UdpExit(l) \/ Load(l)
                                \/ Refuse(l) \/ ExchangeFails(l)
  PROVE  StepHeld
<1>1. Holding' = Holding /\ sessions' = sessions /\ active' = active
  BY HoldingMoves DEF IInv, Supervisor, AllStarted, ReceiveExit, StartListener, StartFails,
     Returned, vars, Accept, AcceptError, UdpExit, Load, Refuse, ExchangeFails, Holding
<1> QED
  BY <1>1 DEF StepHeld, held

\* The number of permits changes in step with the counter.
LEMMA NextHeld ==
  ASSUME IInv, [Next]_vars
  PROVE  StepHeld
BY ExchangeHeld, SpawnHeld, SpawnFailsHeld, EndSessionHeld, OtherHeld DEF Next

\* No step makes a UDP listener try for a permit.
LEMMA NextSpawnInTcp ==
  ASSUME IInv, [Next]_vars
  PROVE  SpawnInTcp'
BY SMTT(20) DEF IInv, TypeOK, SpawnInTcp, Goto, Next, vars, Supervisor, AllStarted,
     ReceiveExit, StartListener, StartFails, Returned, Accept, AcceptError, UdpExit, Load, Refuse, Exchange,
     ExchangeFails, Spawn, SpawnFails, EndSession

\* serve_forever gives up when its retries are used up.
LEMMA NextRetries ==
  ASSUME IInv, [Next]_vars
  PROVE  RetriesLeft' /\ errors' \in [Listener -> 0..RetryLimit]
BY SMTT(20), ServerAssumption DEF IInv, TypeOK, RetriesLeft, Goto, Next, vars, Supervisor,
     AllStarted, ReceiveExit, StartListener, StartFails, Returned, Accept, AcceptError, UdpExit, Load, Refuse, Exchange,
     ExchangeFails, Spawn, SpawnFails, EndSession

\* Types are kept; the counter stays a natural number because a permit that is
\* dropped was counted.
LEMMA NextType ==
  ASSUME IInv, [Next]_vars
  PROVE  TypeOK'
<1>1. StepHeld
  BY NextHeld
<1>2. active' \in Nat
  BY <1>1, HoldersFinite DEF StepHeld, IInv, TypeOK, PermitsCounted
<1>3. /\ run' \in {"starting", "waiting", "returned"}
      /\ pc' \in [Listener -> {"bound", "accept", "load", "try", "spawn", "exited"}]
      /\ sessions' \subseteq Session
      /\ exits' \subseteq Listener
  BY SMTT(20) DEF IInv, TypeOK, Goto, Next, vars, Supervisor, AllStarted, ReceiveExit, StartListener,
     StartFails, Returned, Accept, AcceptError, UdpExit, Load, Refuse, Exchange,
     ExchangeFails, Spawn, SpawnFails, EndSession
<1>4. seen' \in [Listener -> Nat]
  BY DEF IInv, TypeOK, Next, vars, Supervisor, AllStarted, ReceiveExit, StartListener,
     StartFails, Returned, Accept, AcceptError, UdpExit, Load, Refuse, Exchange,
     ExchangeFails, Spawn, SpawnFails, EndSession
<1> QED
  BY <1>2, <1>3, <1>4, NextRetries DEF TypeOK

\* No permits exist when the server starts.
LEMMA InitHeld == Init => held = 0 /\ active = 0
<1> SUFFICES ASSUME Init PROVE held = 0 /\ active = 0
  OBVIOUS
<1>1. Holding = {} /\ sessions = {}
  BY DEF Init, Holding, Listener
<1> QED
  BY <1>1, FS_EmptySet DEF held, Init

\* The inductive invariant holds in every reachable state of the server.
THEOREM Invariance == Spec => []IInv
<1>1. Init => IInv
  <2> SUFFICES ASSUME Init PROVE IInv
    OBVIOUS
  <2>1. TypeOK /\ SpawnInTcp /\ RetriesLeft
    BY ServerAssumption DEF Init, TypeOK, SpawnInTcp, RetriesLeft
  <2> QED
    BY <2>1, InitHeld, ServerAssumption DEF IInv, PermitsCounted, SessionsBounded
<1>2. IInv /\ [Next]_vars => IInv'
  <2> SUFFICES ASSUME IInv, [Next]_vars PROVE IInv'
    OBVIOUS
  <2>1. PermitsCounted' /\ SessionsBounded'
    BY NextHeld, HoldersFinite, ServerAssumption
    DEF IInv, TypeOK, StepHeld, PermitsCounted, SessionsBounded
  <2> QED
    BY <2>1, NextType, NextSpawnInTcp, NextRetries DEF IInv
<1> QED
  BY <1>1, <1>2, PTL DEF Spec

\* The counter always equals the number of permits in existence, for any
\* number of listeners racing in try_acquire.
THEOREM CounterIsExact == Spec => []PermitsCounted
<1>1. IInv => PermitsCounted
  BY DEF IInv
<1> QED
  BY <1>1, Invariance, PTL

\* There are never more than limit sessions, for any limit.
THEOREM LimitHolds == Spec => []SessionsBounded
<1>1. IInv => SessionsBounded
  BY DEF IInv
<1> QED
  BY <1>1, Invariance, PTL

\* The atomic counter implements the counting semaphore.
THEOREM ImplementsLimiter == Spec => LimiterSpec
<1>1. Init => Limiter!Init
  BY InitHeld DEF Limiter!Init
<1>2. IInv /\ [Next]_vars => [Limiter!Next]_held
  <2> SUFFICES ASSUME IInv, [Next]_vars PROVE [Limiter!Next]_held
    OBVIOUS
  <2>1. StepHeld
    BY NextHeld
  <2> QED
    BY <2>1 DEF StepHeld, Limiter!Next, Limiter!try_acquire, Limiter!drop, IInv, PermitsCounted
<1> QED
  BY <1>1, <1>2, Invariance, PTL DEF Spec, LimiterSpec, Limiter!Spec
=============================================================================
