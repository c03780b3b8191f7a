--------------------------- MODULE TcpRelayProofs ---------------------------
(***************************************************************************)
(* Safety of the plain TCP relay for streams of any length, any send       *)
(* buffer and any behaviour of the two peers.                              *)
(*                                                                         *)
(* EofComesLast is not inductive: a copy may also end because its source   *)
(* was shut down for reading, and a write may also fail because its sink   *)
(* was shut down for writing.  Both happen only after the other copy       *)
(* failed (Unfailed), and a failure needs a reset (Blamed), because no     *)
(* socket has a timeout any more (Untimed).                                *)
(***************************************************************************)
EXTENDS TcpRelay, TLAPS

Unit == [kind : {"data"}, n : Nat]
Failed == \E c \in Copy : result[c] = "err"

Types ==
  /\ pc \in [Copy -> {"read", "write", "ended", "returned"}]
  /\ result \in [Copy -> {"none", "ok", "err", "late"}]
  /\ held \in [Copy -> Seq(Unit)]
  /\ shut \in [Socket -> SUBSET {"read", "write"}]
  /\ inq \in [Socket -> Seq(Unit)]
  /\ script \in [Socket -> Seq(Unit)]
  /\ sent \in [Socket -> Nat]
  /\ gone \in [Socket -> {"no", "fin", "reset"}]

Untimed == timed = {}
Blamed == Failed => \E s \in Socket : gone[s] = "reset"
Joined == pc["down"] = "returned" => pc["up"] = "ended"
JoinedOnce == pc["up"] # "returned"
Running == \A c \in Copy : pc[c] \in {"read", "write"} => result[c] = "none"

(* Before any failure, only the end of its source shuts a direction down,  *)
(* and nothing is shut down for reading.                                   *)
Unfailed ==
  ~Failed =>
    /\ \A s \in Socket : "read" \notin shut[s]
    /\ \A c \in Copy : "write" \in shut[Sink(c)] =>
         gone[Source(c)] # "no" /\ inq[Source(c)] = <<>> /\ pc[c] \notin {"read", "write"}

IInv == Types /\ Untimed /\ Blamed /\ Joined /\ JoinedOnce /\ Running /\ Unfailed

(* The two copies use the sockets in opposite directions. *)
LEMMA Ends ==
  /\ \A c \in Copy : Source(c) \in Socket /\ Sink(c) \in Socket /\ Source(c) # Sink(c)
  /\ \A c, d \in Copy : Source(c) = Source(d) => c = d
  /\ \A c, d \in Copy : Sink(c) = Sink(d) => c = d
BY DEF Copy, Socket, Source, Sink

(* A relay starts with open sockets and no timeouts. *)
LEMMA Start == Init => IInv
<1> SUFFICES ASSUME Init PROVE IInv
  OBVIOUS
<1>1. Types
  BY DEF Init, Types, Unit
<1>2. ~Failed
  BY DEF Init, Failed
<1>3. Untimed /\ Joined /\ JoinedOnce /\ Running
  BY DEF Init, Untimed, Joined, JoinedOnce, Running, Copy
<1>4. \A s \in Socket : shut[s] = {}
  BY DEF Init
<1>5. Blamed /\ Unfailed
  BY <1>2, <1>4, Ends DEF Blamed, Unfailed
<1> QED
  BY <1>1, <1>3, <1>5 DEF IInv

(* Passing a unit on, or any step of a peer: no copy ends. *)
LEMMA ReadKeeps ==
  ASSUME IInv, NEW c \in Copy, Read(c)
  PROVE  IInv'
<1> USE DEF IInv
<1>1. Head(inq[Source(c)]) \in Unit /\ Tail(inq[Source(c)]) \in Seq(Unit)
  BY Ends DEF Types, Read
<1>2. Types'
  BY SMTT(20), <1>1, Ends DEF Types, Read, peers
<1>3. Untimed' /\ Blamed' /\ Joined' /\ JoinedOnce' /\ Running'
  BY DEF Untimed, Blamed, Joined, JoinedOnce, Running, Failed, Types, Read, peers, Copy
<1>4. ASSUME ~Failed'
      PROVE  /\ \A s \in Socket : "read" \notin shut'[s]
             /\ \A d \in Copy : "write" \in shut'[Sink(d)] =>
                  gone'[Source(d)] # "no" /\ inq'[Source(d)] = <<>> /\ pc'[d] \notin {"read", "write"}
  <2>1. ~Failed
    BY <1>4 DEF Failed, Read
  <2>2. \A d \in Copy : "write" \in shut'[Sink(d)] => d # c
    BY <2>1 DEF Unfailed, Read
  <2> QED
    BY <2>1, <2>2, Ends DEF Unfailed, Read, peers, Types
<1> QED
  BY <1>2, <1>3, <1>4 DEF Unfailed

LEMMA WriteKeeps ==
  ASSUME IInv, NEW c \in Copy, Write(c)
  PROVE  IInv'
<1> USE DEF IInv
<1>1. Types'
  BY DEF Types, Write, peers
<1>2. Untimed' /\ Blamed' /\ Joined' /\ JoinedOnce' /\ Running'
  BY DEF Untimed, Blamed, Joined, JoinedOnce, Running, Failed, Types, Write, peers, Copy
<1>3. ~Failed' => ~Failed
  BY DEF Failed, Write
<1>4. \A d \in Copy : "write" \in shut[Sink(d)] => d # c
  BY DEF Write, Broken
<1>5. Unfailed'
  BY <1>3, <1>4 DEF Unfailed, Write, peers, Types
<1> QED
  BY <1>1, <1>2, <1>5

(* The end of a source: only then is the sink shut down for writing. *)
LEMMA EofKeeps ==
  ASSUME IInv, NEW c \in Copy, ReadEof(c)
  PROVE  IInv'
<1> USE DEF IInv
<1>1. PICK how \in {"ok", "late"} :
        /\ End(c, how, IF how = "ok" THEN AfterEof(c) ELSE shut)
        /\ pc[c] = "read" /\ inq[Source(c)] = <<>>
        /\ gone[Source(c)] = "fin" \/ "read" \in shut[Source(c)]
  BY DEF ReadEof
<1>2. AfterEof(c) \in [Socket -> SUBSET {"read", "write"}]
  BY Ends DEF AfterEof, Types
<1>3. Types'
  BY <1>1, <1>2 DEF Types, End, peers
<1>4. Failed' => Failed
  BY <1>1 DEF Failed, End, Types
<1>5. Untimed' /\ Joined' /\ JoinedOnce' /\ Running'
  BY <1>1 DEF Untimed, Joined, JoinedOnce, Running, Types, End, Copy
<1>6. Blamed'
  BY <1>1, <1>4 DEF Blamed, End, peers
<1>7. ~Failed' => ~Failed
  BY <1>1 DEF Failed, End, Types, Running
<1>8. ASSUME ~Failed
      PROVE  /\ \A s \in Socket : "read" \notin shut'[s]
             /\ \A d \in Copy : "write" \in shut'[Sink(d)] =>
                  gone'[Source(d)] # "no" /\ inq'[Source(d)] = <<>> /\ pc'[d] \notin {"read", "write"}
  <2>1. gone[Source(c)] = "fin"
    BY <1>1, <1>8, Ends DEF Unfailed
  <2>2. \A s \in Socket : shut'[s] = shut[s] \/ shut'[s] = shut[s] \cup {"write"}
    BY <1>1, Ends DEF End, AfterEof, Types
  <2>3. \A d \in Copy : d # c => shut'[Sink(d)] = shut[Sink(d)] /\ pc'[d] = pc[d]
    BY <1>1, Ends DEF End, AfterEof, Types
  <2>4. pc'[c] = "ended" /\ inq' = inq /\ gone' = gone
    BY <1>1 DEF End, Types, peers
  <2>5. \A s \in Socket : "read" \notin shut'[s]
    BY <2>2, <1>8 DEF Unfailed
  <2>6. ASSUME NEW d \in Copy, "write" \in shut'[Sink(d)]
        PROVE  gone'[Source(d)] # "no" /\ inq'[Source(d)] = <<>> /\ pc'[d] \notin {"read", "write"}
    <3>1. CASE d = c
      BY <3>1, <2>1, <2>4, <1>1
    <3>2. CASE d # c
      BY <3>2, <2>3, <2>4, <2>6, <1>8 DEF Unfailed
    <3> QED
      BY <3>1, <3>2
  <2> QED
    BY <2>5, <2>6
<1> QED
  BY <1>3, <1>5, <1>6, <1>7, <1>8 DEF Unfailed

(* A failure needs a reset, now or before. *)
LEMMA FailureKeeps ==
  ASSUME IInv, NEW c \in Copy, End(c, "err", AfterError(c)), pc[c] \in {"read", "write"},
         Failed \/ \E s \in Socket : gone[s] = "reset"
  PROVE  IInv'
<1> USE DEF IInv
<1>1. Types'
  BY DEF Types, End, AfterError, peers
<1>2. Failed'
  BY DEF Failed, End, Types
<1>3. Untimed' /\ Joined' /\ JoinedOnce' /\ Running'
  BY DEF Untimed, Joined, JoinedOnce, Running, Types, End, Copy
<1>4. Blamed'
  BY DEF Blamed, End, peers
<1> QED
  BY <1>1, <1>2, <1>3, <1>4 DEF Unfailed

LEMMA ErrorKeeps ==
  ASSUME IInv, NEW c \in Copy, ReadError(c) \/ WriteError(c)
  PROVE  IInv'
<1>1. CASE ReadError(c)
  <2>1. gone[Source(c)] = "reset"
    BY <1>1 DEF ReadError, ReadFails, IInv, Untimed
  <2> QED
    BY <1>1, <2>1, Ends, FailureKeeps DEF ReadError
<1>2. CASE WriteError(c)
  <2>1. Failed \/ gone[Sink(c)] = "reset"
    BY <1>2 DEF WriteError, Broken, IInv, Unfailed
  <2> QED
    BY <1>2, <2>1, Ends, FailureKeeps DEF WriteError
<1> QED
  BY <1>1, <1>2

LEMMA JoinKeeps ==
  ASSUME IInv, Join
  PROVE  IInv'
<1> USE DEF IInv
<1>1. Types' /\ Untimed' /\ Joined' /\ JoinedOnce' /\ Running'
  BY DEF Types, Untimed, Joined, JoinedOnce, Running, Join, peers, Copy
<1>2. Blamed' /\ (Failed' <=> Failed)
  BY DEF Blamed, Failed, Join, peers
<1>3. \A d \in Copy : pc'[d] \in {"read", "write"} => pc'[d] = pc[d]
  BY DEF Join, Types, Copy
<1>4. Unfailed'
  BY <1>2, <1>3 DEF Unfailed, Join, peers
<1> QED
  BY <1>1, <1>2, <1>4

(* The peers act on their side of the sockets only, and a peer that has    *)
(* ended sends nothing.                                                    *)
LEMMA PeerKeeps ==
  ASSUME IInv, NEW s \in Socket, Peer(s)
  PROVE  IInv'
<1> USE DEF IInv
<1>1. CASE Send(s)
  <2>1. script[s][sent[s] + 1] \in Unit
    BY <1>1 DEF Send, Types
  <2>2. Types'
    BY <1>1, <2>1 DEF Send, Types, copying
  <2>3. \A t \in Socket : gone[t] # "no" => inq'[t] = inq[t]
    BY <1>1 DEF Send, Types
  <2> QED
    BY <1>1, <2>2, <2>3, Ends
    DEF Send, copying, Untimed, Blamed, Joined, JoinedOnce, Running, Unfailed, Failed
<1>2. CASE Fin(s) \/ Reset(s)
  <2>1. Types'
    BY <1>2 DEF Fin, Reset, Types, copying
  <2>2. \A t \in Socket : /\ gone[t] # "no" => gone'[t] # "no"
                          /\ gone[t] = "reset" => gone'[t] = "reset"
    BY <1>2 DEF Fin, Reset, Types
  <2> QED
    BY <1>2, <2>1, <2>2, Ends
    DEF Fin, Reset, copying, Untimed, Blamed, Joined, JoinedOnce, Running, Unfailed, Failed
<1>3. CASE Deliver(s)
  BY <1>3 DEF Deliver, copying, Types, Untimed, Blamed, Joined, JoinedOnce, Running, Unfailed, Failed
<1> QED
  BY <1>1, <1>2, <1>3 DEF Peer

LEMMA StutterKeeps ==
  ASSUME IInv, UNCHANGED vars
  PROVE  IInv'
BY DEF IInv, Types, Untimed, Blamed, Joined, JoinedOnce, Running, Unfailed, Failed, vars, copying, peers

LEMMA StepKeeps == IInv /\ [Next]_vars => IInv'
<1> SUFFICES ASSUME IInv, [Next]_vars PROVE IInv'
  OBVIOUS
<1>1. ASSUME NEW c \in Copy, Thread(c) PROVE IInv'
  BY <1>1, ReadKeeps, WriteKeeps, EofKeeps, ErrorKeeps, JoinKeeps DEF Thread
<1>2. ASSUME NEW s \in Socket, Peer(s) PROVE IInv'
  BY <1>2, PeerKeeps
<1>3. CASE UNCHANGED vars
  BY <1>3, StutterKeeps
<1> QED
  BY <1>1, <1>2, <1>3 DEF Next

LEMMA Invariant == Spec => []IInv
BY Start, StepKeeps, PTL DEF Spec

(* For any streams and buffers: unless a copy fails, a peer sees the end   *)
(* of the stream only after the other one ended and all it sent was passed *)
(* on (Shutdown::Write after io::copy in relay_to_client).                 *)
THEOREM EndOfStreamIsLast == Spec => []EofComesLast
<1>1. IInv => EofComesLast
  BY DEF IInv, Unfailed, Failed, EofComesLast
<1> QED
  BY <1>1, Invariant, PTL

(* A relay without timeouts fails only after a reset, and returns only     *)
(* when both copies have ended (set_read_timeout(None), the join).         *)
THEOREM FailureNeedsReset == Spec => []OnlyResetsFail
<1>1. IInv => OnlyResetsFail
  BY DEF IInv, Blamed, Joined, Failed, OnlyResetsFail
<1> QED
  BY <1>1, Invariant, PTL
=============================================================================
