------------------------------ MODULE TcpRelay ------------------------------
(***************************************************************************)
(* TcpTransportSession::relay_to_client of crates/transport/src/lib.rs:    *)
(* two threads, each in a blocking io::copy from one socket to the other.  *)
(* The spawned one is "up" (client to remote), the calling one "down"; the *)
(* caller joins the spawned thread before it returns.                      *)
(*                                                                         *)
(* A stream is a sequence of units [kind, n]; script[s] is what the peer   *)
(* of socket s sends, in that order.  The sockets are the kernel's: a read *)
(* returns what is queued, then the end or the error, and gives up after a *)
(* while on a socket with a timeout; shutdown of a socket wakes a thread   *)
(* blocked on it.                                                          *)
(***************************************************************************)
EXTENDS Naturals, Sequences

CONSTANT SndBuf   \* bound: the kernel's send buffers, in units

ASSUME SndBufAssumption == SndBuf \in Nat \ {0}

Socket == {"client", "remote"}
Copy == {"up", "down"}
Source(c) == IF c = "up" THEN "client" ELSE "remote"
Sink(c) == IF c = "up" THEN "remote" ELSE "client"

VARIABLES
  pc,        \* pc[c]: read, write, ended; "down" goes on to returned
  result,    \* result[c]: none, ok, err (of the copy) or late (of the shutdown)
  held,      \* held[c]: the unit in the copy's buffer, if any
  shut,      \* shut[s]: the directions of s that were shut down here
  timed,     \* the sockets with a read and write timeout
  inq, outq, \* the kernel's queues
  got,       \* got[s]: what the peer of s has received
  script,    \* script[s]: what the peer of s sends
  sent,      \* sent[s]: how much of that it has sent
  gone       \* gone[s]: whether the peer ended: no, fin or reset

copying == <<pc, result, held, shut>>
peers == <<got, script, sent, gone>>
vars == <<copying, timed, inq, outq, peers>>

(* The relay takes both sockets as it finds them, and clears the timeouts. *)
Init ==
  /\ pc = [c \in Copy |-> "read"]
  /\ result = [c \in Copy |-> "none"]
  /\ held = [c \in Copy |-> <<>>]
  /\ shut = [s \in Socket |-> {}]
  /\ timed = {}
  /\ inq = [s \in Socket |-> <<>>] /\ outq = [s \in Socket |-> <<>>]
  /\ got = [s \in Socket |-> <<>>]
  /\ script \in [Socket -> Seq([kind : {"data"}, n : Nat])]
  /\ sent = [s \in Socket |-> 0]
  /\ gone = [s \in Socket |-> "no"]
-----------------------------------------------------------------------------
(* Plausible faults: an end closes the other direction too, and an error   *)
(* is not passed on to the other thread.                                   *)
CloseBothOnEof(c) == [s \in Socket |-> {"read", "write"}]
SilentError(c) == shut

(* The shutdowns after io::copy returned Ok and after it returned Err. *)
AfterEof(c) == [shut EXCEPT ![Sink(c)] = @ \cup {"write"}]
AfterError(c) == [s \in Socket |-> {"read", "write"}]

End(c, how, sockets) ==
  /\ pc' = [pc EXCEPT ![c] = "ended"]
  /\ result' = [result EXCEPT ![c] = how]
  /\ held' = [held EXCEPT ![c] = <<>>]
  /\ shut' = sockets
  /\ UNCHANGED <<timed, inq, outq, peers>>

(* io::copy reads a unit and goes on to write it. *)
Read(c) ==
  /\ pc[c] = "read" /\ inq[Source(c)] # <<>>
  /\ held' = [held EXCEPT ![c] = <<Head(inq[Source(c)])>>]
  /\ inq' = [inq EXCEPT ![Source(c)] = Tail(@)]
  /\ pc' = [pc EXCEPT ![c] = "write"]
  /\ UNCHANGED <<result, shut, timed, outq, peers>>

(* It meets the end of its source: the sink's write side is shut down,     *)
(* which fails on a connection that was reset.                             *)
ReadEof(c) ==
  /\ pc[c] = "read" /\ inq[Source(c)] = <<>>
  /\ gone[Source(c)] # "reset"
  /\ gone[Source(c)] = "fin" \/ "read" \in shut[Source(c)]
  /\ IF gone[Sink(c)] = "reset" THEN End(c, "late", shut) ELSE End(c, "ok", AfterEof(c))

(* A read on an empty queue fails after a reset, and on a socket with a    *)
(* timeout whose peer is silent.                                           *)
ReadFails(s) == gone[s] = "reset" \/ (s \in timed /\ gone[s] = "no")

ReadError(c) ==
  /\ pc[c] = "read" /\ inq[Source(c)] = <<>> /\ ReadFails(Source(c))
  /\ End(c, "err", AfterError(c))

Broken(s) == gone[s] = "reset" \/ "write" \in shut[s]

Write(c) ==
  /\ pc[c] = "write" /\ ~Broken(Sink(c)) /\ Len(outq[Sink(c)]) < SndBuf
  /\ outq' = [outq EXCEPT ![Sink(c)] = @ \o held[c]]
  /\ held' = [held EXCEPT ![c] = <<>>]
  /\ pc' = [pc EXCEPT ![c] = "read"]
  /\ UNCHANGED <<result, shut, timed, inq, peers>>

WriteError(c) ==
  /\ pc[c] = "write" /\ Broken(Sink(c))
  /\ End(c, "err", AfterError(c))

(* The caller joins the spawned thread and returns. *)
Join ==
  /\ pc["down"] = "ended" /\ pc["up"] = "ended"
  /\ pc' = [pc EXCEPT !["down"] = "returned"]
  /\ UNCHANGED <<result, held, shut, timed, inq, outq, peers>>

Thread(c) ==
  Read(c) \/ ReadEof(c) \/ ReadError(c) \/ Write(c) \/ WriteError(c) \/ (c = "down" /\ Join)
-----------------------------------------------------------------------------
(* The peers (external): what is sent after a shutdown of the read side is *)
(* acknowledged and dropped.                                               *)
Send(s) ==
  /\ gone[s] = "no" /\ sent[s] < Len(script[s])
  /\ sent' = [sent EXCEPT ![s] = @ + 1]
  /\ inq' = IF "read" \in shut[s] THEN inq
            ELSE [inq EXCEPT ![s] = Append(@, script[s][sent[s] + 1])]
  /\ UNCHANGED <<copying, timed, outq, got, script, gone>>

Fin(s) ==
  /\ gone[s] = "no"
  /\ gone' = [gone EXCEPT ![s] = "fin"]
  /\ UNCHANGED <<copying, timed, inq, outq, got, script, sent>>

Reset(s) ==
  /\ gone[s] # "reset"
  /\ gone' = [gone EXCEPT ![s] = "reset"]
  /\ UNCHANGED <<copying, timed, inq, outq, got, script, sent>>

Deliver(s) ==
  /\ outq[s] # <<>>
  /\ got' = [got EXCEPT ![s] = Append(@, Head(outq[s]))]
  /\ outq' = [outq EXCEPT ![s] = Tail(@)]
  /\ UNCHANGED <<copying, timed, inq, script, sent, gone>>

Peer(s) == Send(s) \/ Fin(s) \/ Reset(s) \/ Deliver(s)

Next == (\E c \in Copy : Thread(c)) \/ (\E s \in Socket : Peer(s))

Spec == Init /\ [][Next]_vars
-----------------------------------------------------------------------------
(* Unless a copy fails, a peer sees the end of the stream only after the   *)
(* other one ended and all it sent was passed on; the half-close of one    *)
(* direction leaves the other open (Shutdown::Write after io::copy).       *)
EofComesLast ==
  (\A c \in Copy : result[c] # "err") =>
    \A c \in Copy : "write" \in shut[Sink(c)] =>
      gone[Source(c)] # "no" /\ inq[Source(c)] = <<>> /\ pc[c] \notin {"read", "write"}

(* A tunnel fails only because a peer reset its connection, never because  *)
(* it is idle: relay_to_client clears the timeouts that the handshakes set *)
(* on both sockets.  It returns only when no copy is left running.         *)
OnlyResetsFail ==
  /\ (\E c \in Copy : result[c] = "err") => \E s \in Socket : gone[s] = "reset"
  /\ pc["down"] = "returned" => pc["up"] = "ended"

(* A failed copy ends the relay even if the other thread is blocked on a   *)
(* silent or a full peer (Shutdown::Both, then the join).                  *)
ErrorEnds == (\E c \in Copy : result[c] = "err") ~> pc["down"] = "returned"
=============================================================================
