-------------------------- MODULE TrojanDatagram ---------------------------
(***************************************************************************)
(* TrojanDatagramExecution of trojan_datagram.rs: UDP frames carried over  *)
(* one TlsFramedSession (transport/src/tls.rs), driven by the readiness    *)
(* events of the caller's poll.                                            *)
(*                                                                         *)
(* Both byte streams are cut into units <<frame, i, size>>: the i-th of    *)
(* the size units of a frame.  Outgoing frame 0 is the associate request.  *)
(* rustls, the kernel's socket and epoll are modelled as the code uses     *)
(* them: a full rustls writer takes zero bytes, its reader fails when the  *)
(* network ended without a close_notify, and a socket is reported once     *)
(* after each change of it or of its registered interest.                  *)
(***************************************************************************)
EXTENDS Integers, Sequences, FiniteSets

CONSTANTS
  MAX_PENDING_FRAMES, MAX_PENDING_BYTES, MAX_RX_BYTES,  \* in frames and units
  MAX_EVENT_BURST,    \* how often the caller calls receive for one event
  TLS_BUFFER_LIMIT,   \* in units: what rustls queues for the socket
  SndBuf,             \* bound: the kernel's send buffer, in units
  SendSizes, Sizes,   \* sizes of the caller's and of the peer's frames, in units
  MaxSends, MaxFrames \* bounds: frames the caller and the peer send

ASSUME TrojanAssumption ==
  /\ MAX_PENDING_FRAMES \in Nat /\ MAX_PENDING_BYTES \in Nat /\ MAX_RX_BYTES \in Nat
  /\ MAX_EVENT_BURST \in Nat \ {0}
  /\ TLS_BUFFER_LIMIT \in Nat \ {0} /\ SndBuf \in Nat
  /\ SendSizes \subseteq 1..TLS_BUFFER_LIMIT /\ Sizes \subseteq Nat \ {0}
  /\ MaxSends \in Nat /\ MaxFrames \in Nat

VARIABLES
  pc,        \* opened, idle, serving (the burst of receives for an event) or dead
  burst,     \* the receives of this burst that gave a frame
  dry,       \* history: no receive of the last burst serviced the carrier
  why,       \* why the execution failed
  pending,   \* what is not yet given to rustls, in units
  pending_bytes,
  rx,        \* decrypted units not yet parsed
  remote_eof,
  tls,       \* rustls: [out, plain, notify, eof]
  reg, edge, \* the registered interest, and whether epoll will report it
  outq, inq, \* the kernel's send and receive queues
  gone,      \* how far the peer ended its sending: no, notify, fin or reset
  sends, seen,     \* frames the caller sent; the last unit the peer has read
  frames, emitted  \* the last unit the peer sent; frames given to the caller

out_vars == <<pending, pending_bytes, sends, seen>>
in_vars == <<rx, remote_eof, frames, emitted>>
vars == <<pc, burst, dry, why, out_vars, in_vars, tls, reg, edge, outq, inq, gone>>

Frame(n, size) == [i \in 1..size |-> <<n, i, size>>]
Ends(u) == u[2] = u[3]
Start == <<0, 1, 1>>       \* the unit before the first unit of frame 1
Follows(u, v) == IF Ends(u) THEN v[1] = u[1] + 1 /\ v[2] = 1
                 ELSE v = <<u[1], u[2] + 1, u[3]>>

(* open: the associate request goes straight to rustls. *)
Init ==
  /\ pc = "opened" /\ burst = 0 /\ dry = FALSE /\ why = "none"
  /\ pending = <<>> /\ pending_bytes = 0
  /\ rx = <<>> /\ remote_eof = FALSE
  /\ tls = [out |-> Frame(0, 1), plain |-> <<>>, notify |-> FALSE, eof |-> FALSE]
  /\ reg = {} /\ edge = FALSE
  /\ outq = <<>> /\ inq = <<>> /\ gone = "no"
  /\ sends = 0 /\ seen = <<0, 0, 1>>
  /\ frames = Start /\ emitted = 0

(* receive failed: the callers drop the execution with the association, or *)
(* with the listener.                                                      *)
Fail(reason) == pc' = "dead" /\ burst' = 0 /\ why' = reason
-----------------------------------------------------------------------------
(* A plausible fault: the interest is set up once and kept. *)
NotRefreshed(t, eof) ==
  reg' = {"readable"} /\ edge' = (edge \/ reg = {})

(* TlsFramedSession::refresh_readiness through update_registration: a      *)
(* change of interest reports a ready socket again.                        *)
refresh_readiness(t, eof) ==
  LET wanted == {f \in {"readable"} : ~eof /\ t.plain = <<>> /\ ~t.notify}
                \cup {f \in {"writable"} : t.out # <<>>}
  IN  /\ reg' = wanted
      /\ edge' = (wanted # {} /\ (edge \/ wanted # reg))

(* drain_pending: frames go to rustls in order, as far as it has room; the *)
(* write that finds no room at all returns Ok(0) and is an error.          *)
Prefix(units, n) == SubSeq(units, 1, IF n < Len(units) THEN n ELSE Len(units))
Room(t) == TLS_BUFFER_LIMIT - Len(t.out)
WriteZero(units, t) == Len(units) > Room(t)
Drained(units, t) == [t EXCEPT !.out = @ \o Prefix(units, Room(t))]

(* register_readiness, called once before the execution is used. *)
register_readiness ==
  /\ pc = "opened"
  /\ pc' = "idle"
  /\ refresh_readiness(tls, remote_eof)
  /\ UNCHANGED <<burst, dry, why, out_vars, in_vars, tls, outq, inq, gone>>

(* enqueue refuses a frame beyond the two limits. *)
FramesOf(units) == {units[i][1] : i \in DOMAIN units}
QuotaExceeded(size) ==
  \/ Cardinality(FramesOf(pending)) >= MAX_PENDING_FRAMES
  \/ pending_bytes + size > MAX_PENDING_BYTES

(* What send returns for a frame. *)
SendError(size) ==
  IF QuotaExceeded(size) THEN "QuotaExceeded"
  ELSE IF Len(pending) + size > Room(tls) THEN "WriteZero" ELSE "none"

(* DatagramAssociation::send: enqueue, drain, refresh.  The client's       *)
(* datagrams are handled between the poll and the receives.  A send that   *)
(* fails leaves the execution in its route: a refused frame is gone, the   *)
(* rest of a frame that met a full rustls stays pending, and so do those   *)
(* behind it, until receive fails in its turn.                             *)
send ==
  /\ pc \in {"idle", "serving"} /\ burst = 0 /\ sends < MaxSends
  /\ \E size \in SendSizes :
       LET units == pending \o Frame(sends + 1, size)
           left  == SubSeq(units, Room(tls) + 1, Len(units))
       IN  /\ ~QuotaExceeded(size)
           /\ sends' = sends + 1
           /\ tls' = Drained(units, tls)
           /\ pending' = left /\ pending_bytes' = Len(left)
           /\ IF SendError(size) = "none" THEN refresh_readiness(tls', remote_eof)
              ELSE UNCHANGED <<reg, edge>>
  /\ UNCHANGED <<pc, burst, dry, why, seen, in_vars, outq, inq, gone>>

(* epoll reports the socket, and the caller starts to call receive. *)
Reported ==
  \/ "readable" \in reg /\ (inq # <<>> \/ gone # "no")
  \/ "writable" \in reg /\ Len(outq) < SndBuf
  \/ gone = "reset"
Event ==
  /\ pc = "idle" /\ edge /\ Reported
  /\ edge' = FALSE
  /\ pc' = "serving" /\ dry' = TRUE
  /\ UNCHANGED <<burst, why, out_vars, in_vars, tls, reg, outq, inq, gone>>

(* receive gave a frame: the caller calls it again unless the burst is     *)
(* over.                                                                   *)
Again ==
  IF burst + 1 = MAX_EVENT_BURST THEN pc' = "idle" /\ burst' = 0
  ELSE burst' = burst + 1 /\ UNCHANGED pc

(* parse_udp_frame: the length of the complete frame a buffer begins with, *)
(* or 0.  A malformed frame is a unit of size 0.                           *)
Complete(buffer) ==
  IF buffer # <<>> /\ Len(buffer) >= buffer[1][3] THEN buffer[1][3] ELSE 0
Malformed(buffer) == buffer # <<>> /\ buffer[1][3] = 0

(* A plausible fault: what follows a frame is dropped with it. *)
RestDropped(buffer) == <<>>

(* take_frame removes one frame and keeps what follows it. *)
Rest(buffer) == SubSeq(buffer, Complete(buffer) + 1, Len(buffer))

(* The carrier ended and holds no other complete frame. *)
Exhausted(buffer, eof) == eof /\ Complete(buffer) = 0

(* read_plaintext_into_rx fails as soon as rx is full, to the byte. *)
RxFull(buffer) == Len(buffer) >= MAX_RX_BYTES

(* What write_remote_tls leaves after the socket took n units. *)
Unsent(queue, n) == SubSeq(queue, n + 1, Len(queue))

(* What read_remote_tls takes: all there is, until the socket would block. *)
Read(q) == q

(* receive when rx already holds a frame: no I/O at all. *)
ReceiveBuffered ==
  /\ pc = "serving"
  /\ IF Malformed(rx)
     THEN Fail("malformed") /\ UNCHANGED <<rx, emitted>>
     ELSE /\ Complete(rx) > 0
          /\ rx' = Rest(rx) /\ emitted' = emitted + 1
          /\ Again /\ UNCHANGED why
  /\ UNCHANGED <<dry, out_vars, remote_eof, frames, tls, reg, edge, outq, inq, gone>>

(* receive through service_ready: drain_pending, service_io (write what    *)
(* the socket takes, read what it has), read_plaintext_into_rx, which      *)
(* fails when rx is full and on an unclean end, refresh_readiness; then    *)
(* one frame, the end of the carrier, or nothing.                          *)
ReceiveServiced ==
  LET queued == Drained(pending, tls).out
      moved  == Prefix(queued, SndBuf - Len(outq))
      taken  == IF remote_eof THEN <<>> ELSE Read(inq)
      all    == Len(taken) = Len(inq)
      notify == tls.notify \/ (all /\ gone = "notify")
      eof    == tls.eof \/ (all /\ gone = "fin")
      ended  == remote_eof \/ notify \/ eof
      buffer == rx \o tls.plain \o taken
      served == [out |-> Unsent(queued, Len(moved)),
                 plain |-> <<>>, notify |-> notify, eof |-> eof]
      failed == IF WriteZero(pending, tls)          THEN "writezero"
                ELSE IF gone = "reset"              THEN "reset"
                ELSE IF RxFull(buffer)              THEN "overflow"
                ELSE IF eof /\ ~notify              THEN "unclean"
                ELSE IF Malformed(buffer)           THEN "malformed"
                ELSE IF Exhausted(buffer, ended)    THEN "eof"
                ELSE "none"
      broken == failed \in {"writezero", "reset", "overflow"}
  IN  /\ pc = "serving" /\ ~Malformed(rx) /\ Complete(rx) = 0
      /\ IF broken
         THEN UNCHANGED <<pending, pending_bytes, tls, outq, inq, rx, remote_eof, emitted>>
         ELSE /\ pending' = <<>> /\ pending_bytes' = 0
              /\ tls' = served /\ outq' = outq \o moved
              /\ inq' = SubSeq(inq, Len(taken) + 1, Len(inq))
              /\ remote_eof' = ended
              /\ rx' = IF failed = "none" THEN Rest(buffer) ELSE buffer
              /\ emitted' = IF failed = "none" /\ Complete(buffer) > 0
                            THEN emitted + 1 ELSE emitted
      /\ IF broken \/ failed = "unclean"
         THEN UNCHANGED <<reg, edge>>
         ELSE refresh_readiness(served, ended)
      /\ IF failed # "none" THEN Fail(failed)
         ELSE /\ IF Complete(buffer) > 0 THEN Again ELSE pc' = "idle" /\ burst' = 0
              /\ UNCHANGED why
      /\ dry' = FALSE
      /\ UNCHANGED <<sends, seen, frames, gone>>

Caller == register_readiness \/ Event \/ ReceiveBuffered \/ ReceiveServiced
-----------------------------------------------------------------------------
(* The peer and the kernel (external). *)
own == <<pc, burst, dry, why, out_vars, rx, remote_eof, emitted, tls, reg>>

(* The next unit of the peer's stream arrives: part of a frame, the start  *)
(* of the next one, or something that is no frame (size 0).                *)
Arrive ==
  /\ pc # "dead" /\ gone = "no" /\ frames[3] > 0
  /\ \E u \in IF Ends(frames)
              THEN {<<frames[1] + 1, 1, size>> : size \in Sizes \cup {0}}
              ELSE {<<frames[1], frames[2] + 1, frames[3]>>} :
       /\ u[1] <= MaxFrames
       /\ frames' = u
       /\ inq' = Append(inq, u)
  /\ edge' = (edge \/ "readable" \in reg)
  /\ UNCHANGED <<own, outq, gone>>

(* The peer ends: a close_notify (a FIN behind it changes nothing), a FIN  *)
(* without one, or a reset.                                                *)
Finish ==
  /\ pc # "dead"
  /\ \/ gone = "no" /\ gone' \in {"notify", "fin", "reset"}
     \/ gone = "notify" /\ gone' = "reset"
  /\ edge' = (edge \/ "readable" \in reg \/ (gone' = "reset" /\ reg # {}))
  /\ UNCHANGED <<own, frames, outq, inq>>

(* The peer reads; epoll reports room again after a full buffer. *)
Deliver ==
  /\ pc # "dead" /\ outq # <<>>
  /\ seen' = Head(outq) /\ outq' = Tail(outq)
  /\ edge' = (edge \/ (Len(outq) = SndBuf /\ "writable" \in reg))
  /\ UNCHANGED <<pc, burst, dry, why, pending, pending_bytes, sends, in_vars, tls, reg, inq, gone>>

(* The execution is dropped, it refuses a frame (enqueue), or it rests     *)
(* until its client has been idle for long.                                *)
Resting ==
  /\ \/ pc = "dead"
     \/ pc = "idle" /\ (sends = MaxSends \/ \E size \in SendSizes : QuotaExceeded(size))
  /\ UNCHANGED vars

Next == send \/ Caller \/ Arrive \/ Finish \/ Deliver \/ Resting

Spec == Init /\ [][Next]_vars

(* The caller's loop runs, and the peer reads what it is sent. *)
FairSpec == Spec /\ WF_vars(Caller) /\ WF_vars(Deliver)
-----------------------------------------------------------------------------
(* The bounds of the execution's buffers, and an exact count of what is    *)
(* pending (enqueue, drain_pending, read_plaintext_into_rx).               *)
TypeOK ==
  /\ pc \in {"opened", "idle", "serving", "dead"}
  /\ burst \in 0..(MAX_EVENT_BURST - 1) /\ dry \in BOOLEAN
  /\ Cardinality(FramesOf(pending)) <= MAX_PENDING_FRAMES
  /\ pending_bytes = Len(pending) /\ pending_bytes <= MAX_PENDING_BYTES
  /\ Len(rx) <= MAX_RX_BYTES
  /\ Len(tls.out) <= TLS_BUFFER_LIMIT /\ Len(outq) <= SndBuf
  /\ reg \subseteq {"readable", "writable"} /\ edge \in BOOLEAN
  /\ sends \in 0..MaxSends /\ emitted \in 0..MaxFrames

Before(u, stream, i) == IF i = 1 THEN u ELSE stream[i-1]
Contiguous(u, stream) ==
  \A i \in 1..Len(stream) : Follows(Before(u, stream, i), stream[i])

(* Every frame that send accepted, a failed send's included, is read whole *)
(* by the peer, or on its way there, once and in the order of the sends,   *)
(* however the writes are cut (enqueue, drain_pending, write_remote_tls).  *)
(* The caller is given the peer's frames whole and in order: rx always     *)
(* begins at the frame after the last one given, however frames are split  *)
(* or coalesced (take_frame), and a cleanly closed carrier is reported     *)
(* only after every complete frame it held was given (receive).            *)
StreamsInOrder ==
  LET stream == rx \o tls.plain \o inq
      sent   == outq \o tls.out \o pending
      last   == Before(seen, sent, Len(sent) + 1)
  IN  /\ Contiguous(seen, sent) /\ last[1] = sends /\ Ends(last)
      /\ stream # <<>> => stream[1][1] = emitted + 1 /\ stream[1][2] = 1
      /\ \A i \in 2..Len(stream) : Follows(stream[i-1], stream[i])
      /\ why = "eof" => Complete(rx) = 0 /\ inq = <<>>

(* What rustls accepted reaches the socket and what arrived is taken from  *)
(* it: a writable edge always follows a send (refresh_readiness of         *)
(* TlsFramedSession), and the edge-triggered carrier is read until it      *)
(* would block (service_ready).  The exceptions are an execution that      *)
(* failed and an edge used up by a burst that was served from rx alone     *)
(* (MAX_UDP_EVENT_BURST): only that loses a wake-up.                       *)
NothingStuck ==
  /\ tls.out # <<>> ~> (tls.out = <<>> \/ pc = "dead" \/ (pc = "idle" /\ dry))
  /\ inq # <<>> ~> (inq = <<>> \/ pc = "dead" \/ (pc = "idle" /\ dry))

(* A send fails only beyond the limits on pending frames and bytes.        *)
SendsWithinLimits ==
  pc = "idle" => \A size \in SendSizes : SendError(size) \in {"none", "QuotaExceeded"}
=============================================================================
