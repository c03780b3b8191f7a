----------------------------- MODULE TlsRelay ------------------------------
(***************************************************************************)
(* TlsTransportSession::relay_to_client of crates/transport/src/tls.rs:    *)
(* one thread that moves data between a client's TCP socket and a TLS      *)
(* connection, driven by mio's edge-triggered readiness.                   *)
(*                                                                         *)
(* Data is counted in units of IO_CHUNK bytes.  What the remote sends is a *)
(* sequence of "data" and at most one "notify", the TLS close_notify.  The *)
(* rustls connection, the kernel's sockets and epoll are modelled as the   *)
(* code uses them: rustls wants to read while it holds no plaintext, and a *)
(* socket is reported once after each change of it or of the interest.     *)
(***************************************************************************)
EXTENDS Naturals, Sequences, SequencesExt

CONSTANTS
  TLS_BUFFER_LIMIT,  \* in units: what rustls queues for the socket
  SndBuf,            \* bound: the kernel's send buffers, in units
  MaxUp, MaxDown,    \* bounds: the units the client and the remote send
  Resets             \* the sockets whose peer may reset the connection

Socket == {"client", "remote"}

ASSUME RelayAssumption ==
  /\ TLS_BUFFER_LIMIT \in Nat \ {0} /\ SndBuf \in Nat \ {0}
  /\ MaxUp \in Nat /\ MaxDown \in Nat /\ Resets \subseteq Socket

VARIABLES
  pc,         \* loop, poll, events or ended
  result,     \* what relay_to_client returned: none, ok or error
  upstream, downstream,              \* the units pending in each direction
  client_eof, remote_eof,
  close_notify_sent, client_write_shutdown,
  tls,        \* rustls: [plain, notify, eof, out]
  reg,        \* reg[s]: the registered interest
  edge,       \* edge[s]: epoll has s on its ready list
  ready,      \* ready[s]: the flags of the event of s being handled
  inq,        \* inq[s]: what the peer sent and the relay has not read
  gone,       \* gone[s]: how far the peer ended its sending: no, notify, fin or reset
  outq,       \* outq[s]: what is in the kernel's send buffer
  sent        \* sent[s]: the units of data the peer has sent

relay == <<upstream, downstream, client_eof, remote_eof, close_notify_sent,
           client_write_shutdown, tls, reg>>
world == <<inq, gone, outq, sent>>
vars == <<pc, result, relay, edge, ready, world>>

Flag == {"readable", "writable", "closed"}
Item == {"data", "notify"}

\* The two buffers, the flags and the registrations of relay_to_client, and the
\* streams on both of its sides.
TypeOK ==
  /\ pc \in {"loop", "poll", "events", "ended"}
  /\ result \in {"none", "ok", "error"}
  /\ upstream \in 0..1 /\ downstream \in 0..1
  /\ client_eof \in BOOLEAN /\ remote_eof \in BOOLEAN
  /\ close_notify_sent \in BOOLEAN /\ client_write_shutdown \in BOOLEAN
  /\ tls \in [plain : 0..MaxDown, notify : BOOLEAN, eof : BOOLEAN, out : Seq(Item)]
  /\ Len(tls.out) <= TLS_BUFFER_LIMIT + 1
  /\ reg \in [Socket -> SUBSET {"readable", "writable"}]
  /\ edge \in [Socket -> BOOLEAN]
  /\ ready \in [Socket -> SUBSET Flag]
  /\ inq \in [Socket -> Seq(Item)]
  /\ gone \in [Socket -> {"no", "notify", "fin", "reset"}]
  /\ outq \in [Socket -> Seq(Item)] /\ \A s \in Socket : Len(outq[s]) <= SndBuf
  /\ sent \in [Socket -> Nat]
  /\ sent["client"] <= MaxUp /\ sent["remote"] <= MaxDown

\* The handshakes may have left what the remote sent early in rustls.
Init ==
  /\ pc = "loop" /\ result = "none"
  /\ upstream = 0 /\ downstream = 0
  /\ client_eof = FALSE /\ remote_eof = FALSE
  /\ close_notify_sent = FALSE /\ client_write_shutdown = FALSE
  /\ tls \in [plain : 0..1 \cap 0..MaxDown, notify : {FALSE}, eof : {FALSE}, out : {<<>>}]
  /\ reg = [s \in Socket |-> {}]
  /\ edge = [s \in Socket |-> FALSE]
  /\ ready = [s \in Socket |-> {}]
  /\ inq = [s \in Socket |-> <<>>]
  /\ gone = [s \in Socket |-> "no"]
  /\ outq = [s \in Socket |-> <<>>]
  /\ sent = [s \in Socket |-> IF s = "remote" THEN tls.plain ELSE 0]

Return(how) ==
  /\ pc' = "ended" /\ result' = how
  /\ ready' = [s \in Socket |-> {}]

----------------------------------------------------------------------------
(* The loop, up to the poll.                                                *)

\* The writer of rustls takes plaintext.
Accepts(connection) == Len(connection.out) < TLS_BUFFER_LIMIT

Feeds == upstream = 1 /\ Accepts(tls)

\* The reader fails: the network ended without a close_notify.
UncleanEof == downstream = 0 /\ tls.plain = 0 /\ tls.eof /\ ~tls.notify

Fills == downstream = 0 /\ tls.plain > 0

\* Mutant: what is still pending is not waited for.
EarlyEnd(down) == remote_eof /\ ~client_write_shutdown

\* All that the remote sent has been passed on.
DownstreamDone(down) == remote_eof /\ down = 0 /\ ~client_write_shutdown

\* All that was read from the client is with rustls.
UpstreamDone(up) == client_eof /\ up = 0

\* Mutant: only the first registration reports a socket that is ready.
NeverRearmed(s, interest) == reg[s] = {} /\ interest # {}

\* update_registration (re)registers, which reports a ready socket again.
Rearmed(s, interest) == reg[s] # interest /\ interest # {}

\* feed_upstream, fill_downstream, the two shutdowns, the end or the new
\* registrations.
LoopTop ==
  LET up      == IF Feeds THEN 0 ELSE upstream
      down    == IF Fills THEN 1 ELSE downstream
      shut    == DownstreamDone(down)
      c_eof   == client_eof \/ shut
      notify  == ~close_notify_sent /\ (UpstreamDone(up) \/ shut)
      out     == tls.out \o (IF Feeds THEN <<"data">> ELSE <<>>)
                         \o (IF notify THEN <<"notify">> ELSE <<>>)
      plain   == IF Fills THEN tls.plain - 1 ELSE tls.plain
      over    == c_eof /\ remote_eof /\ up = 0 /\ down = 0 /\ out = <<>>
      Wanted(s) ==
        CASE s = "client" -> {f \in {"readable"} : ~c_eof /\ up = 0}
                               \cup {f \in {"writable"} : down # 0}
          [] s = "remote" -> {f \in {"readable"} : ~remote_eof /\ plain = 0 /\ ~tls.notify}
                               \cup {f \in {"writable"} : out # <<>>}
  IN  /\ pc = "loop"
      /\ IF UncleanEof \/ (shut /\ gone["client"] = "reset")
           THEN Return("error") /\ UNCHANGED <<relay, edge>>
           ELSE /\ upstream' = up /\ downstream' = down
                /\ client_eof' = c_eof /\ remote_eof' = remote_eof
                /\ close_notify_sent' = (close_notify_sent \/ notify)
                /\ client_write_shutdown' = (client_write_shutdown \/ shut)
                /\ tls' = [tls EXCEPT !.plain = plain, !.out = out]
                /\ IF over
                     THEN Return("ok") /\ UNCHANGED <<reg, edge>>
                     ELSE /\ reg' = [s \in Socket |-> Wanted(s)]
                          /\ edge' = [s \in Socket |-> Wanted(s) # {} /\
                                        (edge[s] \/ Rearmed(s, Wanted(s)))]
                          /\ IF \A s \in Socket : Wanted(s) = {}
                               THEN Return("error")
                               ELSE pc' = "poll" /\ UNCHANGED <<result, ready>>
      /\ UNCHANGED world

----------------------------------------------------------------------------
(* The poll and its events.                                                 *)

\* The state of a socket as epoll reports it: a FIN with the readable
\* interest only, a reset or a socket closed both ways with any.
Mask(s) ==
  {f \in {"readable"} : f \in reg[s] /\ (inq[s] # <<>> \/ gone[s] \in {"fin", "reset"})}
  \cup {f \in {"writable"} : f \in reg[s] /\ (Len(outq[s]) < SndBuf \/ gone[s] = "reset")}
  \cup {f \in {"closed"} : \/ gone[s] = "fin" /\ "readable" \in reg[s]
                           \/ gone[s] = "fin" /\ s = "client" /\ client_write_shutdown
                           \/ gone[s] = "reset"}

Poll ==
  /\ pc = "poll"
  /\ \E s \in Socket : edge[s] /\ Mask(s) # {}
  /\ ready' = [s \in Socket |-> IF edge[s] THEN Mask(s) ELSE {}]
  /\ edge' = [s \in Socket |-> FALSE]
  /\ pc' = "events"
  /\ UNCHANGED <<result, relay, world>>

Handled(s) ==
  /\ ready' = [ready EXCEPT ![s] = {}]
  /\ pc' = IF \E o \in Socket \ {s} : ready[o] # {} THEN "events" ELSE "loop"
  /\ UNCHANGED <<result, edge, gone, sent>>

\* A read or a write meets the peer's reset; the remote's socket is read to
\* its end, the client's only for one unit.
Fails(s) ==
  /\ gone[s] = "reset"
  /\ \/ "readable" \in ready[s] /\ (s = "remote" \/ inq[s] = <<>>)
     \/ "writable" \in ready[s]

\* process_new_packets meets a record that is not valid.
Invalid(s) == s = "remote" /\ "readable" \in ready[s] /\ inq[s] # <<>>

IoError(s) ==
  /\ pc = "events"
  /\ Fails(s) \/ Invalid(s)
  /\ Return("error")
  /\ UNCHANGED <<relay, edge, world>>

\* read_client takes one unit; write_pending; a closed socket ends the reading.
ClientEvent ==
  LET flags  == ready["client"]
      reads  == "readable" \in flags /\ inq["client"] # <<>>
      ends   == "readable" \in flags /\ inq["client"] = <<>>
      writes == "writable" \in flags /\ downstream = 1 /\ Len(outq["client"]) < SndBuf
  IN  /\ pc = "events" /\ flags # {} /\ ~Fails("client")
      /\ upstream' = IF reads THEN 1 ELSE upstream
      /\ downstream' = IF writes THEN 0 ELSE downstream
      /\ client_eof' = (client_eof \/ ends \/ "closed" \in flags)
      /\ inq' = IF reads THEN [inq EXCEPT !["client"] = Tail(@)] ELSE inq
      /\ outq' = IF writes THEN [outq EXCEPT !["client"] = Append(@, "data")] ELSE outq
      /\ UNCHANGED <<remote_eof, close_notify_sent, client_write_shutdown, tls, reg>>
      /\ Handled("client")

\* The data in what the remote sent: at most one item of it is its close_notify.
Units(q) == Len(q) - (IF Contains(q, "notify") THEN 1 ELSE 0)

\* read_remote_tls reads until the socket would block, or to a close_notify;
\* write_remote_tls; a closed socket ends the reading.
RemoteEvent ==
  LET flags == ready["remote"]
      taken == IF "readable" \in flags THEN inq["remote"] ELSE <<>>
      notified == Contains(taken, "notify")
      eof   == "readable" \in flags /\ gone["remote"] = "fin"
      room  == IF "writable" \in flags THEN SndBuf - Len(outq["remote"]) ELSE 0
      moved == SubSeq(tls.out, 1, IF room < Len(tls.out) THEN room ELSE Len(tls.out))
  IN  /\ pc = "events" /\ flags # {} /\ ~Fails("remote")
      /\ inq' = [inq EXCEPT !["remote"] = SubSeq(@, Len(taken) + 1, Len(@))]
      /\ outq' = [outq EXCEPT !["remote"] = @ \o moved]
      /\ tls' = [plain  |-> tls.plain + Units(taken),
                 notify |-> tls.notify \/ notified,
                 eof    |-> tls.eof \/ eof,
                 out    |-> SubSeq(tls.out, Len(moved) + 1, Len(tls.out))]
      /\ remote_eof' = (remote_eof \/ notified \/ eof \/ "closed" \in flags)
      /\ UNCHANGED <<upstream, downstream, client_eof, close_notify_sent,
                     client_write_shutdown, reg>>
      /\ Handled("remote")

Loop == LoopTop \/ Poll \/ ClientEvent \/ RemoteEvent \/ \E s \in Socket : IoError(s)

----------------------------------------------------------------------------
(* The peers and the kernel.                                                *)

Limit(s) == IF s = "client" THEN MaxUp ELSE MaxDown

\* epoll notices a change of s that concerns the registered interest: data
\* and room have their flag, the end of a connection is noticed with any.
Touched(s, flags) ==
  /\ edge' = [edge EXCEPT ![s] = @ \/ reg[s] \cap flags # {}]
  /\ UNCHANGED <<pc, result, relay, ready>>

Send(s) ==
  /\ pc # "ended" /\ gone[s] = "no" /\ sent[s] < Limit(s)
  /\ inq' = [inq EXCEPT ![s] = Append(@, "data")]
  /\ sent' = [sent EXCEPT ![s] = @ + 1]
  /\ Touched(s, {"readable"})
  /\ UNCHANGED <<gone, outq>>

\* The remote ends the TLS session.
CloseNotify ==
  /\ pc # "ended" /\ gone["remote"] = "no"
  /\ inq' = [inq EXCEPT !["remote"] = Append(@, "notify")]
  /\ gone' = [gone EXCEPT !["remote"] = "notify"]
  /\ Touched("remote", {"readable"})
  /\ UNCHANGED <<outq, sent>>

Fin(s) ==
  /\ pc # "ended" /\ gone[s] \in {"no", "notify"}
  /\ gone' = [gone EXCEPT ![s] = "fin"]
  /\ Touched(s, Flag)
  /\ UNCHANGED <<inq, outq, sent>>

Reset(s) ==
  /\ pc # "ended" /\ s \in Resets /\ gone[s] # "reset"
  /\ gone' = [gone EXCEPT ![s] = "reset"]
  /\ Touched(s, Flag)
  /\ UNCHANGED <<inq, outq, sent>>

\* The peer reads; only a full buffer has someone waiting for room.
Drain(s) ==
  /\ pc # "ended" /\ outq[s] # <<>>
  /\ outq' = [outq EXCEPT ![s] = Tail(@)]
  /\ IF Len(outq[s]) = SndBuf THEN Touched(s, {"writable"})
     ELSE UNCHANGED <<pc, result, relay, edge, ready>>
  /\ UNCHANGED <<inq, gone, sent>>

Environment ==
  \/ CloseNotify
  \/ \E s \in Socket : Send(s) \/ Fin(s) \/ Reset(s) \/ Drain(s)

Returned == pc = "ended" /\ UNCHANGED vars

Next == Loop \/ Environment \/ Returned

Spec == Init /\ [][Next]_vars

\* The relay's thread runs, and peers read what they are sent.
FairSpec == Spec /\ WF_vars(Loop) /\ \A s \in Socket : WF_vars(Drain(s))
----------------------------------------------------------------------------

\* The client sees the end of the stream only after it was sent everything
\* the remote sent before its close_notify, and only if there was one: an
\* unclean end of the network is not passed on as a clean one.  The relay's
\* own close_notify never overtakes what it has read from the client, unless
\* the remote has ended before.
ClosureComesLast ==
  /\ client_write_shutdown =>
       /\ tls.notify
       /\ tls.plain = 0 /\ downstream = 0
       /\ ~Contains(inq["remote"], "data")
  /\ close_notify_sent /\ ~remote_eof =>
       /\ upstream = 0
       /\ \A q \in {tls.out, outq["remote"]} : \A i \in 1..Len(q) : q[i] = "notify" => i = Len(q)

\* The remote's end always reaches the client or ends the relay, and once both
\* peers have ended so has the relay: through every change of interest
\* (update_registration) an edge is left for what the loop waits for.
RelayEnds ==
  /\ gone["remote"] = "fin" ~> client_write_shutdown \/ pc = "ended"
  /\ (\A s \in Socket : gone[s] = "fin") ~> pc = "ended"

\* What the client sends is read, whether or not it sends more later.
UploadForwarded == inq["client"] # <<>> ~> (inq["client"] = <<>> \/ pc = "ended")
=============================================================================
