------------------------------- MODULE Session -------------------------------
(***************************************************************************)
(* One TCP session from the first byte of its client to the relay: the     *)
(* handlers of socks5.rs, http_connect.rs and transparent_tcp.rs, the      *)
(* outbound they plan and open (proxy.rs, outbound.rs) and the upstream    *)
(* handshakes of protocol.rs, then the relay of module TcpRelay.           *)
(*                                                                         *)
(* A unit of a stream is one message part or one piece of tunnelled data.  *)
(* read_exact takes exactly one part; the HTTP listener reads whatever has *)
(* arrived, up to its chunk, and keeps what lies beyond the header.  Peers *)
(* send ahead of any answer, in pieces, and may end or reset at any time.  *)
(***************************************************************************)
EXTENDS TcpRelay, SequencesExt

CONSTANTS
  MAX_HEADER,       \* MAX_HEADER_BYTES, and MAX_HTTP_RESPONSE_HEAD
  CHUNK,            \* the buffer of one read of the HTTP header
  CONNECT_TIMEOUT,  \* in ticks
  MaxAddresses,     \* bound: what a name resolves to
  MaxUp, MaxDown    \* bounds: the tunnelled units the client and the remote send

ASSUME SessionAssumption ==
  /\ MAX_HEADER \in Nat /\ CHUNK \in Nat \ {0} /\ CONNECT_TIMEOUT \in Nat
  /\ MaxAddresses \in Nat /\ MaxUp \in Nat /\ MaxDown \in Nat

VARIABLES
  door,     \* the listener's kind: socks, http or transparent
  at,       \* the step of the handler
  buffer,   \* read_request of http_connect.rs: what was read from the client
  route,    \* what the plan said: reject, direct or a proxy's protocol
  dial,     \* connect_direct: [left, clock, error]
  carrier,  \* none, tcp or tls
  head,     \* read_http_response_head: what was read from the upstream
  code,     \* the reply being written
  outcome   \* none, ok or the error the handler returns

session == <<door, at, buffer, route, dial, carrier, head, code, outcome>>
all == <<vars, session>>

Part(kind) == [kind |-> kind, n |-> 0]
Reply(number) == [kind |-> "reply", n |-> number]
Tunnelled(count) == [i \in 1..count |-> [kind |-> "data", n |-> i]]

(* What a client may ask of each kind of listener. *)
Asks(d) ==
  CASE d = "socks" -> {<<Part("hello"), Part(r)>> : r \in {"connect", "port0", "associate", "bind", "junk"}}
                        \cup {<<Part("auth")>>, <<Part("junk")>>}
    [] d = "http"  -> {<<Part("head"), Part("end")>>, <<Part("junk"), Part("end")>>}
                        \cup {[i \in 1..(MAX_HEADER + 1) |-> Part("head")]}
    [] d = "transparent" -> {<<>>}

(* What the upstream of each protocol may answer; the first one accepts. *)
Answers(protocol) ==
  CASE protocol = "socks5" -> <<<<Part("method"), Part("ok"), Part("bound")>>, <<Part("auth")>>,
                                <<Part("method"), Part("refused"), Part("bound")>>,
                                <<Part("method"), Part("junk")>>>>
    [] protocol = "http"   -> <<<<Part("ok"), Part("end")>>, <<Part("refused"), Part("end")>>,
                                <<Part("junk"), Part("end")>>,
                                [i \in 1..(MAX_HEADER + 1) |-> Part("ok")]>>
    [] OTHER               -> <<<<>>>>

NotDialled == [left |-> 0, clock |-> 0, error |-> "TimedOut"]

SessionInit ==
  /\ pc = [c \in Copy |-> "read"] /\ result = [c \in Copy |-> "none"]
  /\ held = [c \in Copy |-> <<>>] /\ shut = [s \in Socket |-> {}]
  /\ inq = [s \in Socket |-> <<>>] /\ outq = [s \in Socket |-> <<>>]
  /\ got = [s \in Socket |-> <<>>]
  /\ sent = [s \in Socket |-> 0] /\ gone = [s \in Socket |-> "no"]
  /\ door \in {"socks", "http", "transparent"}
  /\ \E ask \in Asks(door) :
       script = [s \in Socket |-> IF s = "client" THEN ask \o Tunnelled(MaxUp) ELSE <<>>]
  /\ timed = {s \in {"client"} : door # "transparent"}
  /\ at = CASE door = "socks" -> "greeting" [] door = "http" -> "header" [] OTHER -> "plan"
  /\ buffer = <<>> /\ route = "none" /\ carrier = "none" /\ head = <<>>
  /\ dial = NotDialled
  /\ code = 0 /\ outcome = "none"
-----------------------------------------------------------------------------
(* Blocking reads and writes.                                              *)

(* A plausible fault: no read timeout is set. *)
NoTimeout(s) ==
  IF inq[s] # <<>> THEN {}
  ELSE CASE gone[s] = "fin"   -> {"UnexpectedEof"}
         [] gone[s] = "reset" -> {"ConnectionReset"}
         [] gone[s] = "no"    -> {}

(* The errors a read of s may meet now. *)
ReadErrors(s) ==
  IF inq[s] # <<>> THEN {}
  ELSE CASE gone[s] = "fin"   -> {"UnexpectedEof"}
         [] gone[s] = "reset" -> {"ConnectionReset"}
         [] gone[s] = "no"    -> {e \in {"WouldBlock"} : s \in timed}

WriteErrors(s) ==
  IF Broken(s) THEN {"BrokenPipe"}
  ELSE {e \in {"WouldBlock"} : s \in timed /\ Len(outq[s]) = SndBuf}

Take(s, count) ==
  /\ inq' = [inq EXCEPT ![s] = SubSeq(@, count + 1, Len(@))]
  /\ UNCHANGED <<copying, timed, outq, peers>>

Put(s, unit) ==
  /\ ~Broken(s) /\ Len(outq[s]) < SndBuf
  /\ outq' = [outq EXCEPT ![s] = Append(@, unit)]
  /\ UNCHANGED <<copying, timed, inq, peers>>

Goto(step) == at' = step /\ UNCHANGED <<door, buffer, route, dial, carrier, head, code, outcome>>

Return(how) ==
  /\ at' = "ended" /\ outcome' = how
  /\ UNCHANGED <<door, buffer, route, dial, carrier, head, code>>

(* The last reply is written, then the handler returns. *)
Refuse(number, how) ==
  /\ at' = "refuse" /\ code' = number /\ outcome' = how
  /\ UNCHANGED <<door, buffer, route, dial, carrier, head>>

WriteRefusal ==
  /\ at = "refuse"
  /\ Put("client", Reply(code))
  /\ Return(outcome)

(* The refusal of a command, of all methods or by policy must be written;   *)
(* the others are tried (let _ = ...), and the first error is returned.     *)
RefusalLost ==
  /\ at = "refuse"
  /\ \E error \in WriteErrors("client") :
       Return(IF route = "reject" \/ (door = "socks" /\ route = "none") THEN error ELSE outcome)
  /\ UNCHANGED vars
-----------------------------------------------------------------------------
(* The SOCKS5 listener: negotiate_method and read_request.                 *)

Next1(s) == Head(inq[s]).kind

NegotiateMethod ==
  /\ at = "greeting" /\ inq["client"] # <<>>
  /\ Take("client", 1)
  /\ CASE Next1("client") = "hello" -> Goto("method")
       [] Next1("client") = "auth"  -> Refuse(255, "PermissionDenied")
       [] OTHER                     -> Return("InvalidData")

WriteMethod ==
  /\ at = "method"
  /\ Put("client", Part("method"))
  /\ Goto("request")

ReadRequest ==
  /\ at = "request" /\ inq["client"] # <<>>
  /\ Take("client", 1)
  /\ CASE Next1("client") = "connect"   -> Goto("plan")
       [] Next1("client") = "port0"     -> Return("InvalidInput")
       [] Next1("client") = "associate" -> Goto("associate")
       [] Next1("client") = "bind"      -> Refuse(7, "Unsupported")
       [] OTHER                         -> Return("InvalidData")

-----------------------------------------------------------------------------
(* The HTTP listener: read_request.                                        *)

(* A plausible fault: what follows the header is dropped. *)
Discarded(read, end) == <<>>

Leftover(read, end) == SubSeq(read, end + 1, Len(read))

(* One read, then the search for the end of the header. *)
ReadHeader ==
  LET limit == IF MAX_HEADER - Len(buffer) < CHUNK THEN MAX_HEADER - Len(buffer) ELSE CHUNK
      count == IF Len(inq["client"]) < limit THEN Len(inq["client"]) ELSE limit
      read  == buffer \o SubSeq(inq["client"], 1, count)
      ends  == {i \in DOMAIN read : read[i].kind = "end"}
      end   == CHOOSE i \in ends : \A j \in ends : i <= j
  IN  /\ at = "header" /\ inq["client"] # <<>>
      /\ Take("client", count)
      /\ IF ends = {} /\ Len(read) < MAX_HEADER
         THEN at' = "header" /\ buffer' = read /\ UNCHANGED <<code, outcome>>
         ELSE IF ends = {} \/ \E i \in 1..(end - 1) : read[i].kind # "head"
         THEN at' = "refuse" /\ buffer' = <<>> /\ code' = 400 /\ outcome' = "InvalidData"
         ELSE at' = "plan" /\ buffer' = Leftover(read, end) /\ UNCHANGED <<code, outcome>>
      /\ UNCHANGED <<door, route, dial, carrier, head>>

(* A failed read or write ends the negotiation; the HTTP listener still    *)
(* tries to answer.                                                        *)
ClientFails ==
  /\ \/ at \in {"greeting", "request"} /\ \E e \in ReadErrors("client") : Return(e)
     \/ at = "header" /\ \E e \in ReadErrors("client") : Refuse(400, e)
     \/ at \in {"method", "accept"} /\ \E e \in WriteErrors("client") : Return(e)
  /\ UNCHANGED vars
-----------------------------------------------------------------------------
(* The plan and the outbound connection.                                   *)

Route == {"reject", "direct", "socks5", "http", "trojan", "missing"}

plan_action ==
  /\ at = "plan"
  /\ \E r \in Route :
       /\ route' = r
       /\ IF r # "reject" THEN at' = "connect" /\ UNCHANGED <<code, outcome>>
          ELSE /\ at' = IF door = "transparent" THEN "ended" ELSE "refuse"
               /\ code' = IF door = "socks" THEN 2 ELSE 403
               /\ outcome' = IF door = "transparent" THEN "PermissionDenied" ELSE "ok"
  /\ UNCHANGED <<vars, door, buffer, dial, carrier, head>>

connect_error_code(error) ==
  CASE error = "ConnectionRefused" -> 5
    [] error \in {"TimedOut", "NotFound", "AddrNotAvailable"} -> 4
    [] error = "PermissionDenied" -> 2
    [] error = "Unsupported" -> 7
    [] OTHER -> 1

(* connect_tcp failed: each handler's way to say so. *)
ConnectFails(error) ==
  CASE door = "socks" -> Refuse(connect_error_code(error), error)
    [] door = "http"  -> Refuse(502, error)
    [] OTHER          -> Return(error)

(* connect_tcp, up to the first attempt: an endpoint that is not           *)
(* registered, or resolve_target.                                          *)
Connect ==
  /\ at = "connect"
  /\ CASE route = "missing" -> ConnectFails("Unsupported")
       [] route = "direct"  ->
            \E n \in 0..MaxAddresses :
              IF n = 0 THEN ConnectFails("AddrNotAvailable")
              ELSE /\ at' = "dial" /\ dial' = [dial EXCEPT !.left = n]
                   /\ UNCHANGED <<door, buffer, route, carrier, head, code, outcome>>
       [] OTHER -> Goto("dial")
  /\ UNCHANGED vars

(* The remote's peer speaks once there is a connection. *)
Opened(answer) == script' = [script EXCEPT !["remote"] = answer \o Tunnelled(MaxDown)]

(* The handlers with a client to answer do so before they relay. *)
Accept(step) == IF door = "transparent" THEN "handover" ELSE step

(* A plausible fault: every address gets the whole timeout. *)
WholeTimeout(clock) == CONNECT_TIMEOUT

Remaining(clock) == IF clock < CONNECT_TIMEOUT THEN CONNECT_TIMEOUT - clock ELSE 0

(* One address of connect_direct; a connect_timeout that expires uses up   *)
(* all that remains.                                                       *)
DialDirect ==
  /\ at = "dial" /\ route = "direct" /\ dial.left > 0 /\ Remaining(dial.clock) > 0
  /\ \E t \in 0..Remaining(dial.clock) :
       \/ /\ at' = Accept("accept") /\ carrier' = "tcp"
          /\ dial' = [dial EXCEPT !.clock = @ + t]
          /\ Opened(<<>>)
       \/ /\ \E e \in {"ConnectionRefused"} \cup {x \in {"TimedOut"} : t = Remaining(dial.clock)} :
               dial' = [left |-> dial.left - 1, clock |-> dial.clock + t, error |-> e]
          /\ UNCHANGED <<at, carrier, script>>
  /\ UNCHANGED <<copying, timed, inq, outq, got, sent, gone, door, buffer, route, head, code, outcome>>

GiveUp ==
  /\ at = "dial" /\ route = "direct" /\ (dial.left = 0 \/ Remaining(dial.clock) = 0)
  /\ ConnectFails(dial.error)
  /\ UNCHANGED vars

DialErrors(kind) ==
  {"ConnectionRefused", "TimedOut"}
    \cup {e \in {"InvalidData", "WouldBlock", "UnexpectedEof"} : kind = "tls"}

(* TransportConfig::connect: TCP, and TLS with its own handshake on top;   *)
(* Trojan is registered over TLS only.  Both leave the handshake timeout.  *)
DialProxy ==
  /\ at = "dial" /\ route # "direct"
  /\ \E kind \in IF route = "trojan" THEN {"tls"} ELSE {"tcp", "tls"} :
       \/ /\ carrier' = kind /\ timed' = timed \cup {"remote"}
          /\ \E i \in DOMAIN Answers(route) : Opened(Answers(route)[i])
          /\ at' = "offer" /\ UNCHANGED <<door, buffer, route, dial, head, code, outcome>>
       \/ /\ \E e \in DialErrors(kind) : ConnectFails(e)
          /\ UNCHANGED <<timed, script>>
  /\ UNCHANGED <<copying, inq, outq, got, sent, gone>>
-----------------------------------------------------------------------------
(* The upstream handshakes: handshake_stream of each protocol.             *)

(* The first request: a greeting for SOCKS5, all of it for the others.     *)
(* Trojan has no answer to wait for.                                       *)
WriteOffer ==
  /\ at = "offer"
  /\ Put("remote", Part("request"))
  /\ Goto(CASE route = "socks5" -> "offered" [] route = "http" -> "head" [] OTHER -> Accept("accept"))

ReadMethod ==
  /\ at = "offered" /\ inq["remote"] # <<>>
  /\ Take("remote", 1)
  /\ IF Next1("remote") = "method" THEN Goto("ask") ELSE ConnectFails("PermissionDenied")

WriteRequest ==
  /\ at = "ask"
  /\ Put("remote", Part("request"))
  /\ Goto("asked")

(* A plausible fault: the bound address is left in the stream. *)
AddressKept == Goto(Accept("accept"))

(* After an accepting reply comes the bound address. *)
ReplyAccepted == Goto("bound")

(* Junk is a malformed reply, or one whose bound address is of a type that *)
(* discard_socks_address refuses.                                          *)
ReadReply ==
  /\ at = "asked" /\ inq["remote"] # <<>>
  /\ Take("remote", 1)
  /\ CASE Next1("remote") = "ok"      -> ReplyAccepted
       [] Next1("remote") = "refused" -> ConnectFails("ConnectionRefused")
       [] OTHER                       -> ConnectFails("InvalidData")

(* discard_socks_address of a known type, and the port. *)
DiscardAddress ==
  /\ at = "bound" /\ inq["remote"] # <<>>
  /\ Take("remote", 1)
  /\ Goto(Accept("accept"))

(* Plausible faults: the head is read in chunks; any status is success. *)
HeadChunk(queue) == Len(queue)
AnyStatus(status) == "ok"

(* read_http_response_head takes one byte at a time. *)
HeadByte(queue) == 1

StatusError(status) ==
  CASE status = "ok" -> "ok" [] status = "refused" -> "ConnectionRefused" [] OTHER -> "InvalidData"

ReadHead ==
  LET taken == HeadByte(inq["remote"])
      read  == head \o SubSeq(inq["remote"], 1, taken)
      status == StatusError(read[1].kind)
  IN  /\ at = "head" /\ inq["remote"] # <<>>
      /\ Take("remote", taken)
      /\ IF \E i \in DOMAIN read : read[i].kind = "end"
         THEN IF status = "ok" THEN Goto(Accept("accept")) ELSE ConnectFails(status)
         ELSE IF Len(read) >= MAX_HEADER THEN ConnectFails("InvalidData")
         ELSE head' = read /\ UNCHANGED <<door, at, buffer, route, dial, carrier, code, outcome>>

UpstreamFails ==
  /\ \/ at \in {"offered", "asked", "bound", "head"} /\ \E e \in ReadErrors("remote") : ConnectFails(e)
     \/ at \in {"offer", "ask"} /\ \E e \in WriteErrors("remote") : ConnectFails(e)
     \/ at = "leftover" /\ \E e \in WriteErrors("remote") : Return(e)
  /\ UNCHANGED vars
-----------------------------------------------------------------------------
(* Success: the reply, what the client sent ahead, and the relay.          *)

WriteSuccess ==
  /\ at = "accept"
  /\ Put("client", Reply(IF door = "socks" THEN 0 ELSE 200))
  /\ Goto(IF buffer = <<>> THEN "handover" ELSE "leftover")

WriteLeftover ==
  /\ at = "leftover"
  /\ Put("remote", Head(buffer))
  /\ buffer' = Tail(buffer)
  /\ at' = IF Len(buffer) = 1 THEN "handover" ELSE "leftover"
  /\ UNCHANGED <<door, route, dial, carrier, head, code, outcome>>

(* A plausible fault: the handshake timeouts stay. *)
TimeoutsKept == timed

TimeoutsCleared == {}

(* relay_to_client: TcpRelay for TCP, TlsRelay for TLS.  What connect_tcp  *)
(* kept is gone by now.                                                    *)
Handover ==
  /\ at = "handover"
  /\ timed' = TimeoutsCleared
  /\ at' = IF carrier = "tls" THEN "tls" ELSE "relay"
  /\ dial' = NotDialled /\ head' = <<>>
  /\ UNCHANGED <<copying, inq, outq, peers, door, buffer, route, carrier, code, outcome>>

(* Clearing a timeout, cloning a socket or starting the thread fails: the  *)
(* handler returns, which closes both sockets, and nothing was relayed.    *)
HandoverFails ==
  /\ at = "handover"
  /\ Return("Other")
  /\ UNCHANGED vars

Negotiate ==
  \/ NegotiateMethod \/ WriteMethod \/ ReadRequest \/ ReadHeader \/ ClientFails
  \/ WriteRefusal \/ RefusalLost
  \/ plan_action \/ Connect \/ DialDirect \/ GiveUp \/ DialProxy
  \/ WriteOffer \/ ReadMethod \/ WriteRequest \/ ReadReply \/ DiscardAddress \/ ReadHead
  \/ UpstreamFails \/ WriteSuccess \/ WriteLeftover \/ Handover \/ HandoverFails

Relay(c) == at = "relay" /\ Thread(c) /\ UNCHANGED session

Over == at \in {"ended", "associate", "tls"} \/ pc["down"] = "returned"

(* The remote's peer is there once the connection is, and until it is      *)
(* given up.                                                               *)
Environment(s) ==
  /\ ~Over /\ (s = "remote" => carrier # "none" /\ at # "refuse")
  /\ Peer(s)
  /\ UNCHANGED session

Finished == Over /\ UNCHANGED all

SessionNext ==
  \/ Negotiate
  \/ \E c \in Copy : Relay(c)
  \/ \E s \in Socket : Environment(s)
  \/ Finished

(* The handler and its two copies are scheduled; of the peers nothing is   *)
(* assumed.  A read or a write that waits on a socket with a timeout ends. *)
SessionSpec ==
  /\ SessionInit /\ [][SessionNext]_all
  /\ WF_all(Negotiate) /\ \A c \in Copy : WF_all(Relay(c))

(* An assumption of some properties: peers read what they are sent. *)
PeersRead == \A s \in Socket : WF_all(Environment(s) /\ Deliver(s))
-----------------------------------------------------------------------------
Data(q) == SelectSeq(q, LAMBDA u : u.kind = "data")
Received(c) == got[Sink(c)] \o outq[Sink(c)]
SentData(c) == Data(SubSeq(script[Source(c)], 1, sent[Source(c)]))

(* The tunnel carries exactly what the peers tunnel: each side gets the    *)
(* daemon's own messages, then a prefix of the other side's data, and no   *)
(* part of a handshake; and while nothing has failed, what is not there    *)
(* yet is on its way.  Data that arrives with a request or with an answer  *)
(* is neither lost nor overtaken (buffered_tunnel_bytes,                   *)
(* read_http_response_head, discard_socks_address).                        *)
TunnelIntact ==
  \A c \in Copy :
    LET own == SelectSeq(Received(c), LAMBDA u : u.kind # "data")
    IN  /\ Received(c) = own \o Data(Received(c))
        /\ \A i \in DOMAIN own : own[i].kind \in {"request", "method", "reply"}
                                 /\ (own[i].kind = "request" <=> c = "up")
        /\ IsPrefix(Data(Received(c)), SentData(c))
        /\ at \notin {"refuse", "ended"} /\ (\A d \in Copy : result[d] # "err") =>
             Data(Received(c)) \o held[c] \o (IF c = "up" THEN Data(buffer) ELSE <<>>)
               \o Data(inq[Source(c)]) = SentData(c)

(* The client hears at most one verdict: success only if the upstream did  *)
(* accept, and after a refusal none of the client's data goes anywhere; a  *)
(* flow that policy rejects opens no connection; and a client whose        *)
(* request was understood hears a verdict unless its own connection fails  *)
(* (handle_connect, http_connect::handle, handshake_stream).               *)
VerdictIsTrue ==
  LET told     == SelectSeq(Received("down"), LAMBDA u : u.kind = "reply")
      success  == told # <<>> /\ told[1].n \in {0, 200}
      accepting == Answers(route)[1]
  IN  /\ Len(told) <= 1
      /\ success => /\ carrier # "none"
                    /\ IsPrefix(accepting, script["remote"]) /\ sent["remote"] >= Len(accepting)
      /\ told # <<>> /\ ~success => Data(Received("up")) = <<>> /\ at = "ended"
      /\ route = "reject" => carrier = "none"
      /\ at = "ended" /\ route # "none" /\ door # "transparent" /\ told = <<>> =>
           Broken("client") \/ Len(outq["client"]) = SndBuf

(* connect_direct spends at most CONNECT_TIMEOUT on all the addresses of a *)
(* name together, and gives up only when each was tried or that time is    *)
(* spent.                                                                  *)
SharedDeadline ==
  route = "direct" =>
    /\ dial.clock <= CONNECT_TIMEOUT
    /\ at \in {"refuse", "ended"} /\ carrier = "none" =>
         dial.left = 0 \/ dial.clock = CONNECT_TIMEOUT

(* No client and no upstream keeps a handler, and the connection permit it *)
(* holds, in the negotiation forever: it reaches the relay or returns (the *)
(* handshake timeouts).  A direct connection has none: writing to it what  *)
(* the client sent ahead relies on the remote reading.                     *)
NegotiationEnds ==
  /\ at \notin {"leftover", "relay", "tls", "associate", "ended"}
       ~> at \in {"leftover", "relay", "tls", "associate", "ended"}
  /\ PeersRead => (at = "leftover" ~> at \in {"relay", "tls", "ended"})

(* The end of one peer's stream is passed on to the other, unless its copy *)
(* fails or it is reset, provided that peers read what they are sent       *)
(* (io::copy, then Shutdown::Write).                                       *)
EofPassedOn ==
  PeersRead =>
    \A c \in Copy :
      at = "relay" /\ gone[Source(c)] = "fin" ~>
        \/ "write" \in shut[Sink(c)] \/ result[c] \in {"err", "late"}
        \/ gone[Source(c)] = "reset"
=============================================================================
