--------------------------- MODULE TlsRelayProofs ---------------------------
(***************************************************************************)
(* Proofs about TlsRelay, for every number of units the peers send, every  *)
(* size of the buffers and every choice of the sockets that may be reset.  *)
(*                                                                         *)
(* ClosureComesLast speaks of what has been passed on.  It needs to know   *)
(* where a close_notify can be on its way: last in each queue of either    *)
(* direction (Received, Notified), and that a FIN or a reset is never      *)
(* reported without an event on which the relay reads or writes            *)
(* (Reported), so that it is not taken for a clean end.                    *)
(***************************************************************************)
EXTENDS TlsRelay, TLAPS

(* The time each leaf may take: building an obligation is slow with this   *)
(* many definitions and lemmas in scope.                                   *)
USE SMTT(30), ZenonT(30)

\* A close_notify in q has nothing behind it.
NotifyLast(q) == \A i \in 1..Len(q) : q[i] = "notify" => i = Len(q)

\* What the remote sent is in order: its close_notify comes last, and the
\* plaintext in rustls and in the socket is no more than it sent.
Received ==
  /\ Contains(inq["remote"], "notify") => gone["remote"] # "no"
  /\ NotifyLast(inq["remote"])
  /\ tls.notify => inq["remote"] = <<>> /\ gone["remote"] # "no"
  /\ tls.plain + Units(inq["remote"]) <= sent["remote"]

\* An event that says closed also makes the relay read or write, so that a
\* reset is met and a FIN is seen by rustls.
Reported ==
  /\ \A s \in Socket : edge[s] => reg[s] # {}
  /\ pc = "loop" => \A s \in Socket : ready[s] = {}
  /\ "closed" \in ready["remote"] =>
       \/ gone["remote"] = "fin" /\ "readable" \in ready["remote"]
       \/ gone["remote"] = "reset" /\ ready["remote"] \cap {"readable", "writable"} # {}

\* The client is not read after its end.
ReadsBeforeEnd ==
  /\ pc = "poll" /\ "readable" \in reg["client"] => ~client_eof
  /\ "readable" \in ready["client"] => ~client_eof

\* The ends that the relay has seen and passed on.
Ended ==
  /\ remote_eof => tls.notify \/ tls.eof
  /\ client_write_shutdown => tls.notify /\ tls.plain = 0 /\ downstream = 0
  /\ close_notify_sent /\ ~remote_eof => client_eof /\ upstream = 0

\* The relay's close_notify on its way through rustls and the socket.
Notified ==
  /\ ~close_notify_sent =>
       /\ ~Contains(tls.out, "notify") /\ ~Contains(outq["remote"], "notify")
       /\ Len(tls.out) <= TLS_BUFFER_LIMIT
  /\ ~remote_eof =>
       /\ NotifyLast(tls.out) /\ NotifyLast(outq["remote"])
       /\ Contains(outq["remote"], "notify") => tls.out = <<>>

IInv == TypeOK /\ Received /\ Reported /\ ReadsBeforeEnd /\ Ended /\ Notified
(* Sequences of items: what stays of their close_notify. *)
LEMMA AppendItem ==
  ASSUME NEW q \in Seq(Item), NEW x \in Item
  PROVE  /\ Append(q, x) \in Seq(Item) /\ Len(Append(q, x)) = Len(q) + 1
         /\ Contains(Append(q, x), "notify") <=> Contains(q, "notify") \/ x = "notify"
         /\ ~Contains(q, "notify") => NotifyLast(Append(q, x))
BY DEF Contains, NotifyLast

LEMMA EmptyItems ==
  /\ <<>> \in Seq(Item) /\ Len(<<>>) = 0 /\ ~Contains(<<>>, "notify")
  /\ NotifyLast(<<>>) /\ Units(<<>>) = 0
BY DEF Contains, NotifyLast, Units

LEMMA UnitsType ==
  ASSUME NEW q \in Seq(Item)
  PROVE  /\ Units(q) \in Nat
         /\ Contains(q, "notify") => Len(q) > 0
BY DEF Contains, Units

LEMMA TailItems ==
  ASSUME NEW q \in Seq(Item), q # <<>>
  PROVE  /\ Tail(q) \in Seq(Item)
         /\ Contains(Tail(q), "notify") => Contains(q, "notify")
         /\ NotifyLast(q) => NotifyLast(Tail(q))
BY DEF Contains, NotifyLast

LEMMA ConcatItems ==
  ASSUME NEW q \in Seq(Item), NEW r \in Seq(Item)
  PROVE  /\ q \o r \in Seq(Item) /\ Len(q \o r) = Len(q) + Len(r)
         /\ Contains(q \o r, "notify") <=> Contains(q, "notify") \/ Contains(r, "notify")
         /\ ~Contains(q, "notify") /\ NotifyLast(r) => NotifyLast(q \o r)
         /\ NotifyLast(q) /\ r = <<>> => NotifyLast(q \o r)
<1>1. /\ q \o r \in Seq(Item) /\ Len(q \o r) = Len(q) + Len(r)
      /\ \A i \in 1..Len(q \o r) :
           (q \o r)[i] = IF i <= Len(q) THEN q[i] ELSE r[i - Len(q)]
  OBVIOUS
<1>2. ASSUME Contains(q, "notify") \/ Contains(r, "notify") PROVE Contains(q \o r, "notify")
  <2>1. CASE Contains(q, "notify")
    BY <1>1, <2>1 DEF Contains
  <2>2. ASSUME NEW i \in 1..Len(r), r[i] = "notify" PROVE Contains(q \o r, "notify")
    <3>1. Len(q) + i \in 1..Len(q \o r) /\ (q \o r)[Len(q) + i] = "notify"
      BY <1>1, <2>2
    <3> QED
      BY <3>1 DEF Contains
  <2> QED
    BY <1>2, <2>1, <2>2 DEF Contains
<1>3. Contains(q \o r, "notify") => Contains(q, "notify") \/ Contains(r, "notify")
  BY <1>1 DEF Contains
<1>4. ASSUME ~Contains(q, "notify"), NotifyLast(r),
             NEW i \in 1..Len(q \o r), (q \o r)[i] = "notify"
      PROVE  i = Len(q \o r)
  <2>1. i > Len(q) /\ r[i - Len(q)] = "notify" /\ i - Len(q) \in 1..Len(r)
    BY <1>1, <1>4 DEF Contains
  <2>2. i - Len(q) = Len(r)
    BY <2>1, <1>4 DEF NotifyLast
  <2> QED
    BY <1>1, <2>1, <2>2
<1>5. NotifyLast(q) /\ r = <<>> => NotifyLast(q \o r)
  <2>1. r = <<>> => q \o r = q
    OBVIOUS
  <2> QED
    BY <2>1
<1> QED
  BY <1>1, <1>2, <1>3, <1>4, <1>5 DEF NotifyLast

(* A queue is cut in two: a close_notify in the first part leaves nothing. *)
LEMMA CutItems ==
  ASSUME NEW q \in Seq(Item), NEW n \in 0..Len(q)
  PROVE  /\ SubSeq(q, 1, n) \in Seq(Item) /\ Len(SubSeq(q, 1, n)) = n
         /\ SubSeq(q, n + 1, Len(q)) \in Seq(Item)
         /\ Len(SubSeq(q, n + 1, Len(q))) = Len(q) - n
         /\ Contains(SubSeq(q, 1, n), "notify") => Contains(q, "notify")
         /\ Contains(SubSeq(q, n + 1, Len(q)), "notify") => Contains(q, "notify")
         /\ NotifyLast(q) => /\ NotifyLast(SubSeq(q, 1, n))
                             /\ NotifyLast(SubSeq(q, n + 1, Len(q)))
                             /\ Contains(SubSeq(q, 1, n), "notify") => n = Len(q)
<1> DEFINE a == SubSeq(q, 1, n)
           b == SubSeq(q, n + 1, Len(q))
<1>1. a \in Seq(Item) /\ Len(a) = n /\ \A i \in 1..n : a[i] = q[i]
  OBVIOUS
<1>2. b \in Seq(Item) /\ Len(b) = Len(q) - n /\ \A i \in 1..(Len(q) - n) : b[i] = q[n + i]
  OBVIOUS
<1> HIDE DEF a, b
<1>3. Contains(a, "notify") => Contains(q, "notify")
  BY <1>1 DEF Contains
<1>4. Contains(b, "notify") => Contains(q, "notify")
  <2> SUFFICES ASSUME NEW i \in 1..Len(b), b[i] = "notify" PROVE Contains(q, "notify")
    BY DEF Contains
  <2>1. n + i \in 1..Len(q) /\ q[n + i] = "notify"
    BY <1>2
  <2> QED
    BY <2>1 DEF Contains
<1>5. ASSUME NotifyLast(q)
      PROVE  NotifyLast(a) /\ NotifyLast(b) /\ (Contains(a, "notify") => n = Len(q))
  <2>1. NotifyLast(a) /\ (Contains(a, "notify") => n = Len(q))
    BY <1>1, <1>5 DEF NotifyLast, Contains
  <2>2. ASSUME NEW i \in 1..Len(b), b[i] = "notify" PROVE i = Len(b)
    <3>1. n + i \in 1..Len(q) /\ q[n + i] = "notify"
      BY <1>2, <2>2
    <3>2. n + i = Len(q)
      BY <3>1, <1>5 DEF NotifyLast
    <3> QED
      BY <3>2, <1>2
  <2> QED
    BY <2>1, <2>2 DEF NotifyLast
<1> QED
  BY <1>1, <1>2, <1>3, <1>4, <1>5 DEF a, b

LEMMA Start == Init => IInv
<1> SUFFICES ASSUME Init PROVE IInv
  OBVIOUS
<1>1. /\ tls.plain \in 0..MaxDown /\ tls.notify = FALSE /\ tls.eof = FALSE /\ tls.out = <<>>
      /\ tls \in [plain : 0..MaxDown, notify : BOOLEAN, eof : BOOLEAN, out : Seq(Item)]
  BY EmptyItems, Zenon DEF Init
<1>2. TypeOK
  <2>1. /\ reg \in [Socket -> SUBSET {"readable", "writable"}] /\ edge \in [Socket -> BOOLEAN]
        /\ ready \in [Socket -> SUBSET Flag]
        /\ inq \in [Socket -> Seq(Item)] /\ outq \in [Socket -> Seq(Item)]
        /\ gone \in [Socket -> {"no", "notify", "fin", "reset"}]
    BY EmptyItems DEF Init
  <2>2. /\ sent \in [Socket -> Nat]
        /\ sent["client"] <= MaxUp /\ sent["remote"] <= MaxDown
    BY <1>1, RelayAssumption DEF Init, Socket
  <2>3. Len(tls.out) <= TLS_BUFFER_LIMIT + 1 /\ \A s \in Socket : Len(outq[s]) <= SndBuf
    BY <1>1, RelayAssumption, EmptyItems DEF Init
  <2>4. /\ pc \in {"loop", "poll", "events", "ended"} /\ result \in {"none", "ok", "error"}
        /\ upstream \in 0..1 /\ downstream \in 0..1
    BY DEF Init
  <2>5. /\ client_eof \in BOOLEAN /\ remote_eof \in BOOLEAN
        /\ close_notify_sent \in BOOLEAN /\ client_write_shutdown \in BOOLEAN
    BY Zenon DEF Init
  <2> QED
    BY <1>1, <2>1, <2>2, <2>3, <2>4, <2>5 DEF TypeOK
<1>3. Received
  <2>1. inq["remote"] = <<>> /\ sent["remote"] = tls.plain
    BY DEF Init, Socket
  <2> QED
    BY <2>1, <1>1, EmptyItems DEF Received
<1>4. Reported /\ ReadsBeforeEnd /\ Ended
  BY DEF Init, Reported, ReadsBeforeEnd, Ended, Socket
<1>5. Notified
  <2>1. outq["remote"] = <<>>
    BY DEF Init, Socket
  <2> QED
    BY <2>1, <1>1, EmptyItems, RelayAssumption DEF Init, Notified
<1> QED
  BY <1>2, <1>3, <1>4, <1>5 DEF IInv

(* relay_to_client returns and leaves everything else as it is. *)
LEMMA ReturnKeeps ==
  ASSUME IInv, NEW how \in {"ok", "error"}, Return(how), UNCHANGED <<relay, edge, world>>
  PROVE  IInv'
<1>1. TypeOK'
  BY DEF IInv, TypeOK, Return, relay, world, Flag
<1>2. Received' /\ Ended' /\ Notified'
  BY Zenon DEF IInv, Received, Ended, Notified, Units, Return, relay, world
<1>3. Reported' /\ ReadsBeforeEnd'
  BY DEF IInv, Reported, ReadsBeforeEnd, Return, relay, world, Socket
<1> QED
  BY <1>1, <1>2, <1>3 DEF IInv

(* One turn of the loop up to the poll. *)
LEMMA LoopTopKeeps ==
  ASSUME IInv, LoopTop
  PROVE  IInv'
<1> DEFINE up      == IF Feeds THEN 0 ELSE upstream
           down    == IF Fills THEN 1 ELSE downstream
           shut    == DownstreamDone(down)
           c_eof   == client_eof \/ shut
           notify  == ~close_notify_sent /\ (UpstreamDone(up) \/ shut)
           fed     == IF Feeds THEN <<"data">> ELSE <<>>
           last    == IF notify THEN <<"notify">> ELSE <<>>
           out     == tls.out \o fed \o last
           plain   == IF Fills THEN tls.plain - 1 ELSE tls.plain
           over    == c_eof /\ remote_eof /\ up = 0 /\ down = 0 /\ out = <<>>
           Wanted(s) ==
             CASE s = "client" -> {f \in {"readable"} : ~c_eof /\ up = 0}
                                    \cup {f \in {"writable"} : down # 0}
               [] s = "remote" -> {f \in {"readable"} : ~remote_eof /\ plain = 0 /\ ~tls.notify}
                                    \cup {f \in {"writable"} : out # <<>>}
<1>1. CASE UncleanEof \/ (shut /\ gone["client"] = "reset")
  BY <1>1, ReturnKeeps DEF LoopTop
<1>2. CASE ~(UncleanEof \/ (shut /\ gone["client"] = "reset"))
  <2>1. /\ upstream' = up /\ downstream' = down
        /\ client_eof' = c_eof /\ remote_eof' = remote_eof
        /\ close_notify_sent' = (close_notify_sent \/ notify)
        /\ client_write_shutdown' = (client_write_shutdown \/ shut)
        /\ tls' = [tls EXCEPT !.plain = plain, !.out = out]
        /\ UNCHANGED world
        /\ pc = "loop"
    BY <1>2 DEF LoopTop
  <2>2. \/ /\ pc' = "ended" /\ result' \in {"ok", "error"} /\ ready' = [s \in Socket |-> {}]
           /\ UNCHANGED <<reg, edge>>
        \/ /\ reg' = [s \in Socket |-> Wanted(s)]
           /\ edge' = [s \in Socket |-> Wanted(s) # {} /\ (edge[s] \/ Rearmed(s, Wanted(s)))]
           /\ \/ pc' = "ended" /\ result' = "error" /\ ready' = [s \in Socket |-> {}]
              \/ pc' = "poll" /\ UNCHANGED <<result, ready>>
    BY <1>2, Zenon DEF LoopTop, Return
  <2>3. /\ \A s \in Socket : Wanted(s) \in SUBSET {"readable", "writable"}
        /\ "readable" \in Wanted("client") => ~c_eof
    BY DEF Socket
  <2>4. /\ tls.plain \in 0..MaxDown /\ tls.notify \in BOOLEAN /\ tls.eof \in BOOLEAN
        /\ tls.out \in Seq(Item) /\ upstream \in 0..1 /\ downstream \in 0..1
        /\ Len(tls.out) <= TLS_BUFFER_LIMIT + 1
        /\ ~close_notify_sent => Len(tls.out) <= TLS_BUFFER_LIMIT
    BY DEF IInv, TypeOK, Notified
  <2>5. /\ fed \in Seq(Item) /\ last \in Seq(Item) /\ ~Contains(fed, "notify")
        /\ NotifyLast(fed) /\ NotifyLast(last) /\ Len(last) = (IF notify THEN 1 ELSE 0)
        /\ Len(fed) = (IF Feeds THEN 1 ELSE 0) /\ (~notify => last = <<>>)
        /\ (~Feeds => fed = <<>>)
    <3>1. /\ <<"data">> \in Seq(Item) /\ Len(<<"data">>) = 1
          /\ NotifyLast(<<"data">>) /\ ~Contains(<<"data">>, "notify")
      BY DEF Contains, NotifyLast, Item
    <3>2. /\ <<"notify">> \in Seq(Item) /\ Len(<<"notify">>) = 1 /\ NotifyLast(<<"notify">>)
      BY DEF NotifyLast, Item
    <3>3. (Feeds => fed = <<"data">>) /\ (~Feeds => fed = <<>>)
      OBVIOUS
    <3>4. (notify => last = <<"notify">>) /\ (~notify => last = <<>>)
      OBVIOUS
    <3> QED
      BY <3>1, <3>2, <3>3, <3>4, EmptyItems
  <2> HIDE DEF fed, last, notify
  <2> DEFINE half == tls.out \o fed
  <2>6. /\ half \in Seq(Item) /\ Len(half) = Len(tls.out) + Len(fed)
        /\ Contains(half, "notify") <=> Contains(tls.out, "notify")
        /\ ~Contains(tls.out, "notify") => NotifyLast(half)
        /\ NotifyLast(tls.out) /\ ~Feeds => NotifyLast(half)
    BY <2>4, <2>5, ConcatItems, Zenon
  <2> HIDE DEF half
  <2>7. /\ out \in Seq(Item) /\ Len(out) = Len(half) + Len(last)
        /\ Contains(out, "notify") <=> Contains(half, "notify") \/ Contains(last, "notify")
        /\ ~Contains(half, "notify") => NotifyLast(out)
        /\ NotifyLast(half) /\ ~notify => NotifyLast(out)
    BY <2>5, <2>6, ConcatItems, Zenon DEF half
  <2> HIDE DEF out, Wanted, c_eof, shut
  <2>8. /\ tls'.plain = plain /\ tls'.notify = tls.notify /\ tls'.eof = tls.eof /\ tls'.out = out
        /\ plain \in 0..MaxDown /\ plain <= tls.plain /\ up \in 0..1 /\ down \in 0..1
    <3> HIDE DEF plain
    <3>1. tls'.plain = plain /\ tls'.notify = tls.notify /\ tls'.eof = tls.eof /\ tls'.out = out
      BY <2>1 DEF IInv, TypeOK
    <3>2. plain \in 0..MaxDown /\ plain <= tls.plain
      BY <2>4, RelayAssumption DEF plain, Fills
    <3> QED
      BY <2>4, <3>1, <3>2
  <2> HIDE DEF up, down, plain
  <2>9. /\ Len(out) <= TLS_BUFFER_LIMIT + 1
        /\ ~close_notify_sent' => Len(out) <= TLS_BUFFER_LIMIT
    <3>1. Feeds => Len(tls.out) < TLS_BUFFER_LIMIT
      BY DEF Feeds, Accepts
    <3>2. /\ Len(half) <= TLS_BUFFER_LIMIT + 1
          /\ ~close_notify_sent => Len(half) <= TLS_BUFFER_LIMIT
      <4>1. Len(tls.out) \in Nat /\ TLS_BUFFER_LIMIT \in Nat
        BY <2>4, RelayAssumption
      <4>2. CASE Feeds
        BY <4>1, <4>2, <3>1, <2>5, <2>6
      <4>3. CASE ~Feeds
        BY <4>1, <4>3, <2>4, <2>5, <2>6
      <4> QED
        BY <4>2, <4>3
    <3>3. /\ notify => ~close_notify_sent /\ close_notify_sent'
          /\ ~close_notify_sent' => ~close_notify_sent
      BY <2>1, Zenon DEF notify
    <3>4. notify => Len(out) = Len(half) + 1
      BY <2>5, <2>6, <2>7
    <3>5. ~notify => Len(out) = Len(half)
      BY <2>5, <2>6, <2>7
    <3> QED
      BY <3>2, <3>3, <3>4, <3>5, <2>6, RelayAssumption
  <2>10. shut => remote_eof /\ down = 0 /\ plain = 0 /\ downstream = 0 /\ tls.notify
    BY <1>2, <2>4 DEF shut, DownstreamDone, down, plain, UncleanEof, Fills, IInv, Ended
  <2>11. TypeOK'
    <3>1. /\ tls' \in [plain : 0..MaxDown, notify : BOOLEAN, eof : BOOLEAN, out : Seq(Item)]
          /\ Len(tls'.out) <= TLS_BUFFER_LIMIT + 1
      <4>1. tls \in [plain : 0..MaxDown, notify : BOOLEAN, eof : BOOLEAN, out : Seq(Item)]
        BY DEF IInv, TypeOK
      <4> QED
        BY <4>1, <2>1, <2>7, <2>8, <2>9, Zenon
    <3>2. upstream' \in 0..1 /\ downstream' \in 0..1 /\ world' = world
      BY <2>1, <2>8
    <3>3. /\ client_eof' \in BOOLEAN /\ remote_eof' \in BOOLEAN
          /\ close_notify_sent' \in BOOLEAN /\ client_write_shutdown' \in BOOLEAN
      BY <2>1 DEF IInv, TypeOK, c_eof
    <3>4. reg' \in [Socket -> SUBSET {"readable", "writable"}] /\ edge' \in [Socket -> BOOLEAN]
      <4>1. /\ reg \in [Socket -> SUBSET {"readable", "writable"}]
            /\ edge \in [Socket -> BOOLEAN]
        BY DEF IInv, TypeOK
      <4>2. CASE reg' = reg /\ edge' = edge
        BY <4>1, <4>2
      <4>3. CASE /\ reg' = [s \in Socket |-> Wanted(s)]
                 /\ edge' = [s \in Socket |-> Wanted(s) # {} /\ (edge[s] \/ Rearmed(s, Wanted(s)))]
        BY <4>3, <2>3
      <4> QED
        BY <4>2, <4>3, <2>2
    <3>5. ready' \in [Socket -> SUBSET Flag] /\ result' \in {"none", "ok", "error"}
          /\ pc' \in {"loop", "poll", "events", "ended"}
      BY <2>2, Zenon DEF IInv, TypeOK, Flag
    <3> QED
      BY <3>1, <3>2, <3>3, <3>4, <3>5 DEF IInv, TypeOK, world
  <2>12. Received'
    <3>1. inq' = inq /\ gone' = gone /\ sent' = sent
      BY <2>1 DEF world
    <3>2. Units(inq["remote"]) \in Nat /\ sent["remote"] \in Nat
      BY UnitsType DEF IInv, TypeOK, Socket
    <3>3. tls'.plain + Units(inq["remote"]) <= sent["remote"]
      BY <3>2, <2>4, <2>8, RelayAssumption DEF IInv, Received
    <3> QED
      BY <3>1, <3>3, <2>8, Zenon DEF IInv, Received, Units
  <2>13. Reported'
    <3>1. \A s \in Socket : ready'[s] = {}
      BY <2>1, <2>2 DEF IInv, Reported
    <3>2. \A s \in Socket : edge'[s] => reg'[s] # {}
      BY <2>2, Zenon DEF IInv, Reported
    <3> QED
      BY <3>1, <3>2 DEF Reported, Socket
  <2>14. ReadsBeforeEnd'
    <3>1. "readable" \notin ready'["client"]
      BY <2>1, <2>2 DEF IInv, Reported, Socket
    <3>2. pc' = "poll" /\ "readable" \in reg'["client"] => ~client_eof'
      BY <2>1, <2>2, <2>3 DEF Socket
    <3> QED
      BY <3>1, <3>2 DEF ReadsBeforeEnd
  <2>15. Ended'
    <3>1. remote_eof' => tls'.notify \/ tls'.eof
      BY <2>1, <2>8 DEF IInv, Ended
    <3>2. client_write_shutdown' => tls'.notify /\ tls'.plain = 0 /\ downstream' = 0
      <4>1. client_write_shutdown => /\ tls.notify /\ tls.plain = 0 /\ downstream = 0
                                     /\ ~Fills
        BY DEF IInv, Ended, Fills
      <4> QED
        BY <4>1, <2>1, <2>8, <2>10, Zenon DEF plain, down
    <3>3. close_notify_sent' /\ ~remote_eof' => client_eof' /\ upstream' = 0
      BY <2>1, <2>10, Zenon DEF IInv, Ended, up, Feeds, notify, UpstreamDone, c_eof
    <3> QED
      BY <3>1, <3>2, <3>3 DEF Ended
  <2>16. Notified'
    <3>1. ~close_notify_sent' => ~Contains(out, "notify")
      BY <2>1, <2>5, <2>6, <2>7, EmptyItems, Zenon DEF IInv, Notified
    <3>2. outq' = outq
      BY <2>1 DEF world
    <3>3. ASSUME ~remote_eof
          PROVE  /\ NotifyLast(out)
                 /\ Contains(outq["remote"], "notify") => out = <<>>
      <4>1. CASE close_notify_sent
        <5>1. ~Feeds /\ ~notify
          BY <3>3, <4>1 DEF IInv, Ended, Feeds, notify
        <5>2. out = tls.out
          BY <5>1, <2>4, <2>5 DEF out
        <5> QED
          BY <5>2, <3>3 DEF IInv, Notified
      <4>2. CASE ~close_notify_sent
        BY <4>2, <2>6, <2>7 DEF IInv, Notified
      <4> QED
        BY <4>1, <4>2
    <3> QED
      BY <3>1, <3>2, <3>3, <2>1, <2>8, <2>9, Zenon DEF IInv, Notified
  <2> QED
    BY <2>11, <2>12, <2>13, <2>14, <2>15, <2>16 DEF IInv
<1> QED
  BY <1>1, <1>2

(* The poll: an event says closed only together with what to read or write. *)
LEMMA PollKeeps ==
  ASSUME IInv, Poll
  PROVE  IInv'
<1>1. TypeOK'
  <2>1. \A s \in Socket : Mask(s) \in SUBSET Flag
    BY DEF Mask, Flag
  <2>2. ready' \in [Socket -> SUBSET Flag] /\ edge' \in [Socket -> BOOLEAN]
    BY <2>1 DEF Poll
  <2> QED
    BY <2>2 DEF IInv, TypeOK, Poll, relay, world
<1>2. Received' /\ Ended' /\ Notified'
  BY Zenon DEF IInv, Received, Ended, Notified, Units, Poll, relay, world
<1>3. Reported'
  <2>1. \A s \in Socket : ~edge'[s]
    BY DEF Poll
  <2>2. ASSUME "closed" \in ready'["remote"]
        PROVE  \/ gone["remote"] = "fin" /\ "readable" \in ready'["remote"]
               \/ gone["remote"] = "reset" /\ ready'["remote"] \cap {"readable", "writable"} # {}
    <3>1. edge["remote"] /\ ready'["remote"] = Mask("remote") /\ "closed" \in Mask("remote")
      BY <2>2 DEF Poll, Socket
    <3>2. reg["remote"] # {} /\ reg["remote"] \subseteq {"readable", "writable"}
      BY <3>1 DEF IInv, Reported, TypeOK, Socket
    <3>3. CASE gone["remote"] = "fin" /\ "readable" \in reg["remote"]
      BY <3>1, <3>3 DEF Mask
    <3>4. CASE gone["remote"] = "reset"
      BY <3>1, <3>2, <3>4 DEF Mask
    <3> QED
      BY <3>1, <3>3, <3>4 DEF Mask
  <2> QED
    BY <2>1, <2>2 DEF Reported, Poll, world
<1>4. ReadsBeforeEnd'
  <2>1. "readable" \in ready'["client"] => "readable" \in reg["client"]
    BY DEF Poll, Mask, Socket
  <2> QED
    BY <2>1 DEF IInv, ReadsBeforeEnd, Poll, relay
<1> QED
  BY <1>1, <1>2, <1>3, <1>4 DEF IInv

(* After an event of s was handled, its flags are gone. *)
LEMMA HandledFacts ==
  ASSUME IInv, NEW s \in Socket, Handled(s)
  PROVE  /\ ready' \in [Socket -> SUBSET Flag] /\ ready'[s] = {}
         /\ \A o \in Socket : o # s => ready'[o] = ready[o]
         /\ pc' \in {"events", "loop"}
         /\ pc' = "loop" => \A o \in Socket : ready'[o] = {}
         /\ UNCHANGED <<result, edge, gone, sent>>
BY DEF IInv, TypeOK, Handled, Socket, Flag

LEMMA ClientEventKeeps ==
  ASSUME IInv, ClientEvent
  PROVE  IInv'
<1> DEFINE flags  == ready["client"]
           reads  == "readable" \in flags /\ inq["client"] # <<>>
           ends   == "readable" \in flags /\ inq["client"] = <<>>
           writes == "writable" \in flags /\ downstream = 1 /\ Len(outq["client"]) < SndBuf
<1>1. /\ upstream' = IF reads THEN 1 ELSE upstream
      /\ downstream' = IF writes THEN 0 ELSE downstream
      /\ client_eof' = (client_eof \/ ends \/ "closed" \in flags)
      /\ inq' = IF reads THEN [inq EXCEPT !["client"] = Tail(@)] ELSE inq
      /\ outq' = IF writes THEN [outq EXCEPT !["client"] = Append(@, "data")] ELSE outq
      /\ UNCHANGED <<remote_eof, close_notify_sent, client_write_shutdown, tls, reg>>
      /\ Handled("client")
  BY DEF ClientEvent
<1>2. /\ ready' \in [Socket -> SUBSET Flag] /\ ready'["client"] = {}
      /\ ready'["remote"] = ready["remote"] /\ pc' \in {"events", "loop"}
      /\ pc' = "loop" => \A o \in Socket : ready'[o] = {}
      /\ UNCHANGED <<result, edge, gone, sent>>
  BY <1>1, HandledFacts DEF Socket
<1>3. reads => ~client_eof
  BY DEF IInv, ReadsBeforeEnd
<1> HIDE DEF reads, ends, writes
<1>4. /\ inq' \in [Socket -> Seq(Item)] /\ inq'["remote"] = inq["remote"]
      /\ outq' \in [Socket -> Seq(Item)] /\ outq'["remote"] = outq["remote"]
      /\ \A s \in Socket : Len(outq'[s]) <= SndBuf
  <2>1. inq["client"] \in Seq(Item) /\ outq["client"] \in Seq(Item)
    BY DEF IInv, TypeOK, Socket
  <2>2. /\ Append(outq["client"], "data") \in Seq(Item)
        /\ writes => Len(Append(outq["client"], "data")) <= SndBuf
    BY <2>1, AppendItem, RelayAssumption DEF Item, writes
  <2>3. reads => Tail(inq["client"]) \in Seq(Item)
    BY <2>1, TailItems DEF reads
  <2> QED
    BY <1>1, <2>2, <2>3 DEF IInv, TypeOK, Socket
<1>5. TypeOK'
  <2>1. upstream' \in 0..1 /\ downstream' \in 0..1
    BY <1>1 DEF IInv, TypeOK
  <2>2. client_eof' \in BOOLEAN
    BY <1>1 DEF IInv, TypeOK
  <2> QED
    BY <1>1, <1>2, <1>4, <2>1, <2>2 DEF IInv, TypeOK
<1>6. Received'
  BY <1>1, <1>2, <1>4, Zenon DEF IInv, Received, Units
<1>7. Reported'
  BY <1>1, <1>2 DEF IInv, Reported
<1>8. ReadsBeforeEnd'
  BY <1>2 DEF ReadsBeforeEnd
<1>9. Ended'
  <2>1. close_notify_sent' /\ ~remote_eof' => client_eof' /\ upstream' = 0
    BY <1>1, <1>3, Zenon DEF IInv, Ended
  <2>2. client_write_shutdown' => downstream' = 0
    BY <1>1 DEF IInv, Ended
  <2> QED
    BY <1>1, <2>1, <2>2 DEF IInv, Ended
<1>10. Notified'
  BY <1>1, <1>4 DEF IInv, Notified
<1> QED
  BY <1>5, <1>6, <1>7, <1>8, <1>9, <1>10 DEF IInv

LEMMA RemoteEventKeeps ==
  ASSUME IInv, RemoteEvent
  PROVE  IInv'
<1> DEFINE flags == ready["remote"]
           taken == IF "readable" \in flags THEN inq["remote"] ELSE <<>>
           notified == Contains(taken, "notify")
           eof   == "readable" \in flags /\ gone["remote"] = "fin"
           room  == IF "writable" \in flags THEN SndBuf - Len(outq["remote"]) ELSE 0
           count == IF room < Len(tls.out) THEN room ELSE Len(tls.out)
           moved == SubSeq(tls.out, 1, count)
           left  == SubSeq(tls.out, Len(moved) + 1, Len(tls.out))
<1>1. /\ inq' = [inq EXCEPT !["remote"] = SubSeq(@, Len(taken) + 1, Len(@))]
      /\ outq' = [outq EXCEPT !["remote"] = @ \o moved]
      /\ tls' = [plain |-> tls.plain + Units(taken), notify |-> tls.notify \/ notified,
                 eof |-> tls.eof \/ eof, out |-> left]
      /\ remote_eof' = (remote_eof \/ notified \/ eof \/ "closed" \in flags)
      /\ UNCHANGED <<upstream, downstream, client_eof, close_notify_sent,
                     client_write_shutdown, reg>>
      /\ Handled("remote") /\ ~Fails("remote")
  BY DEF RemoteEvent
<1>2. /\ ready' \in [Socket -> SUBSET Flag] /\ ready'["remote"] = {}
      /\ ready'["client"] = ready["client"] /\ pc' \in {"events", "loop"}
      /\ pc' = "loop" => \A o \in Socket : ready'[o] = {}
      /\ UNCHANGED <<result, edge, gone, sent>>
  BY <1>1, HandledFacts DEF Socket
<1>3. /\ inq["remote"] \in Seq(Item) /\ outq["remote"] \in Seq(Item) /\ tls.out \in Seq(Item)
      /\ tls.plain \in Nat /\ sent["remote"] \in Nat
  BY DEF IInv, TypeOK, Socket

<1>4. /\ count \in 0..Len(tls.out) /\ Len(outq["remote"]) + count <= SndBuf
  <2>1. Len(outq["remote"]) \in Nat /\ Len(tls.out) \in Nat /\ SndBuf \in Nat
    BY <1>3, RelayAssumption
  <2>2. Len(outq["remote"]) <= SndBuf
    BY DEF IInv, TypeOK, Socket
  <2>3. room \in Nat /\ Len(outq["remote"]) + room <= SndBuf
    <3>1. CASE "writable" \in flags
      BY <2>1, <2>2, <3>1
    <3>2. CASE "writable" \notin flags
      BY <2>1, <2>2, <3>2
    <3> QED
      BY <3>1, <3>2
  <2> HIDE DEF room
  <2>4. CASE room < Len(tls.out)
    BY <2>1, <2>3, <2>4
  <2>5. CASE ~(room < Len(tls.out))
    <3>1. count = Len(tls.out)
      BY <2>5
    <3> HIDE DEF count
    <3>2. \A a, b, c, r \in Nat : a + r <= c /\ ~(r < b) => a + b <= c /\ b \in 0..b
      OBVIOUS
    <3>3. /\ Len(outq["remote"]) + Len(tls.out) <= SndBuf
          /\ Len(tls.out) \in 0..Len(tls.out)
      BY <2>1, <2>3, <2>5, <3>2, Zenon
    <3> QED
      BY <3>1, <3>3, Zenon
  <2> QED
    BY <2>4, <2>5
<1> HIDE DEF count
<1>5. /\ moved \in Seq(Item) /\ Len(moved) = count /\ left \in Seq(Item)
      /\ Len(left) = Len(tls.out) - count
      /\ Contains(moved, "notify") => Contains(tls.out, "notify")
      /\ Contains(left, "notify") => Contains(tls.out, "notify")
      /\ NotifyLast(tls.out) => /\ NotifyLast(moved) /\ NotifyLast(left)
                                /\ Contains(moved, "notify") => count = Len(tls.out)
  BY <1>3, <1>4, CutItems, Zenon
<1> HIDE DEF moved, left
<1>6. /\ taken \in Seq(Item) /\ Units(taken) \in Nat
      /\ inq'["remote"] = IF "readable" \in flags THEN <<>> ELSE inq["remote"]
      /\ inq' \in [Socket -> Seq(Item)]
  <2>1. inq \in [Socket -> Seq(Item)]
    BY DEF IInv, TypeOK
  <2>2. taken \in Seq(Item)
    BY <1>3, EmptyItems
  <2>3. inq'["remote"] = SubSeq(inq["remote"], Len(taken) + 1, Len(inq["remote"]))
    BY <1>1, <2>1 DEF Socket
  <2>4. inq'["remote"] = IF "readable" \in flags THEN <<>> ELSE inq["remote"]
    <3>1. \A q \in Seq(Item) : SubSeq(q, Len(q) + 1, Len(q)) = <<>> /\ SubSeq(q, 1, Len(q)) = q
      OBVIOUS
    <3>2. CASE "readable" \in flags
      BY <2>3, <1>3, <3>1, <3>2
    <3>3. CASE "readable" \notin flags
      <4>1. Len(taken) + 1 = 1
        BY <3>3
      <4> QED
        BY <2>3, <1>3, <3>1, <3>3, <4>1
    <3> QED
      BY <3>2, <3>3
  <2>5. inq' \in [Socket -> Seq(Item)]
    BY <1>1, <2>1, <2>3, <2>4, EmptyItems DEF Socket
  <2> QED
    BY <2>2, <2>4, <2>5, UnitsType, Zenon
<1>7. /\ outq'["remote"] = outq["remote"] \o moved
      /\ outq' \in [Socket -> Seq(Item)] /\ \A s \in Socket : Len(outq'[s]) <= SndBuf
  <2>1. outq \in [Socket -> Seq(Item)] /\ \A s \in Socket : Len(outq[s]) <= SndBuf
    BY DEF IInv, TypeOK
  <2>2. /\ outq["remote"] \o moved \in Seq(Item)
        /\ Len(outq["remote"] \o moved) <= SndBuf
    BY <1>3, <1>4, <1>5, ConcatItems, Zenon
  <2> QED
    BY <1>1, <2>1, <2>2 DEF Socket
<1>8. /\ tls'.plain = tls.plain + Units(taken) /\ tls'.notify = (tls.notify \/ notified)
      /\ tls'.eof = (tls.eof \/ eof) /\ tls'.out = left
  BY <1>1
<1>9. tls'.plain + Units(inq'["remote"]) = tls.plain + Units(inq["remote"])
  <2>1. CASE "readable" \in flags
    BY <2>1, <1>3, <1>6, <1>8, EmptyItems
  <2>2. CASE "readable" \notin flags
    BY <2>2, <1>3, <1>6, <1>8, EmptyItems
  <2> QED
    BY <2>1, <2>2
<1>11. tls.notify => Units(taken) = 0 /\ ~notified
  BY EmptyItems DEF IInv, Received
<1>12. notified => "readable" \in flags /\ gone["remote"] # "no"
  BY EmptyItems DEF IInv, Received
<1>13. Received'
  <2>1. /\ Contains(inq'["remote"], "notify") => gone'["remote"] # "no"
        /\ NotifyLast(inq'["remote"])
    BY <1>2, <1>6, EmptyItems DEF IInv, Received
  <2>2. tls'.notify => inq'["remote"] = <<>> /\ gone'["remote"] # "no"
    BY <1>2, <1>6, <1>8, <1>12, Zenon DEF IInv, Received
  <2>3. tls'.plain + Units(inq'["remote"]) <= sent'["remote"]
    BY <1>2, <1>9 DEF IInv, Received
  <2> QED
    BY <2>1, <2>2, <2>3, Zenon DEF Received, Units
<1> HIDE DEF taken, notified, eof
<1>14. TypeOK'
  <2>1. tls' \in [plain : 0..MaxDown, notify : BOOLEAN, eof : BOOLEAN, out : Seq(Item)]
    <3>1. tls'.plain \in 0..MaxDown
      <4>1. Units(inq'["remote"]) \in Nat /\ tls'.plain \in Nat
        <5>1. inq'["remote"] \in Seq(Item)
          BY <1>6 DEF Socket
        <5>2. Units(inq'["remote"]) \in Nat
          BY <5>1, UnitsType
        <5>3. tls'.plain \in Nat
          BY <1>3, <1>6, <1>8
        <5> QED
          BY <5>2, <5>3
      <4>2. tls'.plain + Units(inq'["remote"]) <= sent["remote"] /\ sent["remote"] <= MaxDown
        BY <1>2, <1>13 DEF Received, IInv, TypeOK
      <4> QED
        BY <1>3, <4>1, <4>2, RelayAssumption
    <3>2. tls.notify \in BOOLEAN /\ tls.eof \in BOOLEAN
      BY DEF IInv, TypeOK
    <3> QED
      BY <3>1, <3>2, <1>1, <1>5, <1>8
  <2>2. Len(tls'.out) <= TLS_BUFFER_LIMIT + 1
    BY <1>3, <1>4, <1>5, <1>8, RelayAssumption DEF IInv, TypeOK
  <2>3. remote_eof' \in BOOLEAN
    BY <1>1
  <2> QED
    BY <1>1, <1>2, <1>6, <1>7, <2>1, <2>2, <2>3, Zenon DEF IInv, TypeOK
<1>15. Reported'
  BY <1>1, <1>2 DEF IInv, Reported
<1>16. ReadsBeforeEnd'
  BY <1>1, <1>2 DEF IInv, ReadsBeforeEnd
<1>17. Ended'
  <2>1. "closed" \in flags => eof
    BY <1>1 DEF IInv, Reported, Fails, eof
  <2>2. remote_eof' => tls'.notify \/ tls'.eof
    BY <1>1, <1>8, <2>1, Zenon DEF IInv, Ended
  <2>3. client_write_shutdown' => tls'.notify /\ tls'.plain = 0 /\ downstream' = 0
    <3>1. client_write_shutdown => tls.notify /\ tls.plain = 0 /\ downstream = 0
      BY DEF IInv, Ended
    <3>2. tls.notify => tls'.notify
      BY <1>8, Zenon
    <3>3. tls.plain = 0 /\ tls.notify => tls'.plain = 0
      BY <1>8, <1>11
    <3> QED
      BY <3>1, <3>2, <3>3, <1>1
  <2>4. close_notify_sent' /\ ~remote_eof' => client_eof' /\ upstream' = 0
    BY <1>1, Zenon DEF IInv, Ended
  <2> QED
    BY <2>2, <2>3, <2>4 DEF Ended
<1>18. Notified'
  <2>1. /\ Contains(outq'["remote"], "notify")
              <=> Contains(outq["remote"], "notify") \/ Contains(moved, "notify")
        /\ ~Contains(outq["remote"], "notify") /\ NotifyLast(moved) => NotifyLast(outq'["remote"])
        /\ NotifyLast(outq["remote"]) /\ moved = <<>> => NotifyLast(outq'["remote"])
    BY <1>3, <1>5, <1>7, ConcatItems
  <2>2. ~close_notify_sent' => /\ ~Contains(left, "notify") /\ ~Contains(outq'["remote"], "notify")
                               /\ Len(left) <= TLS_BUFFER_LIMIT
    <3>1. ~close_notify_sent' => /\ ~Contains(tls.out, "notify")
                                 /\ ~Contains(outq["remote"], "notify")
                                 /\ Len(tls.out) <= TLS_BUFFER_LIMIT
      BY <1>1 DEF IInv, Notified
    <3>2. ~close_notify_sent' => ~Contains(left, "notify") /\ ~Contains(outq'["remote"], "notify")
      BY <3>1, <1>5, <2>1
    <3>3. Len(left) <= Len(tls.out)
      BY <1>3, <1>4, <1>5
    <3> QED
      BY <3>1, <3>2, <3>3, <1>3, <1>5, RelayAssumption
  <2>3. ASSUME ~remote_eof'
        PROVE  /\ NotifyLast(left) /\ NotifyLast(outq'["remote"])
               /\ Contains(outq'["remote"], "notify") => left = <<>>
    <3>1. /\ NotifyLast(tls.out) /\ NotifyLast(outq["remote"])
          /\ Contains(outq["remote"], "notify") => tls.out = <<>>
      BY <2>3, <1>1, Zenon DEF IInv, Notified
    <3>2. CASE Contains(outq["remote"], "notify")
      <4>1. moved = <<>> /\ left = <<>>
        BY <3>1, <3>2, <1>3, <1>4, <1>5
      <4> QED
        BY <4>1, <2>1, <3>1, EmptyItems
    <3>3. CASE ~Contains(outq["remote"], "notify")
      <4>1. Contains(moved, "notify") => left = <<>>
        BY <3>1, <1>3, <1>4, <1>5
      <4> QED
        BY <4>1, <2>1, <3>1, <3>3, <1>5
    <3> QED
      BY <3>2, <3>3
  <2> QED
    BY <2>2, <2>3, <1>8 DEF Notified
<1> QED
  BY <1>13, <1>14, <1>15, <1>16, <1>17, <1>18 DEF IInv

(* What the peers do, beside the queues they change. *)
LEMMA TouchedFacts ==
  ASSUME IInv, NEW s \in Socket, NEW flags, Touched(s, flags)
  PROVE  /\ edge' \in [Socket -> BOOLEAN] /\ \A o \in Socket : edge'[o] => reg[o] # {}
         /\ UNCHANGED <<pc, result, relay, ready>>
<1>1. /\ edge \in [Socket -> BOOLEAN] /\ \A o \in Socket : edge[o] => reg[o] # {}
      /\ edge' = [edge EXCEPT ![s] = edge[s] \/ reg[s] \cap flags # {}]
  BY Zenon DEF IInv, TypeOK, Reported, Touched
<1>2. edge' \in [Socket -> BOOLEAN]
  BY <1>1, Zenon
<1>3. ASSUME NEW o \in Socket, edge'[o] PROVE reg[o] # {}
  <2>1. CASE o = s
    BY <1>1, <1>3, <2>1, Zenon
  <2>2. CASE o # s
    BY <1>1, <1>3, <2>2, Zenon
  <2> QED
    BY <2>1, <2>2
<1> QED
  BY <1>2, <1>3, Zenon DEF Touched

(* A step of the peers that keeps the order of what they sent. *)
LEMMA PeerKeeps ==
  ASSUME IInv,
         edge' \in [Socket -> BOOLEAN], \A o \in Socket : edge'[o] => reg[o] # {},
         UNCHANGED <<pc, result, relay, ready>>,
         inq' \in [Socket -> Seq(Item)], outq' \in [Socket -> Seq(Item)],
         \A s \in Socket : Len(outq'[s]) <= SndBuf,
         gone' \in [Socket -> {"no", "notify", "fin", "reset"}],
         \/ gone'["remote"] = gone["remote"]
         \/ gone'["remote"] = "reset"
         \/ gone["remote"] \in {"no", "notify"} /\ gone'["remote"] \in {"notify", "fin"},
         sent' \in [Socket -> Nat], sent'["client"] <= MaxUp, sent'["remote"] <= MaxDown,
         Received',
         ~Contains(outq["remote"], "notify") => ~Contains(outq'["remote"], "notify"),
         NotifyLast(outq["remote"]) => NotifyLast(outq'["remote"])
  PROVE  IInv'
<1>1. TypeOK'
  BY ZenonT(30) DEF IInv, TypeOK, relay
<1>2. Reported'
  BY Zenon DEF IInv, Reported, relay
<1>3. ReadsBeforeEnd' /\ Ended'
  BY DEF IInv, ReadsBeforeEnd, Ended, relay
<1>4. Notified'
  BY DEF IInv, Notified, relay
<1> QED
  BY <1>1, <1>2, <1>3, <1>4 DEF IInv

LEMMA SendKeeps ==
  ASSUME IInv, NEW s \in Socket, Send(s)
  PROVE  IInv'
<1>1. /\ inq' = [inq EXCEPT ![s] = Append(@, "data")] /\ sent' = [sent EXCEPT ![s] = @ + 1]
      /\ gone[s] = "no" /\ sent[s] < Limit(s) /\ UNCHANGED <<gone, outq>> /\ Touched(s, {"readable"})
  BY DEF Send
<1>2. /\ inq \in [Socket -> Seq(Item)] /\ sent \in [Socket -> Nat]
      /\ sent["client"] <= MaxUp /\ sent["remote"] <= MaxDown /\ tls.plain \in Nat
  BY DEF IInv, TypeOK
<1>3. Append(inq[s], "data") \in Seq(Item)
  BY <1>2, AppendItem DEF Item
<1>4. inq' \in [Socket -> Seq(Item)]
  BY <1>1, <1>2, <1>3
<1>5. /\ sent' \in [Socket -> Nat] /\ sent'["client"] <= MaxUp /\ sent'["remote"] <= MaxDown
  BY <1>1, <1>2, RelayAssumption DEF Limit, Socket
<1>6. Received'
  <2>1. tls' = tls /\ gone' = gone
    BY <1>1, TouchedFacts DEF relay
  <2>2. CASE s = "client"
    <3>1. inq'["remote"] = inq["remote"] /\ sent'["remote"] = sent["remote"]
      BY <2>2, <1>1, <1>2 DEF Socket
    <3> QED
      BY <2>1, <3>1, Zenon DEF IInv, Received, Units
  <2>3. CASE s = "remote"
    <3> DEFINE q == inq["remote"]
    <3>1. /\ q \in Seq(Item) /\ ~Contains(q, "notify") /\ ~tls.notify
          /\ tls.plain + Units(q) <= sent["remote"]
      BY <2>3, <1>1, <1>2 DEF IInv, Received, Socket
    <3>2. inq'["remote"] = Append(q, "data") /\ sent'["remote"] = sent["remote"] + 1
      BY <2>3, <1>1, <1>2 DEF Socket
    <3> HIDE DEF q
    <3>3. /\ ~Contains(Append(q, "data"), "notify") /\ NotifyLast(Append(q, "data"))
          /\ Len(Append(q, "data")) = Len(q) + 1
      BY <3>1, AppendItem DEF Item
    <3>4. Units(Append(q, "data")) = Units(q) + 1
      BY <3>1, <3>3 DEF Units
    <3>5. tls.plain + Units(Append(q, "data")) <= sent["remote"] + 1
      <4>1. Units(q) \in Nat /\ sent["remote"] \in Nat
        BY <3>1, <1>2, UnitsType DEF Socket
      <4> QED
        BY <4>1, <1>2, <3>1, <3>4
    <3> QED
      BY <2>1, <3>1, <3>2, <3>3, <3>5 DEF Received, Units
  <2> QED
    BY <2>2, <2>3 DEF Socket
<1>7. outq \in [Socket -> Seq(Item)] /\ \A o \in Socket : Len(outq[o]) <= SndBuf
  BY DEF IInv, TypeOK
<1>8. gone \in [Socket -> {"no", "notify", "fin", "reset"}]
  BY DEF IInv, TypeOK
<1>9. /\ edge' \in [Socket -> BOOLEAN] /\ \A o \in Socket : edge'[o] => reg[o] # {}
      /\ UNCHANGED <<pc, result, relay, ready>>
  BY <1>1, TouchedFacts
<1> QED
  BY <1>1, <1>4, <1>5, <1>6, <1>7, <1>8, <1>9, PeerKeeps, Zenon

LEMMA CloseNotifyKeeps ==
  ASSUME IInv, CloseNotify
  PROVE  IInv'
<1>1. /\ inq' = [inq EXCEPT !["remote"] = Append(@, "notify")]
      /\ gone' = [gone EXCEPT !["remote"] = "notify"]
      /\ gone["remote"] = "no" /\ UNCHANGED <<outq, sent>> /\ Touched("remote", {"readable"})
  BY DEF CloseNotify
<1>2. /\ inq \in [Socket -> Seq(Item)] /\ sent \in [Socket -> Nat]
      /\ gone \in [Socket -> {"no", "notify", "fin", "reset"}]
      /\ sent["client"] <= MaxUp /\ sent["remote"] <= MaxDown
      /\ outq \in [Socket -> Seq(Item)] /\ \A o \in Socket : Len(outq[o]) <= SndBuf
  BY DEF IInv, TypeOK
<1> DEFINE q == inq["remote"]
<1>3. /\ q \in Seq(Item) /\ ~Contains(q, "notify") /\ ~tls.notify
      /\ tls.plain + Units(q) <= sent["remote"]
  BY <1>1, <1>2 DEF IInv, Received, Socket
<1>4. inq'["remote"] = Append(q, "notify") /\ gone'["remote"] = "notify"
  BY <1>1, <1>2 DEF Socket
<1>5. /\ Append(q, "notify") \in Seq(Item) /\ NotifyLast(Append(q, "notify"))
      /\ Contains(Append(q, "notify"), "notify") /\ Len(Append(q, "notify")) = Len(q) + 1
  BY <1>3, AppendItem DEF Item
<1>6. /\ inq' \in [Socket -> Seq(Item)] /\ gone' \in [Socket -> {"no", "notify", "fin", "reset"}]
  BY <1>1, <1>2, <1>5 DEF Socket
<1> HIDE DEF q
<1>7. Units(Append(q, "notify")) = Units(q)
  BY <1>3, <1>5 DEF Units
<1>8. /\ edge' \in [Socket -> BOOLEAN] /\ \A o \in Socket : edge'[o] => reg[o] # {}
      /\ UNCHANGED <<pc, result, relay, ready>>
  BY <1>1, TouchedFacts DEF Socket
<1>9. Received'
  BY <1>1, <1>3, <1>4, <1>5, <1>7, <1>8, Zenon DEF Received, Units, relay
<1> QED
  BY <1>1, <1>2, <1>4, <1>6, <1>8, <1>9, PeerKeeps, Zenon

LEMMA FinKeeps ==
  ASSUME IInv, NEW s \in Socket, Fin(s)
  PROVE  IInv'
<1>1. /\ gone' = [gone EXCEPT ![s] = "fin"] /\ gone[s] \in {"no", "notify"}
      /\ UNCHANGED <<inq, outq, sent>> /\ Touched(s, Flag)
  BY DEF Fin
<1>2. /\ inq \in [Socket -> Seq(Item)] /\ sent \in [Socket -> Nat]
      /\ gone \in [Socket -> {"no", "notify", "fin", "reset"}]
      /\ sent["client"] <= MaxUp /\ sent["remote"] <= MaxDown
      /\ outq \in [Socket -> Seq(Item)] /\ \A o \in Socket : Len(outq[o]) <= SndBuf
  BY DEF IInv, TypeOK
<1>3. /\ gone' \in [Socket -> {"no", "notify", "fin", "reset"}]
      /\ \/ gone'["remote"] = gone["remote"]
         \/ gone["remote"] \in {"no", "notify"} /\ gone'["remote"] = "fin"
  BY <1>1, <1>2
<1>4. /\ edge' \in [Socket -> BOOLEAN] /\ \A o \in Socket : edge'[o] => reg[o] # {}
      /\ UNCHANGED <<pc, result, relay, ready>>
  BY <1>1, TouchedFacts
<1>5. Received'
  BY <1>1, <1>3, <1>4, Zenon DEF IInv, Received, Units, relay
<1> QED
  BY <1>1, <1>2, <1>3, <1>4, <1>5, PeerKeeps, Zenon

LEMMA ResetKeeps ==
  ASSUME IInv, NEW s \in Socket, Reset(s)
  PROVE  IInv'
<1>1. gone' = [gone EXCEPT ![s] = "reset"] /\ UNCHANGED <<inq, outq, sent>> /\ Touched(s, Flag)
  BY DEF Reset
<1>2. /\ inq \in [Socket -> Seq(Item)] /\ sent \in [Socket -> Nat]
      /\ gone \in [Socket -> {"no", "notify", "fin", "reset"}]
      /\ sent["client"] <= MaxUp /\ sent["remote"] <= MaxDown
      /\ outq \in [Socket -> Seq(Item)] /\ \A o \in Socket : Len(outq[o]) <= SndBuf
  BY DEF IInv, TypeOK
<1>3. /\ gone' \in [Socket -> {"no", "notify", "fin", "reset"}]
      /\ gone'["remote"] = gone["remote"] \/ gone'["remote"] = "reset"
  BY <1>1, <1>2
<1>4. /\ edge' \in [Socket -> BOOLEAN] /\ \A o \in Socket : edge'[o] => reg[o] # {}
      /\ UNCHANGED <<pc, result, relay, ready>>
  BY <1>1, TouchedFacts
<1>5. Received'
  BY <1>1, <1>3, <1>4, Zenon DEF IInv, Received, Units, relay
<1> QED
  BY <1>1, <1>2, <1>3, <1>4, <1>5, PeerKeeps, Zenon

LEMMA DrainKeeps ==
  ASSUME IInv, NEW s \in Socket, Drain(s)
  PROVE  IInv'
<1>1. /\ outq' = [outq EXCEPT ![s] = Tail(@)] /\ outq[s] # <<>> /\ UNCHANGED <<inq, gone, sent>>
  BY DEF Drain
<1>2. /\ inq \in [Socket -> Seq(Item)] /\ sent \in [Socket -> Nat]
      /\ gone \in [Socket -> {"no", "notify", "fin", "reset"}]
      /\ sent["client"] <= MaxUp /\ sent["remote"] <= MaxDown
      /\ outq \in [Socket -> Seq(Item)] /\ \A o \in Socket : Len(outq[o]) <= SndBuf
  BY DEF IInv, TypeOK
<1>3. /\ Tail(outq[s]) \in Seq(Item)
      /\ Contains(Tail(outq[s]), "notify") => Contains(outq[s], "notify")
      /\ NotifyLast(outq[s]) => NotifyLast(Tail(outq[s]))
  BY <1>1, <1>2, TailItems
<1>4. Len(Tail(outq[s])) <= SndBuf
  <2>1. outq[s] \in Seq(Item) /\ Len(outq[s]) <= SndBuf
    BY <1>2
  <2>2. Len(Tail(outq[s])) = Len(outq[s]) - 1 /\ Len(outq[s]) \in Nat
    BY <2>1, <1>1
  <2> QED
    BY <2>1, <2>2, RelayAssumption
<1>5. /\ outq' \in [Socket -> Seq(Item)] /\ \A o \in Socket : Len(outq'[o]) <= SndBuf
      /\ Contains(outq'["remote"], "notify") => Contains(outq["remote"], "notify")
      /\ NotifyLast(outq["remote"]) => NotifyLast(outq'["remote"])
  BY <1>1, <1>2, <1>3, <1>4 DEF Socket
<1>6. /\ edge' \in [Socket -> BOOLEAN] /\ \A o \in Socket : edge'[o] => reg[o] # {}
      /\ UNCHANGED <<pc, result, relay, ready>>
  <2>1. CASE Touched(s, {"writable"})
    BY <2>1, TouchedFacts
  <2>2. CASE UNCHANGED <<pc, result, relay, edge, ready>>
    BY <2>2 DEF IInv, TypeOK, Reported
  <2> QED
    BY <2>1, <2>2 DEF Drain
<1>7. Received'
  BY <1>1, <1>6, Zenon DEF IInv, Received, Units, relay
<1> QED
  BY <1>1, <1>2, <1>5, <1>6, <1>7, PeerKeeps, Zenon

LEMMA StepKeeps == IInv /\ [Next]_vars => IInv'
<1> SUFFICES ASSUME IInv, [Next]_vars PROVE IInv'
  OBVIOUS
<1>1. ASSUME NEW s \in Socket, IoError(s) PROVE IInv'
  BY <1>1, ReturnKeeps DEF IoError
<1>2. CASE UNCHANGED vars
  <2>1. TypeOK' /\ Received' /\ Ended'
    BY <1>2, ZenonT(30) DEF IInv, TypeOK, Received, Ended, Units, vars, relay, world
  <2>2. Reported' /\ ReadsBeforeEnd' /\ Notified'
    BY <1>2, Zenon DEF IInv, Reported, ReadsBeforeEnd, Notified, vars, relay, world
  <2> QED
    BY <2>1, <2>2 DEF IInv
<1>3. CASE Loop
  BY <1>1, <1>3, LoopTopKeeps, PollKeeps, ClientEventKeeps, RemoteEventKeeps DEF Loop
<1>4. CASE Environment
  BY <1>4, CloseNotifyKeeps, SendKeeps, FinKeeps, ResetKeeps, DrainKeeps DEF Environment
<1> QED
  BY <1>2, <1>3, <1>4 DEF Next, Returned

(* The inductive invariant holds in every reachable state of the relay.      *)
THEOREM Invariance == Spec => []IInv
BY Start, StepKeeps, PTL DEF Spec

(* The two buffers of relay_to_client hold at most one chunk each, rustls no  *)
(* more plaintext than the remote sent, and its output no more than           *)
(* TLS_BUFFER_LIMIT and a close_notify.                                       *)
THEOREM TypeCorrect == Spec => []TypeOK
<1>1. IInv => TypeOK
  BY DEF IInv
<1> QED
  BY <1>1, Invariance, PTL

(* relay_to_client passes the remote's end on only after everything the       *)
(* remote sent and only when it was a close_notify, and its own close_notify  *)
(* follows everything it read from the client, unless the remote ended first. *)
THEOREM ClosuresInOrder == Spec => []ClosureComesLast
<1>1. IInv => ClosureComesLast
  <2> SUFFICES ASSUME IInv PROVE ClosureComesLast
    OBVIOUS
  <2>1. ASSUME client_write_shutdown
        PROVE  /\ tls.notify /\ tls.plain = 0 /\ downstream = 0
               /\ ~Contains(inq["remote"], "data")
    <3>1. tls.notify /\ tls.plain = 0 /\ downstream = 0
      BY <2>1 DEF IInv, Ended
    <3>2. inq["remote"] = <<>>
      BY <3>1 DEF IInv, Received
    <3>3. ~Contains(<<>>, "data")
      BY DEF Contains
    <3> QED
      BY <3>1, <3>2, <3>3
  <2>2. ASSUME close_notify_sent, ~remote_eof
        PROVE  /\ upstream = 0
               /\ \A q \in {tls.out, outq["remote"]} :
                    \A i \in 1..Len(q) : q[i] = "notify" => i = Len(q)
    <3>1. upstream = 0 /\ NotifyLast(tls.out) /\ NotifyLast(outq["remote"])
      BY <2>2 DEF IInv, Ended, Notified
    <3> QED
      BY <3>1 DEF NotifyLast
  <2> QED
    BY <2>1, <2>2 DEF ClosureComesLast
<1> QED
  BY <1>1, Invariance, PTL
=============================================================================
