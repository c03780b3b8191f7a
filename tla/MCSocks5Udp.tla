---------------------------- MODULE MCSocks5Udp ----------------------------
(* Small instances of Socks5Udp for TLC.                                    *)
EXTENDS Socks5Udp

CONSTANTS direct, trojan, web, d1, p1, w1, no1

MCOneSource == [e \in Endpoint |-> 1]

\* DIRECT has an IPv4 and an IPv6 socket.
MCSources == [e \in Endpoint |-> IF e = direct THEN 2 ELSE 1]

\* web is an endpoint without UDP support.
MCPlan ==
  [t \in Target |-> IF t = no1 THEN Reject ELSE IF t = p1 THEN trojan
                    ELSE IF t = w1 THEN web ELSE direct]
=============================================================================
