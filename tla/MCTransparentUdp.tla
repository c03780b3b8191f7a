-------------------------- MODULE MCTransparentUdp --------------------------
(* TransparentUdp on small instances: DIRECT with an IPv4 and an IPv6       *)
(* socket, Trojan with one carrier, and targets that policy rejects or      *)
(* sends to an endpoint without UDP.                                        *)
EXTENDS TransparentUdp, TLC

CONSTANTS direct, trojan, web, d1, d2, p1, no1

MCSources == [e \in Endpoint |-> IF e = direct THEN 2 ELSE 1]

MCOneSource == [e \in Endpoint |-> 1]

MCPlan ==
  [t \in Target |-> CASE t \in {d1, d2} -> direct
                      [] t = p1 -> trojan
                      [] t = no1 -> Reject
                      [] OTHER -> web]

MCTrojanPlan == [t \in Target |-> trojan]

MCUdpEndpoint == Endpoint \ {web}

MCDeliverable == Target \ {no1}

ClientSymmetry == Permutations(Client)
=============================================================================
