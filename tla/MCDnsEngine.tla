---------------------------- MODULE MCDnsEngine ----------------------------
(* Small instances of DnsEngine for TLC.                                    *)
EXTENDS DnsEngine, TLC

CONSTANT hosted

Symmetry == Permutations(Thread) \cup Permutations(Name \ {hosted})
=============================================================================
