---------------------------- MODULE MCTlsRelay -----------------------------
(* TlsRelay for model checking.                                             *)
EXTENDS TlsRelay, TLC
=============================================================================
