-------------------------------- MODULE Cidr --------------------------------
(***************************************************************************)
(* IP networks (crates/core/src/cidr.rs).  An address is [kind, bits]; the *)
(* kinds "v4" and "v6" differ in their WIDTH, 32 and 128 bits in the code. *)
(***************************************************************************)
EXTENDS Naturals, Bitwise

CONSTANT WIDTH   \* WIDTH[kind]: bound

(* MAX << n: the processor shifts by n modulo the width, so that a shift   *)
(* by the whole width shifts nothing (a debug build stops instead).        *)
shl(width, n) == ((2^width - 1) * 2^(n % width)) % 2^width

(* v4_mask and v6_mask, which may not shift by the whole width. *)
mask(width, prefix) == IF prefix = 0 THEN 0 ELSE shl(width, width - prefix)

(* IpCidr::from_str, as a set of at most one network: the host bits are    *)
(* cleared, and a prefix beyond the width is refused.                      *)
parse_cidr(address, prefix) ==
  {[kind |-> address.kind, prefix |-> p,
    network |-> address.bits & mask(WIDTH[address.kind], p)] : p \in {prefix} \cap (0..WIDTH[address.kind])}

contains(cidr, address) ==
  /\ cidr.kind = address.kind
  /\ address.bits & mask(WIDTH[cidr.kind], cidr.prefix) = cidr.network
=============================================================================
