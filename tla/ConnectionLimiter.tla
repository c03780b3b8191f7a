------------------------- MODULE ConnectionLimiter -------------------------
(***************************************************************************)
(* What the connection limiter of crates/daemon/src/server.rs promises: a  *)
(* counting semaphore whose permits are taken and given back one at a      *)
(* time, never more than limit of them.                                    *)
(***************************************************************************)
EXTENDS Integers

CONSTANT limit

VARIABLE held

Init == held = 0

try_acquire == held < limit /\ held' = held + 1

drop == held > 0 /\ held' = held - 1

Next == try_acquire \/ drop

Spec == Init /\ [][Next]_held
=============================================================================
