---------------------------- MODULE MC_QcedevQueue ----------------------------
(* Instantiates QcedevQueue for TLC: three concurrent ioctl calls, one of   *)
(* each op_type, on an engine with two request-info slots.                  *)
EXTENDS QcedevQueue, TLC

CONSTANTS r1, r2, r3

MCReqs == {r1, r2, r3}
MCOpOf == (r1 :> "cipher") @@ (r2 :> "offload") @@ (r3 :> "sha")
MCSlots == 0 .. 1
=============================================================================
