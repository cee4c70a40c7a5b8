--------------------------- MODULE MCGateControl ---------------------------
(* Instances of GateControl for TLC. *)
EXTENDS GateControl

CONSTANTS r1, r2, r3, ci
=============================================================================
