----------------------------- MODULE MCRunTrail -----------------------------
(* Instances of RunTrail for TLC. *)
EXTENDS RunTrail

CONSTANTS harness, console, s1, s2, t1, t2
=============================================================================
