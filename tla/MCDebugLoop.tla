---------------------------- MODULE MCDebugLoop ----------------------------
(* Instances of DebugLoop for TLC. *)
EXTENDS DebugLoop

CONSTANTS s1, s2, s3, s4

\* A token of s1 occurs in s2, but none of s2's in s1; s2 and s3 share one;
\* s4 has nothing in common with the others.
MCOverlap ==
  {<<s, s>> : s \in Signal} \cup {<<s1, s2>>, <<s2, s3>>, <<s3, s2>>}
=============================================================================
