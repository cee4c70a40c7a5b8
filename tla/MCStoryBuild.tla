---------------------------- MODULE MCStoryBuild ----------------------------
(* A source and a library file in the write set, a test outside of it; the    *)
(* source exports an old symbol that must stay and the story needs a new one. *)
EXTENDS StoryBuild, TLC

CONSTANTS src, lib, check, old, new, unit, regression

MCFiles == {src, lib, check}
MCSymbols == {old, new}
MCSeedTree == (src :> {old}) @@ (lib :> {}) @@ (check :> {old})
MCWriteSet == {src, lib}
MCTestFiles == {check}
MCNeeds ==
  (unit :> [f \in MCFiles |-> IF f = src THEN {new} ELSE {}]) @@
  (regression :> [f \in MCFiles |-> IF f = lib THEN {} ELSE {old}])
MCContracts == {Required, Required \ {"rollback_notes"}}
=============================================================================
