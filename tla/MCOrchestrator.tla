--------------------------- MODULE MCOrchestrator ---------------------------
(* Instances of Orchestrator for TLC. *)
EXTENDS Orchestrator, TLC

CONSTANTS a, b, c, d

\* b and c both depend on a; c has no attempts at all; d waits for itself.
MCStory == {a, b, c, d}
MCDependsOn == (a :> {}) @@ (b :> {a}) @@ (c :> {a}) @@ (d :> {d})
MCRank == (a :> 1) @@ (b :> 2) @@ (c :> 3) @@ (d :> 4)
MCAttemptBudget == (a :> 2) @@ (b :> 1) @@ (c :> 0) @@ (d :> 1)
=============================================================================
