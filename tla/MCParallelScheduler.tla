------------------------ MODULE MCParallelScheduler ------------------------
(* Instances of ParallelScheduler for TLC. *)
EXTENDS ParallelScheduler, TLC

CONSTANTS a, b, c, d, e

\* a, b and d are parallel_safe and a overlaps b, so a and d run together and b
\* waits; c is exclusive and needs a; e is sequential and needs d.
MCStory == {a, b, c, d, e}
MCDependsOn == (a :> {}) @@ (b :> {}) @@ (c :> {a}) @@ (d :> {}) @@ (e :> {d})
MCClass == (a :> "parallel_safe") @@ (b :> "parallel_safe") @@ (c :> "exclusive")
           @@ (d :> "parallel_safe") @@ (e :> "sequential")
MCEpic == (a :> 1) @@ (b :> 1) @@ (c :> 1) @@ (d :> 2) @@ (e :> 0)
MCRank == (a :> 1) @@ (b :> 2) @@ (c :> 3) @@ (d :> 4) @@ (e :> 5)
MCOverlap == {<<a, b>>, <<b, a>>}

=============================================================================
