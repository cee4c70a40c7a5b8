--------------------------- MODULE MCProviderRun ---------------------------
(* Three paths: a new one of the write set, one of the pre-task tree outside  *)
(* of it, one credential whose name git quotes; two calls; one earlier story  *)
(* with one acceptance test.                                                  *)
EXTENDS ProviderRun

CONSTANTS c1, c2, inSet, outside, credential, story, test, otherName

MCCalls == {c1, c2}
MCFiles == {inSet, outside, credential}
MCPreTask == {outside, credential}
MCPriorTests == [s \in {story} |-> {test}]
=============================================================================
