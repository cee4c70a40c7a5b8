---------------------------- MODULE MCAgentContext ----------------------------
(* Two files, two skills that depend on one another and of which one is       *)
(* shipped, two stories of up to three calls and two compactions.             *)
EXTENDS AgentContext

MCShipped == <<[id |-> "lazy", status |-> "registered", enabled |-> TRUE, builtin |-> TRUE]>>
MCDependsOn == [lazy |-> {"own"}, own |-> {"lazy"}]
MCCode == [f \in Files |-> IF f = "app" THEN {"lib"} ELSE {}]
MCTestRuns == {<<[intent |-> "login", passed |-> p]>> : p \in BOOLEAN} \cup
  {<<[intent |-> "login", passed |-> p], [intent |-> "login", passed |-> ~p]>> : p \in BOOLEAN}
MCTurnKinds == {[mark |-> "early", size |-> 1], [mark |-> "late", size |-> 2]}
MCContract(f) ==
  [given |-> Essentials \cup {"story_id"}, write_set |-> {f}, symbols |-> {"lib"}, do_not_touch |-> {},
   consumes |-> {"app"}, complexity |-> "small"]
MCContracts == {MCContract(f) : f \in Files} \cup
  {[MCContract("app") EXCEPT !.given = @ \ {"rollback_notes"}]}
MCMachines == {[override |-> FALSE, on_path |-> p, npx |-> FALSE] : p \in BOOLEAN}
MCRawReports == {RequiredFields \cup {"write_set", "objective"}}
=============================================================================
