--------------------------- MODULE MCPlanningFlow ---------------------------
(* Instances of PlanningFlow for TLC. *)
EXTENDS PlanningFlow, TLC

\* The brief has no doc-skill; the other stages of planning_workflow.yaml have.
MCHasSkill == [i \in Stage |-> i # 1]
=============================================================================
