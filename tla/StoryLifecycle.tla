--------------------------- MODULE StoryLifecycle ---------------------------
(***************************************************************************)
(* What the harness promises about a story, whatever drives it: one story  *)
(* is worked on at a time, only once everything it depends on is done; it  *)
(* reaches "done" only through a passing validation and a saved            *)
(* checkpoint; it is tried at most AttemptBudget times, and when it is     *)
(* given up it is parked for a human.  Orchestrator implements this        *)
(* specification (packages/harness-core/src/orchestrator-v0.ts).           *)
(***************************************************************************)
EXTENDS Naturals

CONSTANTS
  Story,           \* the stories of the backlog
  DependsOn,       \* [Story -> SUBSET Story]: story.depends_on
  AttemptBudget    \* [Story -> Nat]: story.attempt_budget

VARIABLES
  phase,           \* [Story -> Phase]
  tries            \* [Story -> Nat]: the patches the Developer produced for it

lifecycleVars == <<phase, tries>>

Phase == {"waiting", "working", "validated", "saved", "done", "parked"}
Busy  == {"working", "validated", "saved"}

Init ==
  /\ phase \in [Story -> {"waiting", "done", "parked"}]
  /\ tries = [s \in Story |-> 0]

Move(s, from, to) ==
  /\ phase[s] = from
  /\ phase' = [phase EXCEPT ![s] = to]

Start(s) ==
  /\ \A t \in Story : phase[t] \notin Busy
  /\ \A d \in DependsOn[s] : phase[d] = "done"
  /\ Move(s, "waiting", "working")
  /\ UNCHANGED tries

Try(s) ==
  /\ phase[s] = "working"
  /\ tries[s] < AttemptBudget[s]
  /\ tries' = [tries EXCEPT ![s] = @ + 1]
  /\ UNCHANGED phase

Validate(s) ==
  /\ tries[s] > 0
  /\ Move(s, "working", "validated")
  /\ UNCHANGED tries

Save(s)   == Move(s, "validated", "saved") /\ UNCHANGED tries
Finish(s) == Move(s, "saved", "done") /\ UNCHANGED tries

GiveUp(s) ==
  /\ tries[s] = AttemptBudget[s]
  /\ Move(s, "working", "parked")
  /\ UNCHANGED tries

Next ==
  \E s \in Story :
    Start(s) \/ Try(s) \/ Validate(s) \/ Save(s) \/ Finish(s) \/ GiveUp(s)

Spec == Init /\ [][Next]_lifecycleVars
=============================================================================
