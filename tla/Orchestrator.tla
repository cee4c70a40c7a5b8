---------------------------- MODULE Orchestrator ----------------------------
(***************************************************************************)
(* The deterministic orchestrator of packages/harness-core/src/            *)
(* orchestrator-v0.ts: the tracker state and the tick its callers loop     *)
(* over, advanceTrackerState(t, d, execute(d)) with d = decideNextAction(t).*)
(* A tick is one action of this module: its guard is the condition under   *)
(* which decideNextAction returns that decision, its primed variables are  *)
(* what advanceTrackerState assigns, and the result of executing the       *)
(* decision is chosen by \E.  The only other actor is the human who sets   *)
(* human_gate_cleared in the tracker of a run waiting at a gate.           *)
(*                                                                         *)
(* Abstracted: the sort key (priority, order_index, story_id) is one       *)
(* number, Rank; null is NoStory or "none"; write sets, commands, wording. *)
(***************************************************************************)
EXTENDS Naturals, Sequences, FiniteSets

CONSTANTS
  Story,           \* the stories of the backlog
  NoStory,         \* null, where a story id may be absent
  DependsOn,       \* [Story -> SUBSET Story]: depends_on, cycles included
  Rank,            \* [Story -> Nat]: position in the selection order
  AttemptBudget,   \* [Story -> Nat]: attempt_budget
  RunBudget,       \* run_iteration_budget
  Backlog          \* the statuses stories may have when the run is created

FreshStatus == {"todo", "ready", "blocked", "escalated", "done"}

ASSUME StoryAssumption  == NoStory \notin Story
ASSUME DependsAssumption == DependsOn \in [Story -> SUBSET Story]
ASSUME RankAssumption   ==
  /\ Rank \in [Story -> Nat]
  /\ \A s, t \in Story : Rank[s] = Rank[t] => s = t
ASSUME BudgetAssumption == AttemptBudget \in [Story -> Nat] /\ RunBudget \in Nat
ASSUME BacklogAssumption == Backlog \subseteq FreshStatus

VARIABLES
  state,                   \* the phase of the run
  status,                  \* [Story -> Status]
  attempts,                \* [Story -> Nat]: develop_patch ticks so far
  active_story_id,         \* the story in work, or NoStory
  last_validation_passed,  \* "none" (null), "pass" (true), "fail" (false)
  human_gate_cleared,
  stop_reason,             \* "none" (null) or the reason the run halted
  iterations_used,
  decision_log             \* the decisions taken, oldest first

vars == <<state, status, attempts, active_story_id, last_validation_passed,
          human_gate_cleared, stop_reason, iterations_used, decision_log>>

Status == FreshStatus \cup
  {"in_progress", "validating", "debugging", "passed", "checkpointed"}

State == {"idle", "select", "contract", "develop", "validate", "debug",
          "checkpoint", "gate", "stopped"}

Action == {"select_next_story", "issue_contract", "develop_patch",
           "run_validation", "write_checkpoint", "mark_story_done",
           "route_debugger", "retry_develop", "escalate_human", "stop_run"}

StopReason == {"run_budget_exhausted", "all_stories_complete",
               "no_active_story", "awaiting_human_gate"}
EscalateReason == {"blocked_dependency", "attempt_budget_exceeded"}

Decision == [action : Action, story : Story \cup {NoStory}]

(***************************************************************************)
(* A run starts idle, on a backlog in which a done story's dependencies    *)
(* are done: the backlog of a new run, or of one left by an earlier run.   *)
(***************************************************************************)
Init ==
  /\ state = "idle"
  /\ status \in [Story -> Backlog]
  /\ \A s \in Story : status[s] = "done" => \A d \in DependsOn[s] : status[d] = "done"
  /\ attempts = [s \in Story |-> 0]
  /\ active_story_id = NoStory
  /\ last_validation_passed = "none"
  /\ human_gate_cleared = FALSE
  /\ stop_reason = "none"
  /\ iterations_used = 0
  /\ decision_log = <<>>

-----------------------------------------------------------------------------
(* Story selection *)

Pending(s) == status[s] \in {"todo", "ready"}

Selectable == {s \in Story : Pending(s) /\ \A d \in DependsOn[s] : status[d] = "done"}

\* selectNextRuntimeStory: the selectable story that sorts first.
IsNextStory(s) == s \in Selectable /\ \A t \in Selectable : Rank[s] <= Rank[t]

\* Mutant: an escalated dependency does not block.
HasBlockedOnly ==
  \E s \in Story : Pending(s) /\ \E d \in DependsOn[s] : status[d] = "blocked"

HasBlockedDependency ==
  \E s \in Story : Pending(s) /\ \E d \in DependsOn[s] : status[d] \in {"blocked", "escalated"}

-----------------------------------------------------------------------------
(* Ticks.  decideNextAction looks at the run budget before anything else.  *)

WithinBudget == iterations_used < RunBudget
HasActive    == active_story_id \in Story

\* Mutant: a gate is left as if the run were selecting.
InSelectOrGate == state \in {"idle", "select", "gate"}

InSelect == state \in {"idle", "select"}

\* Mutant: off by one.
AttemptsLeftButOne == attempts[active_story_id] + 1 < AttemptBudget[active_story_id]

AttemptsLeft == attempts[active_story_id] < AttemptBudget[active_story_id]

\* Every advance counts an iteration and appends the decision to the log.
Record(action, s) ==
  /\ iterations_used' = iterations_used + 1
  /\ decision_log' = Append(decision_log, [action |-> action, story |-> s])

SetStatus(s, new) == status' = [status EXCEPT ![s] = new]

\* A tick that works on the active story in phase `in` and within the budget.
Working(in, action) ==
  /\ WithinBudget
  /\ state = in
  /\ HasActive
  /\ Record(action, active_story_id)
  /\ UNCHANGED <<active_story_id, human_gate_cleared, stop_reason>>

SelectNextStory ==
  /\ WithinBudget
  /\ InSelect
  /\ \E s \in Story :
       /\ IsNextStory(s)
       /\ active_story_id' = s
       /\ SetStatus(s, "in_progress")
       /\ Record("select_next_story", s)
  /\ state' = "contract"
  /\ last_validation_passed' = "none"
  /\ UNCHANGED <<attempts, human_gate_cleared, stop_reason>>

\* The executor reports result.success = false: the run stops.
SelectFails ==
  /\ WithinBudget
  /\ InSelect
  /\ \E s \in Story : IsNextStory(s) /\ Record("select_next_story", s)
  /\ state' = "stopped"
  /\ stop_reason' = "select_failed"
  /\ UNCHANGED <<status, attempts, active_story_id, last_validation_passed, human_gate_cleared>>

\* At a cleared gate the decision names no story, and advanceTrackerState
\* stops the run on a select_next_story without one.
SelectAtClearedGate ==
  /\ WithinBudget
  /\ state = "gate"
  /\ human_gate_cleared
  /\ Record("select_next_story", NoStory)
  /\ state' = "stopped"
  /\ stop_reason' = "select_failed"
  /\ UNCHANGED <<status, attempts, active_story_id, last_validation_passed, human_gate_cleared>>

IssueContract ==
  /\ Working("contract", "issue_contract")
  /\ state' = "develop"
  /\ SetStatus(active_story_id, "in_progress")
  /\ UNCHANGED <<attempts, last_validation_passed>>

DevelopPatch ==
  /\ Working("develop", "develop_patch")
  /\ AttemptsLeft
  /\ state' = "validate"
  /\ attempts' = [attempts EXCEPT ![active_story_id] = @ + 1]
  /\ last_validation_passed' = "none"
  /\ UNCHANGED status

\* Mutant: a result without a verdict does not count as an iteration.
RunValidationUncounted ==
  /\ last_validation_passed = "none"
  /\ WithinBudget
  /\ state = "validate"
  /\ HasActive
  /\ \E verdict \in {"pass", "fail", "none"} :
       /\ last_validation_passed' = verdict
       /\ SetStatus(active_story_id, IF verdict = "pass" THEN "passed" ELSE "in_progress")
       /\ iterations_used' = iterations_used + (IF verdict = "none" THEN 0 ELSE 1)
  /\ decision_log' =
       Append(decision_log, [action |-> "run_validation", story |-> active_story_id])
  /\ UNCHANGED <<state, attempts, active_story_id, human_gate_cleared, stop_reason>>

\* "none" is a result without a verdict: the next tick validates again.
RunValidation ==
  /\ last_validation_passed = "none"
  /\ Working("validate", "run_validation")
  /\ \E verdict \in {"pass", "fail", "none"} :
       /\ last_validation_passed' = verdict
       /\ SetStatus(active_story_id, IF verdict = "pass" THEN "passed" ELSE "in_progress")
  /\ UNCHANGED <<state, attempts>>

\* Mutant: any verdict is good enough for a checkpoint.
WriteCheckpointAnyVerdict ==
  /\ last_validation_passed # "none"
  /\ Working("validate", "write_checkpoint")
  /\ state' = "checkpoint"
  /\ SetStatus(active_story_id, "checkpointed")
  /\ UNCHANGED <<attempts, last_validation_passed>>

WriteCheckpoint ==
  /\ last_validation_passed = "pass"
  /\ Working("validate", "write_checkpoint")
  /\ state' = "checkpoint"
  /\ SetStatus(active_story_id, "checkpointed")
  /\ UNCHANGED <<attempts, last_validation_passed>>

RouteDebugger ==
  /\ last_validation_passed = "fail"
  /\ Working("validate", "route_debugger")
  /\ AttemptsLeft
  /\ state' = "debug"
  /\ SetStatus(active_story_id, "debugging")
  /\ UNCHANGED <<attempts, last_validation_passed>>

RetryDevelop ==
  /\ Working("debug", "retry_develop")
  /\ state' = "develop"
  /\ last_validation_passed' = "none"
  /\ UNCHANGED <<status, attempts>>

\* Mutant: done straight from a passing validation.
MarkStoryDoneEarly ==
  /\ WithinBudget
  /\ state = "checkpoint" \/ (state = "validate" /\ last_validation_passed = "pass")
  /\ Record("mark_story_done", active_story_id)
  /\ state' = "select"
  /\ active_story_id' = NoStory
  /\ last_validation_passed' = "none"
  /\ SetStatus(active_story_id, "done")
  /\ UNCHANGED <<attempts, human_gate_cleared, stop_reason>>

MarkStoryDone ==
  /\ WithinBudget
  /\ state = "checkpoint"
  /\ HasActive
  /\ Record("mark_story_done", active_story_id)
  /\ state' = "select"
  /\ active_story_id' = NoStory
  /\ last_validation_passed' = "none"
  /\ SetStatus(active_story_id, "done")
  /\ UNCHANGED <<attempts, human_gate_cleared, stop_reason>>

\* The Developer's attempts are used up: before a patch, or after a failure.
EscalateExhausted ==
  /\ state = "develop" \/ (state = "validate" /\ last_validation_passed = "fail")
  /\ WithinBudget
  /\ HasActive
  /\ ~AttemptsLeft
  /\ Record("escalate_human", active_story_id)
  /\ state' = "gate"
  /\ stop_reason' = "attempt_budget_exceeded"
  /\ SetStatus(active_story_id, "escalated")
  /\ UNCHANGED <<attempts, active_story_id, last_validation_passed, human_gate_cleared>>

EscalateBlocked ==
  /\ WithinBudget
  /\ InSelect
  /\ Selectable = {}
  /\ HasBlockedDependency
  /\ Record("escalate_human", NoStory)
  /\ state' = "gate"
  /\ stop_reason' = "blocked_dependency"
  /\ UNCHANGED <<status, attempts, active_story_id, last_validation_passed, human_gate_cleared>>

\* The reason decideNextAction stops the run for, if it stops it.
StopsFor(reason) ==
  CASE reason = "run_budget_exhausted" -> ~WithinBudget
    [] reason = "all_stories_complete" ->
         WithinBudget /\ InSelect /\ Selectable = {} /\ ~HasBlockedDependency
    [] reason = "no_active_story" ->
         WithinBudget /\ ~HasActive /\ state \in {"develop", "validate", "debug", "checkpoint"}
    [] reason = "awaiting_human_gate" ->
         WithinBudget /\ state = "gate" /\ ~human_gate_cleared

StopRun ==
  /\ state # "stopped"
  /\ \E reason \in StopReason : StopsFor(reason) /\ stop_reason' = reason
  /\ Record("stop_run", NoStory)
  /\ state' = "stopped"
  /\ UNCHANGED <<status, attempts, active_story_id, last_validation_passed, human_gate_cleared>>

Tick ==
  \/ SelectNextStory \/ SelectFails \/ SelectAtClearedGate
  \/ IssueContract \/ DevelopPatch \/ RunValidation
  \/ WriteCheckpoint \/ MarkStoryDone
  \/ RouteDebugger \/ RetryDevelop
  \/ EscalateExhausted \/ EscalateBlocked \/ StopRun

\* The operator clears the gate in the tracker of a run that waits at it.
ClearGate ==
  /\ state = "gate"
  /\ ~human_gate_cleared
  /\ human_gate_cleared' = TRUE
  /\ UNCHANGED <<state, status, attempts, active_story_id, last_validation_passed,
                 stop_reason, iterations_used, decision_log>>

\* The caller's loop is over once the run has stopped.
Halted == state = "stopped" /\ UNCHANGED vars

Next == Tick \/ ClearGate \/ Halted

Spec == Init /\ [][Next]_vars

-----------------------------------------------------------------------------
(* Properties *)

\* Every field holds a value of the type orchestrator-v0.ts declares for it.
TypeOK ==
  /\ state \in State
  /\ status \in [Story -> Status]
  /\ attempts \in [Story -> Nat]
  /\ active_story_id \in Story \cup {NoStory}
  /\ last_validation_passed \in {"none", "pass", "fail"}
  /\ human_gate_cleared \in BOOLEAN
  /\ stop_reason \in StopReason \cup EscalateReason \cup {"none", "select_failed"}
  /\ iterations_used \in Nat
  /\ decision_log \in Seq(Decision)

InFlight == {"in_progress", "validating", "debugging", "passed", "checkpointed"}

\* The status of the active story and the validation verdict are the ones the
\* phase of the run calls for, so no phase of advanceTrackerState is skipped.
PhaseMatchesStory ==
  LET in == status[active_story_id] IN
  /\ state \in {"idle", "select"} => active_story_id = NoStory
  /\ state \in {"contract", "develop", "validate", "debug", "checkpoint"} => HasActive
  /\ state = "contract" => in = "in_progress" /\ last_validation_passed = "none"
  /\ state = "develop" =>
       in \in {"in_progress", "debugging"} /\ last_validation_passed = "none"
  /\ state = "validate" =>
       \/ last_validation_passed = "none" /\ in \in {"in_progress", "debugging"}
       \/ last_validation_passed = "fail" /\ in = "in_progress"
       \/ last_validation_passed = "pass" /\ in = "passed"
  /\ state = "debug" => in = "debugging" /\ last_validation_passed = "fail"
  /\ state = "checkpoint" => in = "checkpointed" /\ last_validation_passed = "pass"

\* The only story in flight is the active one, also after the run has halted.
OneStoryInFlight == \A s \in Story : status[s] \in InFlight => active_story_id = s

\* No story is worked on, or finished, before everything it depends on is done.
DepsDone ==
  \A s \in Story : status[s] \in InFlight \cup {"done"} =>
    \A d \in DependsOn[s] : status[d] = "done"

\* The decisions of the audit trail that asked for a patch of s.
PatchesLogged(s) ==
  {k \in DOMAIN decision_log : decision_log[k] = [action |-> "develop_patch", story |-> s]}

\* The attempts counter of a story is the number of develop_patch decisions
\* the audit trail holds for it.
AttemptsMatchLog == \A s \in Story : attempts[s] = Cardinality(PatchesLogged(s))

\* The attempt budget bounds the patches of every story, and a story that is
\* validated has had at least one.
AttemptsInBudget ==
  /\ \A s \in Story : attempts[s] <= AttemptBudget[s]
  /\ state = "validate" => attempts[active_story_id] > 0

Decided(k, action, s) ==
  k \in DOMAIN decision_log /\ decision_log[k] = [action |-> action, story |-> s]

\* A story the run worked on is done only if the audit trail ends, for it, in
\* run_validation, write_checkpoint, mark_story_done on consecutive ticks.
DoneThroughChain ==
  \A s \in Story : attempts[s] > 0 /\ status[s] = "done" =>
    \E k \in DOMAIN decision_log :
      /\ Decided(k, "mark_story_done", s)
      /\ Decided(k - 1, "write_checkpoint", s)
      /\ Decided(k - 2, "run_validation", s)
      /\ \A j \in DOMAIN decision_log : decision_log[j].story = s => j <= k

\* A story is handed to the human only after its whole attempt budget was
\* spent, and it stays escalated: the run does not work on it again.
EscalationEarned ==
  \A s \in Story : \A k \in DOMAIN decision_log :
    Decided(k, "escalate_human", s) =>
      status[s] = "escalated" /\ attempts[s] = AttemptBudget[s]

\* What was done, escalated or blocked is never touched again by a tick.
SettledStaysSettled ==
  [][\A s \in Story : status[s] \in {"done", "escalated", "blocked"} => status'[s] = status[s]]_vars

\* A gate no human cleared is never crossed: once the run has escalated, the
\* only decision it can still take is to stop.
GateHolds ==
  ~human_gate_cleared =>
    \A k, j \in DOMAIN decision_log :
      decision_log[k].action = "escalate_human" /\ j > k => decision_log[j].action = "stop_run"

\* Every decision counts: a validator that never gives a verdict, or a story
\* that fails for ever, cannot keep the run deciding past its budget, and the
\* one decision beyond it is the stop.
DecisionsInBudget ==
  /\ Len(decision_log) <= RunBudget + 1
  /\ Len(decision_log) > RunBudget => state = "stopped"

\* A run that reports all stories complete leaves a story undone only if it
\* was blocked or given up from the start, or waits for a story that itself
\* waits: a cycle.  It never hides a story that a human could have unblocked.
CompleteLeavesOnlyCycles ==
  stop_reason = "all_stories_complete" =>
    \A s \in Story : Pending(s) => \E d \in DependsOn[s] : Pending(d)

-----------------------------------------------------------------------------
(* The lifecycle of a story, which the orchestrator implements. *)

PhaseOf(st) ==
  CASE st \in {"todo", "ready"} -> "waiting"
    [] st \in {"in_progress", "validating", "debugging"} -> "working"
    [] st = "passed" -> "validated"
    [] st = "checkpointed" -> "saved"
    [] st = "done" -> "done"
    [] st \in {"blocked", "escalated"} -> "parked"

Lifecycle == INSTANCE StoryLifecycle WITH
  phase <- [s \in Story |-> PhaseOf(status[s])],
  tries <- attempts

\* Every run of the orchestrator is a behaviour StoryLifecycle allows.
ImplementsLifecycle == Lifecycle!Spec

-----------------------------------------------------------------------------
(* Claims of the repository's comments and docs the code does not keep. *)

\* orchestrator-v0.ts:61: select_next_story picks the next story from the DAG.
SelectionNamesAStory ==
  \A k \in DOMAIN decision_log :
    decision_log[k].action = "select_next_story" => decision_log[k].story # NoStory

\* docs/architecture/12_RUNTIME_ALGORITHM_RULES.md:66: stop_run("complete") if
\* all stories are done.
CompleteMeansAllDone ==
  stop_reason = "all_stories_complete" => \A s \in Story : status[s] = "done"
=============================================================================
