----------------------------- MODULE HarnessSteps -----------------------------
(* The decisions of packages/harness-core that a step of the harness rests on: *)
(* which state may follow which, what to do in a state, when a person has to    *)
(* be asked and who tells them, and what a finished story hands on.             *)
EXTENDS Naturals, Sequences, FiniteSets

States == {"IDEA_INBOX", "PLANNING_BUNDLE", "SUPERVISOR_CONTRACT", "DEVELOPER_PATCH_PROPOSAL",
           "DEVELOPER_PREFLIGHT", "SPEC_CONFORMANCE_REVIEW", "WORKSPACE_APPLY", "VALIDATION",
           "DEBUG_LOOP", "CHECKPOINT", "HUMAN_GATE", "PROMOTION_REVIEW", "DONE"}
Transitions ==
  [IDEA_INBOX |-> {"PLANNING_BUNDLE"},
   PLANNING_BUNDLE |-> {"SUPERVISOR_CONTRACT"},
   SUPERVISOR_CONTRACT |-> {"DEVELOPER_PATCH_PROPOSAL"},
   DEVELOPER_PATCH_PROPOSAL |-> {"DEVELOPER_PREFLIGHT", "HUMAN_GATE"},
   DEVELOPER_PREFLIGHT |-> {"SPEC_CONFORMANCE_REVIEW", "DEVELOPER_PATCH_PROPOSAL", "HUMAN_GATE"},
   SPEC_CONFORMANCE_REVIEW |-> {"WORKSPACE_APPLY", "DEVELOPER_PATCH_PROPOSAL", "HUMAN_GATE"},
   WORKSPACE_APPLY |-> {"VALIDATION"},
   VALIDATION |-> {"DEBUG_LOOP", "CHECKPOINT", "HUMAN_GATE"},
   DEBUG_LOOP |-> {"DEVELOPER_PATCH_PROPOSAL", "SUPERVISOR_CONTRACT", "HUMAN_GATE"},
   CHECKPOINT |-> {"PROMOTION_REVIEW", "SUPERVISOR_CONTRACT"},
   HUMAN_GATE |-> {"SUPERVISOR_CONTRACT", "CHECKPOINT", "DONE"},
   PROMOTION_REVIEW |-> {"DONE", "HUMAN_GATE"},
   DONE |-> {}]
CanTransition(from, to) == to \in Transitions[from]

Verdicts == {"submit", "self_correct", "escalate"}
PreflightVerdictToState(verdict) ==
  [submit |-> "SPEC_CONFORMANCE_REVIEW", self_correct |-> "DEVELOPER_PATCH_PROPOSAL",
   escalate |-> "HUMAN_GATE"][verdict]

\* What the harness does in a state.  The states of the preflight and of the
\* conformance review came later and have no row of their own.
Tick(state, out_of_budget, passed, attempts_left, cleared) ==
  CASE out_of_budget -> "stop_run"
    [] ~out_of_budget /\ state = "SUPERVISOR_CONTRACT" -> "issue_contract"
    [] ~out_of_budget /\ state = "DEVELOPER_PATCH_PROPOSAL" -> "request_patch"
    [] ~out_of_budget /\ state = "WORKSPACE_APPLY" -> "apply_patch"
    [] ~out_of_budget /\ state = "VALIDATION" ->
         (IF passed = "none" THEN "run_validation"
          ELSE IF passed = "yes" THEN "write_checkpoint"
          ELSE IF attempts_left THEN "route_debugger" ELSE "escalate_human")
    [] ~out_of_budget /\ state = "DEBUG_LOOP" -> IF attempts_left THEN "retry_develop" ELSE "escalate_human"
    [] ~out_of_budget /\ state = "CHECKPOINT" -> "mark_story_done"
    [] ~out_of_budget /\ state = "HUMAN_GATE" -> IF cleared THEN "select_story" ELSE "stop_run"
    [] ~out_of_budget /\ state = "PROMOTION_REVIEW" -> "escalate_human"
    [] OTHER -> "stop_run"

\* The verdict of the preflight leads where a transition leads; only a passed
\* validation is checkpointed, and a promotion is always a person's.  Between a
\* proposal and its application lie two states in which a tick stops the run.
ASSUME StepsAssumption ==
  /\ \A v \in Verdicts : CanTransition("DEVELOPER_PREFLIGHT", PreflightVerdictToState(v))
  /\ \A state \in States, over, left, cleared \in BOOLEAN, passed \in {"none", "yes", "no"} :
       LET action == Tick(state, over, passed, left, cleared)
       IN /\ action = "write_checkpoint" => state = "VALIDATION" /\ passed = "yes" /\ ~over
          /\ action = "route_debugger" => left
          /\ state = "PROMOTION_REVIEW" => action \in {"escalate_human", "stop_run"}
          /\ state \in {"DEVELOPER_PREFLIGHT", "SPEC_CONFORMANCE_REVIEW"} => action = "stop_run"

\* Nothing is checkpointed but what was validated or what a person let through,
\* and nothing is done but what was reviewed: without those states there is no
\* way from the contract of a story to its checkpoint, nor to DONE.
ASSUME ChainAssumption ==
  LET around(gates, to) == \E S \in SUBSET (States \ (gates \cup {to})) :
        /\ "SUPERVISOR_CONTRACT" \in S
        /\ \A from \in S : Transitions[from] \subseteq S \cup gates
  IN /\ around({"VALIDATION", "HUMAN_GATE"}, "CHECKPOINT")
     /\ around({"WORKSPACE_APPLY", "HUMAN_GATE"}, "CHECKPOINT")
     /\ around({"PROMOTION_REVIEW", "HUMAN_GATE"}, "DONE")

-----------------------------------------------------------------------------
(* When a person is asked. *)

CheckHumanGate(action, promotion, outside, systemic) ==
  IF action = "escalate_human" THEN "attempt_budget_exceeded"
  ELSE IF promotion THEN "promotion"
  ELSE IF action = "apply_patch" /\ outside THEN "scope_expansion"
  ELSE IF systemic THEN "systemic_failure" ELSE "none"

\* A checkpoint whose tests only the implementer wrote waits for a confirmation.
FlagTestAuthorship(role) == role \in {"developer", "debugger"}
AcceptanceTestBoundary(changed, tests) == changed \cap tests = {}

\* An exit verdict of a delegate.
DecideDelegationOutcome(accepted, outside) ==
  IF accepted THEN "write_checkpoint"
  ELSE IF outside THEN "escalate_human" ELSE "route_debugger"

\* A gate nobody answered.  The flag of a security gate is the caller's, and the
\* list of gates that never close by themselves is looked at nowhere.
GateTypes == {"promotion_review", "approval_request", "hold_release"}
Policies == {"re_notify", "auto_deny", "auto_approve"}
EvaluateGateSla(type, policy, security, timed_out) ==
  CASE type = "promotion_review" -> "blocked_global_gate"
    [] type # "promotion_review" /\ ~timed_out -> "waiting"
    [] type # "promotion_review" /\ timed_out /\ policy = "auto_approve" /\ security -> "auto_deny"
    [] OTHER -> policy
ASSUME SlaAssumption ==
  \A type \in GateTypes, policy \in Policies, security, late \in BOOLEAN :
    EvaluateGateSla(type, policy, security, late) \in {"auto_approve", "auto_deny"} =>
      /\ late /\ type # "promotion_review"
      /\ security => EvaluateGateSla(type, policy, security, late) = "auto_deny"

\* A webhook is tried until an answer is ok; each attempt is answered ok, is
\* refused, or throws.  Nothing bounds the wait for an answer.
Answers == {"ok", "refused", "throws"}
Channel == [type : {"webhook", "email"}, enabled : BOOLEAN, url : BOOLEAN, attempts : 0..3]
NotSent == [sent |-> FALSE, tries |-> 0]
Attempt(channel, answers) ==
  LET good == {i \in 1..channel.attempts : answers[i] = "ok"}
  IN IF good = {} THEN [sent |-> FALSE, tries |-> channel.attempts]
     ELSE [sent |-> TRUE, tries |-> CHOOSE i \in good : \A j \in good : i <= j]
SendNotification(subscribed, channel, answers) ==
  IF subscribed /\ channel.enabled /\ channel.type = "webhook" /\ channel.url
  THEN Attempt(channel, answers) ELSE NotSent

\* What is reported as sent was answered ok once and not tried again.
ASSUME NotificationAssumption ==
  \A subscribed \in BOOLEAN, channel \in Channel, answers \in [1..3 -> Answers] :
    LET result == SendNotification(subscribed, channel, answers)
    IN /\ result.sent => answers[result.tries] = "ok"
       /\ \A i \in 1..result.tries - 1 : answers[i] # "ok"
       /\ result.tries <= channel.attempts

\* An answer in the console is for the pending gate, whichever that is.
RouteConsoleMessage(intent, pending) ==
  CASE intent = "approval_response" -> IF pending THEN "recorded" ELSE "no_gate"
    [] intent = "status_query" -> "narrated"
    [] intent = "off_topic" -> "refused"
    [] intent = "scope_change_request" -> "planning_steward"
    [] OTHER -> "model"

-----------------------------------------------------------------------------
(* What a finished story leaves. *)

\* The card copies facts by name, so that nothing else on the record of a
\* finished story gets onto it.
CardFacts == {"story", "delivered", "touched_files", "acceptance", "open_threads", "trace_ref"}
ForbiddenKeys == {"reasoning", "developer_reasoning", "debugger_reasoning", "agent_reasoning",
                  "debug_narrative", "transcript", "rationale", "rationale_summary", "thought",
                  "thoughts", "chain_of_thought", "how", "process", "approach"}
EmitHandoffCard(facts) == CardFacts \cup (facts \cap {"produced_contracts"})
\* What a validator of cards objects to: a missing field, reasoning, any other key.
ValidateHandoffCard(card) ==
  (CardFacts \ card) \cup (card \cap ForbiddenKeys) \cup (card \ (CardFacts \cup {"produced_contracts"}))
ASSUME CardAssumption ==
  \A extra \in SUBSET {"produced_contracts", "transcript", "how", "mood"} :
    /\ ValidateHandoffCard(EmitHandoffCard(CardFacts \cup extra)) = {}
    /\ (ValidateHandoffCard(CardFacts \cup extra) = {}) <=> (extra \subseteq {"produced_contracts"})

\* A run is promotable when every story is done and has a checkpoint: a run of
\* no stories is.
Promotable(stories) == \A s \in stories : s.status = "done" /\ s.checkpointed
\* A denial without a reason is refused.
ReviewAccepted(outcome, reason) == outcome = "denied" => reason

\* A run of stories is promotable only when each of them is, so one without
\* any is; a person's word without a reason can promote a run but not deny it,
\* and is recorded for a gate that waits or not at all.
ASSUME ReviewAssumption ==
  LET Story == [status : {"todo", "escalated", "done"}, checkpointed : BOOLEAN]
  IN /\ \A run, more \in SUBSET Story : Promotable(run \cup more) <=> Promotable(run) /\ Promotable(more)
     /\ Promotable({})
     /\ ReviewAccepted("approved", FALSE) /\ ~ReviewAccepted("denied", FALSE)
     /\ \A intent \in {"approval_response", "status_query", "off_topic", "scope_change_request", "ambiguous"},
          pending \in BOOLEAN : RouteConsoleMessage(intent, pending) = "recorded" => pending

\* An implementer who may not touch the acceptance tests is still asked for the
\* confirmation of a person; a reviewer's tests need none, and no boundary
\* between two changes is lost by joining them.
ASSUME AuthorshipAssumption ==
  /\ \A role \in {"developer", "debugger", "reviewer", "human"} :
       FlagTestAuthorship(role) <=> role \notin {"reviewer", "human"}
  /\ \A one, other, tests \in SUBSET {1, 2, 3} :
       AcceptanceTestBoundary(one \cup other, tests) <=>
         AcceptanceTestBoundary(one, tests) /\ AcceptanceTestBoundary(other, tests)

\* What a story on existing code may write is REPLACED by what the code graph
\* says its files have an impact on; without a client, or an answer, impact is
\* the identity.  A story under an API constraint runs alone, one that touches
\* a hot file in sequence.
Parallelism == [parallel_safe |-> 0, parallel_with_barrier |-> 1, sequential |-> 2, exclusive |-> 3]
EnrichBrownfieldStory(story, impact, hot) ==
  LET writes == impact[story.writes]
      class == IF story.constrained THEN "exclusive" ELSE story.parallelism
  IN IF ~story.brownfield THEN story
     ELSE [story EXCEPT !.writes = writes,
             !.parallelism = IF writes \cap hot # {} /\ class # "exclusive" THEN "sequential" ELSE class]
\* No story is made to run less alone than it was.
ASSUME EnrichAssumption ==
  \A story \in [brownfield : BOOLEAN, constrained : BOOLEAN, writes : SUBSET {1, 2},
                 parallelism : DOMAIN Parallelism],
     impact \in [SUBSET {1, 2} -> SUBSET {1, 2}], hot \in SUBSET {1, 2} :
    Parallelism[EnrichBrownfieldStory(story, impact, hot).parallelism] >= Parallelism[story.parallelism]
=============================================================================
