---------------------------- MODULE ContextPackets ----------------------------
(* What the context manager puts before an agent besides its task: the         *)
(* sections its role asks for, the project's conventions and as-is documents,  *)
(* what crosses from an earlier story, and the phase of the harness a strategy *)
(* of compression would be picked by.  Sections are names here: what an agent  *)
(* may see is decided by the name of a section, never by its text.             *)
EXTENDS Integers, Sequences, FiniteSets

RequiredContextSections ==
  [planning_steward |-> {"raw_idea", "known_constraints", "source_type"},
   supervisor |-> {"project_status", "story_goal", "codegraph_summary", "invariants"},
   developer |-> {"story_contract", "relevant_files", "allowed_write_set", "validation_commands",
                  "failure_genes"},
   debugger |-> {"failed_logs", "current_patch", "affected_codegraph", "debug_attempts",
                 "matching_failure_genes"},
   reviewer |-> {"failing_test_output", "acceptance_criteria", "diff_under_review", "gene_signals"}]
BuildRoleContextPacket(role, available) == available \cap RequiredContextSections[role]

\* An artifact is refused for text that holds a secret or for having no source.
Artifact == [sourced : BOOLEAN, secret : BOOLEAN]
ContextErrors(packet) == {a \in packet : ~a.sourced \/ a.secret}

-----------------------------------------------------------------------------
(* Grants of the fresh judges and of the next story. *)

GrantedTo == [assessor |-> {"requirement_intent", "delivered_result", "delivered_tests"},
              debugger |-> {"failing_output", "acceptance_criteria", "diff_under_review",
                            "matching_failure_genes"}]
DeniedTo == [assessor |-> {"implementation_history", "develop_history", "agent_reasoning",
                           "developer_reasoning", "debugger_reasoning", "rejected_approach_rationale"},
             debugger |-> {"developer_reasoning", "agent_reasoning", "implementation_history",
                           "develop_history", "prior_debug_reasoning", "debug_attempts_reasoning",
                           "rejected_approach_rationale"}]
BuildFreshPacket(judge, available) == available \cap GrantedTo[judge]

\* The reviewer's sections are the fields of its input; the goal and the write
\* set come for reference when the story has them.
ReviewerDenied == {"implementation_history", "agent_reasoning", "rejected_approach_rationale"}
BuildReviewerPacket(has_objective, ws) ==
  {"failing_test_output", "acceptance_criteria", "diff_under_review", "gene_signals"} \cup
  (IF has_objective THEN {"story_objective"} ELSE {}) \cup
  (IF ws # {} THEN {"write_set_scope"} ELSE {})

\* A next story inherits all that is not on the list of what is denied: the
\* handoff card, and any other section whose name nobody thought of.
CrossStoryDenied ==
  {"prior_story_reasoning", "prior_developer_reasoning", "prior_debugger_reasoning",
   "prior_debug_narrative", "prior_transcript", "prior_agent_reasoning", "prior_rationale",
   "developer_reasoning", "debugger_reasoning", "debug_narrative", "transcript",
   "implementation_history", "agent_reasoning", "rejected_approach_rationale"}
BuildNextStoryInherited(available) == available \ CrossStoryDenied

\* A grant list keeps out what the list of denials of the same agent names, and
\* what it does not name as well; the list of the next story keeps out only the
\* names on it (context-manager, assertAssessorContextClean,
\* assertDebuggerContextFresh, assertReviewerContextClean).
Process == CrossStoryDenied \cup UNION {DeniedTo[judge] : judge \in DOMAIN DeniedTo}
ASSUME GrantAssumption ==
  /\ \A judge \in DOMAIN GrantedTo : BuildFreshPacket(judge, Process \cup GrantedTo[judge]) \cap Process = {}
  /\ \A goal \in BOOLEAN, ws \in SUBSET {"file"} : BuildReviewerPacket(goal, ws) \cap ReviewerDenied = {}
  /\ BuildNextStoryInherited(Process) = {"develop_history", "prior_debug_reasoning", "debug_attempts_reasoning"}

-----------------------------------------------------------------------------
(* Conventions and documents. *)

\* Each is the first of its list that the repository has.
FirstOf(list, present, other) ==
  LET at == {i \in DOMAIN list : list[i] \in present}
  IN IF at = {} THEN other ELSE list[CHOOSE i \in at : \A j \in at : i <= j]

\* The runner of tests is looked for among the development dependencies only; a
\* summary that is redacted names four of these.
ExtractProjectProfile(entries, devDeps, deps) ==
  LET all == devDeps \cup deps
      framework == FirstOf(<<"vitest", "jest", "mocha">>, devDeps, "unknown")
      src == FirstOf(<<"src", "lib", "source">>, entries, "src")
      test == FirstOf(<<"test", "tests", "__tests__", "spec">>, entries, "test")
  IN [src_dir |-> src, test_dir |-> test, framework |-> framework,
      test_pattern |-> CASE framework = "mocha" -> "**/*.spec.ts"
                         [] framework \in {"vitest", "jest"} -> "**/*.test.ts"
                         [] OTHER -> "**/*.test.*",
      co_located |-> test = src,
      build_tool |-> FirstOf(<<"vite", "tsc", "webpack", "esbuild", "rollup">>, all, "unknown"),
      lint_tool |-> FirstOf(<<"eslint", "biome", "tslint">>, all, "none"),
      formatter |-> FirstOf(<<"prettier", "biome">>, all, "none"),
      language |-> IF {"typescript", "@types/node"} \cap all # {} THEN "typescript" ELSE "javascript",
      lint_config |-> entries \cap {".eslintrc", "eslint.config", "biome.json", ".prettierrc",
                                    "prettier.config"}]
InjectProjectProfile(role, sections) ==
  IF role \in {"developer", "debugger"} THEN sections \cup {"project_conventions"} ELSE sections

\* The lists of directories share no name, so tests are never found beside the
\* sources they test, whatever the repository holds.
ASSUME ProfileAssumption ==
  \A entries \in SUBSET {"src", "lib", "test", "spec"} : ~ExtractProjectProfile(entries, {}, {}).co_located

\* A brownfield story reads the as-is documents that exist, a patch also the
\* impact.  It starts from no section at all, not from those of its role.
BuildModeAwarePacket(role, mode, profiled, docs, impacted) ==
  LET start == BuildRoleContextPacket(role, {})
      known == IF profiled THEN InjectProjectProfile(role, start) ELSE start
  IN known \cup
     (IF mode \in {"brownfield", "patch"} THEN docs \cap {"as-is/ARCHITECTURE.md", "as-is/CONVENTIONS.md"}
      ELSE {}) \cup
     (IF mode = "patch" /\ impacted # {} THEN {"impact-set"} ELSE {})

-----------------------------------------------------------------------------
(* Phases. *)

Statuses == {"todo", "in_progress", "validating", "debugging", "passed", "checkpointed", "blocked",
             "escalated", "done", "none"}
Signals == [phase : {"none", "planning"}, status : Statuses, passed : {"yes", "no", "none"},
            failures : 0..1, escalate : BOOLEAN, marker : BOOLEAN]
PhaseTable(s) ==
  << <<s.phase # "none", s.phase>>,
     <<s.marker \/ s.status = "checkpointed", "checkpointing">>,
     <<s.status = "done", "done">>,
     <<s.escalate \/ s.status \in {"escalated", "blocked"}, "escalating">>,
     <<s.failures > 0 \/ s.passed = "no" \/ s.status = "debugging", "debugging">>,
     <<s.passed = "yes" \/ s.status \in {"validating", "passed"}, "validating">>,
     <<s.status = "in_progress", "developing">>,
     <<s.status = "todo", "planning">>,
     <<TRUE, "unknown">> >>
DetectPhase(s) ==
  LET rows == PhaseTable(s)
      first == CHOOSE i \in DOMAIN rows : rows[i][1] /\ \A j \in 1..i - 1 : ~rows[j][1]
  IN rows[first][2]
LifecycleToTrajectory(phase) ==
  CASE phase = "debugging" -> "stuck"
    [] phase \in {"checkpointing", "done"} -> "terminal"
    [] OTHER -> "search"
PickStrategy(trajectory) ==
  [search |-> "keep_last_n", terminal |-> "summarize_chain", stuck |-> "aggressive_discard"][trajectory]

\* Context is discarded aggressively only while something fails, and a failure
\* that a person or a marker has taken over no longer discards any.
ASSUME StrategyAssumption ==
  \A s \in Signals :
    PickStrategy(LifecycleToTrajectory(DetectPhase(s))) = "aggressive_discard" =>
      /\ s.failures > 0 \/ s.passed = "no" \/ s.status = "debugging"
      /\ ~s.escalate /\ ~s.marker

\* The contract and the genes come back at every tenth call, the rules at every
\* twentieth, the first call among them.
ShouldReinject(call, everyContract, everyRules) ==
  [contract |-> call % everyContract = 0, rules |-> call % everyRules = 0]

-----------------------------------------------------------------------------
(* Compaction of sections by pointer: a section on the list of pinned names or *)
(* pinned by its flag is kept as it is, of the others the summary and the      *)
(* pointer to the trace.                                                       *)
PinnedNames == {"arch_decisions", "story_invariants", "global_gate_statuses", "inbound_handoff_card",
                "acceptance_intent"}
CompactPointerSafe(sections) ==
  LET kept == {s \in sections : s.pinned \/ s.name \in PinnedNames}
  IN [pinned |-> kept,
      compacted |-> {[name |-> s.name, resolvable |-> s.traced] : s \in sections \ kept}]

\* Only what had a pointer before compaction can be resolved after it; the card
\* a story inherits is not pinned by the name it crosses under
\* (context-manager, assertCompactionPointerSafe, CROSS_STORY_GRANTED_SECTION).
Traced == [name : PinnedNames \cup {"handoff_card", "notes"}, pinned : BOOLEAN, traced : BOOLEAN]
ASSUME PointerAssumption ==
  \A s \in Traced :
    LET after == CompactPointerSafe({s})
    IN /\ (\A c \in after.compacted : c.resolvable) <=> (after.pinned # {} \/ s.traced)
       /\ s.name = "handoff_card" /\ ~s.pinned => after.pinned = {}

\* A document may be written below any entry of the write set, which the check
\* strips of its trailing stars and takes as the beginning of a path.
AssertDocWriteSafe(below, ws) == below \cap ws # {}

\* A packet is refused for each of its artifacts that would be refused alone,
\* and a document outside every part of a write set is outside the whole.
ASSUME RefusalAssumption ==
  /\ \A some, more \in SUBSET Artifact :
       ContextErrors(some \cup more) = ContextErrors(some) \cup ContextErrors(more)
  /\ \A below, one, other \in SUBSET {"docs", "src"} :
       AssertDocWriteSafe(below, one \cup other) <=> AssertDocWriteSafe(below, one) \/ AssertDocWriteSafe(below, other)
=============================================================================
