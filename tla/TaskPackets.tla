------------------------------ MODULE TaskPackets ------------------------------
(* The Supervisor, which routes and dispatches and never acts: the decision    *)
(* table of the next action, the packet of a developer and the packet of a     *)
(* debugger, both rendered from the story's contract without a model, and the  *)
(* summary of a cycle.                                                         *)
EXTENDS CodeIndex

CONSTANTS
  Frontend, Backend,  \* files whose path or suffix says so
  Plain,              \* names of a write set that are files, not patterns
  Genes               \* signals of failure genes that match a story

ASSUME PathsAssumption == Frontend \cup Backend \cup Plain \subseteq Files

Essentials == {"objective", "allowed_write_set", "acceptance_criteria", "validation_commands",
               "rollback_notes"}
Complexities == {"trivial", "small", "medium", "large", "xlarge"}
\* `given` are the fields that are not empty.
Contract == [given : SUBSET (Essentials \cup {"story_id"}), write_set : SUBSET Files,
             symbols : SUBSET Files, do_not_touch : SUBSET Files, consumes : SUBSET Files,
             complexity : Complexities]
ValidateStoryReady(c) == Essentials \ c.given
MissingFields(c) == ValidateStoryReady(c) \cup ({"story_id"} \ c.given)

-----------------------------------------------------------------------------
(* Routing. *)

Situation ==
  [ready : BOOLEAN,
   issue : {"none", "ordinary", "grave"},           \* security or critical
   denied : {"none", "denied", "needs_scope"},
   report : {"none", "passed", "failed"},
   repair : {"none", "within", "needs_scope", "outside"},
   developer : {"none", "patch", "no_patch"},
   repeated : BOOLEAN, exhausted : BOOLEAN]         \* against the budgets

\* The rows of the table, in their order: the first that applies decides.
DecisionTable(s) ==
  << <<~s.ready, "replan">>,
     <<s.issue = "grave", "ask_human">>,
     <<s.issue = "ordinary", "call_debugger">>,
     <<s.denied = "needs_scope", "ask_human">>,
     <<s.denied = "denied", "abort_attempt">>,
     <<s.report = "passed", "checkpoint">>,
     <<s.report = "failed" /\ (s.repeated \/ s.exhausted), "ask_human">>,
     <<s.report = "failed", "call_debugger">>,
     <<s.repair = "needs_scope", "ask_human">>,
     <<s.repair = "within", "validate">>,
     <<s.developer = "patch" /\ s.report = "none", "validate">>,
     <<s.ready /\ s.developer = "none", "call_developer">>,
     <<TRUE, "wait">> >>
DecideNextAction(s) ==
  LET rows == DecisionTable(s)
      first == CHOOSE i \in DOMAIN rows : rows[i][1] /\ \A j \in 1..i - 1 : ~rows[j][1]
  IN rows[first][2]

\* The table never checkpoints what was not validated, never repairs past a
\* budget a failed report met, and lets nothing but a person's decision follow a
\* grave issue (supervisor-runtime, decideNextAction).
RoutingAssumption ==
  \A s \in Situation :
    LET next == DecideNextAction(s)
    IN /\ next = "checkpoint" => s.report = "passed" /\ s.issue = "none" /\ s.denied = "none"
       /\ next = "call_debugger" =>
            s.issue = "ordinary" \/ (s.report = "failed" /\ ~s.exhausted /\ ~s.repeated)
       /\ s.ready /\ s.issue = "grave" => next = "ask_human"
ASSUME RoutingAssumption

-----------------------------------------------------------------------------
(* Packets. *)

InferTaskDomains(ws) ==
  LET named == (IF ws \cap Frontend = {} THEN {} ELSE {"frontend"}) \cup
               (IF ws \cap Backend = {} THEN {} ELSE {"backend"})
  IN IF named = {} THEN {"backend"} ELSE named
InferNeedsLongContext(ws, complexity) ==
  Cardinality(ws) >= 4 \/ complexity \in {"large", "xlarge"}
InferTaskSignals(c) ==
  [domains |-> InferTaskDomains(c.write_set),
   needs_long_context |-> InferNeedsLongContext(c.write_set, c.complexity)]

IncludeRefs(refs, genes) ==
  {<<"story_contract", "story">>} \cup {<<"section", r>> : r \in refs} \cup {<<"avoid", g>> : g \in genes}

ComposeDeveloperTaskPacket(c, refs, genes, located) ==
  [target_agent |-> "developer", allowed_write_set |-> c.write_set,
   do_not_touch |-> c.do_not_touch \cup located.do_not_touch,
   relevant_files |-> located.relevant_files,
   include_refs |-> IncludeRefs(refs, genes),
   task_signals |-> InferTaskSignals(c)]

\* Only names of files can be asked of the index.
ComposeWithCodegraph(c, refs, genes, engine) ==
  ComposeDeveloperTaskPacket(c, refs, genes,
    LocateRelevantCode(c.write_set \cap Plain, c.symbols, engine))

\* Where what the story consumes lives now goes to the developer with it.
ForwardContractContext(c, engine) ==
  LET located == LocateContracts(c.consumes, engine, {})
  IN UNION {located[f] : f \in DOMAIN located}

\* The repair is confined to what the failing diff changed, whether or not that
\* was in the write set, and to the write set when it changed nothing.
ComposeDebuggerTaskPacket(c, changed, refs, genes, investigation) ==
  [target_agent |-> "debugger",
   allowed_repair_scope |-> IF changed # {} THEN changed ELSE c.write_set,
   investigation_only |-> investigation,
   failure_gene |-> genes,
   include_refs |-> IncludeRefs(refs, genes)]

\* A packet conforms when it has what its envelope's schema requires.
SharedFields == {"packet_id", "story_id", "story_contract_ref", "target_agent", "forbidden_actions",
                 "context_packet", "output_required"}
Envelope ==
  [developer |-> SharedFields \cup
     {"task_title", "task_goal", "task_details", "allowed_write_set", "required_files",
      "validation_commands", "acceptance_criteria", "rollback_requirement"},
   debugger |-> SharedFields \cup
     {"debug_goal", "investigation_only", "failure_context", "allowed_repair_scope",
      "required_analysis", "failure_gene", "acceptance_that_failed", "do_not_touch"}]
TaskPacketEnvelopeErrors(fields, target, agent) ==
  (Envelope[agent] \ fields) \cup (IF target = agent THEN {} ELSE {"target_agent"})

\* A packet of all fields conforms for the agent it targets and for no other,
\* and one agent's fields are not enough for the other.
ASSUME EnvelopeAssumption ==
  \A agent, target \in DOMAIN Envelope :
    /\ (TaskPacketEnvelopeErrors(Envelope["developer"] \cup Envelope["debugger"], target, agent) = {}) <=> agent = target
    /\ (TaskPacketEnvelopeErrors(Envelope[agent], target, target) = {}) <=> agent = target

-----------------------------------------------------------------------------
(* The summary of a cycle: fields that are named are copied, the free text of  *)
(* the next action and the line made of all of them are redacted.             *)
Cycle == [story_id : {"plain", "secret"}, validation : {"plain", "secret", "absent"},
          next : {"plain", "secret", "absent"}, status : {"plain", "secret", "absent"}]
RedactSecrets(texts) == (texts \ {"secret"}) \cup {"plain"}
SummarizeProgress(cycle) ==
  [next_action |-> RedactSecrets({cycle.next}),
   summary |-> RedactSecrets({cycle.story_id, cycle.validation, cycle.next}),
   copied |-> {cycle.story_id, cycle.validation, cycle.status}]
ASSUME SummaryAssumption ==
  \A cycle \in Cycle :
    "secret" \notin SummarizeProgress(cycle).summary \cup SummarizeProgress(cycle).next_action
=============================================================================
