---------------------------- MODULE AgentContext ----------------------------
(* What an agent is told.  The Supervisor locates a story's code and composes *)
(* the developer's packet; the developer's conversation is a window of turns  *)
(* that the context manager compacts; the assessor and the reviewer see the   *)
(* result only; what goes to the next story is the filtered summary of the    *)
(* window.  The catalog of skills changes under all of them, the index of the *)
(* code follows at checkpoints.  The packages are called one after the other  *)
(* by tests, scripts and the API; the order of a story here is the one of the *)
(* story workflow: compose, call, assess, review, checkpoint.                 *)
EXTENDS SkillCatalog, TaskPackets, ContextPackets

CONSTANTS
  Sections,   \* how many sections the caller pins at a compaction
  KeepFirst, KeepLast,  \* turns a compaction pins at either end
  NodeMax,    \* level1NodeTokenThreshold
  ChainMax,   \* level2ChainTokenThreshold
  SlideMax,   \* slidingWindowMaxTurns
  SkillBudget,\* tokens for skills, each of which takes one
  Intents,    \* behaviours of the acceptance intent
  TestRuns,   \* what the runs of the authored tests may return
  RawReports, \* what fields a reviewer model may return
  Code0,      \* the code of the workspace
  TurnKinds,  \* marks and sizes a turn may have
  Contracts,  \* stories that may be dispatched
  Machines,   \* where the supervisor may run, see Hosts
  Modes,      \* greenfield, brownfield, patch
  Docs,       \* as-is documents the repository has
  EveryContract, EveryRules,  \* calls between reminders
  MaxPasses,  \* the debugger's budget
  MaxCalls, MaxCompactions, MaxStories  \* bounds: of calls in all stories, of a story

Marks == {"none", "early", "late"}   \* where a turn's text names its reasoning
Sizes == 1..2
Turn == [calls : SUBSET (0..MaxCalls), size : Sizes, mark : Marks, pinned : BOOLEAN, cut : BOOLEAN]

ASSUME ContextAssumption ==
  /\ Sections \in Nat /\ KeepFirst \in Nat /\ KeepLast \in Nat \ {0}
  /\ {NodeMax, ChainMax, SlideMax, SkillBudget} \subseteq Nat
  /\ {MaxCalls, MaxCompactions, MaxStories} \subseteq Nat
  /\ Contracts \subseteq Contract /\ Machines \subseteq Hosts
  /\ MaxPasses \in Nat /\ {EveryContract, EveryRules} \subseteq Nat \ {0}
  /\ Code0 \in Uses /\ TurnKinds \subseteq [mark : Marks, size : Sizes]

VARIABLES
  story,     \* stories started
  phase,     \* where the current one is
  contract,  \* what it is to do
  base,      \* the code at its start
  packet,    \* what was dispatched for it
  prompt,    \* skills and reminders in the last prompt
  window,    \* the developer's conversation
  marks,     \* for each call made, the mark its turn had
  carried,   \* what the story before left in this one's packet
  verdict,   \* the assessor's
  seen,      \* what the last judge of the story was shown
  report,    \* the reviewer's
  passes,    \* of the debugger
  compactions,
  made       \* calls made in all stories, for the bound

ctx == <<story, phase, contract, base, packet, prompt, window, marks, carried, verdict,
         seen, report, passes, compactions, made>>
contextVars == <<catalog, ops, uses, index, synced, ctx>>

Calls == Len(marks)

-----------------------------------------------------------------------------
(* Compaction. *)

Total(turns) == FoldLeft(LAMBDA sum, t : sum + t.size, 0, turns)
Free(t) == ~t.pinned

\* The turns that stand at some places, in their order.
Place(at, n) == CHOOSE i \in at : Cardinality({j \in at : j <= i}) = n
Kept(turns, at) == [n \in 1..Cardinality(at) |-> turns[Place(at, n)]]

\* A turn that is cut keeps the beginning of its text.
SummarizeTurn(t) ==
  [t EXCEPT !.size = 1, !.cut = TRUE, !.mark = IF t.mark = "early" THEN "early" ELSE "none"]

\* Pinning at the ends is for good.
CompressLargeNodes(turns) ==
  [i \in DOMAIN turns |->
     CASE turns[i].pinned -> turns[i]
       [] Free(turns[i]) /\ (i <= KeepFirst \/ i > Len(turns) - KeepLast) ->
            [turns[i] EXCEPT !.pinned = TRUE]
       [] OTHER -> IF turns[i].size > NodeMax THEN SummarizeTurn(turns[i]) ELSE turns[i]]

\* The text of all free turns is joined and cut where `upto` of them are whole.
MergeAndSummarize(turns, upto) ==
  IF turns = <<>> THEN <<>>
  ELSE LET whole == SubSeq(turns, 1, Min({upto, Len(turns)}))
           shown == whole \o (IF upto < Len(turns) THEN <<SummarizeTurn(turns[upto + 1])>> ELSE <<>>)
           named == {i \in DOMAIN shown : shown[i].mark # "none"}
       IN << [calls |-> UNION {shown[i].calls : i \in DOMAIN shown}, size |-> 1,
              mark |-> IF named = {} THEN "none" ELSE IF Min(named) = 1 THEN shown[1].mark ELSE "late",
              pinned |-> FALSE, cut |-> TRUE] >>

CompressChain(turns, upto) ==
  LET free == {i \in DOMAIN turns : Free(turns[i])}
  IN IF Total(turns) <= ChainMax THEN turns
     ELSE Kept(turns, DOMAIN turns \ free) \o MergeAndSummarize(Kept(turns, free), upto)

\* The oldest free turns beyond the limit are dropped, wherever they stand.
\* Mutant: the oldest of all turns are dropped.
ApplySlidingWindowOnAll(turns) == SubSeq(turns, Max({1, Len(turns) - SlideMax + 1}), Len(turns))
ApplySlidingWindow(turns) ==
  LET free == {i \in DOMAIN turns : Free(turns[i])}
      excess == Cardinality(free) - SlideMax
      dropped == {i \in free : Cardinality({j \in free : j <= i}) <= excess}
  IN Kept(turns, DOMAIN turns \ dropped)

\* Every compaction puts the pinned sections in front once more, so that they
\* count among the first turns.
PinnedZone == [n \in 1..Sections |->
  [calls |-> {0}, size |-> 1, mark |-> "none", pinned |-> TRUE, cut |-> FALSE]]
CompactContextWindow(turns, upto) ==
  ApplySlidingWindow(CompressChain(CompressLargeNodes(PinnedZone \o turns), upto))

\* What a story leaves to the next: turns that do not name their reasoning, cut
\* unless they are pinned.
InjectOwnSummary(turns) ==
  LET told == {t \in Range(turns) : t.mark = "none"}
  IN {[reasons |-> \E c \in t.calls \ {0} : marks[c] # "none", cut |-> t.cut] : t \in told}
Carried == [reasons : BOOLEAN, cut : BOOLEAN]

-----------------------------------------------------------------------------
(* Packets. *)

\* In dependency order, each that still fits.
EnforceTokenBudget(order) == {order[n] : n \in {m \in DOMAIN order : m <= SkillBudget}}

\* A report that claims a write set or sets a goal loses the claim; one that
\* lacks a required field is traced as invalid all the same.
Authority == {"write_set", "allowed_write_set", "acceptance_criteria", "story_goal", "objective"}
RequiredFields == {"report_id", "story_id", "failure_classification", "root_cause_hypotheses",
                   "improvement_directions", "do_not_touch", "referenced_gene_signals",
                   "reviewer_model", "reviewed_at"}
RunReviewer(raw) ==
  [fields |-> (raw \ Authority) \cup {"test_validity_findings"}, valid |-> RequiredFields \subseteq raw]
NoReport == [fields |-> {}, valid |-> FALSE]

\* An intent is satisfied as its last result says.
LastResult(results, intent) ==
  FoldLeft(LAMBDA passed, r : IF r.intent = intent THEN r.passed ELSE passed, FALSE, results)
Satisfied(results) == {i \in Intents : LastResult(results, i)}
Verdict(results) ==
  IF Satisfied(results) = Intents /\ Intents # {} THEN "pass" ELSE "fail"

NoPacket == [task |-> [target_agent |-> "none"], sections |-> {}]
Offered == Process \cup UNION {GrantedTo[judge] : judge \in DOMAIN GrantedTo}

-----------------------------------------------------------------------------
(* A story. *)

ContextInit ==
  /\ InitCatalog /\ InitIndex(Code0)
  /\ story = 0 /\ carried = {} /\ made = 0
  /\ phase = "idle" /\ contract = {} /\ base = Code0 /\ packet = NoPacket
  /\ prompt = <<>> /\ window = <<>> /\ marks = <<>>
  /\ verdict = "none" /\ seen = {} /\ report = NoReport /\ passes = 0 /\ compactions = 0

Target == UNION {c.write_set : c \in contract}
Changed == {f \in Files : uses[f] # base[f]}

\* What the decision table is shown of a story.
Now(denied) ==
  [ready |-> phase # "idle", issue |-> "none", denied |-> denied,
   report |-> [none |-> "none", pass |-> "passed", fail |-> "failed"][verdict],
   repair |-> IF passes = 0 THEN "none" ELSE "within",
   developer |-> IF Calls = 0 THEN "none" ELSE "patch",
   repeated |-> FALSE, exhausted |-> passes >= MaxPasses]
Decided(action) == DecideNextAction(Now("none")) = action

Control ==
  /\ \E req \in Requests : HandleSkillControl(req)
  /\ UNCHANGED <<uses, index, synced, ctx>>

\* What a developer is told besides its task.
Sections0(mode, task) ==
  BuildModeAwarePacket("developer", mode, TRUE, Docs, task.do_not_touch)
  \cup BuildNextStoryInherited(IF story > 0 THEN {"handoff_card", "prior_transcript"} ELSE {})
  \cup (IF carried # {} THEN {"own_previous_story_summary"} ELSE {})

\* A contract with a field missing is not dispatched.
StartStory(c, mode, host) ==
  /\ phase = "idle" /\ story < MaxStories
  /\ MissingFields(c) = {}
  /\ story' = story + 1 /\ phase' = "developing"
  /\ contract' = {c} /\ base' = uses
  /\ LET task == ComposeWithCodegraph(c, {}, Genes, EngineAvailable(host))
     IN packet' = [task |-> [task EXCEPT !.relevant_files =
                               @ \cup ForwardContractContext(c, EngineAvailable(host))],
                   sections |-> Sections0(mode, task)]
  /\ UNCHANGED <<catalog, ops, uses, index, synced, prompt, window, marks, carried, verdict,
                 seen, report, passes, compactions, made>>

\* Each call mounts the skills of that moment and adds a turn.
Call(kind, order) ==
  /\ phase = "developing" /\ made < MaxCalls /\ made' = made + 1
  /\ prompt' = <<EnforceTokenBudget(order), Avoided, ShouldReinject(Calls, EveryContract, EveryRules)>>
  /\ marks' = Append(marks, kind.mark)
  /\ window' = Append(window, [calls |-> {Calls + 1}, size |-> kind.size, mark |-> kind.mark,
                               pinned |-> FALSE, cut |-> FALSE])
  /\ UNCHANGED <<catalog, ops, uses, index, synced, story, phase, contract, base, packet,
                 carried, verdict, seen, report, passes, compactions>>

Compact(upto) ==
  /\ phase = "developing" /\ window # <<>> /\ compactions < MaxCompactions
  /\ window' = CompactContextWindow(window, upto)
  /\ compactions' = compactions + 1
  /\ UNCHANGED <<catalog, ops, uses, index, synced, story, phase, contract, base, packet,
                 prompt, marks, carried, verdict, seen, report, passes, made>>

\* The patch gives a file of the write set, or of the repair's scope, a use of
\* another file, or drops one.
Writable ==
  IF packet.task.target_agent = "debugger" THEN packet.task.allowed_repair_scope ELSE Target
Edit(f, g) ==
  /\ phase = "developing" /\ f \in Writable /\ f # g /\ uses = base
  /\ uses' = [uses EXCEPT ![f] = IF g \in @ THEN @ \ {g} ELSE @ \cup {g}]
  /\ UNCHANGED <<catalog, ops, index, synced, ctx>>

Assess(results) ==
  /\ phase = "developing" /\ Decided("validate")
  /\ phase' = "assessed"
  /\ seen' = BuildFreshPacket("assessor", Offered)
  /\ verdict' = Verdict(results)
  /\ UNCHANGED <<catalog, ops, uses, index, synced, story, contract, base, packet, prompt,
                 window, marks, carried, report, passes, compactions, made>>

\* The reviewer advises on a failed story.
Review(raw) ==
  /\ phase = "assessed" /\ verdict = "fail"
  /\ seen' = BuildReviewerPacket(TRUE, Target)
  /\ report' = RunReviewer(raw)
  /\ UNCHANGED <<catalog, ops, uses, index, synced, story, phase, contract, base, packet, prompt,
                 window, marks, carried, verdict, passes, compactions, made>>

\* Every pass of the debugger starts from the result alone; it answers the report.
Debug ==
  /\ phase = "assessed" /\ Decided("call_debugger")
  /\ phase' = "developing" /\ verdict' = "none" /\ passes' = passes + 1
  /\ seen' = BuildFreshPacket("debugger", Offered)
  /\ \E c \in contract :
       packet' = [packet EXCEPT !.task = ComposeDebuggerTaskPacket(c, Changed, {}, Genes, FALSE)]
  /\ UNCHANGED <<catalog, ops, uses, index, synced, story, contract, base, prompt,
                 window, marks, carried, report, compactions, made>>

Close ==
  /\ phase' = "idle" /\ contract' = {} /\ base' = Code0 /\ packet' = NoPacket
  /\ prompt' = <<>> /\ window' = <<>> /\ marks' = <<>>
  /\ verdict' = "none" /\ seen' = {} /\ report' = NoReport /\ passes' = 0 /\ compactions' = 0
  /\ carried' = InjectOwnSummary(window)

Accept(ok) ==
  /\ phase = "assessed" /\ Decided("checkpoint")
  /\ CheckpointSync(ok)
  /\ Close
  /\ UNCHANGED <<catalog, ops, uses, story, made>>

\* Rolled back to the code the story started from, which the index was to know:
\* after a denial, or when a person is to decide.
Abort(denied) ==
  /\ DecideNextAction(Now(denied)) \in {"abort_attempt", "ask_human"}
  /\ uses' = base
  /\ Close
  /\ UNCHANGED <<catalog, ops, index, synced, story, made>>

ContextNext ==
  \/ Control
  \/ \E c \in Contracts, mode \in Modes, host \in Machines : StartStory(c, mode, host)
  \/ \E kind \in TurnKinds, order \in DependencyOrders(Mounted) : Call(kind, order)
  \/ \E upto \in 0..Len(window) : Compact(upto)
  \/ \E f, g \in Files : Edit(f, g)
  \/ \E results \in TestRuns : Assess(results)
  \/ \E raw \in RawReports : Review(raw)
  \/ Debug
  \/ \E ok \in BOOLEAN : Accept(ok)
  \/ \E denied \in {"none", "denied"} : Abort(denied)

ContextSpec == ContextInit /\ [][ContextNext]_contextVars

-----------------------------------------------------------------------------
Phases == {"idle", "developing", "assessed"}
ContextTypeOK ==
  /\ CatalogOK /\ IndexOK
  /\ story \in 0..MaxStories /\ phase \in Phases /\ contract \subseteq Contracts /\ base \in Uses
  /\ packet.task.target_agent \in {"none", "developer", "debugger"}
  /\ Len(prompt) \in {0, 3} /\ passes \in 0..MaxPasses
  /\ window \in Seq(Turn) /\ marks \in Seq(Marks) /\ Len(marks) <= MaxCalls
  /\ carried \subseteq Carried /\ verdict \in {"none", "pass", "fail"}
  /\ seen \cap (Process \cup ReviewerDenied) = {}
  /\ report = NoReport \/ report.fields \cap Authority = {}
  /\ compactions \in 0..MaxCompactions /\ made \in Len(marks)..MaxCalls

\* The first and the newest call of a conversation stay in the window word for
\* word through every compaction, as long as the sections pinned in front of
\* them leave room among the first turns (docs/architecture/04: "first 3 + last
\* 5 turns never compressed"; context-manager, compactContextWindow).
EndsVerbatim ==
  Calls > 0 /\ Sections < KeepFirst =>
    \A c \in {1, Calls} : \E t \in Range(window) : t.calls = {c} /\ ~t.cut

\* A story located with the engine after a sync that succeeded is told of every
\* file that calls into the one it writes, unless that one only exports what
\* the pattern for exports does not see (codegraph-client, codegraph-adapter).
TellsOfDependents ==
  \A c \in Contracts, mode \in Modes, host \in Machines :
    StartStory(c, mode, host) /\ EngineAvailable(host) /\ synced
      => DirectUsers(uses, (c.write_set \cap Plain) \ TypesOnly)
           \subseteq packet'.task.do_not_touch \cup c.write_set
PreservesDependents == [][TellsOfDependents]_contextVars

=============================================================================
