----------------------------- MODULE StoryIntake -----------------------------
(* How work gets into a run and is let go: an idea becomes a planning bundle  *)
(* and a backlog (planning-steward, dryrun), defect reports, scope changes    *)
(* and the frontend question add stories, the Story Manager admits them, a    *)
(* finished story is checked (validator-suite) and recorded (harness-core),   *)
(* and the first story's developer keeps subtasks (task-graph).  These        *)
(* packages share no state but the tracker's records; who starts a story,     *)
(* ends it and counts the iterations is outside of them and is the            *)
(* environment of this module.                                                *)
(*                                                                            *)
(* A story is known by its rank among the story ids, which is what the        *)
(* admission depends on: repairs, then scope changes, then the showcase, then *)
(* the backlog of the bundle (S sorts before b).  A write set is the set of   *)
(* places it covers; the project's root covers every component's source.      *)
EXTENDS Integers, Sequences, FiniteSets

CONSTANTS
  Ideas,            \* the ideas that may be submitted
  Reports,          \* how many defect reports
  Messages,         \* what may be written to the console
  Holdable,         \* stories a human may hold
  Waved,            \* stories that belong to a wave
  MaxWip,           \* maxWipPerEpic
  IterationBudget,  \* admissions the run has iterations for
  RequiredChecks,   \* checks of the quality bar
  HasCoverage,      \* whether the runner can measure coverage
  OldTests,         \* tests of an imported repository
  MaxExtra,         \* bound: stories beside the backlog
  Restartable,      \* bound: stories that are started again, once each
  Breakable,        \* bound: tests that a story's change may break or mend
  MaxTasks          \* bound: subtasks

ASSUME IntakeAssumption ==
  /\ Reports \in 0..9
  /\ MaxWip \in Nat /\ IterationBudget \in Nat /\ HasCoverage \in BOOLEAN
  /\ MaxExtra \in Nat /\ MaxTasks \in Nat
  /\ RequiredChecks \subseteq {"build", "test", "typecheck", "coverage"}

VARIABLES
  bundle,    \* the bundle in hand
  stories,   \* the tracker's stories, by rank
  held,      \* stories under a human hold
  open,      \* whether the wave is open
  used,      \* iterations used
  again,     \* stories that were started when they did not wait
  judged,    \* stories that passed the checks and are not recorded yet
  passed,    \* RegressionRegistry: the stories whose tests are rerun
  failing,   \* tests that fail on the accepted code
  baseline,  \* the tests that passed when the baseline was captured
  tasks      \* subtasks of the first story

checks == <<judged, passed, failing, baseline>>
intakeVars == <<bundle, stories, held, open, used, again, checks, tasks>>

Subtasks == INSTANCE TaskGraph

-----------------------------------------------------------------------------
(* Ideas and bundles. *)

Markers == {"reference", "checkpoint", "bug", "existing"}
Answers == {"goals", "non_goals", "users", "constraints"}
Idea == [blank : BOOLEAN, injected : BOOLEAN, secret : {"none", "field", "idea_id"},
         markers : SUBSET Markers, answered : SUBSET Answers]

\* The first marker that is there decides.
ClassifyIdea(markers) ==
  IF "reference" \in markers THEN "research_spike"
  ELSE IF "checkpoint" \in markers THEN "checkpoint"
  ELSE IF "bug" \in markers THEN "patch"
  ELSE IF "existing" \in markers THEN "brownfield" ELSE "greenfield"

\* Components of the architecture of a mode, in their sorted order.
ArchByMode == [greenfield |-> 1..3, brownfield |-> 1..3, patch |-> 1..2,
               checkpoint |-> 1..2, research_spike |-> 1..2]
Modes == DOMAIN ArchByMode

\* What the input does not say is asked.
OpenDecisions(answered) == {"goals", "users", "constraints"} \ answered

\* The secret check does not read an idea_id the caller brings.
Refused(idea) == idea.blank \/ idea.secret = "field" \/ idea.injected
CreatePlanningBundle(idea) ==
  [mode |-> ClassifyIdea(idea.markers), open |-> OpenDecisions(idea.answered),
   secret |-> idea.secret = "idea_id"]
\* Nothing that is refused would have been asked back: a bundle holds a secret
\* only where it came as an idea_id.
ASSUME IdeaAssumption ==
  \A idea \in Idea : ~Refused(idea) =>
    (CreatePlanningBundle(idea).secret <=> idea.secret # "none")
NoBundle == [mode |-> "none", open |-> {}, secret |-> FALSE]
Bundles == {NoBundle} \cup
  [mode : Modes, open : SUBSET Answers, secret : BOOLEAN]

\* A backlog is made when nothing is left to ask.
Generates(b) == b # NoBundle /\ b.open = {} /\ ~b.secret

-----------------------------------------------------------------------------
(* Stories. *)

RepairId(report) == report
ScopeId(slug) == 10 + slug
Showcase == 20
Foundation == 30
ImplOf(c) == 29 + 2 * c
TestOf(c) == 30 + 2 * c
IntegrationOf(components) == 31 + 2 * Cardinality(components)
Planned == 30..39
Ids == 1..39
\* A test of the imported repository is no story's acceptance test, and the
\* stories of scope changes sort between the repairs and the showcase.
ASSUME InputAssumption ==
  /\ Ideas \subseteq Idea
  /\ OldTests \cap Ids = {}
  /\ Breakable \subseteq OldTests \cup Ids
  /\ \A m \in Messages : m.slug \in 1..9

\* Epics: 0 for a story without one, the number of a planned one, one a mode
\* for the stories of scope changes.
EpicOfScopeChange ==
  [greenfield |-> 101, brownfield |-> 102, patch |-> 103, checkpoint |-> 104, research_spike |-> 105]

SourceOf(c) == c
Root == 0..9
SrcTree == {10}
Dist == {11}
Places == 0..11

Status == {"todo", "in_progress", "debugging", "done", "escalated"}
Story == [epic : 0..105, deps : SUBSET Ids, places : SUBSET Places, class : {"planned", "brownfield", "other"},
          status : Status]
NewStory(epic, deps, places, class) ==
  [epic |-> epic, deps |-> deps, places |-> places, class |-> class, status |-> "todo"]

\* Mutant: the tests of a component are written beside it.
GeneratedStoriesBeside(components) ==
  [s \in {Foundation, IntegrationOf(components)} \cup {ImplOf(c) : c \in components} \cup {TestOf(c) : c \in components} |->
    IF s = Foundation THEN NewStory(1, {}, Root, "planned")
    ELSE IF s = IntegrationOf(components)
      THEN NewStory(Cardinality(components) + 2, {TestOf(c) : c \in components}, Root, "planned")
    ELSE LET c == (s - 29) \div 2 IN NewStory(c + 1, {Foundation}, {SourceOf(c)}, "planned")]

\* The scaffold, for every component its code and then its tests in the same
\* place, and the integration of all of them.
GeneratedStories(components) ==
  [s \in {Foundation, IntegrationOf(components)} \cup {ImplOf(c) : c \in components} \cup {TestOf(c) : c \in components} |->
    IF s = Foundation THEN NewStory(1, {}, Root, "planned")
    ELSE IF s = IntegrationOf(components)
      THEN NewStory(Cardinality(components) + 2, {TestOf(c) : c \in components}, Root, "planned")
    ELSE LET c == (s - 29) \div 2 IN
      NewStory(c + 1, {IF s = ImplOf(c) THEN Foundation ELSE ImplOf(c)}, {SourceOf(c)}, "planned")]

\* A defect that was not seen not to happen becomes a story: an error of the
\* reproduction counts as a defect.
BuildRepairStory(impacted) == NewStory(0, {}, IF impacted = {} THEN SrcTree ELSE impacted, "brownfield")
ScopeChangeStory(mode) ==
  NewStory(EpicOfScopeChange[mode], {}, SrcTree, IF mode = "brownfield" THEN "brownfield" ELSE "other")
ShowcaseStory == NewStory(0, {}, Dist, "other")

In(status) == {s \in DOMAIN stories : stories[s].status \in status}
AtWork == In({"in_progress", "debugging"})
Done == In({"done"})
Overlap(s, t) == stories[s].places \cap stories[t].places # {}

-----------------------------------------------------------------------------
IntakeInit ==
  /\ bundle = NoBundle /\ stories = <<>>
  /\ held = {} /\ open = FALSE /\ used = 0 /\ again = {}
  /\ judged = <<>> /\ passed = {} /\ failing \in SUBSET OldTests /\ baseline = {}
  /\ tasks = <<>>

Register(new) == stories' = [s \in DOMAIN stories \cup DOMAIN new |->
                               IF s \in DOMAIN stories THEN stories[s] ELSE new[s]]
Add(id, story) ==
  /\ Cardinality(DOMAIN stories \ Planned) < MaxExtra
  /\ Register([s \in {id} |-> story])
rest == <<bundle, held, open, used, again, checks, tasks>>

\* An idea that is refused leaves nothing behind; an idea whose bundle asks
\* questions is written again.
SubmitIdea(idea) ==
  /\ In(Status) \cap Planned = {}
  /\ ~Refused(idea)
  /\ bundle' = CreatePlanningBundle(idea)
  /\ UNCHANGED <<stories, held, open, used, again, checks, tasks>>

GenerateBacklog ==
  /\ In(Status) \cap Planned = {}
  /\ Generates(bundle)
  /\ Register(GeneratedStories(ArchByMode[bundle.mode]))
  /\ UNCHANGED rest

\* One stage's checklist: something to check and nothing that fails; an item
\* whose directive is not known fails.
EvaluateChecklist(items) == items # {} /\ items \subseteq {"pass"}
ItemResults == {"pass", "fail", "not_evaluable"}

\* The dry run stops at the first stage whose checklist is not complete; past
\* the last it makes the bundle and the backlog in one go.
DryRun(idea) ==
  /\ In(Status) \cap Planned = {}
  /\ \E checklists \in [{"prd", "architecture", "epics"} -> SUBSET ItemResults] :
       \A s \in DOMAIN checklists : EvaluateChecklist(checklists[s])
  /\ ~Refused(idea) /\ Generates(CreatePlanningBundle(idea))
  /\ bundle' = CreatePlanningBundle(idea)
  /\ Register(GeneratedStories(ArchByMode[bundle'.mode]))
  /\ UNCHANGED <<held, open, used, again, checks, tasks>>

\* What the test command shows of the report; without a defect no story.
TriageDefect(report, reproduction) ==
  /\ reproduction # "non_reproducible"
  /\ \E impacted \in {{}, {SourceOf(1)}} :
       Add(RepairId(report), BuildRepairStory(impacted))
  /\ UNCHANGED rest

\* What the console makes of a message: the first rule that matches.  A word
\* of the status vocabulary hides a scope change.
Words == {"verdict", "status", "scope", "command", "question"}
ClassifyConsoleMessage(words) ==
  IF words = {"verdict"} THEN "approval_response"
  ELSE IF "status" \in words THEN "status_query"
  ELSE IF "scope" \in words THEN "scope_change_request"
  ELSE IF "command" \in words THEN "status_query"
  ELSE IF words = {"question"} THEN "off_topic" ELSE "ambiguous"

\* Every message is one of these: only a verdict that says nothing else answers
\* a gate, and a status word hides a scope change.
ASSUME ConsoleAssumption ==
  \A said \in SUBSET Words :
    LET kind == ClassifyConsoleMessage(said)
    IN /\ kind = "approval_response" => said \ {"verdict"} = {}
       /\ kind = "scope_change_request" <=>
            "scope" \in said /\ "status" \notin said

\* Only a scope change has an effect.  Its story takes its id from the start
\* of the message and may not replace the one that runs; one that is there
\* already stays.
ProcessScopeChange(m) ==
  /\ ClassifyConsoleMessage(m.words) = "scope_change_request" /\ ~m.injected
  /\ ScopeId(m.slug) \notin In({"in_progress"})
  /\ Add(ScopeId(m.slug), ScopeChangeStory(ClassifyIdea(m.markers)))
  /\ UNCHANGED rest

AskFrontendStage ==
  /\ Add(Showcase, ShowcaseStory)
  /\ UNCHANGED rest

\* A human holds and releases stories that wait, and opens the wave.
Hold(s) ==
  /\ s \in In({"todo"})
  /\ held' = IF s \in held THEN held \ {s} ELSE held \cup {s}
  /\ UNCHANGED <<bundle, stories, open, used, again, checks, tasks>>
OpenWave ==
  /\ open' = TRUE
  /\ UNCHANGED <<bundle, stories, held, used, again, checks, tasks>>

-----------------------------------------------------------------------------
(* Admission. *)

DepsDone(s) == stories[s].deps \subseteq Done
\* Mutant: stories that ended count as running.
WipAvailableOnce(s) ==
  Cardinality({t \in DOMAIN stories \ In({"todo"}) : stories[t].epic = stories[s].epic}) < MaxWip
WipAvailable(s) == Cardinality({t \in In({"in_progress"}) : stories[t].epic = stories[s].epic}) < MaxWip

\* The stories of C that s overlaps with, directly or through others.
Component(s, C) ==
  LET near[n \in 0..Cardinality(C)] ==
        IF n = 0 THEN {s}
        ELSE LET reached == near[n - 1]
             IN reached \cup {t \in C : \E u \in reached : Overlap(t, u)}
  IN near[Cardinality(C)]

\* The gate asks for a spawn plan of s and what runs: of every component of
\* overlapping stories the plan queues all but the first id, run or not.
Queued(s) == \E t \in Component(s, {s} \cup In({"in_progress"})) : t < s

CheckAdmission(s) ==
  /\ DepsDone(s)
  /\ s \notin held
  /\ s \in Waved => open
  /\ WipAvailable(s)
  /\ ~Queued(s)
  /\ used < IterationBudget

\* Every story against the same snapshot; the admission looks at no status but
\* the dependencies' and the running ones', so that a story that is done, was
\* given up or runs is admitted as well.
Admissible == {s \in DOMAIN stories : CheckAdmission(s)}

\* The caller starts what it likes of what is admitted: a story, all that
\* selectAdmissible returns, or what waits of it.
Starts(S) ==
  /\ S # {} /\ \A s \in S : s \in DOMAIN stories /\ CheckAdmission(s)
  /\ S \ In({"todo"}) \subseteq Restartable \ again
  /\ again' = again \cup (S \ In({"todo"}))
  /\ stories' = [s \in DOMAIN stories |->
                   IF s \in S THEN [stories[s] EXCEPT !.status = "in_progress"] ELSE stories[s]]
  /\ used' = used + Cardinality(S)
  /\ UNCHANGED <<bundle, held, open, checks, tasks>>
Admit == \E s \in DOMAIN stories : Starts({s})
SelectAdmissible == Starts(Admissible)
AdmitWaiting == \E S \in {{s} : s \in In({"todo"})} \cup {Admissible \cap In({"todo"})} : Starts(S)

-----------------------------------------------------------------------------
(* Checks of a finished story. *)

\* The tests of the repository run once, before the stories do.
CaptureBaseline ==
  /\ baseline = {} /\ stories = <<>>
  /\ baseline' = OldTests \ failing
  /\ UNCHANGED <<bundle, stories, held, open, used, again, judged, passed, failing, tasks>>

\* A check the runner cannot make fails.
RunQualityBar(failed) == failed = {} /\ ("coverage" \in RequiredChecks => HasCoverage)
\* Failures that were there before the change do not count.
ValidateBrownfieldChange(post) == post \cap baseline = {}
\* Mutant: the gate runs the story's own tests only.
RunRegressionGateOwn(s, prior, post) == s \notin post
\* The acceptance tests of the stories that were recorded when it was called
\* run again.
RunRegressionGate(s, prior, post) == post \cap prior = {}

Passes(s, failed, post) ==
  /\ IF stories[s].class = "brownfield" THEN ValidateBrownfieldChange(post) ELSE RunQualityBar(failed)
  /\ RunRegressionGate(s, passed, post)

\* What a story's change does to the tests of others, those of the stories
\* beside it included: it may break or mend one.
Begun == DOMAIN stories \ In({"todo"})
Changes(s) ==
  {[breaks |-> {}, mends |-> {}]}
  \cup {[breaks |-> {t}, mends |-> {}] : t \in (Breakable \cap (OldTests \cup Begun)) \ ({s} \cup failing)}
  \cup {[breaks |-> {}, mends |-> {t}] : t \in failing}
With(change) == (failing \ change.mends) \cup change.breaks

\* The developer's subtasks end with its session.
LeaveTasks(s) == tasks' = IF s = Foundation THEN <<>> ELSE tasks

Moves(s, status) == stories' = [stories EXCEPT ![s].status = status]
sameWork == UNCHANGED <<bundle, held, open, used, again, baseline>>
Unjudged == In({"in_progress"}) \ DOMAIN judged

\* The checks of a story run on its own code, against the stories that were
\* recorded when they began.  A story that passes waits to be recorded.
Judge(s) ==
  /\ s \in Unjudged
  /\ \E failed \in SUBSET RequiredChecks, change \in Changes(s) :
       /\ Passes(s, failed, With(change))
       /\ judged' = [x \in DOMAIN judged \cup {s} |->
                       IF x = s THEN [prior |-> passed, change |-> change] ELSE judged[x]]
  /\ LeaveTasks(s) /\ UNCHANGED <<stories, passed, failing>> /\ sameWork

\* Another goes to the debugger, which hands it back repaired or gives it up.
Reject(s) ==
  /\ s \in Unjudged
  /\ \E failed \in SUBSET RequiredChecks, change \in Changes(s) : ~Passes(s, failed, With(change))
  /\ Moves(s, "debugging") /\ LeaveTasks(s) /\ UNCHANGED <<judged, passed, failing>> /\ sameWork
Repaired(s) ==
  s \in In({"debugging"}) /\ Moves(s, "in_progress") /\ UNCHANGED <<judged, passed, failing, tasks>> /\ sameWork
Escalate(s) ==
  s \in In({"debugging"}) /\ Moves(s, "escalated") /\ UNCHANGED <<judged, passed, failing, tasks>> /\ sameWork

\* A story that passed is done: its change joins the accepted code and its
\* tests join the green set, whoever was recorded since it was judged.
RecordPassed(s) ==
  /\ s \in DOMAIN judged
  /\ passed' = passed \cup {s}
  /\ failing' = With(judged[s].change)
  /\ judged' = [x \in DOMAIN judged \ {s} |-> judged[x]]
  /\ Moves(s, "done") /\ UNCHANGED tasks /\ sameWork

\* The subtasks of the first story, while its developer is at work.
Decompose ==
  /\ Foundation \in Unjudged
  /\ Subtasks!Create \/ \E t \in Subtasks!Tasks, to \in Subtasks!TaskStatus : Subtasks!Update(t, to)
  /\ UNCHANGED <<bundle, stories, held, open, used, again, checks>>

-----------------------------------------------------------------------------
Intake ==
  \/ \E idea \in Ideas : SubmitIdea(idea) \/ DryRun(idea)
  \/ GenerateBacklog \/ AskFrontendStage
  \/ \E r \in 1..Reports, o \in {"confirmed", "non_reproducible", "error"} : TriageDefect(r, o)
  \/ \E m \in Messages : ProcessScopeChange(m)

Humans == (\E s \in Holdable : Hold(s)) \/ OpenWave
Callers == Admit \/ SelectAdmissible \/ AdmitWaiting \/ CaptureBaseline
EndSome == \E s \in DOMAIN stories : RecordPassed(s) \/ Escalate(s)
JudgeSome == \E s \in DOMAIN stories : Judge(s) \/ Reject(s)

IntakeNext ==
  \/ Intake \/ Humans \/ Callers \/ JudgeSome \/ EndSome \/ Decompose
  \/ \E s \in DOMAIN stories : Repaired(s)

\* The harness starts what waits while it can, judges what was built, and a
\* story that is rejected again and again is recorded or given up at last: an
\* attempt budget bounds the cycle (Orchestrator).
IntakeFairness == WF_intakeVars(AdmitWaiting) /\ SF_intakeVars(EndSome) /\ WF_intakeVars(JudgeSome)
IntakeSpec == IntakeInit /\ [][IntakeNext]_intakeVars /\ IntakeFairness

-----------------------------------------------------------------------------
Tests == OldTests \cup Ids
Change == [breaks : SUBSET Tests, mends : SUBSET Tests]

\* Types; a recorded story was started.
IntakeTypeOK ==
  /\ bundle \in Bundles
  /\ DOMAIN stories \subseteq Ids /\ \A s \in DOMAIN stories : stories[s] \in Story
  /\ held \subseteq Holdable /\ open \in BOOLEAN /\ used \in Nat /\ again \subseteq Begun
  /\ DOMAIN judged \subseteq Begun
  /\ \A s \in DOMAIN judged : judged[s] \in [prior : SUBSET Ids, change : Change]
  /\ passed \subseteq Begun /\ failing \subseteq Tests /\ baseline \subseteq OldTests
  /\ Subtasks!TypeOK

\* Two stories of a generated backlog that write to the same place are at work
\* together only where one of them was started again, in whatever order they
\* are admitted, held, debugged and given up, one at a time or all that a
\* snapshot admits: the gate for overlapping write sets does not see to it
\* (story-manager 86-97), the dependencies the generator writes do
\* (planning-steward 629-800).
PlannedWritersApart ==
  \A s, t \in (AtWork \cap Planned) \ again : s # t => ~Overlap(s, t)

\* A test of a recorded story starts to fail only as a story is recorded that
\* was judged before that one was on record: whatever else is judged, given up,
\* started again or recorded in between, no story breaks one it was judged
\* against (validator-suite 370-387, harness-core 519-547).
BreaksUnseen ==
  \A t \in (failing' \ failing) \cap passed' :
    \E s \in DOMAIN judged \ DOMAIN judged' : s \in passed' /\ t \notin judged[s].prior
OnlyUnseenBreaks == [][BreaksUnseen]_intakeVars

\* Whatever the agent starts, blocks, ends and gives up, at most one subtask is
\* at work, and when none is while some wait, next() has one to offer or a task
\* is blocked or was given up (task-graph 57-110).
SubtasksNeverStuck ==
  LET Has(status) == Subtasks!With(status) IN
  /\ Cardinality(Has("in_progress")) <= 1
  /\ (Has("in_progress") = {} /\ Subtasks!Runnable = {} /\ Has("pending") # {})
       => Has("blocked") \cup Has("abandoned") # {}

\* A backlog that is generated is worked off, whatever else comes in, unless a
\* human keeps a story or the wave from it, a planned story is escalated or
\* the run has no iterations left.
PlanDrains ==
  <>[](held = {}) /\ <>open =>
    (In(Status) \cap Planned # {} ~>
       \/ In(Status) \cap Planned \subseteq Done
       \/ In({"escalated"}) \cap Planned # {}
       \/ used >= IterationBudget)

-----------------------------------------------------------------------------
(* Departures: what a reader may expect and the code does not do. *)

\* No two stories at work write to the same place: the gate for overlapping
\* write sets lets in a story that sorts before the one that runs, and any of
\* those that are admitted by one snapshot.
WritersDisjoint == \A s, t \in AtWork : s # t => ~Overlap(s, t)
\* Nor do planned ones in general: a story that is done is admitted again beside those
\* that were started after it.
PlannedWritersDisjoint == \A s, t \in AtWork \cap Planned : s # t => ~Overlap(s, t)
\* No story is accepted that breaks one on record: of two that are judged
\* beside each other neither sees the other.
DoneStaysGreen == failing \cap passed = {}
\* A subtask is worked on after what it depends on: update() does not ask.
SubtasksInOrder ==
  \A t \in Subtasks!With("in_progress") \cup Subtasks!With("done") :
    tasks[t].deps \subseteq Subtasks!With("done")

=============================================================================
