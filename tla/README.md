# A TLA+ development of the GateLoop harness

GateLoop runs a backlog of stories through LLM agents.  The agents propose; a deterministic
harness decides.  This directory models the deterministic part: TLA+ modules translated from
the TypeScript under `packages/`, `apps/api` and `scripts/`, TLC configurations that check
them on small instances, and proofs that TLAPS checks for every instance.

    tlc -workers 2 -config Orchestrator.cfg MCOrchestrator.tla   # a run of PROJECT.json
    tlapm OrchestratorProofs.tla                                 # the proofs of a component

`PROJECT.json` lists components, runs, mutants, theorems and hazards, and maps every definition
to the source lines it models.  Paths below are under `packages/` unless they start with
`apps/`, `scripts/`, `docs/` or `tests/`.

## 1. Inventory

### Components

| Component | Source | State | What is hard | What makes it correct |
| --- | --- | --- | --- | --- |
| Orchestrator v0 | `harness-core/src/orchestrator-v0.ts` | `TrackerState`: phase, statuses, attempts, active story, verdict, gate flag, decision log | phase, statuses, verdict, counters and log must agree over long tick sequences; budgets at 0 and at the limit | done only through validation and checkpoint, escalation only after the whole budget, an uncleared gate never crossed, no decision beyond the budget, `complete` passes over nothing that can still be worked |
| Parallel scheduler | `task-graph/src/scheduler.ts`, `spawn-plan.ts`, isolation pool of `workspace-manager` | statuses, batch, workspaces, merges | concurrent inner loops, one throwing under the rest, a failed checkpoint after the merge, a later call | no two writers of one file at once within a call, dependencies first, nothing started twice, every call settles |
| Project loop | `harness-core/src/index.ts` | `ProjectRunState` in a file, history, contract registry | crashes between work and save and inside the save, resumption, convergence windows | what was saved stays saved, budgets hold across sessions, a bad trend and nothing less stops the session |
| Event log, promotion | `event-log`, `tool-executor`, `workspace-manager` | a hash-chained JSONL file, promoted directories | two writing processes, torn lines, crash between effect and record, promotions that share a target | an event's predecessor is there and only another process comes between; the last event on a target tells what is there, as far as that can be known |
| Model gateway | `model-gateway`, `agent-core`, `agent-output` | adapters, `BudgetGuard` per worker, `RunBudgetPool` | check before and record after an await, registration after a kill | overshoot bounded by the calls under way, kills final, routing monotone |
| Planning | `planning-steward` (`workflow`, `authorloop`, `docskill`), `apps/api/src/planning.ts` | stage statuses, checklists, documents | an author awaits a model while others move or reset the flow | a done stage passed, authors see earlier documents, each request is answered |
| Backlog, admission, acceptance | `planning-steward`, `story-manager`, `validator-suite`, `task-graph` | stories, holds, waves, tests, subtasks | several candidates admitted on one snapshot, a story's status that nobody looks at, a verdict that is old when it is recorded, an agent that moves its own subtasks | planned writers apart unless one was started again, a recorded story broken only by one judged before it, subtasks never stuck, the backlog drains |
| Story build | `developer-runtime`, `preflight-runner`, `supervisor-runtime`, `scripts/driver-loop.ts`, `full-loop-skeleton.ts` | a git workspace, attempts | a failure at any step of apply, validate, repair, rollback | a failure without rollback changed nothing, the developer's own rounds stay in scope and submit what is green |
| Provider run | `provider-driver`, `agent-delegate`, `permission-gateway` | a sandbox, calls under way, audit, events | calls of one step run together, hooks and tools throw, the stream breaks, the diff's headers hide names | a checkpoint stays in the write set but for what the diff hides, events and audit tell the same calls, every run ends |
| Gate control | `gate-control` | `real_api_calls` in the policy file | processes read, modify and write one file; IO faults; crashes; kill switch | an open gate is owned and gets closed |
| Debug loop, failure bank | `debugger-runtime`, `failure-bank` | genes, attempts | the bank couples loops; overlap is not symmetric; a full bank | a selective bank, counts without loss, one loop per pattern while the bank has room |
| Context, skills, code index | `context-manager`, `supervisor-runtime`, `assessor-`, `reviewer-`, `skill-runtime`, `codegraph-*`, `apps/api/src/skillControl.ts` | conversation window, pins, catalog, index | compaction repeated, twin catalog entries, an index older than the tree | protected ends stay verbatim, builtins survive, a fresh index tells every dependent |

Not modelled, each listed with its reason in `PROJECT.json`: prompt envelopes and external
agents, the container runtime, credentials, the skill tester, the API's read-only views, the
user interfaces, the remaining scripts.

### How components interact

* The orchestrator and the scheduler drive the same kind of backlog; both select by
  dependencies and neither calls the other.
* The scheduler awaits the isolation pool, whose inner loops run concurrently; `Promise.all`
  couples them: one that throws rejects the batch under the rest.
* An inner loop calls the debug loop when validation fails; all debug loops share one bank.
* Real model calls run inside `runGated`; `configs/policy.yaml` is the only state these
  processes share, and the operator edits it too.
* The harness and the review console append to one trace; the file is their only meeting.
* A tool call of a provider passes pre-hook, permission chain, execution, post-hook and audit;
  the exit gate judges the diff that is left, not the calls.
* The API serves planning on one event loop; author requests interleave at their awaits.

Who calls what matters for what a model may assume.  Only tests call `persistProjectRunState`,
`decideAutoAdvance`, `tick`, `canTransition`, `RegressionRegistry`, `rollbackPromotion`,
`evaluateGateSla`, `sendNotification`, `RunBudgetPool` and `workerGuardedCall`, the routers and
the tier ladder, `runDeveloperObserveLoop`, `runPreflight`, `classifyPolicyChange`,
`TokenCapGuard`, `seedBudgetLedgerFromProjectCost`, the step sequencer, `story-manager`,
`TaskGraph`, compaction and code-graph sync.  There the order of calls is that of the tests or
of the workflow the docs describe, as each module's header says: `ProjectLoop` follows
`tests/sh5_effectiveness.test.ts`, `AgentContext` the story workflow, `StoryBuild` the two
scripts and the observe loop, `ProviderRun` the driver and the delegate scripts, and `RunTrail`
`scripts/e2e-greenfield.ts`, the scheduler and `apps/console/src/review-cli.ts`.

## 2. Modules

State machines:

| Module | Models | State and actions |
| --- | --- | --- |
| `StoryLifecycle` | the abstract promise about a story | `phase`, `tries`; `Start`, `Try`, `Validate`, `Save`, `Finish`, `GiveUp` |
| `Orchestrator` | `orchestrator-v0.ts` | the fields of `TrackerState`; one action per decision, guarded as `decideNextAction` returns it, assigning what `advanceTrackerState` assigns; `ClearGate` is the human.  Implements `StoryLifecycle` by `PhaseOf` and `attempts` |
| `ParallelScheduler` | `scheduler.ts`, `spawn-plan.ts`, the pool | `pc` is the await it is suspended at; `WorkerEnds` is an inner loop returning or throwing at any time; `CallAgain` a later call, beside the loops a rejected batch left running |
| `ProjectLoop` | sessions over `ProjectRunState` | `file` and `tmp` on disk, `mem` in the process; `LoadOrInit`, `DecideAutoAdvance`, `Deliver`, `Rework`, `WriteTmp`, `Rename`, `Crash` |
| `RunTrail` | trace, promotions, roll-backs, reviews | a job per process, the target of each any of the shared ones; each access to the disk a step, a crash or fault between any two |
| `ModelCalls` | adapters, budgets, asks and guarded calls | a slot is an async call: up to its await one step, others run while it waits |
| `PlanningFlow` | `planning.ts` over `workflow.ts` and `authorloop.ts` | one action per stretch between awaits |
| `GateControl` | `gate-control` | every read and write of the file a step; `SetKillSwitch` and `Crash` come from outside |
| `DebugLoop` | `runDebugLoop` over `bankGene` | the bank outlives loops; `Begin`, then `EscalateSystemic` or `Proceed`, then one action per end of an attempt |
| `StoryIntake`, `TaskGraph` | ideas, backlog, defect reports, scope changes, admission, acceptance; a developer's subtasks | one action per entry point; `Admit` starts one story that is admitted, `SelectAdmissible` all of one snapshot whatever their status, `AdmitWaiting` those of them that wait; `Judge` is the regression gate on a snapshot, `RecordPassed` the later record; `Update` is the agent's tool on any subtask |
| `StoryBuild` | one story in a workspace, three lanes | `Compose`, `Develop`, `Apply`, `Validate`, the repairs, `Observe`, `Rollback`, `Cleanup` |
| `ProviderRun` | one story by a provider, two lanes | a program counter per tool call; stream, exit gate and clean-up around them |
| `AgentContext` over `SkillCatalog`, `CodeIndex`, `TaskPackets`, `ContextPackets` | what an agent is told | window, pins, packet, index, catalog; calls, compactions, edits, checkpoints, roll-backs, catalog requests |

Pure modules, extended by the machines, hold the decision tables and computations, each with
assumptions that TLC evaluates over every bounded input at the start of a run:

| Module | Functions of | What its assumptions check |
| --- | --- | --- |
| `WorkflowConfig` | `workflow.ts`, `docskill.ts`, the step sequencer, the stage barrier | a configuration one edit from a good one is refused, never defaulted; the cursor visits every step once; no stage runs before its predecessors |
| `Preflight` | `preflight-runner` | decision, report by word and report by run agree; what counts as green |
| `PolicyChanges` | the classifier and caps of `gate-control` | which changes stop for a person, what a cap admits |
| `FailureGenes` | triage, injection, consolidation, reload, competitive debugging | consolidation loses no occurrence; a gene's life from warning to remedy; a race keeps exactly the losers' genes |
| `GatewayProviders`, `ModelRouting` | providers, validity of answers, keys, cost, registries, routers, tiers | with the gate closed nobody is called; nothing saved is a secret; routers pick the best by their own score |
| `HarnessSteps` | transitions, `tick`, gates, SLA, notifications, cards, brownfield enrichment | no way to a checkpoint around validation; no late gate approves itself when it is a security gate; enrichment never loosens a story's class |
| `AcceptanceGates` | permission gateway and chain, conformance, regression and exit gates | used by `StoryBuild` and `ProviderRun` |
| `TaskPackets`, `ContextPackets`, `CodeIndex`, `SkillCatalog` | packets, grants and denials, phases, queries, mounting | grants keep out what denials name; the decision table checkpoints only what was validated |

`MC*` modules give model values and the functions a `.cfg` cannot write; `*Proofs` hold the
theorems, of one component or of two that are proved about side by side: there the second one's
`Init`, `Next`, `Spec` and `TypeOK` carry its name (`ProviderSpec`, `ProjectSpec`, `IntakeSpec`,
`ContextSpec`).  Definitions commented `Mutant:` are no part of a
specification: each is what a mapped definition would be with a plausible bug and shows that a
property can fail.

A file, a message, a document or a diff is abstracted to what the properties tell apart; each
header says how.  A model's, a human's or a tool's answer is a choice over all that the code
accepts.

## 3. Runs

| Run | Instance | Distinct states | Properties |
| --- | --- | --- | --- |
| `orchestrator` | 4 stories: two depend on the first, one on itself; attempt budgets 2, 1, 0, 1; run budget 21; every initial status | 143,065 | `DoneThroughChain`, `EscalationEarned`, `GateHolds`, `DecisionsInBudget`, `CompleteLeavesOnlyCycles`, `ImplementsLifecycle` |
| `scheduler` | 5 stories of three classes, one overlap, two dependencies; run budget 4; 3 calls | 971 | `WritersDisjoint`, `StartsWithinBudget`, `NeverRestarted`, `CallSettles` |
| `project_loop` | 4 stories in 2 epics, 2 contracts, window 2, 3 sessions, crashes, old files | 484,854 | `BudgetsAreDurable`, `TrendIsHeeded`, `SavedStaysSaved`, `StopsOnEvidence` |
| `trail` | 2 processes, one story, a target that promotions share, 3 lines, faults and crashes | 3,455,456 | `EventsHaveParents`, `TraceTellsDisk` |
| `model_calls` | 2 slots, 2 workers, 3 providers, 3 calls and 4 tokens in all | 1,470,013 | `OvershootBounded`, `RouterIsMonotone`, `KilledStaysSilent` |
| `planning` | 4 stages, the first without a skill; 2 requests of up to 2 attempts; posts; a reset | 34,559 | `DoneMeansPassed`, `PriorDocsAreEarlier`, `AuthorsAreAnswered` |
| `gate` | 2 runs and one in CI, IO faults, crashes, kill switch | 19,908 | `OpenIsOwned`, `GateCloses` |
| `debug_loop` | 4 signatures with one-way, two-way and no overlap; 5 loops of 3 attempts; a bank of 2 | 57,113 | `Selective`, `FailuresAreCounted`, `FirstOrTurnedAway`, `AnswerFitsAttempts` |
| `story_intake` | a patch of two components: 6 planned stories, one more, 2 subtasks, WIP 1; one story may be started again, one story's test may be broken | 135,226 | `PlannedWritersApart`, `OnlyUnseenBreaks`, `SubtasksNeverStuck`, `PlanDrains` |
| `story_build` | 3 files, 2 exported symbols, 2 validation commands, 3 attempts, 2 corrections | 16,695 | `FailsClean`, `ObservedInScope` |
| `provider_run` | 2 calls of any tool on an allowed, a foreign and a credential file, 2 lanes | 808,469 | `CheckpointInWriteSet`, `EventsTellTheRun`, `RunSettles` |
| `agent_context` | 2 files, 2 skills, 2 stories, 3 calls, 2 compactions, 2 catalog requests | 1,286,256 | `BuiltinsSurvive`, `EndsVerbatim`, `PreservesDependents` |

What the bounds let happen. *Orchestrator*: the run budget lets a backlog be finished with every
retry, and also lets it run out; attempt budgets 0, 1 and 2 are the boundary and both sides.
*Scheduler*: a pair that overlaps, one that does not, every class, dependencies across; a normal
call, one beside the loops that a rejected call left running, and one after that. *Project loop*:
three sessions are a first, one after a crash or stop, and one that finds what both left; the
window of two can be young, full and sliding; run budget and cap are met exactly. *Trail*: three
lines are a first event, one more by each process from the same tail; a promotion can be cut off,
rolled back, made again by the other process on the same target, and be cut off again. *Model
calls*: a share of the budget is used up while the other slot still waits; the developer's route
falls back twice. *Planning*: a request finds the flow unmoved, moved by one other, or moved by
both. *Gate*: two runs overlap in every way their reads and writes can; the third is the CI case.
*Debug loop*: the bank is full after two unrelated failures while two signatures still arrive, and
five loops revisit a pattern that became systemic. *Intake*: two components give sources, tests
and an integration story that overlap and depend on each other; one story from outside meets them
at every stage, and two stories are judged beside each other before either is on record. *Story
build*: an edit can add what is needed, drop what must stay, or do both in different files, and a
diff touches any files whatever its proposal claims. *Provider run*: two calls meet at every pair
of steps; a patch can change, remove, move and put back files, and its diff may quote any name.
*Agent context*: a compaction after a compaction, a checkpoint whose sync failed, a twin entry of
a shipped skill.

`CHECK_DEADLOCK FALSE` stands where the system may stop (a settled call, an ended run, a bound
reached). The loops whose code is one `while` or one total function (orchestrator, debug loop,
project loop) have no liveness property: that they end is the shape of the code, and how often
they decide or try is a safety property. Where a run has no type invariant, its `TypeOK` is a
theorem (section 5) or was checked on the same instance; the runs spend their properties on what
types do not say.

### Where the code departs from what is written of it

These definitions state a promise of a doc, comment or test that the code does not keep.  TLC
finds each violated under the configuration of the component's run (put the definition in place
of the run's properties); they are in no run, since the passing runs check what does hold.

| Definition | Promise | What the code does |
| --- | --- | --- |
| `GateControl!ClosedOrCritical` | `gate-control/src/index.ts:201`: the gate is always closed, or the run fails as CRITICAL | the read-back after opening (:223) throws outside the `try`: the gate stays open and the error is an IO error |
| `GateControl!KillSwitchHalts` | `:12`: an engaged kill switch halts every later run | a run writes back the policy it read before the edit (:85) |
| `RunTrail!ChainIntact` | `docs/validation/01_RUNTIME_INVARIANTS.md:16-17`: sequence monotonic and chain intact | `spawn-plan.ts:91` appends seq 0 without a predecessor whatever the trace holds, and two processes can append after one line |
| `RunTrail!PromotedWasApproved` | `docs/validation/05_PROMOTION_GATE_TESTS.md:9`: a promotion without human approval is "blocked" | `promoteWorkspace` (`tool-executor/src/index.ts:89`) looks for no approval |
| `PlanningFlow!DoneOnOwnDocument` | `docs/architecture/28_PLANNING_LLM_AUTHORING.md:59`: an author reads the approved documents of earlier stages | a document authored for one stage is judged for the stage that is active when it arrives (`planning.ts:204`), which is then done without one of its own |
| `StoryBuild!ModifyKeepsExports` | `supervisor-runtime/src/index.ts:206`: a modify that drops existing behaviour is a violation, "the harness rejects it" | the composed packet (:272) never has `current_files`, the only source the check compares with (`developer-runtime/src/index.ts:361-366`), so the proposal is emitted |
| `StoryBuild!RolledBackIsBaseline` | `scripts/driver-loop.ts:13-14`: on a terminal failure the loop rolls the workspace back | `doRollback` (:316) passes the workspace id, which is no ref of its repository: the checkout fails and it returns true all the same |
| `ProviderRun!EveryCallAudited` | `confinement.ts:178`: `onAudit` is called for every mediated call | the record is made after executor and post-hooks (:260): one that throws leaves none, and the SDK lane goes on |
| `ProjectLoop!DependenciesAreForwarded` | `harness-core/src/index.ts:658-659`: a story consumes the contracts produced by the stories it depends on | the registry (:653) keeps the first producer of a name and path only: who depends on a later one is not given it |
| `DebugLoop!SystemicSkipsBudget` | `docs/workflows/04_DEBUG_LOOP_RUNTIME_WORKFLOW.md:21`: a pattern with count 2 skips the remaining budget | only a loop's first failure is looked at (`debugger-runtime/src/index.ts:253`); its own retries make it systemic and it goes on |
| `ParallelScheduler!WritersDisjointAcrossCalls` | `docs/workflows/05_PARALLEL_DEVELOPMENT_RUNTIME_WORKFLOW.md:22`: two stories writing the same file may not run in parallel | the inner loops of a rejected batch run on (`workspace-manager/src/index.ts:409-424`), and a later call can start an overlapping story beside one of them |
| `DebugLoop!NoFailureTurnedAway` | `failure-bank/src/index.ts:77`: the caller of a full bank should consolidate first | the debug loop does not: a full bank (:95) drops the failure, and its pattern is repaired in every later loop |
| `ProviderRun!CheckpointAllInWriteSet` | `agent-delegate/src/exitGate.ts:11-12`: 100% of the sandbox's changes pass the write-set check, "ZERO exceptions" | `diffFileSet` (`delegationResult.ts:60-71`) reads the b/ side of unquoted headers only: the source of a rename and a quoted path are not seen |
| `StoryBuild!CheckpointInScope` | `tool-executor/src/index.ts:26`: changed files "must be within the write-set" | what is applied is a diff, which nobody compares with the files the proposal claims (`scripts/driver-loop.ts:211`, `:233-234`) |
| `StoryBuild!LoopAgreesWithPreflight` | `preflight-runner/src/index.ts:7`: self-correction is bounded, "escalate, never loop" | `observe` (`developer-runtime/src/index.ts:453`, `:496`) passes no count, so in the last round the preflight says `self_correct` while the loop escalates |
| `StoryBuild!SubmittedStandsAlone` | `developer-runtime/src/index.ts:473-474`: what is submitted was observed green, red rounds are corrected by "a corrected patch" | rounds are applied one over another in one workspace: the last proposal can be green only over the edits of an earlier one, which is not submitted |
| `StoryIntake!WritersDisjoint` | `docs/architecture/14_DEV_CONSOLE_MODEL.md:119-120`: "write-set does not overlap any story currently running" | the overlap gate looks at stories that sort before the candidate; one that sorts before a running story is admitted beside it |
| `StoryIntake!PlannedWritersDisjoint` | the same, of planned stories | `selectAdmissible` (`story-manager/src/index.ts:106-114`) looks at no story's own status: a done or running story is started again beside its dependents |
| `StoryIntake!DoneStaysGreen` | `harness-core/src/index.ts:523-527`: "a regressing story never enters the green set" | `runRegressionGate` (`validator-suite/src/index.ts:370-385`) judges on a snapshot and `recordPassed` (`harness-core/src/index.ts:543`) comes later: two stories judged beside each other can break each other |
| `StoryIntake!SubtasksInOrder` | `docs/architecture/13_TASK_DECOMPOSITION_MODEL.md:37`: `next()` returns a task whose dependencies are all done | `update` (`task-graph/src/index.ts:79-91`) moves any pending task to `in_progress` |
| `ParallelScheduler!WorkspacesCleanedUp` | `workspace-manager/src/index.ts:394`: the caller of `runBatch` cleans up | the only caller never does |
| `Orchestrator!SelectionNamesAStory` | `orchestrator-v0.ts:27`, `:61`: a gate pauses a run, which then picks the next story | the decision at a cleared gate (:225) carries no story id and the run stops as `select_failed` |
| `Orchestrator!CompleteMeansAllDone` | `docs/architecture/12_RUNTIME_ALGORITHM_RULES.md:66`: complete if all stories are done | `all_stories_complete` (:172) is also reported with a blocked story or a dependency cycle left |

Smaller divergences that the pure modules record beside the function they concern: removing the
kill-switch or sandbox key of a policy is applied and logged, though an unknown change should stop
(`PolicyChanges`); a red run with no target and no "not ok" line names no failure (`Preflight`);
the genes the debug loop banks are never found by a lookup, and a reload drops them
(`FailureGenes`, `WarningAssumption`); a scripted provider's miss is a valid answer for a
developer, so fallbacks are not tried (`GatewayProviders`, `AnswerAssumption`); a run without
stories is promotable and `tick` has no rows for the preflight and the conformance review
(`HarnessSteps`); only the last result of an intent decides whether it is satisfied
(`AgentContext`); a catalog add does not look whether its id is taken, and skills with cyclic
dependencies are all shown and none mounted (`SkillCatalog`); the exit code of an index sync is
looked at by nobody (`CodeIndex`); an inherited section whose name nobody denied crosses
(`ContextPackets`).

## 4. Fairness

Fairness is asserted only of code that runs by itself once started.

* `ParallelScheduler`: of its own steps and every running inner loop's end, whose iterations are
  budgeted; none of `CallAgain`.
* `PlanningFlow`: of a request's steps, the end of the author's model call included; none of the
  operator or of new requests.
* `GateControl`: of a started run's steps; none of starting, crashing or the operator.
* `ProviderRun`: of the run's steps and each mediated call; none of an engine issuing one.
* `StoryIntake`: weak of starting what waits and is admitted, since the harness admits while it
  can, and of judging a story at work; strong of its record or escalation, since the attempt
  budget of `Orchestrator` bounds how often one story is sent back.  None of starting a story
  again, of humans, reports or messages.
* `StoryBuild`: of its one loop, though its properties are safety and need none.
* `Orchestrator`, `DebugLoop`, `ProjectLoop`, `RunTrail`, `ModelCalls`, `AgentContext`: none;
  their properties are safety.

## 5. Proofs

Every theorem is proved for all values of the constants under the named `ASSUME`s of its module,
which the runs evaluate. `PROJECT.json` lists 60 theorems; between them they state every safety
invariant and every action property of the runs but `StopsOnEvidence`.

| Module | About | Theorems | Argument |
| --- | --- | --- | --- |
| `OrchestratorProofs` | `Orchestrator` | types, phase, one story, dependencies, attempt budget, settled stories, the uncleared gate, decisions within the budget, an honest `complete`, attempts = log, escalations, done through the chain, refinement of `StoryLifecycle` | `IInv`: the phase decides the status of the active story and the verdict; nothing else is in flight.  Without the phase, `DepsDone` is not inductive: `MarkStoryDone` must know its story was in flight.  The log's properties rest on lemmas that a tick appends exactly one decision; `LogTail` says what the last entries are in `checkpoint` and `validate`.  Refinement: every tick is a lifecycle step of the active story or a stutter. |
| `SchedulerProofs` | `ParallelScheduler` | types, disjoint writers of a call, dependencies, exclusivity, merged and done, no second merge, the run budget, no restart | `PlanIsDisjoint`: a spawn plan is free of overlaps.  `Shape` says which stories are started, merged and undone at each await; it also covers a rejected batch whose inner loops still run, beside those of every later call.  `Counted`: `iterations` is the number of stories completed outside the batch under way, whichever of its two increments counted them, so a call overshoots its budget by one batch at most. |
| `RunTrailProofs` | `RunTrail` | types, the chain never dangles, the trace is true | `DInv`: an operation that met no other at its target says at each of its steps what is on disk and what is recorded; a target is in doubt from an operation that was cut off or met another one until one ends there alone and with its record.  A tail that was read is a line of the trace, and only the other process can append after it. |
| `ModelCallsProofs` | `ModelCalls`, `ModelRouting` | types, the overshoot, checked routes resolve, kills are final, the router moves one way | `OvershootBounded` is inductive when calls under way are counted with what was recorded: a call adds one to the count before it adds to the ledger.  `KillsKnown`: a pool's kill reaches every registered guard and every later one.  `PicksAreAnswers`: what a caller holds is an answer, so that monotonicity is about the router's functions: an exchange argument on the two optima (`Exchange`), for fractions compared by cross-multiplication (`Fractions`); the optimum exists because a strict total order has a first element on every finite set (`FirstExists`). |
| `LoopProofs` | `DebugLoop` | types, selective bank, one loop per pattern or a full bank, answers and attempts, failures are counted | `Begun`: a loop's failure is in the bank unless the bank was full, so a retry merges with the gene the loop began with, which `ExistingIsUnique` makes one; symmetry of the overlap is not needed.  `Accounted` says the counts add up by the partial sums themselves, which exist in every state, where a recursive sum would ask for an induction. |
| | `ProjectLoop` | types, budgets across sessions, the trend, what was saved | `ProjectInv`: the file is at most one iteration behind the session that wrote it (`OneIterationAhead`), a temporary file is whole once it is renamed (`TmpIsWhole`), a crash belongs to a session (`CrashesAreSessions`).  `BudgetsAreDurable` alone is not inductive: a crash that loses an iteration must have had a session of its own. |
| `IntakeProofs` | `GateControl` | types, ownership, CI | `OpenIsOwned` is inductive with types: only a write opens the gate and its run is then past the write; it leaves by a read that found it closed, or by failing. |
| | `StoryIntake`, `TaskGraph` | types, planned writers, what breaks a recorded story, subtasks | `PlanShape`: the planned stories keep the dependencies and places of the generator's, which put any two that share a place on one path; `Settled`, `Started`: a story at work has what it depends on accepted, or was started again.  `ChecksInv`: a judged story breaks none of those it was judged against, so only one recorded since then can be broken by its record; none is judged or on record that was not begun.  `TasksInv`: a task depends on earlier ones only and one is at work at a time, so the first that is left waits for a blocked or abandoned one, whatever the agent updates. |
| `AcceptanceProofs` | `StoryBuild` | types, clean failures, observed work in scope | `Inv`: a lane is on its baseline until its first apply (`CleanBeforeApply`).  The developer's own rounds apply an edit list, whose files the proposal's check does see: `ProposalInScope` and `ProducedIsInScope` carry that from the check over the apply, where a diff of the other lanes has no such fact. |
| | `ProviderRun` | types, what a checkpoint changed, events | `ProviderInv`: a call has its request once it is used, and its result and its one audit record as its lane writes them (`RunInv`, `OneRecordEach`); the scripts' tools stay in the write set call by call (`SdkConfined`); the gate's decision is about the headers it read, which hide a quoted name or the source of a move (`DecisionIsBounded`).  The mediator's flag and the audit differ only between the permission and the record, which is why the stop hook can be trusted at the end of a driver's stream and not within it. |
| `ContextProofs` | `PlanningFlow` | types, order, verdicts, documents, prior documents, done for good | `Captured`: what a suspended request remembers is still true of the flow, a stage that is no longer `todo`, until a reset.  `AdvanceKeepsOrder` is about the engine alone. |
| | `AgentContext`, `SkillCatalog`, `CodeIndex` | types, shipped skills, the ends of the window, dependents | `Ends`: the first and the newest call stand in a turn of their own that is pinned, or at the place where the next compaction pins it; each of the three stages (large nodes, chains, the sliding window) keeps pinned turns as they are (`LargeNodes`, `Chain`, `Sliding`).  `IndexFollows`: the index is that of the story's base while the last sync worked. |

What the assumptions say of the constants is what the code's own types and validation give:
finite, typed tables (`RouterAssumption`, `IntakeAssumption`, `ContextAssumption`,
`CatalogAssumption`, `StoryBuildAssumption`), a registry that passed its check
(`RegistryAssumption`), positive windows and budgets where a schema demands them
(`ProjectBoundAssumption`), distinct ranks because selection breaks ties by position
(`StoryAssumption`), values that stand for "none" outside the sets they are not in
(`StateAssumption`, `SignalAssumption`), old tests that are not named like new stories
(`InputAssumption`).

The theorems of `TypeCorrect`, `PhaseIsKept`, `SingleStory` and some more state invariants no run
lists; the inductive invariants need them and a reader may.

Only model-checked:

* every liveness property (`CallSettles`, `AuthorsAreAnswered`, `GateCloses`, `PlanDrains`,
  `RunSettles`): the prover has neither fairness arguments nor `ENABLED`;
* `StopsOnEvidence`, which compares sums over the history of a session, an induction over data;
* the assumptions of the pure modules about their functions, which are checked over bounded
  inputs; those on strings of calls or lists of any length are inductions over data.

## 6. Not modelled, and the plan

Within modelled components: `runSequentialScheduler`'s batch of one, the WIP cap of
`spawn-plan.ts` (no caller), `mergeAndValidate` and the workspace registry; redaction of trace
payloads; HTTP bodies and prompt text of providers; the reading of YAML and JSON text beyond the
planning workflow; the bank's file; the wording of specifications, reports and summaries; token
counting of real text; `importBrownfieldRepo`, which reads a directory and runs no tests; the
manifests of skills and the code-graph engine's binary.

Next, most important first:

1. theorems for the pure modules whose tables are finite (`AcceptanceGates`, `HarnessSteps`,
   `PolicyChanges`), in place of assumptions over bounded inputs;
2. an abstraction of `StoryLifecycle` to several stories at once, which `ParallelScheduler` would
   implement too, and an append-only list of events implemented by `RunTrail` for one process;
3. the composition of `DebugLoop` with `StoryBuild`'s full lane over one bank;
4. human decisions of `apps/api/src/humanActions.ts`, which share one JSON file with the run.
