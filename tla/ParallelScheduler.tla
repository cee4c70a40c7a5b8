------------------------- MODULE ParallelScheduler -------------------------
(***************************************************************************)
(* The parallel story scheduler: runParallelScheduler of packages/         *)
(* task-graph/src/scheduler.ts, computeSpawnPlan of spawn-plan.ts, which   *)
(* serialises stories whose write sets overlap, and WorkspaceIsolationPool *)
(* of packages/workspace-manager/src/index.ts, which runs a batch of       *)
(* stories concurrently, each in a workspace of its own.                   *)
(*                                                                         *)
(* The code between two awaits is one action; pc says which await the      *)
(* scheduler is suspended at.  Workers are the inner loops of a batch:     *)
(* they end in any order, and one that throws rejects the whole batch      *)
(* while the others go on.                                                 *)
(*                                                                         *)
(* Abstracted: write sets are the relation Overlap between stories, ids    *)
(* and epics are numbers that sort as they do, a merge is a count of the   *)
(* merge commits per story, and the trace file is left out.                *)
(***************************************************************************)
EXTENDS Naturals, FiniteSets

CONSTANTS
  Story,        \* the backlog
  NoStory,
  DependsOn,    \* [Story -> SUBSET Story]
  Class,        \* [Story -> ParallelismClass]: parallelism_class
  Epic,         \* [Story -> Nat]: epic_id, as it sorts
  Rank,         \* [Story -> Nat]: story_id, as it sorts
  Overlap,      \* pairs of stories whose write sets overlap
  RunBudget,    \* runBudget, counted in completed stories
  MaxCalls      \* bound: how often the scheduler is called on the backlog

ParallelismClass == {"parallel_safe", "parallel_with_barrier", "sequential", "exclusive"}

ASSUME StoryAssumption == IsFiniteSet(Story) /\ NoStory \notin Story
ASSUME DependsAssumption == DependsOn \in [Story -> SUBSET Story]
ASSUME ClassAssumption == Class \in [Story -> ParallelismClass]
ASSUME OrderAssumption ==
  /\ Epic \in [Story -> Nat] /\ Rank \in [Story -> Nat]
  /\ \A s, t \in Story : Rank[s] = Rank[t] => s = t
ASSUME OverlapAssumption ==
  /\ Overlap \subseteq Story \X Story
  /\ \A s, t \in Story : <<s, t>> \in Overlap => <<t, s>> \in Overlap /\ s # t
ASSUME BoundAssumption == RunBudget \in Nat /\ MaxCalls \in Nat

VARIABLES
  status,       \* [Story -> StoryStatus], shared with the caller
  pc,           \* where the scheduler is suspended, or how it settled
  batch,        \* toRunParallel of the current pass
  runs,         \* runs of the batch whose result is not yet processed
  current,      \* the story run or checkpointed alone, or NoStory
  worker,       \* [Story -> WorkerState]: inner loops in isolated workspaces
  startedBy,    \* [Story -> Nat]: the call that started the story's inner loop
  workspace,    \* stories that have a registered isolated workspace
  merges,       \* [Story -> Nat]: merge commits in the target
  checkpointed, \* stories whose onCheckpoint resolved
  completed,    \* completed of this call
  iterations,   \* iterations of this call
  outcome,      \* outcome of this call, "none" while it runs
  calls         \* number of calls so far

vars == <<status, pc, batch, runs, current, worker, startedBy, workspace, merges,
          checkpointed, completed, iterations, outcome, calls>>

StoryStatus == {"todo", "in_progress", "escalated", "done"}
WorkerState == {"idle", "running", "passed", "failed", "threw"}
Suspended   == {"loop", "batch", "merge", "collect", "checkpoint", "sequential"}
Settled     == {"returned", "rejected"}

Init ==
  /\ status = [s \in Story |-> "todo"]
  /\ pc = "loop"
  /\ batch = {} /\ runs = {} /\ current = NoStory
  /\ worker = [s \in Story |-> "idle"]
  /\ startedBy = [s \in Story |-> 0]
  /\ workspace = {}
  /\ merges = [s \in Story |-> 0]
  /\ checkpointed = {} /\ completed = {}
  /\ iterations = 0
  /\ outcome = "none"
  /\ calls = 1

-----------------------------------------------------------------------------
(* What to run next *)

Ready(s) == status[s] = "todo" /\ \A d \in DependsOn[s] : status[d] = "done"

BatchCandidates == {s \in Story : Ready(s) /\ Class[s] = "parallel_safe"}

\* s and t are in one component of the overlap graph on C: every set that
\* holds s and is closed under Overlap holds t.
Linked(s, t, C) ==
  \A X \in SUBSET C :
    (s \in X /\ \A x \in X, y \in C : <<x, y>> \in Overlap => y \in X) => t \in X

\* Mutant: write sets are not looked at.
SpawnPlanAll(C) == C

\* computeSpawnPlan's parallel_batch: of every component, the story that sorts
\* first; the others wait in the sequential queue, that is for a later pass.
SpawnPlan(C) == {s \in C : \A t \in C : Linked(s, t, C) => Rank[s] <= Rank[t]}

ExclusiveRunning == \E s \in Story : Class[s] = "exclusive" /\ status[s] = "in_progress"

SortsBefore(s, t) == Epic[s] < Epic[t] \/ (Epic[s] = Epic[t] /\ Rank[s] < Rank[t])

\* selectNextStory of harness-core returns s.
IsNextStory(s) ==
  /\ ~ExclusiveRunning
  /\ Ready(s)
  /\ \A t \in Story \ {s} : Ready(t) => SortsBefore(s, t)

WithinBudget == iterations < RunBudget

-----------------------------------------------------------------------------
(* One pass of the scheduler's loop *)

Return(result) == pc' = "returned" /\ outcome' = result
Reject == pc' = "rejected" /\ outcome' = "rejected"

HaltOnBudget ==
  /\ pc = "loop"
  /\ ~WithinBudget
  /\ Return("halted")
  /\ UNCHANGED <<status, batch, runs, current, worker, startedBy, workspace, merges,
                 checkpointed, completed, iterations, calls>>

ReturnAllDone ==
  /\ pc = "loop"
  /\ WithinBudget
  /\ BatchCandidates = {}
  /\ ~\E s \in Story : IsNextStory(s)
  /\ Return("all_done")
  /\ UNCHANGED <<status, batch, runs, current, worker, startedBy, workspace, merges,
                 checkpointed, completed, iterations, calls>>

\* The stories of the plan are marked in_progress, a workspace is provisioned
\* for each, and all their inner loops start; or provisioning one throws.
StartBatch ==
  /\ pc = "loop"
  /\ WithinBudget
  /\ BatchCandidates # {}
  /\ LET plan == SpawnPlan(BatchCandidates) IN
       /\ status' = [s \in Story |-> IF s \in plan THEN "in_progress" ELSE status[s]]
       /\ batch' = plan
       /\ \/ /\ workspace' = workspace \cup plan
             /\ worker' = [s \in Story |-> IF s \in plan THEN "running" ELSE worker[s]]
             /\ startedBy' = [s \in Story |-> IF s \in plan THEN calls ELSE startedBy[s]]
             /\ pc' = "batch"
             /\ UNCHANGED outcome
          \/ /\ \E made \in SUBSET plan : made # plan /\ workspace' = workspace \cup made
             /\ Reject
             /\ UNCHANGED <<worker, startedBy>>
  /\ UNCHANGED <<runs, current, merges, checkpointed, completed, iterations, calls>>

\* An inner loop resolves to true or false, or throws: the pool then removes
\* its workspace and rethrows.  Nobody looks at the result of a loop that a
\* rejected batch left running.
WorkerEnds(s) ==
  /\ worker[s] = "running"
  /\ \E result \in {"passed", "failed", "threw"} :
       /\ worker' = [worker EXCEPT ![s] = result]
       /\ workspace' = IF result = "threw" THEN workspace \ {s} ELSE workspace
  /\ UNCHANGED <<status, pc, batch, runs, current, startedBy, merges, checkpointed,
                 completed, iterations, outcome, calls>>

\* Mutant: only a batch of passes resolves.
BatchResolvesAllPassed ==
  /\ pc = "batch"
  /\ \A s \in batch : worker[s] = "passed"
  /\ pc' = "merge"
  /\ runs' = batch
  /\ UNCHANGED <<status, batch, current, worker, startedBy, workspace, merges, checkpointed,
                 completed, iterations, outcome, calls>>

\* Promise.all of the batch: resolved by the last worker, rejected by the
\* first that throws, without waiting for the others.
BatchResolves ==
  /\ pc = "batch"
  /\ \A s \in batch : worker[s] \in {"passed", "failed"}
  /\ pc' = "merge"
  /\ runs' = batch
  /\ UNCHANGED <<status, batch, current, worker, startedBy, workspace, merges, checkpointed,
                 completed, iterations, outcome, calls>>

BatchRejects ==
  /\ pc = "batch"
  /\ \E s \in batch : worker[s] = "threw"
  /\ Reject
  /\ UNCHANGED <<status, batch, runs, current, worker, startedBy, workspace, merges,
                 checkpointed, completed, iterations, calls>>

PassedRuns == {s \in batch : worker[s] = "passed"}

MergeEach(S) == merges' = [s \in Story |-> IF s \in S THEN merges[s] + 1 ELSE merges[s]]

\* mergeInOrder commits every passing run in story order; a git failure leaves
\* the ones that sort before it committed.
MergeInOrder ==
  /\ pc = "merge"
  /\ \/ /\ MergeEach(PassedRuns)
        /\ pc' = "collect"
        /\ UNCHANGED outcome
     \/ \E failing \in PassedRuns :
          /\ MergeEach({s \in PassedRuns : Rank[s] < Rank[failing]})
          /\ Reject
  /\ UNCHANGED <<status, batch, runs, current, worker, startedBy, workspace, checkpointed,
                 completed, iterations, calls>>

IsFirstRun(s) == s \in runs /\ \A t \in runs : Rank[s] <= Rank[t]

\* The next result in story order: a passed run is checkpointed, a failed one
\* is escalated and ends the call.
CollectPassed ==
  /\ pc = "collect"
  /\ \E s \in runs :
       /\ IsFirstRun(s)
       /\ worker[s] = "passed"
       /\ current' = s
       /\ runs' = runs \ {s}
  /\ pc' = "checkpoint"
  /\ UNCHANGED <<status, batch, worker, startedBy, workspace, merges, checkpointed,
                 completed, iterations, outcome, calls>>

\* Mutant: the escalated story is left for another try.
EscalateRequeues(s) ==
  /\ status' = [status EXCEPT ![s] = "todo"]
  /\ Return("escalated")

Escalate(s) ==
  /\ status' = [status EXCEPT ![s] = "escalated"]
  /\ Return("escalated")

CollectFailed ==
  /\ pc = "collect"
  /\ \E s \in runs : IsFirstRun(s) /\ worker[s] = "failed" /\ Escalate(s)
  /\ UNCHANGED <<batch, runs, current, worker, startedBy, workspace, merges, checkpointed,
                 completed, iterations, calls>>

\* Mutant: a batch counts as one iteration.
BatchDoneCountsOnce ==
  /\ pc = "collect"
  /\ runs = {}
  /\ iterations' = iterations + 1
  /\ batch' = {}
  /\ pc' = "loop"
  /\ UNCHANGED <<status, runs, current, worker, startedBy, workspace, merges, checkpointed,
                 completed, outcome, calls>>

BatchDone ==
  /\ pc = "collect"
  /\ runs = {}
  /\ iterations' = iterations + Cardinality(batch)
  /\ batch' = {}
  /\ pc' = "loop"
  /\ UNCHANGED <<status, runs, current, worker, startedBy, workspace, merges, checkpointed,
                 completed, outcome, calls>>

StartSequential ==
  /\ pc = "loop"
  /\ WithinBudget
  /\ BatchCandidates = {}
  /\ \E s \in Story :
       /\ IsNextStory(s)
       /\ current' = s
       /\ status' = [status EXCEPT ![s] = "in_progress"]
  /\ pc' = "sequential"
  /\ UNCHANGED <<batch, runs, worker, startedBy, workspace, merges, checkpointed,
                 completed, iterations, outcome, calls>>

\* A throw of the sequential inner loop counts as a failure.
SequentialEnds ==
  /\ pc = "sequential"
  /\ \/ pc' = "checkpoint" /\ UNCHANGED <<status, outcome>>
     \/ Escalate(current)
  /\ UNCHANGED <<batch, runs, current, worker, startedBy, workspace, merges, checkpointed,
                 completed, iterations, calls>>

CheckpointResolves ==
  /\ pc = "checkpoint"
  /\ checkpointed' = checkpointed \cup {current}
  /\ status' = [status EXCEPT ![current] = "done"]
  /\ completed' = completed \cup {current}
  /\ current' = NoStory
  /\ IF batch = {}
       THEN pc' = "loop" /\ iterations' = iterations + 1
       ELSE pc' = "collect" /\ UNCHANGED iterations
  /\ UNCHANGED <<batch, runs, worker, startedBy, workspace, merges, outcome, calls>>

\* Nothing catches it: the call rejects and the story stays in_progress.
CheckpointThrows ==
  /\ pc = "checkpoint"
  /\ Reject
  /\ UNCHANGED <<status, batch, runs, current, worker, startedBy, workspace, merges,
                 checkpointed, completed, iterations, calls>>

Scheduler ==
  \/ HaltOnBudget \/ ReturnAllDone
  \/ StartBatch \/ BatchResolves \/ BatchRejects \/ MergeInOrder
  \/ CollectPassed \/ CollectFailed \/ BatchDone
  \/ StartSequential \/ SequentialEnds
  \/ CheckpointResolves \/ CheckpointThrows

\* The backlog is scheduled again after a call settled.  Inner loops that a
\* rejected batch left running run on beside the new call.
CallAgain ==
  /\ pc \in Settled
  /\ calls < MaxCalls
  /\ calls' = calls + 1
  /\ pc' = "loop" /\ outcome' = "none"
  /\ batch' = {} /\ runs' = {} /\ current' = NoStory
  /\ completed' = {} /\ iterations' = 0
  /\ worker' = [s \in Story |-> IF worker[s] = "running" THEN "running" ELSE "idle"]
  /\ UNCHANGED <<status, startedBy, workspace, merges, checkpointed>>

\* The last call has settled and its workers are through.
Finished ==
  /\ pc \in Settled /\ calls = MaxCalls
  /\ \A s \in Story : worker[s] # "running"
  /\ UNCHANGED vars

Next == Scheduler \/ (\E s \in Story : WorkerEnds(s)) \/ CallAgain \/ Finished

Spec == Init /\ [][Next]_vars

\* The scheduler runs on as soon as what it awaits has settled, and every
\* inner loop settles (the developer and debugger loops are bounded); nobody
\* has to call again.
FairSpec == Spec /\ WF_vars(Scheduler) /\ \A s \in Story : WF_vars(WorkerEnds(s))

-----------------------------------------------------------------------------
(* Properties *)

\* Every variable holds a value of its type, and a settled call has an outcome.
TypeOK ==
  /\ status \in [Story -> StoryStatus]
  /\ pc \in Suspended \cup Settled
  /\ batch \subseteq Story /\ runs \subseteq Story
  /\ current \in Story \cup {NoStory}
  /\ worker \in [Story -> WorkerState]
  /\ startedBy \in [Story -> Nat]
  /\ workspace \subseteq Story
  /\ merges \in [Story -> Nat]
  /\ checkpointed \subseteq Story /\ completed \subseteq Story
  /\ iterations \in Nat
  /\ outcome \in {"none", "halted", "all_done", "escalated", "rejected"}
  /\ calls \in Nat

Running == {s \in Story : worker[s] = "running"}

\* Two inner loops of one call that run at the same time never have overlapping
\* write sets, also not once the batch was rejected under them and a later call
\* is at work.  Loops of different calls may (WritersDisjointAcrossCalls).
WritersDisjoint ==
  \A s, t \in Running : startedBy[s] = startedBy[t] => <<s, t>> \notin Overlap

\* Nothing is started before everything it depends on is done.
DepsFirst ==
  \A s \in Story : status[s] # "todo" => \A d \in DependsOn[s] : status[d] = "done"

\* A story that runs alone (sequential or exclusive) runs while no inner loop
\* of the same call is running in a workspace.
RunsAlone ==
  pc = "sequential" \/ (pc = "checkpoint" /\ batch = {}) =>
    \A s \in Running : startedBy[s] # calls

\* A done story was checkpointed, and merged exactly once if it ran isolated.
DoneIsEarned ==
  \A s \in Story : status[s] = "done" =>
    /\ s \in checkpointed
    /\ merges[s] = IF Class[s] = "parallel_safe" THEN 1 ELSE 0

\* What was merged is neither run nor merged again by a later call, nor
\* escalated: its changes are in the target.
MergedOnce ==
  \A s \in Story : merges[s] > 0 => merges[s] = 1 /\ status[s] \in {"in_progress", "done"}

\* A call starts nothing once it has completed runBudget stories: it goes over
\* its budget by no more than what the batch that is running adds.
StartsWithinBudget ==
  pc \in Suspended \ {"loop"} => Cardinality(completed \ batch) < RunBudget

\* A story that was started never becomes selectable again, and done or
\* escalated are for good.
NeverRestarted ==
  [][\A s \in Story :
       /\ status[s] # "todo" => status'[s] # "todo"
       /\ status[s] \in {"done", "escalated"} => status'[s] = status[s]]_vars

\* Every call settles: it returns an outcome or rejects.
CallSettles == pc = "loop" ~> pc \in Settled

-----------------------------------------------------------------------------
(* Claims of the repository's comments and docs the code does not keep. *)

\* docs/workflows/05_PARALLEL_DEVELOPMENT_RUNTIME_WORKFLOW.md:22: two
\* stories writing the same file may not run in parallel.
WritersDisjointAcrossCalls == \A s, t \in Running : <<s, t>> \notin Overlap

\* workspace-manager/src/index.ts:394: the caller of runBatch is responsible for
\* cleanup on normal return; the only caller is runParallelScheduler.
WorkspacesCleanedUp == pc = "returned" => workspace = {}
=============================================================================
