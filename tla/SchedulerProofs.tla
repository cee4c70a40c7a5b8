-------------------------- MODULE SchedulerProofs --------------------------
(***************************************************************************)
(* Proofs about ParallelScheduler, for every finite backlog, dependency    *)
(* graph, overlap relation, budget and number of calls.                    *)
(***************************************************************************)
EXTENDS ParallelScheduler, FiniteSetTheorems, TLAPS

\* computeSpawnPlan keeps overlapping stories apart: two stories that overlap
\* are in one component, of which the plan takes only the one that sorts first.
LEMMA PlanIsDisjoint ==
  ASSUME NEW C \in SUBSET Story, NEW s \in SpawnPlan(C), NEW t \in SpawnPlan(C)
  PROVE  <<s, t>> \notin Overlap
<1> SUFFICES ASSUME <<s, t>> \in Overlap PROVE FALSE
  OBVIOUS
<1> USE OrderAssumption, OverlapAssumption
<1>1. s \in C /\ t \in C /\ s \in Story /\ t \in Story
  BY DEF SpawnPlan
<1>2. Linked(s, t, C)
  BY <1>1 DEF Linked
<1>3. Linked(t, s, C)
  BY <1>1 DEF Linked
<1>4. Rank[s] <= Rank[t] /\ Rank[t] <= Rank[s]
  BY <1>1, <1>2, <1>3 DEF SpawnPlan
<1>5. s = t
  BY <1>1, <1>4
<1> QED
  BY <1>1, <1>5

-----------------------------------------------------------------------------
(***************************************************************************)
(* The inductive invariant: what each story of the current batch, and the  *)
(* one worked on alone, has behind it at each await.                       *)
(***************************************************************************)
Fresh(s) == status[s] = "in_progress" /\ merges[s] = 0

\* A result that is not processed yet: merged if it passed.
Awaiting(s) ==
  /\ status[s] = "in_progress"
  /\ worker[s] \in {"passed", "failed"}
  /\ merges[s] = IF worker[s] = "passed" THEN 1 ELSE 0

Alone(s) == Fresh(s) /\ Class[s] # "parallel_safe"

Collecting ==
  /\ \A s \in runs : Awaiting(s)
  /\ \A s \in batch \ (runs \cup {current}) : status[s] = "done"

Shape ==
  /\ runs \subseteq batch
  /\ pc \in {"loop", "sequential"} => batch = {} /\ runs = {}
  /\ pc \in {"loop", "batch", "merge", "collect"} => current = NoStory
  /\ pc = "batch" => \A s \in batch : Fresh(s)
  /\ pc = "merge" => \A s \in batch : Fresh(s) /\ worker[s] \in {"passed", "failed"}
  /\ pc = "merge" => runs = batch
  /\ pc = "collect" => Collecting
  /\ pc = "sequential" => current \in Story /\ Alone(current)
  /\ pc = "checkpoint" /\ batch = {} => current \in Story /\ Alone(current)
  /\ pc = "checkpoint" /\ batch # {} =>
       /\ Collecting
       /\ current \in batch \ runs
       /\ status[current] = "in_progress" /\ merges[current] = 1
       /\ worker[current] = "passed"

\* Inner loops this call started, and those an earlier, rejected one left.
Own == {s \in Running : startedBy[s] = calls}
Left == Running \ Own

BatchShape ==
  /\ Own \subseteq batch
  /\ pc \notin {"batch", "rejected"} => Own = {}
  /\ \A s \in batch : Class[s] = "parallel_safe"
  /\ \A s, t \in batch : <<s, t>> \notin Overlap
  /\ \A s \in Left : startedBy[s] < calls
  /\ \A s, t \in Left : startedBy[s] = startedBy[t] => <<s, t>> \notin Overlap

MergeShape == \A s \in Story : status[s] \in {"todo", "escalated"} => merges[s] = 0

IInv == TypeOK /\ Shape /\ BatchShape /\ MergeShape /\ DepsFirst /\ DoneIsEarned /\ MergedOnce

\* Loops of one call are all its own or all left by it, and both are apart.
LEMMA WritersApart == TypeOK /\ BatchShape => WritersDisjoint
<1> SUFFICES ASSUME TypeOK, BatchShape, NEW s \in Running, NEW t \in Running,
                    startedBy[s] = startedBy[t]
             PROVE  <<s, t>> \notin Overlap
  BY DEF WritersDisjoint
<1>1. CASE s \in Own
  <2>1. t \in Own
    BY <1>1 DEF Own
  <2> QED
    BY <1>1, <2>1 DEF BatchShape
<1>2. CASE s \in Left
  <2>1. t \in Left
    BY <1>2 DEF Own, Left
  <2> QED
    BY <1>2, <2>1 DEF BatchShape
<1> QED
  BY <1>1, <1>2 DEF Left

LEMMA InitInductive == Init => IInv
BY StoryAssumption, BoundAssumption, ClassAssumption
   DEF Init, IInv, TypeOK, Shape, BatchShape, MergeShape, DepsFirst, DoneIsEarned, MergedOnce,
       StoryStatus, Suspended, Settled, WorkerState, Own, Left, Running

LEMMA TypeStep == IInv /\ [Next]_vars => TypeOK'
<1> SUFFICES ASSUME IInv, [Next]_vars PROVE TypeOK'
  OBVIOUS
<1>0. TypeOK /\ (pc = "checkpoint" => current \in Story)
  BY DEF IInv, Shape, TypeOK
<1> USE <1>0, StoryAssumption, BoundAssumption
    DEF TypeOK, StoryStatus, Suspended, Settled, WorkerState, Return, Reject, Escalate, MergeEach
<1>1. CASE HaltOnBudget \/ ReturnAllDone
  BY <1>1 DEF HaltOnBudget, ReturnAllDone
<1>2. CASE StartBatch
  <2>1. SpawnPlan(BatchCandidates) \subseteq Story
    BY DEF SpawnPlan, BatchCandidates
  <2> QED
    BY <1>2, <2>1 DEF StartBatch
<1>3. CASE \E s \in Story : WorkerEnds(s)
  BY <1>3 DEF WorkerEnds
<1>4. CASE BatchResolves \/ BatchRejects
  BY <1>4 DEF BatchResolves, BatchRejects
<1>5. CASE MergeInOrder
  BY <1>5 DEF MergeInOrder
<1>6. CASE CollectPassed \/ CollectFailed
  BY <1>6 DEF CollectPassed, CollectFailed, IsFirstRun
<1>7. CASE BatchDone
  <2>1. Cardinality(batch) \in Nat
    BY FS_Subset, FS_CardinalityType
  <2> QED
    BY <1>7, <2>1 DEF BatchDone
<1>8. CASE StartSequential \/ SequentialEnds
  BY <1>8 DEF StartSequential, SequentialEnds
<1>9. CASE CheckpointResolves \/ CheckpointThrows
  BY <1>0, <1>9 DEF CheckpointResolves, CheckpointThrows
<1>10. CASE CallAgain
  BY <1>10 DEF CallAgain
<1>11. CASE UNCHANGED vars
  BY <1>11 DEF vars
<1> QED
  BY <1>1, <1>2, <1>3, <1>4, <1>5, <1>6, <1>7, <1>8, <1>9, <1>10, <1>11
     DEF Next, Scheduler, Finished

\* What IInv says besides the types; each step of the system preserves it.
Held == Shape /\ BatchShape /\ MergeShape /\ DepsFirst /\ DoneIsEarned /\ MergedOnce

LEMMA LoopStep ==
  ASSUME IInv, TypeOK', HaltOnBudget \/ ReturnAllDone
  PROVE  Held'
BY DEF IInv, Held, HaltOnBudget, ReturnAllDone, Return, TypeOK, Shape, BatchShape, MergeShape,
       DepsFirst, DoneIsEarned, MergedOnce, Own, Left, Running, Fresh, Alone, Collecting, Awaiting

LEMMA StartBatchStep ==
  ASSUME IInv, TypeOK', StartBatch
  PROVE  Held'
<1> DEFINE plan == SpawnPlan(BatchCandidates)
<1>1. plan \subseteq BatchCandidates /\ BatchCandidates \subseteq Story
  BY DEF SpawnPlan, BatchCandidates
<1>2. \A s \in plan : Ready(s) /\ Class[s] = "parallel_safe" /\ merges[s] = 0
  BY <1>1 DEF BatchCandidates, Ready, IInv, MergeShape
<1>3. \A s, t \in plan : <<s, t>> \notin Overlap
  BY <1>1, PlanIsDisjoint
<1> HIDE DEF plan
<1>4. /\ status' = [s \in Story |-> IF s \in plan THEN "in_progress" ELSE status[s]]
      /\ batch' = plan /\ pc = "loop"
      /\ UNCHANGED <<runs, current, merges, checkpointed, completed, iterations, calls>>
  BY DEF StartBatch, plan
<1>5. \/ /\ worker' = [s \in Story |-> IF s \in plan THEN "running" ELSE worker[s]]
         /\ startedBy' = [s \in Story |-> IF s \in plan THEN calls ELSE startedBy[s]]
         /\ pc' = "batch"
      \/ worker' = worker /\ startedBy' = startedBy /\ pc' = "rejected"
  BY DEF StartBatch, plan, Reject
<1>6. runs = {} /\ batch = {} /\ current = NoStory /\ Own = {}
  BY <1>4 DEF IInv, Shape, BatchShape
<1>7. Shape'
  BY <1>1, <1>2, <1>4, <1>5, <1>6 DEF Shape, Fresh, TypeOK
<1>8. BatchShape'
  <2>1. Own' \subseteq plan /\ Left' \subseteq Left
    BY <1>1, <1>4, <1>5, <1>6 DEF Own, Left, Running
  <2>2. \A s \in Left' : startedBy'[s] = startedBy[s]
    BY <1>1, <1>4, <1>5, <2>1 DEF Own, Left, Running
  <2>3. pc' \in {"batch", "rejected"} /\ \A s \in batch' : Class[s] = "parallel_safe"
    BY <1>2, <1>4, <1>5
  <2> QED
    BY <1>3, <1>4, <2>1, <2>2, <2>3 DEF BatchShape, IInv
<1>9. MergeShape'
  BY <1>1, <1>2, <1>4 DEF MergeShape, IInv, TypeOK
<1>10. DepsFirst'
  <2> SUFFICES ASSUME NEW s \in Story, status'[s] # "todo", NEW d \in DependsOn[s]
               PROVE  status'[d] = "done"
    BY DEF DepsFirst
  <2>1. d \in Story
    BY DependsAssumption
  <2>2. status[d] = "done"
    BY <1>1, <1>2, <1>4 DEF IInv, DepsFirst, Ready, TypeOK
  <2>3. d \notin plan
    BY <1>2, <2>2 DEF Ready
  <2> QED
    BY <1>4, <2>1, <2>2, <2>3
<1>11. DoneIsEarned' /\ MergedOnce'
  BY <1>1, <1>2, <1>4 DEF DoneIsEarned, MergedOnce, IInv, TypeOK
<1> QED
  BY <1>7, <1>8, <1>9, <1>10, <1>11 DEF Held

LEMMA WorkerStep ==
  ASSUME IInv, TypeOK', NEW s \in Story, WorkerEnds(s)
  PROVE  Held'
<1> USE DEF IInv, WorkerEnds
<1>1. Shape'
  BY DEF Shape, BatchShape, Own, Left, Running, TypeOK, Fresh, Alone, Collecting, Awaiting
<1>2. BatchShape'
  BY DEF BatchShape, Own, Left, Running, TypeOK
<1>3. MergeShape' /\ DepsFirst' /\ DoneIsEarned' /\ MergedOnce'
  BY DEF MergeShape, DepsFirst, DoneIsEarned, MergedOnce
<1> QED
  BY <1>1, <1>2, <1>3 DEF Held

LEMMA BatchEndStep ==
  ASSUME IInv, TypeOK', BatchResolves \/ BatchRejects
  PROVE  Held'
<1> USE DEF IInv, BatchResolves, BatchRejects, Reject
<1>1. Shape'
  BY DEF Shape, TypeOK, Fresh, Alone, Collecting, Awaiting
<1>2. BatchShape'
  BY DEF BatchShape, Own, Left, Running, TypeOK
<1>3. MergeShape' /\ DepsFirst' /\ DoneIsEarned' /\ MergedOnce'
  BY DEF MergeShape, DepsFirst, DoneIsEarned, MergedOnce
<1> QED
  BY <1>1, <1>2, <1>3 DEF Held

LEMMA MergeStep ==
  ASSUME IInv, TypeOK', MergeInOrder
  PROVE  Held'
<1>1. PICK S \in SUBSET PassedRuns :
        /\ MergeEach(S)
        /\ \/ pc' = "collect" /\ S = PassedRuns
           \/ pc' = "rejected"
  <2> USE DEF MergeInOrder, Reject
  <2>1. CASE MergeEach(PassedRuns) /\ pc' = "collect"
    BY <2>1
  <2>2. CASE \E failing \in PassedRuns :
               MergeEach({s \in PassedRuns : Rank[s] < Rank[failing]}) /\ pc' = "rejected"
    BY <2>2
  <2> QED
    BY <2>1, <2>2
<1>2. /\ pc = "merge"
      /\ UNCHANGED <<status, batch, runs, current, worker, startedBy, calls, checkpointed>>
  BY DEF MergeInOrder
<1>3. \A s \in batch : Fresh(s) /\ worker[s] \in {"passed", "failed"}
  BY <1>2 DEF IInv, Shape
<1>4. S \subseteq batch /\ batch \subseteq Story
  BY DEF PassedRuns, IInv, TypeOK
<1>5. \A s \in Story : merges'[s] = IF s \in S THEN merges[s] + 1 ELSE merges[s]
  BY <1>1 DEF MergeEach
<1>6. \A s \in S : merges'[s] = 1 /\ status'[s] = "in_progress"
  BY <1>2, <1>3, <1>4, <1>5 DEF Fresh
<1>7. Shape'
  <2>1. current = NoStory /\ runs = batch
    BY <1>2 DEF IInv, Shape
  <2>2. pc' = "collect" => Collecting'
    BY <1>1, <1>2, <1>3, <1>4, <1>5, <1>6, <2>1 DEF Collecting, Awaiting, PassedRuns, Fresh
  <2> QED
    BY <1>1, <1>2, <2>1, <2>2 DEF Shape
<1>8. BatchShape'
  BY <1>1, <1>2 DEF BatchShape, Own, Left, Running, IInv
<1>9. MergeShape' /\ DepsFirst' /\ DoneIsEarned' /\ MergedOnce'
  BY <1>2, <1>4, <1>5, <1>6 DEF MergeShape, DepsFirst, DoneIsEarned, MergedOnce, IInv
<1> QED
  BY <1>7, <1>8, <1>9 DEF Held

LEMMA CollectStep ==
  ASSUME IInv, TypeOK', CollectPassed \/ CollectFailed
  PROVE  Held'
<1>1. pc = "collect" /\ Collecting /\ current = NoStory /\ runs \subseteq batch
  BY DEF IInv, Shape, CollectPassed, CollectFailed
<1>2. CASE CollectPassed
  <2>1. PICK s \in runs : worker[s] = "passed" /\ current' = s /\ runs' = runs \ {s}
    BY <1>2 DEF CollectPassed
  <2>2. /\ pc' = "checkpoint"
        /\ UNCHANGED <<status, batch, worker, startedBy, calls, merges, checkpointed>>
    BY <1>2 DEF CollectPassed
  <2>3. Shape'
    <3>1. NoStory \notin batch
      BY StoryAssumption DEF IInv, TypeOK
    <3>2. Collecting'
      BY <1>1, <2>1, <2>2, <3>1 DEF Collecting, Awaiting
    <3>3. status[s] = "in_progress" /\ merges[s] = 1
      BY <1>1, <2>1 DEF Collecting, Awaiting
    <3> QED
      BY <1>1, <2>1, <2>2, <3>2, <3>3 DEF Shape
  <2>4. BatchShape'
    BY <1>1, <2>2 DEF IInv, BatchShape, Own, Left, Running
  <2>5. MergeShape' /\ DepsFirst' /\ DoneIsEarned' /\ MergedOnce'
    BY <2>2 DEF IInv, MergeShape, DepsFirst, DoneIsEarned, MergedOnce
  <2> QED
    BY <2>3, <2>4, <2>5 DEF Held
<1>3. CASE CollectFailed
  <2>1. PICK s \in runs : worker[s] = "failed" /\ status' = [status EXCEPT ![s] = "escalated"]
    BY <1>3 DEF CollectFailed, Escalate
  <2>2. /\ pc' = "returned"
        /\ UNCHANGED <<batch, runs, current, worker, startedBy, calls, merges, checkpointed>>
    BY <1>3 DEF CollectFailed, Escalate, Return
  <2>3. s \in Story /\ status[s] = "in_progress" /\ merges[s] = 0
    BY <1>1, <2>1 DEF Collecting, Awaiting, IInv, TypeOK
  <2>4. Shape'
    BY <1>1, <2>2 DEF Shape
  <2>5. BatchShape'
    BY <1>1, <2>2 DEF IInv, BatchShape, Own, Left, Running
  <2>6. MergeShape' /\ DepsFirst' /\ DoneIsEarned' /\ MergedOnce'
    BY <2>1, <2>2, <2>3, DependsAssumption
       DEF IInv, TypeOK, MergeShape, DepsFirst, DoneIsEarned, MergedOnce
  <2> QED
    BY <2>4, <2>5, <2>6 DEF Held
<1> QED
  BY <1>2, <1>3

LEMMA BatchDoneStep ==
  ASSUME IInv, TypeOK', BatchDone
  PROVE  Held'
<1>1. /\ pc = "collect" /\ pc' = "loop" /\ runs = {} /\ batch' = {}
      /\ UNCHANGED <<status, runs, current, worker, startedBy, calls, merges, checkpointed>>
  BY DEF BatchDone
<1>2. current = NoStory /\ Own = {}
  BY <1>1 DEF IInv, Shape, BatchShape
<1>3. Shape' /\ BatchShape'
  BY <1>1, <1>2 DEF IInv, Shape, BatchShape, Own, Left, Running
<1>4. MergeShape' /\ DepsFirst' /\ DoneIsEarned' /\ MergedOnce'
  BY <1>1 DEF IInv, MergeShape, DepsFirst, DoneIsEarned, MergedOnce
<1> QED
  BY <1>3, <1>4 DEF Held

LEMMA SequentialStep ==
  ASSUME IInv, TypeOK', StartSequential \/ SequentialEnds
  PROVE  Held'
<1>1. CASE StartSequential
  <2>1. PICK s \in Story : /\ IsNextStory(s) /\ current' = s
                           /\ status' = [status EXCEPT ![s] = "in_progress"]
    BY <1>1 DEF StartSequential
  <2>2. /\ pc = "loop" /\ pc' = "sequential" /\ BatchCandidates = {}
        /\ UNCHANGED <<batch, runs, worker, startedBy, calls, merges, checkpointed>>
    BY <1>1 DEF StartSequential
  <2>3. Ready(s) /\ Class[s] # "parallel_safe" /\ merges[s] = 0
    BY <2>1, <2>2 DEF IsNextStory, BatchCandidates, Ready, IInv, MergeShape
  <2>4. batch = {} /\ runs = {} /\ Own = {}
    BY <2>2 DEF IInv, Shape, BatchShape
  <2>5. Shape' /\ BatchShape'
    BY <2>1, <2>2, <2>3, <2>4 DEF Shape, BatchShape, Own, Left, Running, Alone, Fresh, IInv, TypeOK
  <2>6. MergeShape' /\ DoneIsEarned' /\ MergedOnce'
    BY <2>1, <2>2, <2>3 DEF IInv, TypeOK, MergeShape, DoneIsEarned, MergedOnce
  <2>7. DepsFirst'
    BY <2>1, <2>3, DependsAssumption DEF IInv, TypeOK, DepsFirst, Ready
  <2> QED
    BY <2>5, <2>6, <2>7 DEF Held
<1>2. CASE SequentialEnds
  <2>1. /\ pc = "sequential" /\ current \in Story /\ Alone(current)
        /\ batch = {} /\ runs = {} /\ Own = {}
        /\ UNCHANGED <<batch, runs, current, worker, startedBy, calls, merges, checkpointed>>
    BY <1>2 DEF SequentialEnds, IInv, Shape, BatchShape
  <2>2. \/ pc' = "checkpoint" /\ status' = status
        \/ pc' = "returned" /\ status' = [status EXCEPT ![current] = "escalated"]
    BY <1>2 DEF SequentialEnds, Escalate, Return
  <2>3. Shape' /\ BatchShape'
    BY <2>1, <2>2 DEF IInv, Shape, BatchShape, Own, Left, Running, Alone, Fresh
  <2>4. MergeShape' /\ DepsFirst' /\ DoneIsEarned' /\ MergedOnce'
    BY <2>1, <2>2, DependsAssumption
       DEF IInv, TypeOK, MergeShape, DepsFirst, DoneIsEarned, MergedOnce, Alone, Fresh
  <2> QED
    BY <2>3, <2>4 DEF Held
<1> QED
  BY <1>1, <1>2

LEMMA CheckpointStep ==
  ASSUME IInv, TypeOK', CheckpointResolves \/ CheckpointThrows
  PROVE  Held'
<1>1. /\ pc = "checkpoint" /\ current \in Story /\ Own = {} /\ runs \subseteq batch
      /\ status[current] = "in_progress"
      /\ merges[current] = IF Class[current] = "parallel_safe" THEN 1 ELSE 0
      /\ UNCHANGED <<batch, runs, worker, startedBy, calls, merges>>
  BY DEF CheckpointResolves, CheckpointThrows, IInv, TypeOK, Shape, BatchShape, Alone, Fresh
<1>2. CASE CheckpointResolves
  <2>1. /\ status' = [status EXCEPT ![current] = "done"]
        /\ checkpointed' = checkpointed \cup {current} /\ current' = NoStory
        /\ IF batch = {} THEN pc' = "loop" ELSE pc' = "collect"
    BY <1>2 DEF CheckpointResolves
  <2>2. batch # {} => Collecting /\ current \in batch \ runs
    BY <1>1 DEF IInv, Shape
  <2>3. Shape'
    <3>1. batch # {} => Collecting'
      BY <1>1, <2>1, <2>2, StoryAssumption DEF Collecting, Awaiting, IInv, TypeOK
    <3> QED
      BY <1>1, <2>1, <3>1 DEF Shape
  <2>4. BatchShape'
    BY <1>1, <2>1 DEF IInv, BatchShape, Own, Left, Running
  <2>5. MergeShape' /\ DepsFirst' /\ DoneIsEarned' /\ MergedOnce'
    BY <1>1, <2>1, DependsAssumption
       DEF IInv, TypeOK, MergeShape, DepsFirst, DoneIsEarned, MergedOnce
  <2> QED
    BY <2>3, <2>4, <2>5 DEF Held
<1>3. CASE CheckpointThrows
  <2>1. pc' = "rejected" /\ UNCHANGED <<status, current, checkpointed>>
    BY <1>3 DEF CheckpointThrows, Reject
  <2>2. Shape' /\ BatchShape'
    BY <1>1, <2>1 DEF IInv, Shape, BatchShape, Own, Left, Running
  <2>3. MergeShape' /\ DepsFirst' /\ DoneIsEarned' /\ MergedOnce'
    BY <1>1, <2>1 DEF IInv, MergeShape, DepsFirst, DoneIsEarned, MergedOnce
  <2> QED
    BY <2>2, <2>3 DEF Held
<1> QED
  BY <1>2, <1>3

LEMMA CallAgainStep ==
  ASSUME IInv, TypeOK', CallAgain
  PROVE  Held'
<1>1. /\ pc' = "loop" /\ batch' = {} /\ runs' = {} /\ current' = NoStory
      /\ \A s \in Story : worker'[s] = "running" <=> worker[s] = "running"
      /\ startedBy' = startedBy /\ calls' = calls + 1
      /\ UNCHANGED <<status, merges, checkpointed>>
  BY DEF CallAgain
<1>2. Shape'
  BY <1>1 DEF Shape
<1>3. BatchShape'
  <2>1. Running' = Running /\ \A s \in Running : s \in Story
    BY <1>1 DEF Running
  <2>2. \A s \in Running : startedBy[s] <= calls
    BY <2>1 DEF IInv, TypeOK, BatchShape, Own, Left
  <2>3. Own' = {} /\ Left' = Running
    BY <1>1, <2>1, <2>2 DEF IInv, TypeOK, Own, Left
  <2>4. \A s \in Running : startedBy'[s] < calls'
    BY <1>1, <2>1, <2>2 DEF IInv, TypeOK
  <2>5. WritersDisjoint
    BY WritersApart DEF IInv
  <2> QED
    BY <1>1, <2>1, <2>3, <2>4, <2>5 DEF BatchShape, WritersDisjoint
<1>4. MergeShape' /\ DepsFirst' /\ DoneIsEarned' /\ MergedOnce'
  BY <1>1 DEF IInv, MergeShape, DepsFirst, DoneIsEarned, MergedOnce
<1> QED
  BY <1>2, <1>3, <1>4 DEF Held

LEMMA StepInductive == IInv /\ [Next]_vars => IInv'
<1> SUFFICES ASSUME IInv, [Next]_vars PROVE IInv'
  OBVIOUS
<1>1. TypeOK'
  BY TypeStep
<1>2. CASE Next
  <2>1. CASE Finished
    BY <2>1 DEF Finished, vars, IInv, TypeOK, Shape, BatchShape, MergeShape, DepsFirst,
       DoneIsEarned, MergedOnce, Own, Left, Running, Fresh, Alone, Collecting, Awaiting
  <2>2. CASE ~Finished
    <3>1. Held'
      BY <1>1, <1>2, <2>2, LoopStep, StartBatchStep, WorkerStep, BatchEndStep, MergeStep,
         CollectStep, BatchDoneStep, SequentialStep, CheckpointStep, CallAgainStep
         DEF Next, Scheduler
    <3> QED
      BY <1>1, <3>1 DEF IInv, Held
  <2> QED
    BY <2>1, <2>2
<1>3. CASE UNCHANGED vars
  BY <1>3 DEF vars, IInv, TypeOK, Shape, BatchShape, MergeShape, DepsFirst,
     DoneIsEarned, MergedOnce, Own, Left, Running, Fresh, Alone, Collecting, Awaiting
<1> QED
  BY <1>2, <1>3

LEMMA Inductive == Spec => []IInv
<1>1. Init => IInv
  BY InitInductive
<1>2. IInv /\ [Next]_vars => IInv'
  BY StepInductive
<1> QED
  BY <1>1, <1>2, PTL DEF Spec

-----------------------------------------------------------------------------
(* The run budget *)

\* While a call runs, iterations counts what it has completed, but for the
\* stories of the batch, which are counted together when the batch is through.
Counted ==
  /\ \A s \in completed : status[s] = "done"
  /\ pc \in Suspended => iterations = Cardinality(completed \ batch)
  /\ pc \in Suspended \ {"loop"} => iterations < RunBudget
  /\ pc \in {"collect", "checkpoint"} => batch \ (runs \cup {current}) \subseteq completed

\* No step that leaves the count alone disturbs it.
LEMMA CountedStays ==
  ASSUME Counted, UNCHANGED <<batch, completed, iterations>>,
         \A s \in completed : status'[s] = status[s],
         pc' \in Suspended \ {"loop"} => pc \in Suspended /\ iterations < RunBudget,
         pc' = "loop" => pc \in Suspended,
         pc' \in {"collect", "checkpoint"} => batch \ (runs' \cup {current'}) \subseteq completed
  PROVE  Counted'
BY DEF Counted, Suspended

LEMMA CountedStep == IInv /\ Counted /\ [Next]_vars => Counted'
<1> SUFFICES ASSUME IInv, Counted, [Next]_vars PROVE Counted'
  OBVIOUS
<1>1. TypeOK /\ Shape /\ TypeOK'
  BY TypeStep DEF IInv
<1>2. IsFiniteSet(completed) /\ IsFiniteSet(batch)
  BY <1>1, StoryAssumption, FS_Subset DEF TypeOK
<1>3. CASE HaltOnBudget \/ ReturnAllDone
  BY <1>3, CountedStays DEF HaltOnBudget, ReturnAllDone, Return, Suspended
<1>4. CASE StartBatch
  <2> DEFINE plan == SpawnPlan(BatchCandidates)
  <2>1. plan \subseteq BatchCandidates /\ \A s \in plan : s \in Story /\ status[s] = "todo"
    BY DEF SpawnPlan, BatchCandidates, Ready
  <2> HIDE DEF plan
  <2>2. /\ status' = [s \in Story |-> IF s \in plan THEN "in_progress" ELSE status[s]]
        /\ batch' = plan /\ pc = "loop" /\ iterations < RunBudget
        /\ pc' \in {"batch", "rejected"} /\ UNCHANGED <<completed, iterations>>
    BY <1>4 DEF StartBatch, WithinBudget, Reject, plan
  <2>3. batch = {} /\ completed \ plan = completed
    BY <1>1, <2>1, <2>2 DEF Counted, Shape
  <2>4. iterations' = Cardinality(completed' \ batch')
    <3>1. completed \ batch = completed \ plan
      BY <2>3
    <3> QED BY <2>2, <3>1 DEF Counted, Suspended
  <2>5. \A s \in completed' : status'[s] = "done"
    BY <1>1, <2>1, <2>2 DEF Counted, TypeOK
  <2> QED BY <2>2, <2>4, <2>5 DEF Counted, Suspended
<1>5. CASE BatchResolves \/ BatchRejects
  BY <1>5, CountedStays DEF BatchResolves, BatchRejects, Reject, Counted, Suspended
<1>6. CASE MergeInOrder
  <2>1. runs = batch
    BY <1>1, <1>6 DEF MergeInOrder, Shape
  <2> QED BY <1>6, <2>1, CountedStays DEF MergeInOrder, Reject, Counted, Suspended
<1>7. CASE CollectPassed
  <2>1. current = NoStory /\ pc = "collect"
    BY <1>1, <1>7 DEF CollectPassed, Shape
  <2>2. batch \ (runs' \cup {current'}) \subseteq completed
    <3>1. PICK s \in runs : current' = s /\ runs' = runs \ {s}
      BY <1>7 DEF CollectPassed
    <3>2. NoStory \notin batch
      BY <1>1, StoryAssumption DEF TypeOK
    <3> QED BY <2>1, <3>1, <3>2 DEF Counted
  <2> QED BY <1>7, <2>1, <2>2, CountedStays DEF CollectPassed, Counted, Suspended
<1>8. CASE CollectFailed
  <2>1. PICK s \in runs : status' = [status EXCEPT ![s] = "escalated"] /\ worker[s] = "failed"
    BY <1>8 DEF CollectFailed, Escalate
  <2>2. status[s] = "in_progress"
    BY <1>1, <1>8 DEF CollectFailed, Shape, Collecting, Awaiting
  <2>3. \A t \in completed : status'[t] = status[t]
    BY <1>1, <2>1, <2>2 DEF Counted, TypeOK
  <2> QED BY <1>8, <2>3, CountedStays DEF CollectFailed, Escalate, Return, Suspended
<1>9. CASE BatchDone
  <2>1. /\ pc = "collect" /\ runs = {} /\ iterations' = iterations + Cardinality(batch)
        /\ batch' = {} /\ pc' = "loop" /\ UNCHANGED <<status, completed>>
    BY <1>9 DEF BatchDone
  <2>2. batch \subseteq completed
    <3>1. current = NoStory /\ NoStory \notin batch
      BY <1>1, <2>1, StoryAssumption DEF Shape, TypeOK
    <3> QED BY <2>1, <3>1 DEF Counted
  <2>3. Cardinality(completed \ batch) = Cardinality(completed) - Cardinality(batch)
    <3>1. completed \cap batch = batch
      BY <2>2
    <3> QED BY <1>2, <3>1, FS_Difference
  <2>4. Cardinality(completed) \in Nat /\ Cardinality(batch) \in Nat
    BY <1>2, FS_CardinalityType
  <2>5. iterations' = Cardinality(completed)
    BY <2>1, <2>3, <2>4 DEF Counted, Suspended
  <2>6. completed' \ batch' = completed
    BY <2>1
  <2> QED BY <2>1, <2>5, <2>6 DEF Counted, Suspended
<1>10. CASE StartSequential
  <2>1. /\ pc = "loop" /\ iterations < RunBudget /\ pc' = "sequential"
        /\ UNCHANGED <<batch, completed, iterations>>
    BY <1>10 DEF StartSequential, WithinBudget
  <2>2. PICK s \in Story : Ready(s) /\ status' = [status EXCEPT ![s] = "in_progress"]
    BY <1>10 DEF StartSequential, IsNextStory
  <2>3. \A t \in completed : status'[t] = status[t]
    BY <1>1, <2>2 DEF Counted, TypeOK, Ready
  <2> QED BY <2>1, <2>3, CountedStays DEF Suspended
<1>11. CASE SequentialEnds
  <2>1. /\ pc = "sequential" /\ status[current] = "in_progress" /\ batch = {}
        /\ UNCHANGED <<batch, completed, iterations, runs, current>>
        /\ \/ pc' = "checkpoint" /\ status' = status
           \/ pc' = "returned" /\ status' = [status EXCEPT ![current] = "escalated"]
    BY <1>1, <1>11 DEF SequentialEnds, Escalate, Return, Shape, Alone, Fresh
  <2>2. \A t \in completed : status'[t] = status[t]
    BY <1>1, <2>1 DEF Counted, TypeOK
  <2> QED BY <2>1, <2>2, CountedStays DEF Counted, Suspended
<1>12. CASE CheckpointResolves
  <2>1. /\ pc = "checkpoint" /\ completed' = completed \cup {current}
        /\ status' = [status EXCEPT ![current] = "done"]
        /\ current' = NoStory /\ UNCHANGED <<batch, runs>>
        /\ IF batch = {} THEN pc' = "loop" /\ iterations' = iterations + 1
                         ELSE pc' = "collect" /\ iterations' = iterations
    BY <1>12 DEF CheckpointResolves
  <2>2. \A s \in completed' : status'[s] = "done"
    BY <1>1, <2>1 DEF Counted, TypeOK, Shape, Alone, Fresh
  <2>3. CASE batch = {}
    <3>1. status[current] = "in_progress"
      BY <1>1, <2>1, <2>3 DEF Shape, Alone, Fresh
    <3>2. current \notin completed
      BY <3>1 DEF Counted
    <3>3. Cardinality(completed') = Cardinality(completed) + 1
      BY <1>2, <2>1, <3>2, FS_AddElement
    <3>4. completed \ batch = completed /\ completed' \ batch' = completed'
      BY <2>1, <2>3
    <3>5. iterations' = Cardinality(completed' \ batch')
      BY <2>1, <2>3, <3>3, <3>4 DEF Counted, Suspended
    <3> QED BY <2>1, <2>2, <2>3, <3>5 DEF Counted, Suspended
  <2>4. CASE batch # {}
    <3>1. current \in batch
      BY <1>1, <2>1, <2>4 DEF Shape
    <3>2. completed' \ batch' = completed \ batch
      BY <2>1, <3>1
    <3>3. batch' \ (runs' \cup {current'}) \subseteq completed'
      BY <2>1 DEF Counted
    <3> QED BY <2>1, <2>2, <2>4, <3>2, <3>3 DEF Counted, Suspended
  <2> QED BY <2>3, <2>4
<1>13. CASE CheckpointThrows
  BY <1>13, CountedStays DEF CheckpointThrows, Reject, Suspended
<1>14. ASSUME NEW s \in Story, WorkerEnds(s) PROVE Counted'
  BY <1>14 DEF WorkerEnds, Counted, Suspended
<1>15. CASE CallAgain
  <2>1. completed' \ batch' = {} /\ completed' = {} /\ iterations' = 0 /\ pc' = "loop"
    BY <1>15 DEF CallAgain
  <2> QED BY <2>1, FS_EmptySet DEF Counted, Suspended
<1>16. CASE Finished \/ UNCHANGED vars
  BY <1>16 DEF Finished, vars, Counted
<1> QED BY <1>3, <1>4, <1>5, <1>6, <1>7, <1>8, <1>9, <1>10, <1>11, <1>12, <1>13, <1>14, <1>15, <1>16
        DEF Next, Scheduler

-----------------------------------------------------------------------------
(* The theorems *)

\* Every variable keeps its type, whatever the backlog.
THEOREM TypeCorrect == Spec => []TypeOK
BY Inductive, PTL DEF IInv

\* Inner loops of one call that run together never have overlapping write sets:
\* its batch is an overlap-free set (PlanIsDisjoint), also for those that a
\* rejected batch left running beside later calls.
THEOREM WritersAreDisjoint == Spec => []WritersDisjoint
<1>1. IInv => WritersDisjoint
  BY WritersApart DEF IInv
<1> QED
  BY <1>1, Inductive, PTL

\* Nothing is started before everything it depends on is done.
THEOREM DependenciesFirst == Spec => []DepsFirst
BY Inductive, PTL DEF IInv

\* A sequential or exclusive story never runs beside an isolated one of its call.
THEOREM ExclusiveRunsAlone == Spec => []RunsAlone
<1>1. IInv => RunsAlone
  BY DEF IInv, BatchShape, RunsAlone, Own
<1> QED
  BY <1>1, Inductive, PTL

\* A done story was checkpointed, and merged exactly once if it ran isolated.
THEOREM DoneMeansMergedOnce == Spec => []DoneIsEarned
BY Inductive, PTL DEF IInv

\* No later call merges or escalates what an earlier one merged.
THEOREM NothingMergedTwice == Spec => []MergedOnce
BY Inductive, PTL DEF IInv

\* A started story is never selectable again; done and escalated are for good.
THEOREM StartedForGood == Spec => NeverRestarted
<1>1. IInv /\ [Next]_vars =>
        \/ \A s \in Story :
             /\ status[s] # "todo" => status'[s] # "todo"
             /\ status[s] \in {"done", "escalated"} => status'[s] = status[s]
        \/ UNCHANGED vars
  <2> SUFFICES ASSUME IInv, Next, NEW s \in Story
               PROVE /\ status[s] # "todo" => status'[s] # "todo"
                     /\ status[s] \in {"done", "escalated"} => status'[s] = status[s]
    OBVIOUS
  <2> USE DEF IInv, TypeOK
  <2>1. CASE StartBatch
    BY <2>1 DEF StartBatch, SpawnPlan, BatchCandidates, Ready
  <2>2. CASE CollectFailed
    BY <2>2 DEF CollectFailed, Escalate, Shape, Collecting, Awaiting
  <2>3. CASE StartSequential
    BY <2>3 DEF StartSequential, IsNextStory, Ready
  <2>4. CASE SequentialEnds
    BY <2>4 DEF SequentialEnds, Escalate, Shape, Alone, Fresh
  <2>5. CASE CheckpointResolves
    BY <2>5 DEF CheckpointResolves, Shape, Alone, Fresh
  <2>6. CASE UNCHANGED status
    BY <2>6
  <2> QED
    BY <2>1, <2>2, <2>3, <2>4, <2>5, <2>6
       DEF Next, Scheduler, HaltOnBudget, ReturnAllDone, BatchResolves, BatchRejects,
           MergeInOrder, CollectPassed, BatchDone, CheckpointThrows, WorkerEnds, CallAgain,
           Finished, vars
<1> QED
  BY <1>1, Inductive, PTL DEF Spec, NeverRestarted

\* A call starts nothing beyond its run budget: what it completes beyond it is
\* part of the one batch it was running when the budget was used up.
THEOREM BudgetIsChecked == Spec => []StartsWithinBudget
<1>1. Init => Counted
  <2> SUFFICES ASSUME Init PROVE Counted
    OBVIOUS
  <2>1. completed = {} /\ completed \ batch = {} /\ iterations = 0 /\ pc = "loop"
    BY DEF Init
  <2> QED BY <2>1, FS_EmptySet DEF Counted
<1>2. Spec => []Counted
  BY <1>1, CountedStep, Inductive, PTL DEF Spec
<1>3. Counted => StartsWithinBudget
  BY DEF Counted, StartsWithinBudget, Suspended
<1> QED BY <1>2, <1>3, PTL
=============================================================================
