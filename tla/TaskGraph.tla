------------------------------ MODULE TaskGraph ------------------------------
(* The subtasks a developer breaks its story into: the store behind           *)
(* TaskCreate, TaskUpdate, TaskList and TaskGet.  The agent asks, the harness *)
(* keeps the store.  A task is known by its place, its sequence number + 1.   *)
EXTENDS Integers, Sequences

CONSTANT MaxTasks    \* bound: tasks of one story

VARIABLE tasks

TaskStatus == {"pending", "in_progress", "blocked", "done", "abandoned"}
Task == [status : TaskStatus, deps : SUBSET (1..MaxTasks)]
TypeOK == tasks \in Seq(Task) /\ Len(tasks) <= MaxTasks

\* LEGAL and legalTransition; a task may always keep its status.
Legal ==
  [pending |-> {"in_progress", "abandoned"}, in_progress |-> {"done", "blocked", "abandoned"},
   blocked |-> {"in_progress", "abandoned"}, done |-> {}, abandoned |-> {}]
LegalTransition(from, to) == from = to \/ to \in Legal[from]

Tasks == DOMAIN tasks
With(status) == {t \in Tasks : tasks[t].status = status}

NoOtherInProgress(t) == With("in_progress") \subseteq {t}

\* next(): pending, with every dependency done; the first of them is offered.
Runnable == {t \in With("pending") : tasks[t].deps \subseteq With("done")}

\* Mutant: the dependencies are not looked up.
CreateUnchecked ==
  /\ Len(tasks) < MaxTasks
  /\ \E deps \in SUBSET (1..MaxTasks) : tasks' = Append(tasks, [status |-> "pending", deps |-> deps])
\* A task may depend on tasks that are there already; a call that names
\* another, or a file outside of the contract's write set, throws and the store
\* is as it was.
Create ==
  /\ Len(tasks) < MaxTasks
  /\ \E deps \in SUBSET Tasks : tasks' = Append(tasks, [status |-> "pending", deps |-> deps])

\* The agent's tool: any task that is there, whether or not next() offers it.
Update(t, to) ==
  /\ LegalTransition(tasks[t].status, to)
  /\ to = "in_progress" => NoOtherInProgress(t)
  /\ tasks' = [tasks EXCEPT ![t].status = to]

=============================================================================
