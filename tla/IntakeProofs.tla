---------------------------- MODULE IntakeProofs ----------------------------
(***************************************************************************)
(* How people and the planner let work in: what holds of GateControl for   *)
(* any number of runs that interleave, and of StoryIntake for any ideas,   *)
(* reports, holds and waves, and any number of stories and subtasks.       *)
(***************************************************************************)
EXTENDS GateControl, StoryIntake, FiniteSetTheorems, TLAPS

(* GateControl *)

LEMMA TypeStep == TypeOK /\ [Next]_vars => TypeOK'
<1> SUFFICES ASSUME TypeOK, [Next]_vars PROVE TypeOK'
  OBVIOUS
<1> USE DEF TypeOK, Policy, InFlight, Ended, Goto
<1>1. CASE SetKillSwitch
  BY <1>1 DEF SetKillSwitch
<1>2. ASSUME NEW r \in Run, Start(r) \/ StartThrows(r) \/ Crash(r)
      PROVE  TypeOK'
  BY <1>2 DEF Start, StartThrows, Crash
<1>3. ASSUME NEW r \in Run, OpenRead(r) \/ CloseRead(r)
      PROVE  TypeOK'
  BY <1>3 DEF OpenRead, CloseRead, ReadSrc
<1>4. ASSUME NEW r \in Run, OpenWrite(r) \/ CloseWrite(r)
      PROVE  TypeOK'
  BY <1>4 DEF OpenWrite, CloseWrite, WriteSrc
<1>5. ASSUME NEW r \in Run, OpenVerify(r) \/ CloseVerify(r)
      PROVE  TypeOK'
  BY <1>5 DEF OpenVerify, CloseVerify, ReadBack
<1>6. ASSUME NEW r \in Run, FnEnds(r)
      PROVE  TypeOK'
  BY <1>6 DEF FnEnds
<1>7. CASE UNCHANGED vars
  BY <1>7 DEF vars
<1> QED
  BY <1>1, <1>2, <1>3, <1>4, <1>5, <1>6, <1>7 DEF Next, Step

LEMMA InitTypeOK == Init => TypeOK
<1> SUFFICES ASSUME Init PROVE TypeOK
  OBVIOUS
<1>1. policy \in Policy
  BY DEF Init, Policy
<1>2. src \in [Run -> Policy]
  BY <1>1 DEF Init
<1> QED
  BY <1>1, <1>2 DEF Init, TypeOK

\* Every variable keeps its type, whatever the runs and the operator do.
THEOREM TypeCorrect == Spec => []TypeOK
<1>1. Init => TypeOK
  BY InitTypeOK
<1> QED
  BY <1>1, TypeStep, PTL DEF Spec

-----------------------------------------------------------------------------
(***************************************************************************)
(* OpenIsOwned is inductive: only a write opens the gate, its run is then  *)
(* past the write, and it leaves Opened \cup Failed only by a read that    *)
(* found the gate closed.                                                  *)
(***************************************************************************)
Owner(r) == pc[r] \in Opened \cup Failed

LEMMA OwnedStep == TypeOK /\ OpenIsOwned /\ [Next]_vars => OpenIsOwned'
<1> SUFFICES ASSUME TypeOK, OpenIsOwned, [Next]_vars, policy'.enabled
             PROVE  \E r \in Run : Owner(r)'
  BY DEF OpenIsOwned, Owner
<1> USE DEF Owner, Opened, Failed, Goto, TypeOK
\* A step of r that leaves enabled as it is and r an owner if it was one.
<1>0. ASSUME NEW r \in Run, policy'.enabled = policy.enabled,
             \A q \in Run : q # r => pc'[q] = pc[q],
             Owner(r) => Owner(r)'
      PROVE  \E q \in Run : Owner(q)'
  <2>1. PICK q \in Run : Owner(q)
    BY <1>0 DEF OpenIsOwned
  <2> QED
    BY <1>0, <2>1
<1>1. CASE SetKillSwitch
  BY <1>1 DEF SetKillSwitch, OpenIsOwned, Policy
<1>2. ASSUME NEW r \in Run, Start(r) \/ StartThrows(r)
      PROVE  \E q \in Run : Owner(q)'
  BY <1>2, <1>0 DEF Start, StartThrows
<1>3. ASSUME NEW r \in Run, Crash(r)
      PROVE  \E q \in Run : Owner(q)'
  BY <1>3 DEF Crash
<1>4. ASSUME NEW r \in Run, OpenRead(r) \/ CloseRead(r)
      PROVE  \E q \in Run : Owner(q)'
  BY <1>4, <1>0 DEF OpenRead, CloseRead, ReadSrc
<1>5. ASSUME NEW r \in Run, OpenWrite(r)
      PROVE  \E q \in Run : Owner(q)'
  <2>1. CASE pc' = [pc EXCEPT ![r] = "open_verify"]
    BY <2>1
  <2>2. CASE pc' = [pc EXCEPT ![r] = "refused"] /\ policy' = policy
    BY <1>5, <1>0, <2>2 DEF OpenWrite, WriteSrc
  <2> QED
    BY <1>5, <2>1, <2>2 DEF OpenWrite, WriteSrc
<1>6. ASSUME NEW r \in Run, CloseWrite(r)
      PROVE  \E q \in Run : Owner(q)'
  <2>1. pc' = [pc EXCEPT ![r] = "close_verify"] \/ pc' = [pc EXCEPT ![r] = "critical"]
    BY <1>6 DEF CloseWrite, WriteSrc
  <2> QED
    BY <2>1
<1>7. ASSUME NEW r \in Run, OpenVerify(r) \/ CloseVerify(r)
      PROVE  \E q \in Run : Owner(q)'
  BY <1>7 DEF OpenVerify, CloseVerify, ReadBack, Policy
<1>8. ASSUME NEW r \in Run, FnEnds(r)
      PROVE  \E q \in Run : Owner(q)'
  BY <1>8 DEF FnEnds
<1>9. CASE UNCHANGED vars
  BY <1>9 DEF vars, OpenIsOwned
<1> QED
  BY <1>1, <1>2, <1>3, <1>4, <1>5, <1>6, <1>7, <1>8, <1>9 DEF Next, Step

\* Whatever stale policy runs write back over each other, an open gate has a run
\* behind it that will close it or that failed.
THEOREM GateIsOwned == Spec => []OpenIsOwned
<1>1. Init => TypeOK /\ OpenIsOwned
  BY InitTypeOK DEF Init, OpenIsOwned
<1> QED
  BY <1>1, TypeStep, OwnedStep, PTL DEF Spec

-----------------------------------------------------------------------------
LEMMA CIStep == TypeOK /\ NeverInCI /\ [Next]_vars => NeverInCI'
<1> SUFFICES ASSUME TypeOK, NeverInCI, [Next]_vars, CiOverride, NEW r \in InCI
             PROVE  pc'[r] \in {"idle", "refused", "unread"}
  BY DEF NeverInCI
<1>1. r \in Run /\ pc[r] \in {"idle", "refused", "unread"}
  BY RunAssumption DEF NeverInCI
<1>2. CASE SetKillSwitch \/ UNCHANGED vars
  BY <1>1, <1>2 DEF SetKillSwitch, vars
<1>3. ASSUME NEW q \in Run, Start(q)
      PROVE  pc'[r] \in {"idle", "refused", "unread"}
  <2>1. q = r => pc' = [pc EXCEPT ![q] = "refused"]
    BY <1>3 DEF Start, IsGatedAllowed, Goto
  <2> QED
    BY <1>1, <1>3, <2>1 DEF Start, Goto, TypeOK
<1>4. ASSUME NEW q \in Run, StartThrows(q) \/ Step(q) \/ Crash(q)
      PROVE  pc'[r] \in {"idle", "refused", "unread"}
  <2>1. CASE q = r
    BY <1>1, <1>4, <2>1 DEF StartThrows, Step, OpenRead, OpenWrite, OpenVerify, FnEnds,
       CloseRead, CloseWrite, CloseVerify, Crash, ReadSrc, WriteSrc, ReadBack,
       InFlight, Goto, TypeOK
  <2>2. CASE q # r
    <3>1. pc'[r] = pc[r]
      BY <1>1, <1>4, <2>2 DEF StartThrows, Step, OpenRead, OpenWrite, OpenVerify, FnEnds,
         CloseRead, CloseWrite, CloseVerify, Crash, ReadSrc, WriteSrc, ReadBack,
         Goto, TypeOK
    <3> QED
      BY <1>1, <3>1
  <2> QED
    BY <2>1, <2>2
<1> QED
  BY <1>2, <1>3, <1>4 DEF Next

\* A run in CI never opens the gate under ci_override.
THEOREM CIIsNeverGated == Spec => []NeverInCI
<1>1. Init => TypeOK /\ NeverInCI
  BY RunAssumption, InitTypeOK DEF Init, NeverInCI
<1> QED
  BY <1>1, TypeStep, CIStep, PTL DEF Spec

-----------------------------------------------------------------------------
(* StoryIntake *)

LEMMA ModeTables ==
  \A m \in Modes : ArchByMode[m] \in {1..2, 1..3} /\ EpicOfScopeChange[m] \in 101..105
  BY DEF Modes, ArchByMode, EpicOfScopeChange

LEMMA Halves ==
  ASSUME NEW c \in 1..3
  PROVE  (2 * c) \div 2 = c /\ (2 * c + 1) \div 2 = c
<1>1. c = 1 \/ c = 2 \/ c = 3
  OBVIOUS
<1> QED BY <1>1

\* What the generator makes of two or three components.
LEMMA GeneratedShape ==
  ASSUME NEW n \in 2..3, NEW s \in DOMAIN GeneratedStories(1..n)
  PROVE  LET new == GeneratedStories(1..n)[s] IN
         /\ new \in Story /\ new.status = "todo" /\ s \in Planned
         /\ \/ s = Foundation /\ new.deps = {}
            \/ \E c \in 1..n : s = ImplOf(c) /\ new.deps = {Foundation} /\ new.places = {c}
            \/ \E c \in 1..n : s = TestOf(c) /\ new.deps = {ImplOf(c)} /\ new.places = {c}
            \/ s = IntegrationOf(1..n) /\ new.deps = {TestOf(c) : c \in 1..n}
<1> DEFINE new == GeneratedStories(1..n)[s]
<1>1. Cardinality(1..n) = n
  <2>1. Cardinality(1..n) = IF 1 > n THEN 0 ELSE n - 1 + 1
    BY FS_Interval
  <2> QED BY <2>1
<1>2. s \in {Foundation, IntegrationOf(1..n)} \cup {ImplOf(c) : c \in 1..n} \cup {TestOf(c) : c \in 1..n}
  BY DEF GeneratedStories
<1>3. IntegrationOf(1..n) = 31 + 2 * n
  BY <1>1 DEF IntegrationOf
<1>4. new = IF s = Foundation THEN NewStory(1, {}, Root, "planned")
            ELSE IF s = IntegrationOf(1..n)
              THEN NewStory(Cardinality(1..n) + 2, {TestOf(c) : c \in 1..n}, Root, "planned")
            ELSE LET c == (s - 29) \div 2 IN
              NewStory(c + 1, {IF s = ImplOf(c) THEN Foundation ELSE ImplOf(c)}, {SourceOf(c)}, "planned")
  BY <1>2 DEF GeneratedStories
<1> HIDE DEF new
<1>5. CASE s = Foundation
  <2>1. new = [epic |-> 1, deps |-> {}, places |-> Root, class |-> "planned", status |-> "todo"]
    BY <1>4, <1>5 DEF NewStory
  <2>2. s \in Planned /\ Root \subseteq Places
    BY <1>5 DEF Foundation, Planned, Root, Places
  <2> QED BY <1>5, <2>1, <2>2 DEF Story, Status, new
<1>6. CASE s = IntegrationOf(1..n)
  <2>1. s # Foundation /\ s \in Planned
    BY <1>3, <1>6 DEF Foundation, Planned
  <2>2. new = [epic |-> n + 2, deps |-> {TestOf(c) : c \in 1..n}, places |-> Root,
               class |-> "planned", status |-> "todo"]
    BY <1>1, <1>4, <1>6, <2>1 DEF NewStory
  <2>3. \A c \in 1..n : TestOf(c) \in Ids
    BY DEF TestOf, Ids
  <2>4. Root \subseteq Places /\ n + 2 \in 0..105
    BY DEF Root, Places
  <2>5. PICK tests \in SUBSET Ids : tests = {TestOf(c) : c \in 1..n}
    BY <2>3
  <2>6. new = [epic |-> n + 2, deps |-> tests, places |-> Root, class |-> "planned", status |-> "todo"]
    BY <2>2, <2>5
  <2>7. new \in Story /\ new.status = "todo" /\ new.deps = tests
    BY <2>4, <2>6 DEF Story, Status
  <2> QED BY <1>6, <2>1, <2>5, <2>7 DEF new
<1>7. ASSUME NEW c \in 1..n, s = ImplOf(c)
      PROVE  /\ new \in Story /\ new.status = "todo" /\ s \in Planned
             /\ new.deps = {Foundation} /\ new.places = {c}
  <2>1. s = 29 + 2 * c /\ s # Foundation /\ s # IntegrationOf(1..n) /\ s \in Planned /\ c \in 1..3
    BY <1>3, <1>7 DEF Foundation, Planned, ImplOf
  <2>2. (s - 29) \div 2 = c
    <3>1. s - 29 = 2 * c
      BY <2>1
    <3> QED BY <2>1, <3>1, Halves
  <2>3. new = [epic |-> c + 1, deps |-> {Foundation}, places |-> {c}, class |-> "planned", status |-> "todo"]
    BY <1>4, <1>7, <2>1, <2>2 DEF NewStory, SourceOf
  <2>4. {Foundation} \subseteq Ids /\ {c} \subseteq Places /\ c + 1 \in 0..105
    BY DEF Foundation, Ids, Places
  <2> QED BY <2>1, <2>3, <2>4 DEF Story, Status
<1>8. ASSUME NEW c \in 1..n, s = TestOf(c)
      PROVE  /\ new \in Story /\ new.status = "todo" /\ s \in Planned
             /\ new.deps = {ImplOf(c)} /\ new.places = {c}
  <2>1. /\ s = 30 + 2 * c /\ s # Foundation /\ s # IntegrationOf(1..n) /\ s \in Planned
        /\ c \in 1..3 /\ s # ImplOf(c)
    BY <1>3, <1>8 DEF Foundation, Planned, TestOf, ImplOf
  <2>2. (s - 29) \div 2 = c
    <3>1. s - 29 = 2 * c + 1
      BY <2>1
    <3> QED BY <2>1, <3>1, Halves
  <2>3. new = [epic |-> c + 1, deps |-> {ImplOf(c)}, places |-> {c}, class |-> "planned", status |-> "todo"]
    BY <1>4, <1>8, <2>1, <2>2 DEF NewStory, SourceOf
  <2>4. {ImplOf(c)} \subseteq Ids /\ {c} \subseteq Places /\ c + 1 \in 0..105
    BY DEF ImplOf, Ids, Places
  <2> QED BY <2>1, <2>3, <2>4 DEF Story, Status
<1> QED BY <1>2, <1>5, <1>6, <1>7, <1>8 DEF new
\* A nonempty set of naturals has a least element.
LEMMA LeastNatural ==
  ASSUME NEW T \in SUBSET Nat, T # {}
  PROVE  \E x \in T : \A y \in T : x <= y
<1> DEFINE less == {ss \in Nat \X Nat : ss[1] < ss[2]}
<1>1. IsWellFoundedOn(less, Nat)
  BY NatLessThanWellFounded DEF OpToRel
<1>2. \A x, y \in Nat : x < y => <<x, y>> \in less
  OBVIOUS
<1>3. T \subseteq Nat
  OBVIOUS
<1> HIDE DEF less
<1>4. PICK x \in T : \A y \in T : ~(<<y, x>> \in less)
  BY <1>1, <1>3, WFMin, Zenon
<1>5. \A y \in T : ~(y < x)
  BY <1>2, <1>3, <1>4
<1> QED BY <1>3, <1>5


-----------------------------------------------------------------------------
(* The subtasks. *)

\* The inductive invariant of the subtasks: a task depends on earlier ones.
TasksInv ==
  /\ Subtasks!TypeOK
  /\ \A t \in DOMAIN tasks : tasks[t].deps \subseteq 1..(t - 1)
  /\ \A t, u \in Subtasks!With("in_progress") : t = u

\* The first of the tasks that wait waits for earlier ones, and those do not.
LEMMA TasksNeverStuck ==
  ASSUME TasksInv
  PROVE  SubtasksNeverStuck
<1> DEFINE Has(status) == Subtasks!With(status)
<1>0. tasks \in Seq(Subtasks!Task) /\ Len(tasks) \in Nat
  BY DEF TasksInv, Subtasks!TypeOK
<1>1. Cardinality(Has("in_progress")) <= 1
  <2>1. CASE Has("in_progress") = {}
    <3>1. Cardinality(Has("in_progress")) = 0
      BY <2>1, FS_EmptySet
    <3> QED BY <3>1
  <2>2. CASE Has("in_progress") # {}
    <3>1. PICK t : t \in Has("in_progress")
      BY <2>2
    <3>2. Has("in_progress") = {t}
      BY <3>1 DEF TasksInv
    <3>3. Cardinality({t}) = 1
      BY FS_Singleton
    <3> QED BY <3>2, <3>3
  <2> QED BY <2>1, <2>2
<1>2. ASSUME Has("in_progress") = {}, Subtasks!Runnable = {}, Has("pending") # {}
      PROVE  Has("blocked") \cup Has("abandoned") # {}
  <2>1. Has("pending") \in SUBSET Nat
    BY <1>0 DEF Subtasks!With, Subtasks!Tasks
  <2>2. PICK t \in Has("pending") : \A u \in Has("pending") : t <= u
    BY <1>2, <2>1, LeastNatural
  <2>3. t \in DOMAIN tasks /\ t \in Nat
    BY <2>1, <2>2 DEF Subtasks!With, Subtasks!Tasks
  <2>4. PICK d \in tasks[t].deps : d \notin Has("done")
    BY <1>2, <2>2 DEF Subtasks!Runnable
  <2>5. d \in 1..(t - 1)
    BY <2>3, <2>4 DEF TasksInv
  <2>6. d \in DOMAIN tasks /\ ~(t <= d)
    BY <1>0, <2>3, <2>5
  <2>7. tasks[d].status \in Subtasks!TaskStatus
    <3>1. tasks[d] \in Subtasks!Task
      BY <1>0, <2>6
    <3> QED BY <3>1 DEF Subtasks!Task
  <2>8. tasks[d].status \notin {"pending", "done", "in_progress"}
    BY <1>2, <2>2, <2>4, <2>6 DEF Subtasks!With, Subtasks!Tasks
  <2>9. tasks[d].status \in {"blocked", "abandoned"}
    BY <2>7, <2>8 DEF Subtasks!TaskStatus
  <2> QED BY <2>6, <2>9 DEF Subtasks!With, Subtasks!Tasks
<1> QED BY <1>1, <1>2 DEF SubtasksNeverStuck

\* One task moves: what is at work stays alone.
LEMMA UpdateKeeps ==
  ASSUME TasksInv, NEW t \in DOMAIN tasks, NEW to \in Subtasks!TaskStatus, Subtasks!Update(t, to)
  PROVE  TasksInv'
<1>0. tasks \in Seq(Subtasks!Task) /\ Len(tasks) \in Nat /\ tasks[t] \in Subtasks!Task
  BY DEF TasksInv, Subtasks!TypeOK
<1>1. tasks' = [tasks EXCEPT ![t] = [tasks[t] EXCEPT !.status = to]]
  BY DEF Subtasks!Update
<1>2. [tasks[t] EXCEPT !.status = to] \in Subtasks!Task
  BY <1>0 DEF Subtasks!Task
<1>3. tasks' \in Seq(Subtasks!Task) /\ Len(tasks') = Len(tasks) /\ DOMAIN tasks' = DOMAIN tasks
  BY <1>0, <1>1, <1>2
<1>4. /\ \A u \in DOMAIN tasks : tasks'[u].deps = tasks[u].deps
      /\ \A u \in DOMAIN tasks : u # t => tasks'[u].status = tasks[u].status
      /\ tasks'[t].status = to
  BY <1>0, <1>1 DEF Subtasks!Task
<1>5. \A status : Subtasks!With(status)' = {u \in DOMAIN tasks : tasks'[u].status = status}
  BY <1>3 DEF Subtasks!With, Subtasks!Tasks
<1>6. \A status : Subtasks!With(status) = {u \in DOMAIN tasks : tasks[u].status = status}
  BY DEF Subtasks!With, Subtasks!Tasks
<1>7. Subtasks!TypeOK'
  BY <1>3 DEF TasksInv, Subtasks!TypeOK
<1>8. \A u \in DOMAIN tasks' : tasks'[u].deps \subseteq 1..(u - 1)
  BY <1>3, <1>4 DEF TasksInv
<1>9. ASSUME NEW u \in Subtasks!With("in_progress")', NEW v \in Subtasks!With("in_progress")'
      PROVE  u = v
  <2>1. CASE to = "in_progress"
    <3>1. Subtasks!With("in_progress") \subseteq {t}
      BY <2>1 DEF Subtasks!Update, Subtasks!NoOtherInProgress
    <3> QED BY <1>4, <1>5, <1>6, <1>9, <3>1
  <2>2. CASE to # "in_progress"
    <3>1. u \in Subtasks!With("in_progress") /\ v \in Subtasks!With("in_progress")
      BY <1>4, <1>5, <1>6, <1>9, <2>2
    <3> QED BY <3>1 DEF TasksInv
  <2> QED BY <2>1, <2>2
<1> QED BY <1>7, <1>8, <1>9 DEF TasksInv

LEMMA DecomposeKeepsTasks ==
  ASSUME TasksInv, Decompose
  PROVE  TasksInv'
<1>0. tasks \in Seq(Subtasks!Task) /\ Len(tasks) \in Nat
  BY DEF TasksInv, Subtasks!TypeOK
<1>1. CASE Subtasks!Create
  <2>1. Len(tasks) < MaxTasks /\ MaxTasks \in Nat
    BY <1>1, IntakeAssumption DEF Subtasks!Create
  <2>2. PICK deps \in SUBSET DOMAIN tasks : tasks' = Append(tasks, [status |-> "pending", deps |-> deps])
    BY <1>1 DEF Subtasks!Create, Subtasks!Tasks
  <2>3. [status |-> "pending", deps |-> deps] \in Subtasks!Task
    BY <1>0, <2>1, <2>2 DEF Subtasks!Task, Subtasks!TaskStatus
  <2>4. /\ tasks' \in Seq(Subtasks!Task) /\ Len(tasks') = Len(tasks) + 1
        /\ \A t \in DOMAIN tasks : tasks'[t] = tasks[t]
        /\ tasks'[Len(tasks) + 1] = [status |-> "pending", deps |-> deps]
        /\ DOMAIN tasks' = DOMAIN tasks \cup {Len(tasks) + 1}
    BY <1>0, <2>2, <2>3
  <2>5. Subtasks!TypeOK'
    BY <1>0, <2>1, <2>4 DEF Subtasks!TypeOK
  <2>6. \A t \in DOMAIN tasks' : tasks'[t].deps \subseteq 1..(t - 1)
    <3>1. deps \subseteq 1..(Len(tasks) + 1 - 1)
      BY <1>0
    <3> QED BY <2>4, <3>1 DEF TasksInv
  <2>7. Subtasks!With("in_progress")' = Subtasks!With("in_progress")
    BY <2>4 DEF Subtasks!With, Subtasks!Tasks
  <2> QED BY <2>5, <2>6, <2>7 DEF TasksInv
<1>2. CASE \E t \in Subtasks!Tasks, to \in Subtasks!TaskStatus : Subtasks!Update(t, to)
  BY <1>2, UpdateKeeps DEF Subtasks!Tasks
<1> QED BY <1>1, <1>2 DEF Decompose

\* No tasks are in order.
LEMMA NoTasks == (tasks = <<>> => TasksInv) /\ (tasks' = <<>> => TasksInv')
<1>1. <<>> \in Seq(Subtasks!Task) /\ Len(<<>>) = 0 /\ 0 <= MaxTasks /\ DOMAIN <<>> = {}
  BY IntakeAssumption
<1>2. ASSUME tasks = <<>> PROVE TasksInv
  <2>1. Subtasks!TypeOK
    BY <1>1, <1>2 DEF Subtasks!TypeOK
  <2>2. \A status : Subtasks!With(status) = {}
    BY <1>1, <1>2 DEF Subtasks!With, Subtasks!Tasks
  <2> QED BY <1>1, <1>2, <2>1, <2>2 DEF TasksInv
<1>3. ASSUME tasks' = <<>> PROVE TasksInv'
  <2>1. Subtasks!TypeOK'
    BY <1>1, <1>3 DEF Subtasks!TypeOK
  <2>2. \A status : Subtasks!With(status)' = {}
    BY <1>1, <1>3 DEF Subtasks!With, Subtasks!Tasks
  <2> QED BY <1>1, <1>3, <2>1, <2>2 DEF TasksInv
<1> QED BY <1>2, <1>3

LEMMA SameTasks ==
  ASSUME TasksInv, tasks' = tasks
  PROVE  TasksInv'
  BY DEF TasksInv, Subtasks!TypeOK, Subtasks!With, Subtasks!Tasks

-----------------------------------------------------------------------------
(* The stories. *)

StoriesTyped == DOMAIN stories \subseteq Ids /\ \A s \in DOMAIN stories : stories[s] \in Story

\* What a story that was started depends on is done, or was and is at it again.
Settled == Done \cup again
Started == \A s \in Begun : stories[s].deps \subseteq Settled

\* The planned stories are the generator's.
PlanShape ==
  \E n \in 2..3 : \A s \in DOMAIN stories \cap Planned :
    /\ s \in DOMAIN GeneratedStories(1..n)
    /\ stories[s].deps = GeneratedStories(1..n)[s].deps
    /\ stories[s].places = GeneratedStories(1..n)[s].places

\* The inductive invariant of the stories.
StoriesInv == StoriesTyped /\ Started /\ PlanShape /\ again \subseteq Begun /\ used \in Nat

\* Of two planned stories that write to the same place one depends on the
\* other, directly or through others, and so they are never at work together.
LEMMA PlanKeepsWritersApart ==
  ASSUME StoriesInv
  PROVE  PlannedWritersApart
<1> SUFFICES ASSUME NEW s \in (AtWork \cap Planned) \ again, NEW t \in (AtWork \cap Planned) \ again, s # t
             PROVE  ~Overlap(s, t)
  BY DEF PlannedWritersApart
<1>1. PICK n \in 2..3 : \A x \in DOMAIN stories \cap Planned :
        /\ x \in DOMAIN GeneratedStories(1..n)
        /\ stories[x].deps = GeneratedStories(1..n)[x].deps
        /\ stories[x].places = GeneratedStories(1..n)[x].places
  BY DEF StoriesInv, PlanShape
<1>2. \A x \in DOMAIN stories \cap Planned :
        \/ x = Foundation /\ stories[x].deps = {}
        \/ \E c \in 1..n : x = ImplOf(c) /\ stories[x].deps = {Foundation} /\ stories[x].places = {c}
        \/ \E c \in 1..n : x = TestOf(c) /\ stories[x].deps = {ImplOf(c)} /\ stories[x].places = {c}
        \/ x = IntegrationOf(1..n) /\ stories[x].deps = {TestOf(c) : c \in 1..n}
  <2> SUFFICES ASSUME NEW x \in DOMAIN stories \cap Planned
               PROVE  \/ x = Foundation /\ stories[x].deps = {}
                      \/ \E c \in 1..n : x = ImplOf(c) /\ stories[x].deps = {Foundation} /\ stories[x].places = {c}
                      \/ \E c \in 1..n : x = TestOf(c) /\ stories[x].deps = {ImplOf(c)} /\ stories[x].places = {c}
                      \/ x = IntegrationOf(1..n) /\ stories[x].deps = {TestOf(c) : c \in 1..n}
    OBVIOUS
  <2> DEFINE new == GeneratedStories(1..n)[x]
  <2>1. x \in DOMAIN GeneratedStories(1..n) /\ stories[x].deps = new.deps /\ stories[x].places = new.places
    BY <1>1
  <2>2. \/ x = Foundation /\ new.deps = {}
        \/ \E c \in 1..n : x = ImplOf(c) /\ new.deps = {Foundation} /\ new.places = {c}
        \/ \E c \in 1..n : x = TestOf(c) /\ new.deps = {ImplOf(c)} /\ new.places = {c}
        \/ x = IntegrationOf(1..n) /\ new.deps = {TestOf(c) : c \in 1..n}
    BY <2>1, GeneratedShape
  <2> QED BY <2>1, <2>2
<1> DEFINE Working == AtWork \ again
<1>3. Settled \cap Working = {} /\ Settled \subseteq DOMAIN stories /\ Working \subseteq DOMAIN stories
  BY DEF StoriesInv, Settled, Begun, Done, AtWork, In
<1>4. \A x \in Settled \cup Working : stories[x].deps \subseteq Settled
  <2>1. Settled \cup Working \subseteq Begun
    BY DEF StoriesInv, Settled, Begun, Done, AtWork, In
  <2> QED BY <2>1 DEF StoriesInv, Started
<1>0. s \in Working \cap Planned /\ t \in Working \cap Planned
  OBVIOUS
<1> HIDE DEF Working
<1>5. /\ \A c \in 1..n : ImplOf(c) \in Planned /\ TestOf(c) \in Planned
      /\ Foundation \in Planned
      /\ \A c, d \in 1..n : ImplOf(c) # Foundation /\ TestOf(c) # Foundation /\ ImplOf(c) # TestOf(d)
                           /\ (ImplOf(c) = ImplOf(d) => c = d) /\ (TestOf(c) = TestOf(d) => c = d)
  BY DEF ImplOf, TestOf, Foundation, Planned
<1>6. IntegrationOf(1..n) = 31 + 2 * n
  <2>1. Cardinality(1..n) = IF 1 > n THEN 0 ELSE n - 1 + 1
    BY FS_Interval
  <2> QED BY <2>1 DEF IntegrationOf
<1>7. \A c \in 1..n : /\ IntegrationOf(1..n) # ImplOf(c) /\ IntegrationOf(1..n) # TestOf(c)
                      /\ IntegrationOf(1..n) # Foundation
  BY <1>6 DEF ImplOf, TestOf, Foundation
<1>8. \A c \in 1..n : ImplOf(c) \in Settled \cup Working => stories[ImplOf(c)].deps = {Foundation}
  BY <1>2, <1>3, <1>5, <1>7
<1>9. \A c \in 1..n : TestOf(c) \in Settled \cup Working => stories[TestOf(c)].deps = {ImplOf(c)}
  BY <1>2, <1>3, <1>5, <1>7
<1>10. \A c \in 1..n : ImplOf(c) \in Settled \cup Working => Foundation \in Settled
  BY <1>4, <1>8
<1>11. \A c \in 1..n : TestOf(c) \in Settled \cup Working => ImplOf(c) \in Settled /\ Foundation \in Settled
  BY <1>4, <1>9, <1>10
<1>12. IntegrationOf(1..n) \in Working /\ IntegrationOf(1..n) \in Planned
         => \A c \in 1..n : TestOf(c) \in Settled /\ ImplOf(c) \in Settled /\ Foundation \in Settled
  <2> SUFFICES ASSUME IntegrationOf(1..n) \in Working, IntegrationOf(1..n) \in Planned, NEW c \in 1..n
               PROVE  TestOf(c) \in Settled
    BY <1>11
  <2>1. stories[IntegrationOf(1..n)].deps = {TestOf(d) : d \in 1..n}
    BY <1>2, <1>3, <1>7
  <2> QED BY <1>4, <2>1
<1>13. \A x \in Working \cap Planned :
         \/ x = Foundation
         \/ \E c \in 1..n : x = ImplOf(c) /\ stories[x].places = {c}
         \/ \E c \in 1..n : x = TestOf(c) /\ stories[x].places = {c}
         \/ x = IntegrationOf(1..n)
  BY <1>2, <1>3
<1>14. 1 \in 1..n
  OBVIOUS
<1>15. s # Foundation /\ t # Foundation
  BY <1>0, <1>3, <1>10, <1>11, <1>12, <1>13, <1>14
<1>16. s # IntegrationOf(1..n) /\ t # IntegrationOf(1..n)
  BY <1>0, <1>3, <1>12, <1>13, <1>15
<1>17. PICK c \in 1..n, d \in 1..n :
         /\ s \in {ImplOf(c), TestOf(c)} /\ stories[s].places = {c}
         /\ t \in {ImplOf(d), TestOf(d)} /\ stories[t].places = {d}
  BY <1>0, <1>13, <1>15, <1>16
<1>18. c # d
  BY <1>0, <1>3, <1>11, <1>17
<1> QED BY <1>17, <1>18 DEF Overlap

\* New stories wait; what was there stays as it is.
LEMMA RegisterKeeps ==
  ASSUME StoriesInv, NEW new, Register(new),
         DOMAIN new \subseteq Ids, \A s \in DOMAIN new : new[s] \in Story /\ new[s].status = "todo",
         used' = used, again' = again, PlanShape'
  PROVE  StoriesInv' /\ Begun' = Begun
<1>1. /\ DOMAIN stories' = DOMAIN stories \cup DOMAIN new
      /\ \A s \in DOMAIN stories : stories'[s] = stories[s]
      /\ \A s \in DOMAIN new \ DOMAIN stories : stories'[s] = new[s]
  BY DEF Register
<1>2. StoriesTyped'
  BY <1>1 DEF StoriesInv, StoriesTyped
<1>3. Done' = Done /\ Begun' = Begun /\ Begun \subseteq DOMAIN stories
  BY <1>1 DEF Done, Begun, In
<1>4. Started'
  BY <1>1, <1>3 DEF StoriesInv, Started, Settled
<1> QED BY <1>2, <1>3, <1>4 DEF StoriesInv

LEMMA AddKeeps ==
  ASSUME StoriesInv, NEW id \in Ids \ Planned, NEW new \in Story, new.status = "todo",
         Add(id, new), used' = used, again' = again
  PROVE  StoriesInv' /\ Begun' = Begun
<1> DEFINE added == [s \in {id} |-> new]
<1>1. Register(added)
  BY DEF Add
<1>2. PlanShape'
  <2>1. \A s \in DOMAIN stories' \cap Planned : s \in DOMAIN stories /\ stories'[s] = stories[s]
    BY <1>1 DEF Register
  <2> QED BY <2>1 DEF StoriesInv, PlanShape
<1>3. DOMAIN added \subseteq Ids /\ \A s \in DOMAIN added : added[s] \in Story /\ added[s].status = "todo"
  OBVIOUS
<1> HIDE DEF added
<1> QED BY <1>1, <1>2, <1>3, RegisterKeeps

LEMMA GenerateKeeps ==
  ASSUME StoriesInv, In(Status) \cap Planned = {}, NEW mode \in Modes,
         Register(GeneratedStories(ArchByMode[mode])), used' = used, again' = again
  PROVE  StoriesInv' /\ Begun' = Begun
<1>1. PICK n \in 2..3 : ArchByMode[mode] = 1..n
  <2>1. 2 \in 2..3 /\ 3 \in 2..3
    OBVIOUS
  <2> QED BY <2>1, ModeTables
<1> DEFINE new == GeneratedStories(1..n)
<1>2. \A s \in DOMAIN new : new[s] \in Story /\ new[s].status = "todo" /\ s \in Planned
  BY GeneratedShape
<1>3. DOMAIN stories \cap Planned = {}
  <2>1. \A s \in DOMAIN stories : stories[s].status \in Status
    BY DEF StoriesInv, StoriesTyped, Story
  <2> QED BY <2>1 DEF In
<1>4. Register(new)
  BY <1>1
<1> HIDE DEF new
<1>5. \A s \in DOMAIN stories' \cap Planned : s \in DOMAIN new /\ stories'[s] = new[s]
  BY <1>3, <1>4 DEF Register
<1>6. PlanShape'
  BY <1>5 DEF PlanShape, new
<1>7. DOMAIN new \subseteq Ids
  BY <1>2 DEF Planned, Ids
<1> QED BY <1>2, <1>4, <1>6, <1>7, RegisterKeeps

\* A story that moves keeps its plan; a step that keeps what is done and every
\* story's plan keeps the shape of the backlog.
LEMMA PlanKept ==
  ASSUME PlanShape, DOMAIN stories' = DOMAIN stories,
         \A s \in DOMAIN stories : stories'[s].deps = stories[s].deps /\ stories'[s].places = stories[s].places
  PROVE  PlanShape'
  BY DEF PlanShape

\* A step that leaves the stories.
LEMMA SameStories ==
  ASSUME StoriesInv, UNCHANGED <<stories, used, again>>
  PROVE  StoriesInv' /\ Begun' = Begun
<1>1. StoriesTyped' /\ Started' /\ PlanShape'
  BY DEF StoriesInv, StoriesTyped, Started, Settled, PlanShape, Begun, Done, In
<1>2. Begun' = Begun
  BY DEF Begun, In
<1> QED BY <1>1, <1>2 DEF StoriesInv

\* What is admitted has its dependencies done, whether it waits or not.
LEMMA StartsKeeps ==
  ASSUME StoriesInv, NEW S, Starts(S)
  PROVE  StoriesInv' /\ Begun \subseteq Begun'
<1>1. /\ DOMAIN stories' = DOMAIN stories /\ used' = used + Cardinality(S)
      /\ \A s \in DOMAIN stories \ S : stories'[s] = stories[s]
      /\ \A s \in S \cap DOMAIN stories : stories'[s] = [stories[s] EXCEPT !.status = "in_progress"]
      /\ again' = again \cup (S \ In({"todo"}))
  BY DEF Starts
<1>2. S \subseteq DOMAIN stories /\ \A s \in S : stories[s].deps \subseteq Done
  BY DEF Starts, Admissible, CheckAdmission, DepsDone
<1>3. \A s \in DOMAIN stories : stories[s] \in Story
  BY DEF StoriesInv, StoriesTyped
<1>4. \A s \in S : /\ stories'[s] \in Story /\ stories'[s].status = "in_progress"
                   /\ stories'[s].deps = stories[s].deps /\ stories'[s].places = stories[s].places
  <2> SUFFICES ASSUME NEW s \in S
               PROVE  /\ stories'[s] \in Story /\ stories'[s].status = "in_progress"
                      /\ stories'[s].deps = stories[s].deps /\ stories'[s].places = stories[s].places
    OBVIOUS
  <2>1. stories[s] \in Story /\ stories'[s] = [stories[s] EXCEPT !.status = "in_progress"]
    BY <1>1, <1>2, <1>3
  <2> QED BY <2>1 DEF Story, Status
<1>5. Begun' = Begun \cup S
  BY <1>1, <1>2, <1>4 DEF Begun, In
<1>6. Settled \subseteq Settled'
  <2>1. ASSUME NEW x \in Done PROVE x \in Settled'
    <3>1. CASE x \in S
      <4>1. x \notin In({"todo"})
        BY <2>1 DEF Done, In
      <4> QED BY <1>1, <3>1, <4>1 DEF Settled
    <3>2. CASE x \notin S
      BY <1>1, <2>1, <3>2 DEF Settled, Done, In
    <3> QED BY <3>1, <3>2
  <2> QED BY <1>1, <2>1 DEF Settled
<1>7. StoriesTyped'
  BY <1>1, <1>2, <1>3, <1>4 DEF StoriesInv, StoriesTyped
<1>8. Started'
  <2> SUFFICES ASSUME NEW x \in Begun' PROVE stories'[x].deps \subseteq Settled'
    BY DEF Started
  <2>1. CASE x \in S
    BY <1>2, <1>4, <1>6, <2>1 DEF Settled
  <2>2. CASE x \notin S
    <3>1. x \in Begun /\ x \in DOMAIN stories
      BY <1>5, <2>2 DEF Begun
    <3>2. stories'[x] = stories[x] /\ stories[x].deps \subseteq Settled
      BY <1>1, <2>2, <3>1 DEF StoriesInv, Started
    <3> QED BY <1>6, <3>2
  <2> QED BY <2>1, <2>2
<1>9. PlanShape'
  BY <1>1, <1>4, PlanKept DEF StoriesInv
<1>10. again' \subseteq Begun'
  BY <1>1, <1>5 DEF StoriesInv
<1>11. used' \in Nat
  <2>1. IsFiniteSet(Ids)
    <3>1. \A a, b \in Int : IsFiniteSet(a..b)
      BY FS_Interval
    <3>2. 1 \in Int /\ 39 \in Int
      OBVIOUS
    <3> QED BY <3>1, <3>2, Zenon DEF Ids
  <2>2. IsFiniteSet(S)
    BY <1>2, <2>1, FS_Subset DEF StoriesInv, StoriesTyped
  <2>3. Cardinality(S) \in Nat
    BY <2>2, FS_CardinalityType
  <2> QED BY <1>1, <2>3 DEF StoriesInv
<1> QED BY <1>5, <1>7, <1>8, <1>9, <1>10, <1>11 DEF StoriesInv

\* A story that was started moves to another state; what is done stays done.
LEMMA MovesKeeps ==
  ASSUME StoriesInv, NEW s \in Begun, NEW status \in Status \ {"todo"}, Moves(s, status),
         s \in Done => status = "done", used' = used, again' = again
  PROVE  StoriesInv' /\ Begun' = Begun
<1>0. s \in DOMAIN stories
  BY DEF Begun
<1>1. /\ DOMAIN stories' = DOMAIN stories
      /\ \A t \in DOMAIN stories \ {s} : stories'[t] = stories[t]
      /\ stories'[s] = [stories[s] EXCEPT !.status = status]
  BY <1>0 DEF Moves
<1>2. \A t \in DOMAIN stories : stories[t] \in Story
  BY DEF StoriesInv, StoriesTyped
<1>3. /\ stories'[s] \in Story /\ stories'[s].status = status
      /\ stories'[s].deps = stories[s].deps /\ stories'[s].places = stories[s].places
  BY <1>0, <1>1, <1>2 DEF Story
<1>4. \A t \in DOMAIN stories : stories'[t].status = IF t = s THEN status ELSE stories[t].status
  BY <1>1, <1>3
<1>5. Begun' = Begun
  BY <1>1, <1>4 DEF Begun, In
<1>6. Done \subseteq Done'
  BY <1>1, <1>4 DEF Done, In
<1>7. StoriesTyped'
  BY <1>1, <1>2, <1>3 DEF StoriesInv, StoriesTyped
<1>8. Started'
  <2>1. Settled \subseteq Settled'
    BY <1>6 DEF Settled
  <2>2. \A x \in Begun : stories'[x].deps = stories[x].deps
    BY <1>1, <1>3 DEF Begun
  <2> QED BY <1>5, <2>1, <2>2 DEF StoriesInv, Started
<1>9. PlanShape'
  BY <1>1, <1>3, PlanKept DEF StoriesInv
<1> QED BY <1>5, <1>7, <1>8, <1>9 DEF StoriesInv

-----------------------------------------------------------------------------
(* The checks. *)

\* A story that was judged breaks none of those it was judged against.
ChecksInv ==
  /\ DOMAIN judged \subseteq Begun
  /\ \A s \in DOMAIN judged : /\ judged[s] \in [prior : SUBSET Ids, change : Change]
                              /\ judged[s].change.breaks \cap judged[s].prior = {}
  /\ passed \subseteq Begun /\ failing \subseteq Tests

LEMMA ChecksKept ==
  ASSUME ChecksInv, UNCHANGED <<judged, passed, failing>>, Begun \subseteq Begun'
  PROVE  ChecksInv'
  BY DEF ChecksInv

LEMMA ChangesTyped ==
  ASSUME StoriesTyped, failing \subseteq Tests, NEW s, NEW change \in Changes(s)
  PROVE  change \in Change
<1>1. Begun \subseteq Ids /\ OldTests \subseteq Tests /\ Ids \subseteq Tests
  BY DEF Begun, StoriesTyped, Tests
<1> QED BY <1>1 DEF Changes, Change

LEMMA JudgeKeeps ==
  ASSUME StoriesInv, ChecksInv, NEW s \in DOMAIN stories, Judge(s)
  PROVE  ChecksInv'
<1>1. PICK failed \in SUBSET RequiredChecks, change \in Changes(s) :
        /\ Passes(s, failed, With(change))
        /\ judged' = [x \in DOMAIN judged \cup {s} |->
                        IF x = s THEN [prior |-> passed, change |-> change] ELSE judged[x]]
  BY DEF Judge
<1>2. change \in Change
  BY ChangesTyped DEF StoriesInv, ChecksInv
<1>3. change.breaks \cap passed = {}
  BY <1>1 DEF Passes, RunRegressionGate, With
<1>4. s \in Begun /\ Begun' = Begun /\ passed' = passed /\ failing' = failing
  BY DEF Judge, Unjudged, Begun, In
<1>5. passed \in SUBSET Ids
  BY DEF ChecksInv, StoriesInv, StoriesTyped, Begun
<1>6. DOMAIN judged' = DOMAIN judged \cup {s}
  BY <1>1
<1>7. ASSUME NEW x \in DOMAIN judged'
      PROVE  /\ judged'[x] \in [prior : SUBSET Ids, change : Change]
             /\ judged'[x].change.breaks \cap judged'[x].prior = {}
  <2>1. CASE x = s
    <3>1. judged'[x] = [prior |-> passed, change |-> change]
      BY <1>1, <2>1
    <3> QED BY <1>2, <1>3, <1>5, <3>1
  <2>2. CASE x # s
    <3>1. x \in DOMAIN judged /\ judged'[x] = judged[x]
      BY <1>1, <1>6, <1>7, <2>2
    <3> QED BY <3>1 DEF ChecksInv
  <2> QED BY <2>1, <2>2
<1> QED BY <1>4, <1>6, <1>7 DEF ChecksInv

LEMMA RecordKeeps ==
  ASSUME StoriesInv, ChecksInv, NEW s \in DOMAIN stories, RecordPassed(s)
  PROVE  StoriesInv' /\ ChecksInv'
<1>1. /\ s \in DOMAIN judged /\ s \in Begun /\ Moves(s, "done")
      /\ used' = used /\ again' = again /\ passed' = passed \cup {s}
      /\ failing' = (failing \ judged[s].change.mends) \cup judged[s].change.breaks
      /\ judged' = [x \in DOMAIN judged \ {s} |-> judged[x]]
  BY DEF RecordPassed, sameWork, With, ChecksInv
<1>2. "done" \in Status \ {"todo"}
  BY DEF Status
<1>3. StoriesInv' /\ Begun' = Begun
  BY <1>1, <1>2, MovesKeeps
<1>4. DOMAIN judged' \subseteq DOMAIN judged /\ \A x \in DOMAIN judged' : judged'[x] = judged[x]
  BY <1>1
<1>5. failing' \subseteq Tests
  <2>1. judged[s].change.breaks \subseteq Tests
    BY <1>1 DEF ChecksInv, Change
  <2> QED BY <1>1, <2>1 DEF ChecksInv
<1> QED BY <1>1, <1>3, <1>4, <1>5 DEF ChecksInv

-----------------------------------------------------------------------------
HumansTyped == held \subseteq Holdable /\ open \in BOOLEAN /\ baseline \subseteq OldTests

\* The inductive invariant of the intake.
IntakeInv == StoriesInv /\ ChecksInv /\ TasksInv /\ bundle \in Bundles

LEMMA BundleTyped ==
  ASSUME NEW idea \in Idea
  PROVE  CreatePlanningBundle(idea) \in Bundles
<1>1. ClassifyIdea(idea.markers) \in Modes
  BY DEF ClassifyIdea, Modes, ArchByMode
<1>2. OpenDecisions(idea.answered) \subseteq Answers
  BY DEF OpenDecisions, Answers
<1> QED BY <1>1, <1>2 DEF CreatePlanningBundle, Bundles

LEMMA GeneratesFromMode ==
  ASSUME NEW b \in Bundles, Generates(b)
  PROVE  b.mode \in Modes
  BY DEF Generates, Bundles

LEMMA IntakeInitInv == IntakeInit => IntakeInv
<1> SUFFICES ASSUME IntakeInit PROVE IntakeInv
  OBVIOUS
<1>1. /\ DOMAIN stories = {} /\ used = 0 /\ again = {} /\ tasks = <<>> /\ bundle \in Bundles
      /\ DOMAIN judged = {} /\ passed = {} /\ failing \subseteq OldTests
  BY DEF IntakeInit, Bundles
<1>2. StoriesTyped /\ Started
  BY <1>1 DEF StoriesTyped, Started, Begun
<1>3. PlanShape
  <2>1. 2 \in 2..3
    OBVIOUS
  <2> QED BY <1>1, <2>1 DEF PlanShape
<1>4. ChecksInv
  BY <1>1 DEF ChecksInv, Tests
<1> QED BY <1>1, <1>2, <1>3, <1>4, NoTasks DEF IntakeInv, StoriesInv

\* New stories come in; nothing that was judged or started changes.
LEMMA IntakeStep ==
  ASSUME IntakeInv, Intake
  PROVE  IntakeInv'
<1>1. ASSUME StoriesInv', Begun \subseteq Begun', UNCHANGED <<checks, tasks>>, bundle' \in Bundles
      PROVE  IntakeInv'
  BY <1>1, ChecksKept, SameTasks DEF checks, IntakeInv
<1>2. ASSUME NEW idea \in Ideas, SubmitIdea(idea) PROVE IntakeInv'
  <2>1. idea \in Idea
    BY InputAssumption
  <2> QED BY <1>1, <1>2, <2>1, BundleTyped, SameStories DEF SubmitIdea, IntakeInv
<1>3. ASSUME NEW idea \in Ideas, DryRun(idea) PROVE IntakeInv'
  <2>1. idea \in Idea /\ bundle' = CreatePlanningBundle(idea) /\ bundle' \in Bundles
    BY <1>3, BundleTyped, InputAssumption DEF DryRun
  <2>2. bundle'.mode \in Modes
    BY <1>3, <2>1, BundleTyped, GeneratesFromMode DEF DryRun
  <2>3. PICK mode \in Modes : Register(GeneratedStories(ArchByMode[mode]))
    BY <1>3, <2>2 DEF DryRun
  <2>4. StoriesInv' /\ Begun' = Begun
    BY <1>3, <2>3, GenerateKeeps DEF DryRun, IntakeInv
  <2> QED BY <1>1, <1>3, <2>1, <2>4 DEF DryRun
<1>4. CASE GenerateBacklog
  <2>1. PICK mode \in Modes : Register(GeneratedStories(ArchByMode[mode]))
    BY <1>4, GeneratesFromMode DEF GenerateBacklog, IntakeInv
  <2>2. StoriesInv' /\ Begun' = Begun
    BY <1>4, <2>1, GenerateKeeps DEF GenerateBacklog, rest, IntakeInv
  <2> QED BY <1>1, <1>4, <2>2 DEF GenerateBacklog, rest, IntakeInv
<1>5. CASE AskFrontendStage
  <2>1. ShowcaseStory \in Story /\ ShowcaseStory.status = "todo" /\ Showcase \in Ids \ Planned
    BY DEF ShowcaseStory, NewStory, Story, Dist, Places, Status, Showcase, Ids, Planned
  <2>2. StoriesInv' /\ Begun' = Begun
    BY <1>5, <2>1, AddKeeps DEF AskFrontendStage, rest, IntakeInv
  <2> QED BY <1>1, <1>5, <2>2 DEF AskFrontendStage, rest, IntakeInv
<1>6. ASSUME NEW r \in 1..Reports, NEW o, TriageDefect(r, o) PROVE IntakeInv'
  <2>1. PICK impacted \in {{}, {SourceOf(1)}} : Add(RepairId(r), BuildRepairStory(impacted))
    BY <1>6 DEF TriageDefect
  <2>2. BuildRepairStory(impacted) \in Story /\ BuildRepairStory(impacted).status = "todo"
    BY <2>1 DEF BuildRepairStory, NewStory, Story, SourceOf, SrcTree, Places, Status
  <2>3. RepairId(r) \in Ids \ Planned
    BY IntakeAssumption DEF RepairId, Ids, Planned
  <2>4. StoriesInv' /\ Begun' = Begun
    BY <1>6, <2>1, <2>2, <2>3, AddKeeps DEF TriageDefect, rest, IntakeInv
  <2> QED BY <1>1, <1>6, <2>4 DEF TriageDefect, rest, IntakeInv
<1>7. ASSUME NEW m \in Messages, ProcessScopeChange(m) PROVE IntakeInv'
  <2> DEFINE mode == ClassifyIdea(m.markers)
  <2>1. mode \in Modes
    BY DEF ClassifyIdea, Modes, ArchByMode
  <2>2. EpicOfScopeChange[mode] \in 0..105
    BY <2>1, ModeTables
  <2>3. ScopeChangeStory(mode) \in Story /\ ScopeChangeStory(mode).status = "todo"
    BY <2>2 DEF ScopeChangeStory, NewStory, Story, SrcTree, Places, Status
  <2>4. ScopeId(m.slug) \in Ids \ Planned
    BY InputAssumption DEF ScopeId, Ids, Planned
  <2>5. StoriesInv' /\ Begun' = Begun
    BY <1>7, <2>3, <2>4, AddKeeps DEF ProcessScopeChange, rest, IntakeInv
  <2> QED BY <1>1, <1>7, <2>5 DEF ProcessScopeChange, rest, IntakeInv
<1> QED BY <1>2, <1>3, <1>4, <1>5, <1>6, <1>7 DEF Intake

\* A story moves while nothing that was judged does.
LEMMA StoryMoves ==
  ASSUME IntakeInv, NEW s \in Begun, NEW status \in Status \ {"todo", "done"}, s \notin Done,
         Moves(s, status), UNCHANGED <<used, again, judged, passed, failing, bundle>>, TasksInv'
  PROVE  IntakeInv'
<1>1. StoriesInv' /\ Begun' = Begun
  BY MovesKeeps DEF IntakeInv
<1> QED BY <1>1, ChecksKept DEF IntakeInv

LEMMA IntakeStepInv == IntakeInv /\ [IntakeNext]_intakeVars => IntakeInv'
<1> SUFFICES ASSUME IntakeInv, [IntakeNext]_intakeVars PROVE IntakeInv'
  OBVIOUS
<1>1. ASSUME UNCHANGED <<stories, used, again, judged, passed, failing, bundle>>, TasksInv' PROVE IntakeInv'
  BY <1>1, SameStories, ChecksKept DEF IntakeInv
<1>2. CASE Humans
  BY <1>1, <1>2, SameTasks DEF Humans, Hold, OpenWave, checks, IntakeInv
<1>3. CASE Callers
  <2>1. CASE CaptureBaseline
    BY <1>1, <2>1, SameTasks DEF CaptureBaseline, IntakeInv
  <2>2. CASE ~CaptureBaseline
    <3>1. PICK S : Starts(S)
      BY <1>3, <2>2 DEF Callers, Admit, SelectAdmissible, AdmitWaiting
    <3>2. StoriesInv' /\ Begun \subseteq Begun'
      BY <3>1, StartsKeeps DEF IntakeInv
    <3>3. UNCHANGED <<tasks, bundle, judged, passed, failing>>
      BY <3>1 DEF Starts, checks
    <3> QED BY <3>2, <3>3, ChecksKept, SameTasks DEF IntakeInv
  <2> QED BY <2>1, <2>2
<1>4. ASSUME NEW s \in DOMAIN stories, LeaveTasks(s) PROVE TasksInv'
  BY <1>4, NoTasks, SameTasks DEF LeaveTasks, IntakeInv
<1>5. {"debugging", "in_progress", "escalated"} \subseteq Status \ {"todo", "done"}
  BY DEF Status
<1>6. ASSUME NEW s \in DOMAIN stories, Judge(s) PROVE IntakeInv'
  <2>1. UNCHANGED <<stories, used, again, bundle>> /\ LeaveTasks(s)
    BY <1>6 DEF Judge, sameWork
  <2>2. StoriesInv' /\ ChecksInv'
    BY <1>6, <2>1, SameStories, JudgeKeeps DEF IntakeInv
  <2> QED BY <1>4, <2>1, <2>2 DEF IntakeInv
<1>7. ASSUME NEW s \in DOMAIN stories, Reject(s) PROVE IntakeInv'
  <2>1. /\ s \in Begun /\ s \notin Done /\ Moves(s, "debugging") /\ LeaveTasks(s)
        /\ UNCHANGED <<used, again, judged, passed, failing, bundle>>
    BY <1>7 DEF Reject, Unjudged, Begun, Done, In, sameWork
  <2> QED BY <1>4, <1>5, <2>1, StoryMoves
<1>8. ASSUME NEW s \in DOMAIN stories, Repaired(s) \/ Escalate(s) PROVE IntakeInv'
  <2>1. PICK status \in {"in_progress", "escalated"} :
          /\ s \in Begun /\ s \notin Done /\ Moves(s, status)
          /\ UNCHANGED <<used, again, judged, passed, failing, bundle, tasks>>
    BY <1>8 DEF Repaired, Escalate, Begun, Done, In, sameWork
  <2> QED BY <1>5, <2>1, StoryMoves, SameTasks DEF IntakeInv
<1>9. ASSUME NEW s \in DOMAIN stories, RecordPassed(s) PROVE IntakeInv'
  <2>1. UNCHANGED <<tasks, bundle>>
    BY <1>9 DEF RecordPassed, sameWork
  <2> QED BY <1>9, <2>1, RecordKeeps, SameTasks DEF IntakeInv
<1>10. CASE Decompose
  <2>1. TasksInv'
    BY <1>10, DecomposeKeepsTasks DEF IntakeInv
  <2> QED BY <1>1, <1>10, <2>1 DEF Decompose, checks
<1>11. CASE UNCHANGED intakeVars
  BY <1>1, <1>11, SameTasks DEF intakeVars, checks, IntakeInv
<1> QED BY <1>2, <1>3, <1>6, <1>7, <1>8, <1>9, <1>10, <1>11, IntakeStep DEF IntakeNext, EndSome, JudgeSome

LEMMA HumansTypedStep == HumansTyped /\ [IntakeNext]_intakeVars => HumansTyped'
<1> SUFFICES ASSUME HumansTyped, [IntakeNext]_intakeVars PROVE HumansTyped'
  OBVIOUS
<1>1. CASE Intake
  BY <1>1 DEF Intake, SubmitIdea, DryRun, GenerateBacklog, AskFrontendStage, TriageDefect,
     ProcessScopeChange, rest, checks, HumansTyped
<1>2. CASE Humans
  BY <1>2 DEF Humans, Hold, OpenWave, checks, HumansTyped
<1>3. CASE Callers
  BY <1>3 DEF Callers, Admit, SelectAdmissible, AdmitWaiting, Starts, CaptureBaseline, checks, HumansTyped
<1>4. ASSUME NEW s \in DOMAIN stories,
             Judge(s) \/ RecordPassed(s) \/ Escalate(s) \/ Reject(s) \/ Repaired(s)
      PROVE  HumansTyped'
  BY <1>4 DEF Judge, RecordPassed, Escalate, Reject, Repaired, sameWork, HumansTyped
<1>5. CASE Decompose \/ UNCHANGED intakeVars
  BY <1>5 DEF Decompose, intakeVars, checks, HumansTyped
<1> QED BY <1>1, <1>2, <1>3, <1>4, <1>5 DEF IntakeNext, EndSome, JudgeSome

\* Only the recording of a judged story makes a test fail, and what it breaks
\* it was not judged against.
LEMMA BreaksStep == IntakeInv /\ [IntakeNext]_intakeVars => [BreaksUnseen]_intakeVars
<1> SUFFICES ASSUME IntakeInv, [IntakeNext]_intakeVars PROVE BreaksUnseen \/ UNCHANGED intakeVars
  BY Zenon
<1>1. CASE failing' = failing
  BY <1>1 DEF BreaksUnseen
<1>2. ASSUME NEW s \in DOMAIN stories, RecordPassed(s) PROVE BreaksUnseen
  <2>1. /\ s \in DOMAIN judged /\ passed' = passed \cup {s}
        /\ failing' = (failing \ judged[s].change.mends) \cup judged[s].change.breaks
        /\ judged' = [x \in DOMAIN judged \ {s} |-> judged[x]]
    BY <1>2 DEF RecordPassed, With
  <2>2. judged[s].change.breaks \cap judged[s].prior = {}
    BY <2>1 DEF IntakeInv, ChecksInv
  <2>3. s \in DOMAIN judged \ DOMAIN judged' /\ s \in passed'
    BY <2>1
  <2>4. \A t \in failing' \ failing : t \notin judged[s].prior
    BY <2>1, <2>2
  <2> QED BY <2>3, <2>4 DEF BreaksUnseen
<1>3. ASSUME NEW s \in DOMAIN stories, Judge(s) \/ Escalate(s) \/ Reject(s) \/ Repaired(s)
      PROVE  failing' = failing
  BY <1>3 DEF Judge, Escalate, Reject, Repaired
<1>4. ASSUME Intake \/ Humans \/ Callers \/ Decompose PROVE failing' = failing
  <2>1. CASE Intake
    BY <2>1 DEF Intake, SubmitIdea, DryRun, GenerateBacklog, AskFrontendStage, TriageDefect,
       ProcessScopeChange, rest, checks
  <2>2. CASE Humans \/ Decompose
    BY <2>2 DEF Humans, Hold, OpenWave, Decompose, checks
  <2>3. CASE Callers
    BY <2>3 DEF Callers, Admit, SelectAdmissible, AdmitWaiting, Starts, CaptureBaseline, checks
  <2> QED BY <1>4, <2>1, <2>2, <2>3
<1> QED BY <1>1, <1>2, <1>3, <1>4 DEF IntakeNext, EndSome, JudgeSome

LEMMA IntakeInvariant == IntakeSpec => []IntakeInv
  BY IntakeInitInv, IntakeStepInv, PTL DEF IntakeSpec

\* Every variable of the intake keeps its type, and only stories that were
\* started are judged, recorded or started again.
THEOREM IntakeTypeCorrect == IntakeSpec => []IntakeTypeOK
<1>1. IntakeInit => HumansTyped
  BY DEF IntakeInit, HumansTyped
<1>2. IntakeInv /\ HumansTyped => IntakeTypeOK
  BY DEF IntakeInv, StoriesInv, StoriesTyped, ChecksInv, TasksInv, HumansTyped, IntakeTypeOK
<1> QED BY <1>1, <1>2, HumansTypedStep, IntakeInvariant, PTL DEF IntakeSpec

\* Whatever the backlog's size, the holds, the wave, the order of admission and
\* what is started again: planned stories that write to the same place are at
\* work together only where one was started again, because one of them depends
\* on the other.
THEOREM PlannedWritersAreApart == IntakeSpec => []PlannedWritersApart
<1>1. IntakeInv => PlannedWritersApart
  BY PlanKeepsWritersApart DEF IntakeInv
<1> QED BY <1>1, IntakeInvariant, PTL

\* For any tests and any stories judged beside each other: runRegressionGate
\* lets no story break one it was judged against, so that only a story that was
\* judged too early breaks a recorded one.
THEOREM OnlyUnseenIsBroken == IntakeSpec => OnlyUnseenBreaks
  BY BreaksStep, IntakeInvariant, PTL DEF IntakeSpec, OnlyUnseenBreaks

\* For any number of subtasks and dependencies, and whatever the agent updates:
\* one is at work at a time, and only a task that is blocked or was given up
\* holds up the rest.
THEOREM SubtasksAreNeverStuck == IntakeSpec => []SubtasksNeverStuck
<1>1. IntakeInv => SubtasksNeverStuck
  BY TasksNeverStuck DEF IntakeInv
<1> QED BY <1>1, IntakeInvariant, PTL
=============================================================================
