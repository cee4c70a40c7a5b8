----------------------------- MODULE ProjectLoop -----------------------------
(***************************************************************************)
(* The project level of packages/harness-core: a project is built story by *)
(* story over several sessions of the harness.  Before each story          *)
(* decideAutoAdvance decides whether to go on, from the budgets, the trend *)
(* of the iterations, the pending gate and the backlog; after it the       *)
(* RegressionRegistry decides whether it may be checkpointed, its          *)
(* contracts and its cost go into the run state, and                       *)
(* persistProjectRunState saves that through a temporary file.             *)
(*                                                                         *)
(* The functions are pure or synchronous, so within a session they are     *)
(* steps of one sequence; a crash may come between any two, and inside the *)
(* save.  The session that calls them in this order is the one of          *)
(* tests/sh5_effectiveness.test.ts and index.test.ts; what a story's work  *)
(* does is open.                                                           *)
(*                                                                         *)
(* Abstracted: dollars and tokens are one unit, a contract is its name and *)
(* path, and an iteration is what assessConvergence reads of it.  Names    *)
(* that DebugLoop has too carry the component's, so that one module can    *)
(* extend both.                                                            *)
(***************************************************************************)
EXTENDS HarnessSteps

CONSTANTS
  Stories, Epics,
  EpicOf,        \* [Stories -> Epics]
  DependsOn,     \* [Stories -> SUBSET Stories]
  Rank,          \* [Stories -> Nat], the order of epic and story ids
  NeedsRealApi,  \* the stories whose blocked_reason marks spend
  Produces,      \* [Stories -> SUBSET contracts]
  Window,        \* K of assessConvergence, 3 by default
  RunBudget,     \* run_iteration_budget
  AttemptBudget, \* attempt_budget, 3 in a fresh run state
  Cap,           \* project_budget_usd
  MaxCost,       \* most an iteration costs
  MaxRework,     \* most rework an iteration reports
  MaxSessions,   \* bound on the sessions of the project
  Legacy,        \* the project may have a run state of schema 1
  None, Torn

ASSUME StoryAssumption ==
  /\ IsFiniteSet(Stories)
  /\ EpicOf \in [Stories -> Epics]
  /\ DependsOn \in [Stories -> SUBSET Stories]
  /\ Rank \in [Stories -> Nat]
  /\ \A s, t \in Stories : Rank[s] = Rank[t] => s = t
  /\ NeedsRealApi \subseteq Stories
  /\ None \notin Stories
ASSUME ProjectBoundAssumption ==
  /\ Window \in Nat \ {0} /\ AttemptBudget \in Nat \ {0}
  /\ {RunBudget, Cap, MaxCost, MaxRework, MaxSessions} \subseteq Nat
  /\ Legacy \in BOOLEAN

Contracts == UNION {Produces[s] : s \in Stories}

VARIABLES
  file,      \* what the run state file holds, None before the first save
  tmp,       \* its temporary file
  mem,       \* the session's ProjectRunState
  history,   \* the IterationMetrics the session collected
  green,     \* its RegressionRegistry
  epic,      \* the epic the session works on
  gate,      \* a human gate is pending
  step,      \* what the session does next
  story,     \* the story it works on
  sessions,  \* sessions begun
  crashes,   \* how many of them were cut off
  worked,    \* iterations that were really worked
  spent      \* what they really cost

projectVars == <<file, tmp, mem, history, green, epic, gate, step, story,
                 sessions, crashes, worked, spent>>

RunState == [schema : {1, 2},
             status : [Stories -> {"todo", "in_progress", "done", "escalated"}],
             attempts : [Stories -> 0..AttemptBudget],
             used : Nat,
             usd : Nat,
             registry : [Contracts -> Stories \cup {None}]]
Metrics == [delivered : 0..1, rework : 0..MaxRework + 1,
            clobber : 0..Cardinality(Stories)]

Stops == {"budget_exceeded", "project_diverging", "project_stalled",
          "trust_boundary", "epic_complete", "real_api_calls", "project_budget"}
ASSUME StateAssumption == None \notin RunState /\ None \notin Stops
Saving == {"write", "rename"}

ProjectTypeOK ==
  /\ file \in RunState \cup {None}
  /\ tmp \in RunState \cup {None, Torn}
  /\ mem \in RunState \cup {None} /\ (mem = None <=> step = "down")
  /\ history \in Seq(Metrics)
  /\ green \subseteq Stories
  /\ epic \in Epics
  /\ gate \in BOOLEAN
  /\ step \in {"down", "decide", "work"} \cup Saving \cup Stops
  /\ story \in Stories \cup {None} /\ (step = "work" => story # None)
  /\ sessions \in 0..MaxSessions /\ crashes \in 0..sessions
  /\ worked \in Nat /\ spent \in Nat
-----------------------------------------------------------------------------
(* Decisions *)

FreshRunState ==
  [schema |-> 2, status |-> [s \in Stories |-> "todo"],
   attempts |-> [s \in Stories |-> 0], used |-> 0, usd |-> 0,
   registry |-> [c \in Contracts |-> None]]

\* Mutant: every load empties the ledger.
MigratedAlways(state) == [state EXCEPT !.schema = 2, !.usd = 0]

\* A file of schema 1 has no ledger: it is migrated with an empty one.
Migrated(state) ==
  IF state.schema = 1 THEN [state EXCEPT !.schema = 2, !.usd = 0] ELSE state

\* One story is worked on at a time, so none waits for an exclusive one.
Runnable(status) ==
  {s \in Stories : status[s] = "todo" /\ \A d \in DependsOn[s] : status[d] = "done"}
SelectNextStory(status) ==
  CHOOSE s \in Runnable(status) : \A t \in Runnable(status) : Rank[s] <= Rank[t]

Recent == SubSeq(history, Len(history) - Window + 1, Len(history))
\* Mutant: rising or as high as before.
NeverFalling(values) ==
  /\ Len(values) >= 2
  /\ \A i \in 2..Len(values) : values[i] >= values[i - 1]

\* strictlyRising asks for two values at least.
StrictlyRising(values) ==
  /\ Len(values) >= 2
  /\ \A i \in 2..Len(values) : values[i] > values[i - 1]

\* Mutant: a window needs one session more.
EnoughHistoryAndOne == Len(history) > Window

EnoughHistory == Len(history) >= Window
AssessConvergence ==
  IF ~EnoughHistory THEN "converging"
  ELSE IF \/ StrictlyRising([i \in 1..Window |-> Recent[i].clobber])
          \/ StrictlyRising([i \in 1..Window |-> Recent[i].rework])
       THEN "diverging"
  ELSE IF \A i \in 1..Window : Recent[i].delivered = 0 THEN "stalled"
  ELSE "converging"

\* Mutant: off by one.
WithinRunBudgetOrAt(used) == used <= RunBudget

WithinRunBudget(used) == used < RunBudget

\* Why decideAutoAdvance stops, in its order, or None to advance.
NextStop ==
  IF Runnable(mem.status) = {} THEN "epic_complete"
  ELSE LET next == SelectNextStory(mem.status) IN
       IF EpicOf[next] # epic THEN "epic_complete"
       ELSE IF next \in NeedsRealApi THEN "real_api_calls" ELSE None
StopReason ==
  IF ~WithinRunBudget(mem.used) THEN "budget_exceeded"
  ELSE IF AssessConvergence = "diverging" THEN "project_diverging"
  ELSE IF AssessConvergence = "stalled" THEN "project_stalled"
  ELSE IF gate THEN "trust_boundary"
  ELSE NextStop
-----------------------------------------------------------------------------
(* A session *)

\* Schema 1 had neither a ledger nor a contract registry.
LegacyFiles ==
  {[FreshRunState EXCEPT !.schema = 1, !.status = [s \in Stories |->
      IF s \in done THEN "done" ELSE "todo"]] :
     done \in {d \in SUBSET Stories : Legacy /\ \A s \in d : DependsOn[s] \subseteq d}}

ProjectInit ==
  /\ file \in {None} \cup LegacyFiles
  /\ tmp = None /\ mem = None
  /\ history = <<>> /\ green = {}
  /\ epic \in Epics /\ gate = FALSE
  /\ step = "down" /\ story = None
  /\ sessions = 0 /\ crashes = 0 /\ worked = 0 /\ spent = 0

\* The project's spend seeds the run's ledger: a capped-out project stops.
LoadOrInit(e) ==
  /\ step = "down" \/ step \in Stops
  /\ sessions < MaxSessions
  /\ sessions' = sessions + 1
  /\ mem' = IF file = None THEN FreshRunState ELSE Migrated(file)
  /\ step' = IF mem'.usd >= Cap THEN "project_budget" ELSE "decide"
  /\ epic' = e
  /\ history' = <<>> /\ green' = {} /\ gate' = FALSE /\ story' = None
  /\ UNCHANGED <<file, tmp, crashes, worked, spent>>

DecideAutoAdvance ==
  /\ step = "decide"
  /\ IF StopReason = None
     THEN /\ story' = SelectNextStory(mem.status)
          /\ mem' = [mem EXCEPT !.status[story'] = "in_progress"]
          /\ step' = "work"
     ELSE step' = StopReason /\ UNCHANGED <<story, mem>>
  /\ UNCHANGED <<file, tmp, history, green, epic, gate, sessions, crashes,
                 worked, spent>>

\* Every iteration: recordProjectCost, iterations_used and its metrics.
Counted(state, cost) ==
  [state EXCEPT !.used = @ + 1, !.usd = @ + cost]
EndIteration(cost, metrics) ==
  /\ worked' = worked + 1 /\ spent' = spent + cost
  /\ history' = Append(history, metrics)
  /\ step' = "write" /\ story' = None
  /\ UNCHANGED <<file, tmp, epic, sessions, crashes>>

\* The first story to produce a contract stays its owner.
RegisterProducedContracts(registry, s) ==
  [c \in Contracts |->
     IF registry[c] = None /\ c \in Produces[s] THEN s ELSE registry[c]]

\* The story passes and breaks no story of the registry: it is checkpointed.
Deliver(cost, rework) ==
  /\ step = "work"
  /\ Tick("VALIDATION", ~WithinRunBudget(mem.used), "yes", TRUE, gate) = "write_checkpoint"
  /\ mem' = [Counted(mem, cost) EXCEPT
       !.status[story] = "done",
       !.registry = RegisterProducedContracts(@, story)]
  /\ green' = green \cup {story}
  /\ EndIteration(cost, [delivered |-> 1, rework |-> rework, clobber |-> 0])
  /\ UNCHANGED gate

Exhausted(attempts) == attempts >= AttemptBudget
\* What the harness does about a validation that failed.
AfterFailure(attempts) ==
  Tick("VALIDATION", ~WithinRunBudget(mem.used), "no", ~Exhausted(attempts), gate)

\* It fails, or breaks some of them: back to the debugger, until its attempts
\* are spent and a human must decide.
Rework(cost, rework, broken) ==
  /\ step = "work" /\ broken \subseteq green
  /\ LET attempts == mem.attempts[story] + 1
     IN /\ mem' = [Counted(mem, cost) EXCEPT
             !.attempts[story] = attempts,
             !.status[story] = IF AfterFailure(attempts) = "escalate_human"
                               THEN "escalated" ELSE "todo"]
        /\ gate' = (CheckHumanGate(AfterFailure(attempts), FALSE, FALSE, FALSE) # "none")
  /\ EndIteration(cost, [delivered |-> 0, rework |-> rework + 1,
                         clobber |-> Cardinality(broken)])
  /\ UNCHANGED green

\* persistProjectRunState: the temporary file is written, then renamed.
WriteTmp ==
  /\ step = "write"
  /\ tmp' = mem
  /\ step' = "rename"
  /\ UNCHANGED <<file, mem, history, green, epic, gate, story, sessions, crashes,
                 worked, spent>>
Rename ==
  /\ step = "rename"
  /\ file' = tmp /\ tmp' = None
  /\ step' = "decide"
  /\ UNCHANGED <<mem, history, green, epic, gate, story, sessions, crashes,
                 worked, spent>>

\* The process dies, also at work or halfway through the write of the
\* temporary file.
Crash ==
  /\ step \notin Stops \cup {"down"}
  /\ crashes' = crashes + 1
  /\ IF step = "work"
     THEN worked' = worked + 1 /\ \E cost \in 0..MaxCost : spent' = spent + cost
     ELSE UNCHANGED <<worked, spent>>
  /\ step' = "down" /\ mem' = None /\ story' = None
  /\ tmp' \in IF step = "write" THEN {tmp, Torn} ELSE {tmp}
  /\ history' = <<>> /\ green' = {} /\ gate' = FALSE
  /\ UNCHANGED <<file, epic, sessions>>

Work == \E cost \in 0..MaxCost, rework \in 0..MaxRework :
          \/ Deliver(cost, rework)
          \/ \E broken \in SUBSET green : Rework(cost, rework, broken)
Session == DecideAutoAdvance \/ Work \/ WriteTmp \/ Rename
ProjectNext == (\E e \in Epics : LoadOrInit(e)) \/ Session \/ Crash

ProjectSpec == ProjectInit /\ [][ProjectNext]_projectVars
-----------------------------------------------------------------------------
(* Properties *)

\* What was saved stays saved: whatever crashes, the file never holds a torn
\* state, a done or escalated story is never reopened, a contract keeps its
\* owner, and neither the iterations nor the spend go back (loadOrInit,
\* persistProjectRunState).
Extends(old, new) ==
  /\ \A s \in Stories : old.status[s] \in {"done", "escalated"}
                          => new.status[s] = old.status[s]
  /\ \A c \in Contracts : old.registry[c] # None => new.registry[c] = old.registry[c]
  /\ old.used <= new.used /\ old.usd <= new.usd
SaveExtends == file' # file => /\ file' \in RunState
                               /\ file # None => Extends(file, file')
SavedStaysSaved == [][SaveExtends]_projectVars

\* Across sessions the project is worked on no more often than its iteration
\* budget allows, but for one iteration per crash, and what it really cost
\* exceeds what it is charged for by one iteration per crash at most.
Charged == IF mem # None THEN mem ELSE IF file # None THEN file ELSE FreshRunState
BudgetsAreDurable ==
  /\ worked <= RunBudget + crashes
  /\ spent <= Charged.usd + MaxCost * crashes

\* No session goes on after Window iterations that delivered nothing, or over
\* which rework or clobber rose each time: such a window is its last.
BadWindow(i) ==
  LET rising(v) == \A j \in i..(i + Window - 2) : v[j] < v[j + 1] IN
  \/ \A j \in i..(i + Window - 1) : history[j].delivered = 0
  \/ Window > 1 /\ \/ rising([j \in DOMAIN history |-> history[j].clobber])
                   \/ rising([j \in DOMAIN history |-> history[j].rework])
TrendIsHeeded ==
  /\ \A i \in 1..Len(history) - Window : ~BadWindow(i)
  /\ step = "work" /\ Len(history) >= Window => ~BadWindow(Len(history) - Window + 1)

\* Only a whole window of this session's own iterations stops a project as
\* diverging or stalled: it delivered nothing, or rework or clobber rose at
\* every step of it.
StopsOnEvidence ==
  step \in {"project_diverging", "project_stalled"} =>
    Len(history) >= Window /\ BadWindow(Len(history) - Window + 1)

\* "The contracts produced by the stories a story depends on": a story at
\* work is given every contract its dependencies produced.
ContractsFromDependencies(s) == {c \in Contracts : mem.registry[c] \in DependsOn[s]}
DependenciesAreForwarded ==
  step = "work" => UNION {Produces[d] : d \in DependsOn[story]}
                   \subseteq ContractsFromDependencies(story)
=============================================================================
