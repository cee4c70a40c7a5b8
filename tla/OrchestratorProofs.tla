------------------------- MODULE OrchestratorProofs -------------------------
(***************************************************************************)
(* Proofs about Orchestrator, for every backlog, dependency graph, ranking *)
(* and budgets.                                                            *)
(***************************************************************************)
EXTENDS Orchestrator, FiniteSetTheorems, TLAPS

LEMMA TypeInit == Init => TypeOK
<1> USE StoryAssumption, BacklogAssumption
<1> SUFFICES ASSUME Init PROVE TypeOK
  OBVIOUS
<1>1. status \in [Story -> Status]
  BY DEF Init, Status, FreshStatus
<1>2. attempts \in [Story -> Nat]
  BY DEF Init
<1>3. decision_log \in Seq(Decision)
  BY DEF Init
<1> QED
  BY <1>1, <1>2, <1>3 DEF Init, TypeOK, State

LEMMA TypeStep == TypeOK /\ [Next]_vars => TypeOK'
<1> SUFFICES ASSUME TypeOK, [Next]_vars PROVE TypeOK'
  OBVIOUS
<1> USE StoryAssumption
<1> USE DEF TypeOK, State, Status, FreshStatus, StopReason, EscalateReason,
                 Decision, Action, Record, SetStatus, Working, HasActive
<1>1. CASE SelectNextStory
  BY <1>1 DEF SelectNextStory, IsNextStory, Selectable
<1>2. CASE SelectFails
  BY <1>2 DEF SelectFails, IsNextStory
<1>3. CASE SelectAtClearedGate
  BY <1>3 DEF SelectAtClearedGate
<1>4. CASE IssueContract
  BY <1>4 DEF IssueContract
<1>5. CASE DevelopPatch
  BY <1>5 DEF DevelopPatch
<1>6. CASE RunValidation
  BY <1>6 DEF RunValidation
<1>7. CASE WriteCheckpoint
  BY <1>7 DEF WriteCheckpoint
<1>8. CASE MarkStoryDone
  BY <1>8 DEF MarkStoryDone
<1>9. CASE RouteDebugger
  BY <1>9 DEF RouteDebugger
<1>10. CASE RetryDevelop
  BY <1>10 DEF RetryDevelop
<1>11. CASE EscalateExhausted
  BY <1>11 DEF EscalateExhausted
<1>12. CASE EscalateBlocked
  BY <1>12 DEF EscalateBlocked
<1>13. CASE StopRun
  BY <1>13 DEF StopRun
<1>14. CASE ClearGate
  BY <1>14 DEF ClearGate
<1>15. CASE UNCHANGED vars
  BY <1>15 DEF vars
<1> QED
  BY <1>1, <1>2, <1>3, <1>4, <1>5, <1>6, <1>7, <1>8, <1>9, <1>10, <1>11,
     <1>12, <1>13, <1>14, <1>15 DEF Next, Tick, Halted

\* Type correctness: every tick assigns to each field of the tracker a value
\* of its declared type.
THEOREM TypeCorrect == Spec => []TypeOK
  BY TypeInit, TypeStep, PTL DEF Spec

-----------------------------------------------------------------------------
(***************************************************************************)
(* The inductive invariant.  The properties of the tracker are not         *)
(* inductive one by one: that only the active story is in flight needs the *)
(* status the phase of the run calls for, and that a dependency stays done *)
(* needs both.                                                             *)
(***************************************************************************)
IInv == TypeOK /\ PhaseMatchesStory /\ OneStoryInFlight /\ DepsDone /\ AttemptsInBudget

LEMMA InitInductive == Init => IInv
<1> SUFFICES ASSUME Init PROVE IInv
  OBVIOUS
<1> USE StoryAssumption, DependsAssumption, BudgetAssumption, BacklogAssumption
<1>1. TypeOK
  BY TypeInit
<1>2. PhaseMatchesStory /\ OneStoryInFlight /\ DepsDone
  BY DEF Init, PhaseMatchesStory, OneStoryInFlight, DepsDone, InFlight, FreshStatus
<1>3. AttemptsInBudget
  BY DEF Init, AttemptsInBudget
<1> QED
  BY <1>1, <1>2, <1>3 DEF IInv

LEMMA StepInductive == IInv /\ [Next]_vars => IInv'
<1> SUFFICES ASSUME IInv, [Next]_vars PROVE IInv'
  OBVIOUS
<1> USE StoryAssumption, DependsAssumption, BudgetAssumption
<1>1. TypeOK'
  BY TypeStep DEF IInv
<1>2. (PhaseMatchesStory /\ OneStoryInFlight /\ DepsDone /\ AttemptsInBudget)'
  <2> USE <1>1 DEF IInv, TypeOK, PhaseMatchesStory, OneStoryInFlight, DepsDone,
         AttemptsInBudget, InFlight, SetStatus, Working, HasActive, AttemptsLeft,
         InSelect, Record
  <2>1. CASE SelectNextStory
    BY <2>1 DEF SelectNextStory, IsNextStory, Selectable, Pending
  <2>2. CASE SelectFails
    BY <2>2 DEF SelectFails
  <2>3. CASE SelectAtClearedGate
    BY <2>3 DEF SelectAtClearedGate
  <2>4. CASE IssueContract
    BY <2>4 DEF IssueContract
  <2>5. CASE DevelopPatch
    BY <2>5 DEF DevelopPatch
  <2>6. CASE RunValidation
    BY <2>6 DEF RunValidation
  <2>7. CASE WriteCheckpoint
    BY <2>7 DEF WriteCheckpoint
  <2>8. CASE MarkStoryDone
    BY <2>8 DEF MarkStoryDone
  <2>9. CASE RouteDebugger
    BY <2>9 DEF RouteDebugger
  <2>10. CASE RetryDevelop
    BY <2>10 DEF RetryDevelop
  <2>11. CASE EscalateExhausted
    BY <2>11 DEF EscalateExhausted
  <2>12. CASE EscalateBlocked
    BY <2>12 DEF EscalateBlocked
  <2>13. CASE StopRun
    BY <2>13 DEF StopRun
  <2>14. CASE ClearGate
    BY <2>14 DEF ClearGate
  <2>15. CASE UNCHANGED vars
    BY <2>15 DEF vars
  <2> QED
    BY <2>1, <2>2, <2>3, <2>4, <2>5, <2>6, <2>7, <2>8, <2>9, <2>10, <2>11,
       <2>12, <2>13, <2>14, <2>15 DEF Next, Tick, Halted
<1> QED
  BY <1>1, <1>2 DEF IInv

LEMMA Invariant == Spec => []IInv
  BY InitInductive, StepInductive, PTL DEF Spec

\* No phase is skipped: in every phase the active story has the status, and the
\* run the verdict, that the previous tick left for it.
THEOREM PhaseIsKept == Spec => []PhaseMatchesStory
  BY Invariant, PTL DEF IInv

\* One story at a time: whatever is in flight is the active story.
THEOREM SingleStory == Spec => []OneStoryInFlight
  BY Invariant, PTL DEF IInv

\* Dependencies first: nothing is started or finished before what it needs.
THEOREM DependenciesFirst == Spec => []DepsDone
  BY Invariant, PTL DEF IInv

\* The Developer is never asked for more patches than a story's budget.
THEOREM AttemptBudgetKept == Spec => []AttemptsInBudget
  BY Invariant, PTL DEF IInv

-----------------------------------------------------------------------------
(* Action properties. *)

LEMMA SettledStep ==
  ASSUME IInv, [Next]_vars, NEW s \in Story, status[s] \in {"done", "escalated", "blocked"}
  PROVE  status'[s] = status[s]
<1> USE StoryAssumption DEF IInv, TypeOK, PhaseMatchesStory, SetStatus, Working, HasActive
<1>1. CASE SelectNextStory
  BY <1>1 DEF SelectNextStory, IsNextStory, Selectable, Pending
<1>2. CASE IssueContract \/ RunValidation \/ WriteCheckpoint \/ MarkStoryDone
           \/ RouteDebugger \/ EscalateExhausted
  BY <1>2 DEF IssueContract, RunValidation, WriteCheckpoint, MarkStoryDone,
              RouteDebugger, EscalateExhausted
<1>3. CASE UNCHANGED status
  BY <1>3
<1> QED
  BY <1>1, <1>2, <1>3 DEF Next, Tick, Halted, vars, SelectFails, SelectAtClearedGate,
     DevelopPatch, RetryDevelop, EscalateBlocked, StopRun, ClearGate

\* Nothing that was done, escalated or blocked is changed by a later tick.
THEOREM SettledIsFinal == Spec => SettledStaysSettled
<1>1. IInv /\ [Next]_vars =>
        [\A s \in Story : status[s] \in {"done", "escalated", "blocked"} => status'[s] = status[s]]_vars
  BY SettledStep
<1> QED
  BY Invariant, <1>1, PTL DEF Spec, SettledStaysSettled

\* Only a story in work gets patches.
LEMMA AttemptsStep ==
  ASSUME IInv, [Next]_vars, NEW s \in Story, status[s] \in {"done", "escalated", "blocked"}
  PROVE  attempts'[s] = attempts[s]
<1>1. CASE DevelopPatch
  BY <1>1, StoryAssumption
     DEF IInv, TypeOK, PhaseMatchesStory, DevelopPatch, Working, HasActive
<1>2. CASE UNCHANGED attempts
  BY <1>2
<1> QED
  BY <1>1, <1>2 DEF Next, Tick, Halted, vars, SelectNextStory, SelectFails,
     SelectAtClearedGate, IssueContract, RunValidation, WriteCheckpoint, MarkStoryDone,
     RouteDebugger, RetryDevelop, EscalateExhausted, EscalateBlocked, StopRun, ClearGate

\* mark_story_done is the only way to "done".
LEMMA DoneStep ==
  ASSUME IInv, [Next]_vars, NEW s \in Story, status[s] # "done", status'[s] = "done"
  PROVE  MarkStoryDone /\ s = active_story_id
<1> USE StoryAssumption DEF IInv, TypeOK, SetStatus, Working, HasActive
<1>1. CASE MarkStoryDone
  BY <1>1 DEF MarkStoryDone
<1>2. CASE SelectNextStory \/ IssueContract \/ RunValidation \/ WriteCheckpoint
           \/ RouteDebugger \/ EscalateExhausted
  BY <1>2 DEF SelectNextStory, IssueContract, RunValidation, WriteCheckpoint,
              RouteDebugger, EscalateExhausted
<1>3. CASE UNCHANGED status
  BY <1>3
<1> QED
  BY <1>1, <1>2, <1>3 DEF Next, Tick, Halted, vars, SelectFails, SelectAtClearedGate,
     DevelopPatch, RetryDevelop, EscalateBlocked, StopRun, ClearGate

-----------------------------------------------------------------------------
(***************************************************************************)
(* The audit trail.  Every tick appends one decision; what a property says *)
(* of the earlier ones is kept because the log is only ever extended.      *)
(***************************************************************************)
Entry(action, s) == [action |-> action, story |-> s]

Settled == {"done", "escalated", "blocked"}

\* What the logged decision tells about the tick: who asks for a patch, or
\* escalates a story, and that a story it names is not settled.
TellsTick(action, s) ==
  /\ action = "develop_patch" => DevelopPatch
  /\ action = "escalate_human" /\ s \in Story => EscalateExhausted /\ s = active_story_id
  /\ s \in Story => status[s] \notin Settled

Appends ==
  \E d \in Decision :
    /\ decision_log' = Append(decision_log, d)
    /\ TellsTick(d.action, d.story)

LEMMA RecordAppends ==
  ASSUME NEW action \in Action, NEW s \in Story \cup {NoStory}, Record(action, s),
         TellsTick(action, s)
  PROVE  Appends
<1>1. Entry(action, s) \in Decision
  BY DEF Entry, Decision
<1> QED
  BY <1>1 DEF Appends, Record, Entry

LEMMA LogGrows ==
  ASSUME IInv, [Next]_vars
  PROVE  decision_log' = decision_log \/ Appends
<1> USE StoryAssumption DEF IInv, TypeOK, PhaseMatchesStory, Action, Settled, TellsTick
<1>1. CASE SelectNextStory \/ SelectFails
  <2>1. PICK s \in Story : Record("select_next_story", s) /\ Pending(s)
    BY <1>1 DEF SelectNextStory, SelectFails, IsNextStory, Selectable
  <2> QED
    BY <2>1, RecordAppends DEF Pending
<1>2. CASE SelectAtClearedGate
  BY <1>2, RecordAppends DEF SelectAtClearedGate
<1>3. CASE EscalateBlocked
  BY <1>3, RecordAppends DEF EscalateBlocked
<1>4. CASE StopRun
  BY <1>4, RecordAppends DEF StopRun
<1>5. CASE IssueContract
  BY <1>5, RecordAppends DEF IssueContract, Working, HasActive
<1>6. CASE DevelopPatch
  <2>1. Record("develop_patch", active_story_id) /\ active_story_id \in Story
        /\ status[active_story_id] \notin Settled
    BY <1>6 DEF DevelopPatch, Working, HasActive
  <2> QED
    BY <1>6, <2>1, RecordAppends
<1>7. CASE RunValidation
  BY <1>7, RecordAppends DEF RunValidation, Working, HasActive
<1>8. CASE WriteCheckpoint
  BY <1>8, RecordAppends DEF WriteCheckpoint, Working, HasActive
<1>9. CASE MarkStoryDone
  BY <1>9, RecordAppends DEF MarkStoryDone, HasActive
<1>10. CASE RouteDebugger
  BY <1>10, RecordAppends DEF RouteDebugger, Working, HasActive
<1>11. CASE RetryDevelop
  BY <1>11, RecordAppends DEF RetryDevelop, Working, HasActive
<1>12. CASE EscalateExhausted
  BY <1>12, RecordAppends DEF EscalateExhausted, HasActive
<1>13. CASE ClearGate \/ UNCHANGED vars
  BY <1>13 DEF ClearGate, vars
<1> QED
  BY <1>1, <1>2, <1>3, <1>4, <1>5, <1>6, <1>7, <1>8, <1>9, <1>10, <1>11, <1>12, <1>13
     DEF Next, Tick, Halted

LEMMA PatchesFinite ==
  ASSUME TypeOK, NEW s \in Story
  PROVE  IsFiniteSet(PatchesLogged(s))
<1>1. IsFiniteSet(1..Len(decision_log))
  BY FS_Interval DEF TypeOK
<1>2. PatchesLogged(s) \subseteq 1..Len(decision_log)
  BY DEF PatchesLogged, TypeOK
<1> QED
  BY <1>1, <1>2, FS_Subset

\* Appending a decision adds it to the patches logged for s, or to no story's.
LEMMA PatchesAppend ==
  ASSUME TypeOK, NEW s \in Story, NEW d \in Decision,
         decision_log' = Append(decision_log, d)
  PROVE  PatchesLogged(s)' =
           IF d = Entry("develop_patch", s)
             THEN PatchesLogged(s) \cup {Len(decision_log) + 1}
             ELSE PatchesLogged(s)
BY DEF PatchesLogged, TypeOK, Entry

\* The attempts counter agrees with the audit trail, for every story.
THEOREM AttemptsAreLogged == Spec => []AttemptsMatchLog
<1>1. Init => AttemptsMatchLog
  <2> SUFFICES ASSUME Init, NEW s \in Story PROVE attempts[s] = Cardinality(PatchesLogged(s))
    BY DEF AttemptsMatchLog
  <2>1. PatchesLogged(s) = {}
    BY DEF Init, PatchesLogged
  <2> QED
    BY <2>1, FS_EmptySet DEF Init
<1>2. IInv /\ AttemptsMatchLog /\ [Next]_vars => AttemptsMatchLog'
  <2> SUFFICES ASSUME IInv, AttemptsMatchLog, [Next]_vars, NEW s \in Story
               PROVE  attempts'[s] = Cardinality(PatchesLogged(s)')
    BY DEF AttemptsMatchLog
  <2>0. TypeOK
    BY DEF IInv
  <2>1. CASE DevelopPatch
    <3>1. active_story_id \in Story /\ Entry("develop_patch", active_story_id) \in Decision
      BY <2>1 DEF DevelopPatch, Working, HasActive, Entry, Decision, Action
    <3>2. decision_log' = Append(decision_log, Entry("develop_patch", active_story_id))
      BY <2>1 DEF DevelopPatch, Working, Record, Entry
    <3>3. CASE s = active_story_id
      <4>1. PatchesLogged(s)' = PatchesLogged(s) \cup {Len(decision_log) + 1}
        BY <2>0, <3>1, <3>2, <3>3, PatchesAppend
      <4>2. Len(decision_log) + 1 \notin PatchesLogged(s)
        BY <2>0 DEF PatchesLogged, TypeOK
      <4>3. Cardinality(PatchesLogged(s)') = Cardinality(PatchesLogged(s)) + 1
        BY <2>0, <4>1, <4>2, PatchesFinite, FS_AddElement
      <4> QED
        BY <2>0, <2>1, <3>3, <4>3 DEF DevelopPatch, AttemptsMatchLog, TypeOK
    <3>4. CASE s # active_story_id
      <4>1. PatchesLogged(s)' = PatchesLogged(s)
        BY <2>0, <3>1, <3>2, <3>4, PatchesAppend DEF Entry
      <4> QED
        BY <2>0, <2>1, <3>4, <4>1 DEF DevelopPatch, AttemptsMatchLog, TypeOK
    <3> QED
      BY <3>3, <3>4
  <2>2. CASE ~DevelopPatch
    <3>1. attempts' = attempts
      BY <2>2 DEF Next, Tick, Halted, vars, SelectNextStory, SelectFails, SelectAtClearedGate,
         IssueContract, RunValidation, WriteCheckpoint, MarkStoryDone, RouteDebugger,
         RetryDevelop, EscalateExhausted, EscalateBlocked, StopRun, ClearGate
    <3>2. CASE decision_log' = decision_log
      BY <3>1, <3>2 DEF AttemptsMatchLog, PatchesLogged
    <3>3. CASE decision_log' # decision_log
      <4>1. PICK d \in Decision : decision_log' = Append(decision_log, d)
                                  /\ d.action # "develop_patch"
        BY <2>2, <3>3, LogGrows DEF Appends, TellsTick
      <4>2. PatchesLogged(s)' = PatchesLogged(s)
        BY <2>0, <4>1, PatchesAppend DEF Entry
      <4> QED
        BY <3>1, <4>2 DEF AttemptsMatchLog
    <3> QED
      BY <3>2, <3>3
  <2> QED
    BY <2>1, <2>2
<1> QED
  BY Invariant, <1>1, <1>2, PTL DEF Spec

\* A story reaches the human only with its attempt budget spent, for ever.
THEOREM EscalationsAreEarned == Spec => []EscalationEarned
<1>1. Init => EscalationEarned
  BY DEF Init, EscalationEarned
<1>2. IInv /\ EscalationEarned /\ [Next]_vars => EscalationEarned'
  <2> SUFFICES ASSUME IInv, EscalationEarned, [Next]_vars,
                      NEW s \in Story, NEW k \in DOMAIN decision_log',
                      Decided(k, "escalate_human", s)'
               PROVE  status'[s] = "escalated" /\ attempts'[s] = AttemptBudget[s]
    BY DEF EscalationEarned
  <2> USE StoryAssumption, BudgetAssumption DEF IInv, TypeOK
  <2>1. CASE Decided(k, "escalate_human", s)
    <3>1. status[s] = "escalated" /\ attempts[s] = AttemptBudget[s]
      BY <2>1 DEF EscalationEarned, Decided
    <3>2. status'[s] = "escalated"
      BY <3>1, SettledStep
    <3>3. attempts'[s] = attempts[s]
      BY <3>1, AttemptsStep
    <3> QED
      BY <3>1, <3>2, <3>3
  <2>2. CASE ~Decided(k, "escalate_human", s)
    <3>1. PICK d \in Decision : decision_log' = Append(decision_log, d) /\ TellsTick(d.action, d.story)
      BY <2>2, LogGrows DEF Appends, Decided
    <3>2. d = Entry("escalate_human", s)
      BY <2>2, <3>1 DEF Decided, Entry
    <3>3. EscalateExhausted /\ s = active_story_id
      BY <3>1, <3>2 DEF TellsTick, Entry
    <3> QED
      BY <3>3 DEF EscalateExhausted, AttemptsLeft, AttemptsInBudget, SetStatus
  <2> QED
    BY <2>1, <2>2
<1> QED
  BY Invariant, <1>1, <1>2, PTL DEF Spec

(***************************************************************************)
(* An escalation is the last decision of the log while the run waits at    *)
(* the gate, and is followed by stops alone once it has stopped; in every  *)
(* other phase of a run whose gate nobody cleared there is none.           *)
(***************************************************************************)
OnlyStopsAfter(k) ==
  \/ state = "gate" /\ k = Len(decision_log)
  \/ state = "stopped" /\ \A j \in DOMAIN decision_log : j > k => decision_log[j].action = "stop_run"

EscalationsLast ==
  ~human_gate_cleared =>
    \A k \in DOMAIN decision_log : decision_log[k].action = "escalate_human" => OnlyStopsAfter(k)

\* A gate no human cleared is never crossed: after an escalation the run
\* decides nothing but to stop.
THEOREM GateIsNeverCrossed == Spec => []GateHolds
<1>1. Init => EscalationsLast
  BY DEF Init, EscalationsLast
<1>2. IInv /\ EscalationsLast /\ [Next]_vars => EscalationsLast'
  <2> SUFFICES ASSUME IInv, EscalationsLast, [Next]_vars, ~human_gate_cleared',
                      NEW k \in DOMAIN decision_log',
                      decision_log'[k].action = "escalate_human"
               PROVE  OnlyStopsAfter(k)'
    BY DEF EscalationsLast
  <2> USE DEF IInv, TypeOK, EscalationsLast, OnlyStopsAfter, Record, Working
  <2>1. CASE EscalateExhausted \/ EscalateBlocked
    <3>1. state \notin {"gate", "stopped"} /\ state' = "gate" /\ ~human_gate_cleared
      BY <2>1 DEF EscalateExhausted, EscalateBlocked, InSelect
    <3>2. PICK t \in Story \cup {NoStory} :
            decision_log' = Append(decision_log, Entry("escalate_human", t))
      BY <2>1 DEF EscalateExhausted, EscalateBlocked, HasActive, Entry
    <3>3. \A i \in DOMAIN decision_log : decision_log[i].action # "escalate_human"
      BY <3>1
    <3>4. k = Len(decision_log')
      BY <3>2, <3>3
    <3> QED
      BY <3>1, <3>4
  <2>2. CASE StopRun
    <3>1. state' = "stopped" /\ ~human_gate_cleared /\ state # "stopped"
          /\ decision_log' = Append(decision_log, Entry("stop_run", NoStory))
      BY <2>2 DEF StopRun, Entry
    <3>2. k \in DOMAIN decision_log /\ decision_log[k].action = "escalate_human"
      BY <3>1 DEF Entry
    <3>3. k = Len(decision_log)
      BY <3>1, <3>2
    <3> QED
      BY <3>1, <3>3 DEF Entry
  <2>3. CASE SelectNextStory \/ SelectFails \/ IssueContract \/ DevelopPatch \/ RunValidation
             \/ WriteCheckpoint \/ MarkStoryDone \/ RouteDebugger \/ RetryDevelop
    <3>1. state \notin {"gate", "stopped"} /\ ~human_gate_cleared
      BY <2>3 DEF SelectNextStory, SelectFails, IssueContract, DevelopPatch, RunValidation,
         WriteCheckpoint, MarkStoryDone, RouteDebugger, RetryDevelop, InSelect
    <3>2. PICK action \in Action, t \in Story \cup {NoStory} :
            decision_log' = Append(decision_log, Entry(action, t)) /\ action # "escalate_human"
      <4>1. CASE SelectNextStory \/ SelectFails
        BY <4>1 DEF SelectNextStory, SelectFails, Entry, Action
      <4>2. CASE IssueContract \/ DevelopPatch \/ RunValidation
        BY <4>2 DEF IssueContract, DevelopPatch, RunValidation, Entry, Action
      <4>3. CASE WriteCheckpoint \/ MarkStoryDone \/ RouteDebugger \/ RetryDevelop
        BY <4>3 DEF WriteCheckpoint, MarkStoryDone, RouteDebugger, RetryDevelop, Entry, Action
      <4> QED
        BY <2>3, <4>1, <4>2, <4>3
    <3>3. \A i \in DOMAIN decision_log : decision_log[i].action # "escalate_human"
      BY <3>1
    <3>4. \A i \in DOMAIN decision_log' : decision_log'[i].action # "escalate_human"
      BY <3>2, <3>3 DEF Entry
    <3> QED
      BY <3>4
  <2>4. CASE SelectAtClearedGate \/ ClearGate
    BY <2>4 DEF SelectAtClearedGate, ClearGate
  <2>5. CASE UNCHANGED vars
    BY <2>5 DEF vars
  <2> QED
    BY <2>1, <2>2, <2>3, <2>4, <2>5 DEF Next, Tick, Halted
<1>3. IInv /\ EscalationsLast => GateHolds
  BY DEF IInv, TypeOK, EscalationsLast, OnlyStopsAfter, GateHolds
<1> QED
  BY Invariant, <1>1, <1>2, <1>3, PTL DEF Spec

\* The log holds one decision per iteration, and an iteration beyond the
\* budget is the last.
DecisionsCounted ==
  /\ Len(decision_log) = iterations_used
  /\ iterations_used <= RunBudget + 1
  /\ iterations_used > RunBudget => state = "stopped"

\* A run decides no more often than its budget allows, and once more to stop.
THEOREM DecisionsAreBounded == Spec => []DecisionsInBudget
<1>1. Init => DecisionsCounted
  BY BudgetAssumption DEF Init, DecisionsCounted
<1>2. IInv /\ DecisionsCounted /\ [Next]_vars => DecisionsCounted'
  <2> SUFFICES ASSUME IInv, DecisionsCounted, [Next]_vars PROVE DecisionsCounted'
    OBVIOUS
  <2> USE BudgetAssumption DEF IInv, TypeOK, DecisionsCounted, Record, WithinBudget
  <2>1. CASE UNCHANGED <<iterations_used, decision_log, state>>
    BY <2>1
  <2>2. CASE StopRun
    <3>1. Len(decision_log') = Len(decision_log) + 1
      BY <2>2 DEF StopRun
    <3> QED
      BY <2>2, <3>1 DEF StopRun
  <2>3. CASE /\ WithinBudget
             /\ \E action, t : Record(action, t)
    <3>1. Len(decision_log') = Len(decision_log) + 1
      BY <2>3
    <3> QED
      BY <2>3, <3>1
  <2>4. CASE SelectNextStory \/ SelectFails \/ SelectAtClearedGate \/ MarkStoryDone
             \/ EscalateExhausted \/ EscalateBlocked
    <3>1. WithinBudget /\ \E action, t : Record(action, t)
      BY <2>4 DEF SelectNextStory, SelectFails, SelectAtClearedGate, MarkStoryDone,
         EscalateExhausted, EscalateBlocked
    <3> QED
      BY <2>3, <3>1
  <2>5. CASE IssueContract \/ DevelopPatch \/ RunValidation \/ WriteCheckpoint
             \/ RouteDebugger \/ RetryDevelop
    <3>1. WithinBudget /\ \E action, t : Record(action, t)
      BY <2>5 DEF IssueContract, DevelopPatch, RunValidation, WriteCheckpoint,
         RouteDebugger, RetryDevelop, Working
    <3> QED
      BY <2>3, <3>1
  <2> QED
    BY <2>1, <2>2, <2>4, <2>5 DEF Next, Tick, Halted, ClearGate, vars
<1>3. DecisionsCounted => DecisionsInBudget
  BY DEF DecisionsCounted, DecisionsInBudget
<1> QED
  BY Invariant, <1>1, <1>2, <1>3, PTL DEF Spec

\* A run that reports all stories complete leaves none waiting but for
\* another that waits.
THEOREM CompleteIsHonest == Spec => []CompleteLeavesOnlyCycles
<1> DEFINE Over == stop_reason = "all_stories_complete" => state = "stopped"
<1>1. Init => Over /\ CompleteLeavesOnlyCycles
  BY DEF Init, CompleteLeavesOnlyCycles
<1>2. IInv /\ Over /\ CompleteLeavesOnlyCycles /\ [Next]_vars
        => (Over /\ CompleteLeavesOnlyCycles)'
  <2> SUFFICES ASSUME IInv, Over, CompleteLeavesOnlyCycles, [Next]_vars
               PROVE  (Over /\ CompleteLeavesOnlyCycles)'
    OBVIOUS
  <2>1. CASE StopRun
    <3> SUFFICES ASSUME stop_reason' = "all_stories_complete", NEW s \in Story, Pending(s)'
                 PROVE  \E d \in DependsOn[s] : Pending(d)'
      BY <2>1 DEF StopRun, CompleteLeavesOnlyCycles
    <3>1. InSelect /\ Selectable = {} /\ ~HasBlockedDependency /\ status' = status
      BY <2>1 DEF StopRun, StopsFor
    <3>2. Pending(s)
      BY <3>1 DEF Pending
    <3>3. PICK d \in DependsOn[s] : status[d] # "done"
      BY <3>1, <3>2 DEF Selectable
    <3>4. d \in Story /\ status[d] \in Status
      BY <3>3, DependsAssumption DEF IInv, TypeOK
    <3>5. status[d] \notin {"blocked", "escalated"}
      BY <3>1, <3>2, <3>3 DEF HasBlockedDependency
    <3>6. status[d] \notin InFlight
      BY <3>1, <3>4, StoryAssumption DEF IInv, OneStoryInFlight, PhaseMatchesStory, InSelect
    <3>7. Pending(d)
      BY <3>3, <3>4, <3>5, <3>6 DEF Pending, Status, FreshStatus, InFlight
    <3> QED
      BY <3>1, <3>7 DEF Pending
  <2>2. CASE ~StopRun /\ stop_reason = "all_stories_complete"
    <3>1. UNCHANGED vars
      BY <2>2 DEF Next, Tick, Halted, vars, SelectNextStory, SelectFails, SelectAtClearedGate,
         IssueContract, DevelopPatch, RunValidation, WriteCheckpoint, MarkStoryDone,
         RouteDebugger, RetryDevelop, EscalateExhausted, EscalateBlocked, ClearGate,
         Working, InSelect
    <3> QED
      BY <3>1 DEF vars, CompleteLeavesOnlyCycles, Pending
  <2>3. CASE ~StopRun /\ stop_reason # "all_stories_complete"
    <3>1. stop_reason' # "all_stories_complete"
      BY <2>3 DEF Next, Tick, Halted, vars, SelectNextStory, SelectFails, SelectAtClearedGate,
         IssueContract, DevelopPatch, RunValidation, WriteCheckpoint, MarkStoryDone,
         RouteDebugger, RetryDevelop, EscalateExhausted, EscalateBlocked, ClearGate, Working
    <3> QED
      BY <3>1 DEF CompleteLeavesOnlyCycles
  <2> QED
    BY <2>1, <2>2, <2>3 DEF StopRun
<1> QED
  BY Invariant, <1>1, <1>2, PTL DEF Spec

\* The last entries of the log while a validated story waits to be finished.
LogTail ==
  LET n == Len(decision_log) IN
  /\ state = "validate" /\ last_validation_passed = "pass" =>
       Decided(n, "run_validation", active_story_id)
  /\ state = "checkpoint" =>
       Decided(n, "write_checkpoint", active_story_id)
       /\ Decided(n - 1, "run_validation", active_story_id)

LEMMA LogTailKept == Spec => []LogTail
<1>1. Init => LogTail
  BY DEF Init, LogTail
<1>2. IInv /\ LogTail /\ [Next]_vars => LogTail'
  <2> SUFFICES ASSUME IInv, LogTail, [Next]_vars PROVE LogTail'
    OBVIOUS
  <2> USE StoryAssumption DEF IInv, TypeOK, LogTail, Decided, Record, Working, Decision
  <2>1. CASE RunValidation
    BY <2>1 DEF RunValidation, Action
  <2>2. CASE WriteCheckpoint
    BY <2>2 DEF WriteCheckpoint, Action
  <2>3. CASE SelectNextStory \/ SelectFails \/ SelectAtClearedGate \/ IssueContract
             \/ DevelopPatch \/ MarkStoryDone \/ RouteDebugger \/ RetryDevelop
             \/ EscalateExhausted \/ EscalateBlocked \/ StopRun \/ ClearGate
    BY <2>3 DEF SelectNextStory, SelectFails, SelectAtClearedGate, IssueContract,
       DevelopPatch, MarkStoryDone, RouteDebugger, RetryDevelop, EscalateExhausted,
       EscalateBlocked, StopRun, ClearGate
  <2>4. CASE UNCHANGED vars
    BY <2>4 DEF vars
  <2> QED
    BY <2>1, <2>2, <2>3, <2>4 DEF Next, Tick, Halted
<1> QED
  BY Invariant, <1>1, <1>2, PTL DEF Spec

\* "done" is reached only through run_validation, write_checkpoint and
\* mark_story_done on consecutive ticks, and nothing is decided for it later.
THEOREM DoneIsEarned == Spec => []DoneThroughChain
<1>1. Init => DoneThroughChain
  BY DEF Init, DoneThroughChain
<1>2. IInv /\ LogTail /\ DoneThroughChain /\ [Next]_vars => DoneThroughChain'
  <2> SUFFICES ASSUME IInv, LogTail, DoneThroughChain, [Next]_vars, NEW s \in Story,
                      attempts'[s] > 0, status'[s] = "done"
               PROVE  \E k \in DOMAIN decision_log' :
                        /\ Decided(k, "mark_story_done", s)'
                        /\ Decided(k - 1, "write_checkpoint", s)'
                        /\ Decided(k - 2, "run_validation", s)'
                        /\ \A j \in DOMAIN decision_log' : decision_log'[j].story = s => j <= k
    BY DEF DoneThroughChain
  <2> USE StoryAssumption DEF IInv, TypeOK
  <2>1. CASE status[s] = "done"
    <3>1. attempts[s] > 0
      BY <2>1, AttemptsStep
    <3>2. PICK k \in DOMAIN decision_log :
            /\ Decided(k, "mark_story_done", s)
            /\ Decided(k - 1, "write_checkpoint", s)
            /\ Decided(k - 2, "run_validation", s)
            /\ \A j \in DOMAIN decision_log : decision_log[j].story = s => j <= k
      BY <2>1, <3>1 DEF DoneThroughChain
    <3>3. CASE decision_log' = decision_log
      BY <3>2, <3>3 DEF Decided
    <3>4. CASE Appends
      <4>1. PICK d \in Decision : decision_log' = Append(decision_log, d) /\ d.story # s
        BY <2>1, <3>4 DEF Appends, TellsTick, Settled
      <4>2. k \in DOMAIN decision_log'
        BY <4>1
      <4>3. /\ Decided(k, "mark_story_done", s)'
            /\ Decided(k - 1, "write_checkpoint", s)'
            /\ Decided(k - 2, "run_validation", s)'
        BY <3>2, <4>1 DEF Decided
      <4>4. \A j \in DOMAIN decision_log' : decision_log'[j].story = s => j <= k
        BY <3>2, <4>1
      <4> QED
        BY <4>2, <4>3, <4>4
    <3> QED
      BY <3>3, <3>4, LogGrows
  <2>2. CASE status[s] # "done"
    <3>1. MarkStoryDone /\ s = active_story_id
      BY <2>2, DoneStep
    <3>2. decision_log' = Append(decision_log, Entry("mark_story_done", s))
      BY <3>1 DEF MarkStoryDone, Record, Entry
    <3>3. Decided(Len(decision_log), "write_checkpoint", s)
          /\ Decided(Len(decision_log) - 1, "run_validation", s)
      BY <3>1 DEF MarkStoryDone, LogTail
    <3>0. PICK k \in Nat : k = Len(decision_log) + 1
      OBVIOUS
    <3>4. k \in DOMAIN decision_log'
      BY <3>0, <3>2 DEF Entry, Decision, Action
    <3>5. Decided(k, "mark_story_done", s)'
      BY <3>0, <3>2, <3>4 DEF Decided, Entry
    <3>6. Decided(k - 1, "write_checkpoint", s)' /\ Decided(k - 2, "run_validation", s)'
      BY <3>0, <3>2, <3>3, <3>4 DEF Decided, Entry
    <3>7. \A j \in DOMAIN decision_log' : j <= k
      BY <3>0, <3>2
    <3> QED
      BY <3>4, <3>5, <3>6, <3>7
  <2> QED
    BY <2>1, <2>2
<1> QED
  BY Invariant, LogTailKept, <1>1, <1>2, PTL DEF Spec

-----------------------------------------------------------------------------
(***************************************************************************)
(* The orchestrator implements StoryLifecycle.  A tick that changes the    *)
(* status of a story is a step of that story's lifecycle; every other one  *)
(* stutters.                                                               *)
(***************************************************************************)
AbsPhase == [s \in Story |-> PhaseOf(status[s])]

LEMMA MovesPhase ==
  ASSUME TypeOK, NEW s \in Story, NEW new \in Status, SetStatus(s, new)
  PROVE  AbsPhase' = [AbsPhase EXCEPT ![s] = PhaseOf(new)]
BY DEF AbsPhase, TypeOK, SetStatus

LEMMA KeepsPhase ==
  ASSUME TypeOK, NEW s \in Story, NEW new \in Status, SetStatus(s, new),
         PhaseOf(new) = PhaseOf(status[s])
  PROVE  AbsPhase' = AbsPhase
BY DEF AbsPhase, TypeOK, SetStatus

LEMMA InitRefines == Init => Lifecycle!Init
BY BacklogAssumption DEF Init, Lifecycle!Init, PhaseOf, FreshStatus

LEMMA StepRefines == IInv /\ [Next]_vars => [Lifecycle!Next]_Lifecycle!lifecycleVars
<1> SUFFICES ASSUME IInv, [Next]_vars
             PROVE  [Lifecycle!Next]_Lifecycle!lifecycleVars
  OBVIOUS
<1> USE StoryAssumption, DependsAssumption, BudgetAssumption DEF IInv
<1> DEFINE Same == AbsPhase' = AbsPhase /\ attempts' = attempts
<1>0. Same => UNCHANGED Lifecycle!lifecycleVars
  BY DEF AbsPhase, Lifecycle!lifecycleVars
<1>1. CASE SelectNextStory
  <2>1. PICK s \in Story : IsNextStory(s) /\ SetStatus(s, "in_progress")
    BY <1>1 DEF SelectNextStory
  <2>2. AbsPhase' = [AbsPhase EXCEPT ![s] = "working"]
    BY <2>1, MovesPhase DEF Status, PhaseOf
  <2>3. AbsPhase[s] = "waiting" /\ \A d \in DependsOn[s] : AbsPhase[d] = "done"
    BY <2>1 DEF IsNextStory, Selectable, Pending, AbsPhase, PhaseOf
  <2>4. \A t \in Story : AbsPhase[t] \notin {"working", "validated", "saved"}
    BY <1>1 DEF SelectNextStory, InSelect, PhaseMatchesStory, OneStoryInFlight, InFlight,
       AbsPhase, PhaseOf, TypeOK, Status, FreshStatus
  <2>5. Lifecycle!Start(s)
    BY <1>1, <2>2, <2>3, <2>4 DEF Lifecycle!Start, Lifecycle!Move, Lifecycle!Busy,
       AbsPhase, SelectNextStory
  <2> QED
    BY <2>5 DEF Lifecycle!Next
<1>2. CASE IssueContract
  <2>1. SetStatus(active_story_id, "in_progress") /\ active_story_id \in Story
    BY <1>2 DEF IssueContract, Working, HasActive
  <2>2. PhaseOf("in_progress") = PhaseOf(status[active_story_id])
    BY <1>2 DEF IssueContract, Working, PhaseMatchesStory
  <2>3. Same
    BY <1>2, <2>1, <2>2, KeepsPhase DEF IssueContract, Status
  <2> QED
    BY <2>3, <1>0
<1>3. CASE DevelopPatch
  <2>1. active_story_id \in Story /\ AbsPhase[active_story_id] = "working"
    BY <1>3 DEF DevelopPatch, Working, HasActive, PhaseMatchesStory, AbsPhase, PhaseOf
  <2>2. AbsPhase' = AbsPhase
    BY <1>3 DEF DevelopPatch, AbsPhase
  <2>3. Lifecycle!Try(active_story_id)
    BY <1>3, <2>1, <2>2 DEF DevelopPatch, Lifecycle!Try, AttemptsLeft, AbsPhase
  <2> QED
    BY <2>1, <2>3 DEF Lifecycle!Next
<1>4. CASE RunValidation
  <2>1. active_story_id \in Story /\ AbsPhase[active_story_id] = "working"
    BY <1>4 DEF RunValidation, Working, HasActive, PhaseMatchesStory, AbsPhase, PhaseOf
  <2>2. CASE SetStatus(active_story_id, "passed")
    <3>1. AbsPhase' = [AbsPhase EXCEPT ![active_story_id] = "validated"]
      BY <2>1, <2>2, MovesPhase DEF Status, PhaseOf
    <3>2. attempts[active_story_id] > 0
      BY <1>4 DEF RunValidation, Working, AttemptsInBudget
    <3>3. Lifecycle!Validate(active_story_id)
      BY <1>4, <2>1, <3>1, <3>2 DEF RunValidation, Lifecycle!Validate, Lifecycle!Move, AbsPhase
    <3> QED
      BY <2>1, <3>3 DEF Lifecycle!Next
  <2>3. CASE SetStatus(active_story_id, "in_progress")
    <3>1. PhaseOf("in_progress") = PhaseOf(status[active_story_id])
      BY <2>1 DEF AbsPhase, PhaseOf
    <3>2. Same
      BY <1>4, <2>1, <2>3, <3>1, KeepsPhase DEF RunValidation, Status
    <3> QED
      BY <3>2, <1>0
  <2> QED
    BY <1>4, <2>2, <2>3 DEF RunValidation
<1>5. CASE WriteCheckpoint
  <2>1. active_story_id \in Story /\ AbsPhase[active_story_id] = "validated"
    BY <1>5 DEF WriteCheckpoint, Working, HasActive, PhaseMatchesStory, AbsPhase, PhaseOf
  <2>2. AbsPhase' = [AbsPhase EXCEPT ![active_story_id] = "saved"]
    BY <1>5, <2>1, MovesPhase DEF WriteCheckpoint, Status, PhaseOf
  <2>3. Lifecycle!Save(active_story_id)
    BY <1>5, <2>1, <2>2 DEF WriteCheckpoint, Lifecycle!Save, Lifecycle!Move, AbsPhase
  <2> QED
    BY <2>1, <2>3 DEF Lifecycle!Next
<1>6. CASE MarkStoryDone
  <2>1. active_story_id \in Story /\ AbsPhase[active_story_id] = "saved"
    BY <1>6 DEF MarkStoryDone, HasActive, PhaseMatchesStory, AbsPhase, PhaseOf
  <2>2. AbsPhase' = [AbsPhase EXCEPT ![active_story_id] = "done"]
    BY <1>6, <2>1, MovesPhase DEF MarkStoryDone, Status, FreshStatus, PhaseOf
  <2>3. Lifecycle!Finish(active_story_id)
    BY <1>6, <2>1, <2>2 DEF MarkStoryDone, Lifecycle!Finish, Lifecycle!Move, AbsPhase
  <2> QED
    BY <2>1, <2>3 DEF Lifecycle!Next
<1>7. CASE RouteDebugger
  <2>1. active_story_id \in Story /\ PhaseOf("debugging") = PhaseOf(status[active_story_id])
    BY <1>7 DEF RouteDebugger, Working, HasActive, PhaseMatchesStory, PhaseOf
  <2>2. Same
    BY <1>7, <2>1, KeepsPhase DEF RouteDebugger, Status
  <2> QED
    BY <2>2, <1>0
<1>8. CASE EscalateExhausted
  <2>1. active_story_id \in Story /\ AbsPhase[active_story_id] = "working"
    BY <1>8 DEF EscalateExhausted, HasActive, PhaseMatchesStory, AbsPhase, PhaseOf
  <2>2. AbsPhase' = [AbsPhase EXCEPT ![active_story_id] = "parked"]
    BY <1>8, <2>1, MovesPhase DEF EscalateExhausted, Status, FreshStatus, PhaseOf
  <2>3. attempts[active_story_id] = AttemptBudget[active_story_id]
    BY <1>8, <2>1 DEF EscalateExhausted, AttemptsLeft, AttemptsInBudget, TypeOK
  <2>4. Lifecycle!GiveUp(active_story_id)
    BY <1>8, <2>1, <2>2, <2>3 DEF EscalateExhausted, Lifecycle!GiveUp, Lifecycle!Move, AbsPhase
  <2> QED
    BY <2>1, <2>4 DEF Lifecycle!Next
<1>9. CASE UNCHANGED <<status, attempts>>
  BY <1>9, <1>0 DEF AbsPhase
<1> QED
  BY <1>1, <1>2, <1>3, <1>4, <1>5, <1>6, <1>7, <1>8, <1>9 DEF Next, Tick, Halted, vars,
     SelectFails, SelectAtClearedGate, RetryDevelop, EscalateBlocked, StopRun, ClearGate

\* Every run of the orchestrator, on every backlog, follows the lifecycle of
\* StoryLifecycle: one story at a time, dependencies first, done only through
\* validation and checkpoint, given up only at the attempt budget.
THEOREM OrchestratorImplementsLifecycle == Spec => ImplementsLifecycle
<1>1. Spec => Lifecycle!Spec
  BY Invariant, InitRefines, StepRefines, PTL DEF Spec, Lifecycle!Spec
<1> QED
  BY <1>1 DEF ImplementsLifecycle
=============================================================================
