---------------------------- MODULE ContextProofs ----------------------------
(***************************************************************************)
(* Proofs about PlanningFlow, for every number of stages, every choice of  *)
(* doc-skills, and any number of concurrent requests; and about            *)
(* AgentContext: for any window, catalog and code, what is pinned, shipped *)
(* or depended on is not lost on the way to an agent.                      *)
(***************************************************************************)
EXTENDS PlanningFlow, AgentContext, FiniteSetTheorems, TLAPS

\* A request that has captured a stage captured an active one, which is done
\* once the request's own document moved the flow.
Captured ==
  \A r \in Request :
    /\ pc[r] \in {"authoring", "record"} => stage[r] \in Stage
    /\ ~wasReset /\ pc[r] = "authoring" => statuses[stage[r]] # "todo"
    /\ ~wasReset /\ pc[r] = "record" => statuses[stage[r]] = "done"
    /\ pc[r] = "authoring" => attempt[r] >= 1
    /\ pc[r] = "idle" => priorDocs[r] = {}

IInv ==
  TypeOK /\ StagesInOrder /\ DoneMeansPassed /\ DocsOfDoneStages /\ PriorDocsAreEarlier /\ Captured

-----------------------------------------------------------------------------
(* The engine *)

LEMMA OneActive ==
  ASSUME IInv, NEW i \in Stage, statuses[i] = "active"
  PROVE  /\ \A j \in Stage : j < i => statuses[j] = "done"
         /\ \A j \in Stage : j > i => statuses[j] = "todo"
<1> USE DEF IInv, StagesInOrder, TypeOK, Stage
<1>1. \A j \in Stage : j < i => statuses[j] = "done"
  OBVIOUS
<1>2. \A j \in Stage : j > i => statuses[j] = "todo"
  OBVIOUS
<1> QED
  BY <1>1, <1>2

\* Completing the active stage keeps the order, and takes no stage back.
LEMMA AdvanceKeepsOrder ==
  ASSUME IInv, NEW i \in Stage, IsActive(i), AdvanceFlow(i)
  PROVE  /\ statuses' \in [Stage -> StageStatus]
         /\ StagesInOrder'
         /\ \A j \in Stage : statuses[j] = "done" => statuses'[j] = "done"
         /\ \A j \in Stage : statuses[j] # "todo" => statuses'[j] # "todo"
         /\ \A j \in Stage : statuses[j] # "done" /\ statuses'[j] = "done" => j = i
         /\ statuses'[i] = "done"
<1>1. statuses[i] = "active" /\ statuses \in [Stage -> StageStatus]
  BY DEF IsActive, IInv, TypeOK
<1>2. \A j \in Stage : statuses'[j] = IF j = i THEN "done"
                                      ELSE IF j = i + 1 THEN "active" ELSE statuses[j]
  BY DEF AdvanceFlow
<1>3. statuses' \in [Stage -> StageStatus]
  BY <1>1 DEF AdvanceFlow, StageStatus
<1>4. /\ \A j \in Stage : j < i => statuses[j] = "done"
      /\ \A j \in Stage : j > i => statuses[j] = "todo"
  BY <1>1, OneActive
<1>5. i \in Nat /\ i >= 1 /\ N \in Nat /\ (\A j \in Stage : j \in Nat /\ j >= 1 /\ j <= N)
  BY StageAssumption DEF Stage
<1>6. StagesInOrder'
  <2>1. \A j, k \in Stage : j < k /\ statuses'[k] # "todo" => statuses'[j] = "done"
    BY <1>1, <1>2, <1>4, <1>5
  <2>2. \A j \in Stage : statuses'[j] = "done" /\ j + 1 \in Stage => statuses'[j + 1] # "todo"
    BY <1>1, <1>2, <1>4, <1>5
  <2>3. statuses'[1] # "todo"
    BY <1>1, <1>2, <1>4, <1>5, StageAssumption DEF IInv, StagesInOrder, Stage
  <2> QED
    BY <2>1, <2>2, <2>3 DEF StagesInOrder
<1>7. \A j \in Stage : statuses[j] = "done" => statuses'[j] = "done"
  BY <1>1, <1>2, <1>4, <1>5
<1>8. \A j \in Stage : statuses[j] # "todo" => statuses'[j] # "todo"
  BY <1>1, <1>2, <1>4, <1>5
<1> QED
  BY <1>1, <1>2, <1>3, <1>6, <1>7, <1>8

\* What a submission may do to the flow.
Moved(advanced) ==
  /\ statuses' \in [Stage -> StageStatus]
  /\ checklists' \in [Stage -> ChecklistResult \cup {NoChecklist}]
  /\ StagesInOrder' /\ DoneMeansPassed'
  /\ \A j \in Stage : statuses[j] = "done" =>
       statuses'[j] = "done" /\ checklists'[j] = checklists[j]
  /\ \A j \in Stage : statuses[j] # "todo" => statuses'[j] # "todo"
  /\ \A j, k \in Stage :
       statuses[j] # "done" /\ statuses'[j] = "done" /\
       statuses[k] # "done" /\ statuses'[k] = "done" => j = k
  /\ advanced => \A j \in Stage : statuses[j] # "todo" => statuses'[j] = "done"

LEMMA AdvancedOrNot ==
  ASSUME IInv, NEW i \in Stage, IsActive(i), AdvanceFlow(i),
         checklists' \in [Stage -> ChecklistResult \cup {NoChecklist}],
         \A j \in Stage : j # i => checklists'[j] = checklists[j],
         checklists'[i].complete = HasSkill[i],
         ~HasSkill[i] => checklists'[i] = NoChecklist
  PROVE  Moved(TRUE)
<1>1. /\ statuses' \in [Stage -> StageStatus]
      /\ StagesInOrder'
      /\ \A j \in Stage : statuses[j] = "done" => statuses'[j] = "done"
      /\ \A j \in Stage : statuses[j] # "todo" => statuses'[j] # "todo"
      /\ \A j \in Stage : statuses[j] # "done" /\ statuses'[j] = "done" => j = i
      /\ statuses'[i] = "done"
  BY AdvanceKeepsOrder
<1>2. statuses[i] = "active" /\ (\A j \in Stage : j > i => statuses[j] = "todo")
      /\ (\A j \in Stage : j < i => statuses[j] = "done")
  BY OneActive DEF IsActive
<1>3. \A j \in Stage : statuses[j] # "todo" => statuses'[j] = "done"
  BY <1>1, <1>2 DEF Stage
<1>4. DoneMeansPassed'
  <2> SUFFICES ASSUME NEW j \in Stage
               PROVE  /\ statuses'[j] = "done" => checklists'[j].complete = HasSkill[j]
                      /\ statuses'[j] = "active" => ~checklists'[j].complete
                      /\ statuses'[j] = "todo" \/ ~HasSkill[j] => checklists'[j] = NoChecklist
    BY DEF DoneMeansPassed
  <2>1. CASE j = i
    BY <1>1, <2>1
  <2>2. CASE j # i
    <3>1. checklists'[j] = checklists[j] /\ statuses'[j] \in {"active", statuses[j]}
      BY <1>2, <2>2 DEF AdvanceFlow
    <3>2. statuses'[j] = "active" => statuses[j] = "todo"
      BY <1>2, <2>2, <3>1 DEF AdvanceFlow, Stage
    <3> QED
      BY <3>1, <3>2 DEF IInv, DoneMeansPassed, NoChecklist
  <2> QED
    BY <2>1, <2>2
<1>5. \A j \in Stage : statuses[j] = "done" => checklists'[j] = checklists[j]
  BY <1>2
<1> QED
  BY <1>1, <1>3, <1>4, <1>5 DEF Moved

\* service.advance keeps what the flow promises, whoever calls it.
LEMMA SubmitMoves ==
  ASSUME IInv, NEW doc \in Document, NEW complete \in BOOLEAN, NEW advanced \in BOOLEAN,
         Submit(doc, complete, advanced)
  PROVE  Moved(advanced)
<1> USE StageAssumption
<1>1. CASE IsComplete /\ advanced = FALSE /\ UNCHANGED flow
  BY <1>1 DEF Moved, flow, IInv, TypeOK, StagesInOrder, DoneMeansPassed
<1>2. ASSUME NEW i \in Stage, IsActive(i), SubmitAt(i, doc, complete, advanced)
      PROVE  Moved(advanced)
  <2>1. CASE ~HasSkill[i]
    <3>1. AdvanceFlow(i) /\ advanced = TRUE /\ checklists' = checklists
      BY <1>2, <2>1 DEF SubmitAt
    <3>2. checklists[i] = NoChecklist /\ NoChecklist.complete = FALSE
      BY <2>1 DEF IInv, DoneMeansPassed, NoChecklist
    <3> QED
      BY <1>2, <2>1, <3>1, <3>2, AdvancedOrNot DEF IInv, TypeOK
  <2>2. CASE HasSkill[i] /\ complete
    <3>1. AdvanceFlow(i) /\ advanced = TRUE
      BY <1>2, <2>2 DEF SubmitAt, AdvanceGated
    <3>2. checklists' = [checklists EXCEPT ![i] = [complete |-> TRUE, doc |-> doc]]
      BY <1>2, <2>2 DEF SubmitAt, AdvanceGated
    <3>3. checklists' \in [Stage -> ChecklistResult \cup {NoChecklist}]
      BY <3>2 DEF IInv, TypeOK, ChecklistResult
    <3>4. checklists'[i].complete = TRUE /\ \A j \in Stage : j # i => checklists'[j] = checklists[j]
      BY <3>2 DEF IInv, TypeOK
    <3> QED
      BY <1>2, <2>2, <3>1, <3>3, <3>4, AdvancedOrNot
  <2>3. CASE HasSkill[i] /\ ~complete
    <3>1. statuses' = statuses /\ advanced = FALSE
      BY <1>2, <2>3 DEF SubmitAt, AdvanceGated
    <3>2. checklists' = [checklists EXCEPT ![i] = [complete |-> FALSE, doc |-> doc]]
      BY <1>2, <2>3 DEF SubmitAt, AdvanceGated
    <3>3. checklists' \in [Stage -> ChecklistResult \cup {NoChecklist}]
      BY <3>2 DEF IInv, TypeOK, ChecklistResult
    <3>4. /\ checklists'[i] = [complete |-> FALSE, doc |-> doc]
          /\ \A j \in Stage : j # i => checklists'[j] = checklists[j]
          /\ statuses[i] = "active"
      BY <1>2, <3>2 DEF IInv, TypeOK, IsActive
    <3>5. DoneMeansPassed'
      BY <2>3, <3>1, <3>4 DEF DoneMeansPassed, IInv
    <3> QED
      BY <3>1, <3>3, <3>4, <3>5 DEF Moved, IInv, TypeOK, StagesInOrder
  <2> QED
    BY <2>1, <2>2, <2>3
<1> QED
  BY <1>1, <1>2 DEF Submit

-----------------------------------------------------------------------------
(* The service *)

LEMMA InitFlowHolds ==
  ASSUME InitFlowState(statuses, checklists)
  PROVE  /\ statuses \in [Stage -> StageStatus]
         /\ checklists \in [Stage -> ChecklistResult \cup {NoChecklist}]
         /\ StagesInOrder /\ DoneMeansPassed
BY StageAssumption
   DEF InitFlowState, StageStatus, StagesInOrder, DoneMeansPassed, Stage, NoChecklist

LEMMA InitInductive == Init => IInv
<1> SUFFICES ASSUME Init PROVE IInv
  OBVIOUS
<1>1. /\ statuses \in [Stage -> StageStatus]
      /\ checklists \in [Stage -> ChecklistResult \cup {NoChecklist}]
      /\ StagesInOrder /\ DoneMeansPassed
  BY InitFlowHolds DEF Init
<1>2. TypeOK
  <2>1. wasReset \in BOOLEAN /\ authoredDocs \subseteq Stage
    BY DEF Init
  <2>2. attempt \in [Request -> 0..MaxRewrites + 1]
    BY BoundAssumption DEF Init
  <2>3. /\ pc \in [Request -> {"idle", "authoring", "record", "answered"}]
        /\ stage \in [Request -> Stage \cup {0}]
        /\ priorDocs \in [Request -> SUBSET Stage]
        /\ answer \in [Request -> {"none", "ok", "gave_up", "complete", "rejected"}]
    BY DEF Init
  <2> QED
    BY <1>1, <2>1, <2>2, <2>3 DEF TypeOK
<1> QED
  BY <1>1, <1>2 DEF Init, IInv, DocsOfDoneStages, PriorDocsAreEarlier, Captured

\* A step that moves no stage back and leaves the requests alone.
LEMMA AdvanceStep ==
  ASSUME IInv, Advance
  PROVE  IInv'
<1>1. PICK complete \in BOOLEAN, advanced \in BOOLEAN : Submit(Operator, complete, advanced)
  BY DEF Advance
<1>2. Moved(advanced)
  BY <1>1, SubmitMoves DEF Document
<1>3. UNCHANGED <<authoredDocs, pc, stage, attempt, priorDocs, answer, wasReset>>
  BY DEF Advance
<1> QED
  BY <1>2, <1>3 DEF Moved, IInv, TypeOK, DocsOfDoneStages, PriorDocsAreEarlier, Captured

LEMMA ResetStep ==
  ASSUME IInv, Reset
  PROVE  IInv'
<1>1. /\ wasReset' = TRUE /\ authoredDocs' = {}
      /\ UNCHANGED <<pc, stage, attempt, priorDocs, answer>>
      /\ statuses' = [i \in Stage |-> IF i = 1 THEN "active" ELSE "todo"]
      /\ checklists' = [i \in Stage |-> NoChecklist]
  BY DEF Reset, InitFlowState
<1>2. /\ statuses' \in [Stage -> StageStatus]
      /\ checklists' \in [Stage -> ChecklistResult \cup {NoChecklist}]
      /\ StagesInOrder' /\ DoneMeansPassed'
  BY <1>1, StageAssumption DEF StageStatus, StagesInOrder, DoneMeansPassed, Stage, NoChecklist
<1> QED
  BY <1>1, <1>2 DEF IInv, TypeOK, DocsOfDoneStages, PriorDocsAreEarlier, Captured

LEMMA AnswerStep ==
  ASSUME IInv, NEW r \in Request, AuthorWhenComplete(r) \/ AuthorThrows(r)
  PROVE  IInv'
<1>1. /\ pc' = [pc EXCEPT ![r] = "answered"]
      /\ answer' \in [Request -> {"none", "ok", "gave_up", "complete", "rejected"}]
      /\ UNCHANGED <<flow, authoredDocs, stage, attempt, priorDocs, wasReset>>
  BY DEF AuthorWhenComplete, AuthorThrows, Answer, IInv, TypeOK
<1> QED
  BY <1>1 DEF IInv, TypeOK, StagesInOrder, DoneMeansPassed, DocsOfDoneStages, PriorDocsAreEarlier,
              Captured, flow

LEMMA AuthorBriefStep ==
  ASSUME IInv, NEW r \in Request, AuthorBrief(r)
  PROVE  IInv'
<1>1. PICK i \in Stage : /\ IsActive(i) /\ ~HasSkill[i]
                         /\ AdvanceFlow(i)
                         /\ authoredDocs' = authoredDocs \cup {i}
                         /\ stage' = [stage EXCEPT ![r] = i]
  BY DEF AuthorBrief
<1>2. /\ pc[r] = "idle"
      /\ pc' = [pc EXCEPT ![r] = "answered"] /\ answer' = [answer EXCEPT ![r] = "ok"]
      /\ UNCHANGED <<checklists, attempt, priorDocs, wasReset>>
  BY DEF AuthorBrief, Answer
<1>3. checklists[i] = NoChecklist /\ NoChecklist.complete = FALSE
  BY <1>1 DEF IInv, DoneMeansPassed, NoChecklist
<1>4. Moved(TRUE) /\ statuses'[i] = "done"
  <2>1. checklists' = checklists /\ HasSkill[i] = FALSE
    BY <1>1, <1>2, StageAssumption
  <2>2. Moved(TRUE)
    BY <1>1, <1>3, <2>1, AdvancedOrNot DEF IInv, TypeOK
  <2> QED
    BY <1>1, <2>2, AdvanceKeepsOrder
<1>5. TypeOK' /\ StagesInOrder' /\ DoneMeansPassed' /\ DocsOfDoneStages'
  BY <1>1, <1>2, <1>4 DEF Moved, IInv, TypeOK, DocsOfDoneStages
<1>6. PriorDocsAreEarlier'
  BY <1>1, <1>2 DEF IInv, PriorDocsAreEarlier, Captured, TypeOK
<1>7. Captured'
  BY <1>1, <1>2, <1>4 DEF IInv, Captured, TypeOK, Moved
<1> QED
  BY <1>5, <1>6, <1>7 DEF IInv

LEMMA AuthorSkillStep ==
  ASSUME IInv, NEW r \in Request, AuthorSkillStage(r)
  PROVE  IInv'
<1>1. PICK i \in Stage : /\ statuses[i] = "active"
                         /\ stage' = [stage EXCEPT ![r] = i]
                         /\ priorDocs' = [priorDocs EXCEPT ![r] = authoredDocs]
  BY DEF AuthorSkillStage, IsActive
<1>2. /\ attempt' = [attempt EXCEPT ![r] = 1]
      /\ pc' = [pc EXCEPT ![r] = "authoring"]
      /\ UNCHANGED <<flow, authoredDocs, answer, wasReset>>
  BY DEF AuthorSkillStage
<1>3. ~wasReset => \A j \in authoredDocs : j < i
  <2> SUFFICES ASSUME ~wasReset, NEW j \in authoredDocs PROVE j < i
    OBVIOUS
  <2>1. j \in Stage /\ statuses[j] = "done"
    BY DEF IInv, TypeOK, DocsOfDoneStages
  <2> QED
    BY <1>1, <2>1, OneActive, StageAssumption DEF Stage
<1>4. TypeOK' /\ StagesInOrder' /\ DoneMeansPassed' /\ DocsOfDoneStages'
  BY <1>1, <1>2, BoundAssumption
     DEF IInv, TypeOK, StagesInOrder, DoneMeansPassed, DocsOfDoneStages, flow
<1>5. PriorDocsAreEarlier'
  BY <1>1, <1>2, <1>3 DEF IInv, PriorDocsAreEarlier, TypeOK
<1>6. Captured'
  BY <1>1, <1>2 DEF IInv, Captured, TypeOK, flow
<1> QED
  BY <1>4, <1>5, <1>6 DEF IInv

LEMMA AuthorReturnsStep ==
  ASSUME IInv, NEW r \in Request, AuthorReturns(r)
  PROVE  IInv'
<1>1. PICK complete \in BOOLEAN, advanced \in BOOLEAN :
        /\ Submit(stage[r], complete, advanced)
        /\ IF advanced
             THEN pc' = [pc EXCEPT ![r] = "record"] /\ UNCHANGED <<attempt, answer>>
             ELSE Retry(r)
  BY DEF AuthorReturns
<1>2. pc[r] = "authoring" /\ UNCHANGED <<authoredDocs, stage, priorDocs, wasReset>>
  BY DEF AuthorReturns
<1>3. stage[r] \in Document
  BY <1>2 DEF IInv, Captured, Document
<1>4. Moved(advanced)
  BY <1>1, <1>3, SubmitMoves
<1>5. \/ /\ advanced /\ pc' = [pc EXCEPT ![r] = "record"]
         /\ UNCHANGED <<attempt, answer>>
      \/ /\ attempt[r] < MaxRewrites + 1 /\ attempt' = [attempt EXCEPT ![r] = @ + 1]
         /\ UNCHANGED <<pc, answer>>
      \/ /\ pc' = [pc EXCEPT ![r] = "answered"] /\ answer' = [answer EXCEPT ![r] = "gave_up"]
         /\ UNCHANGED attempt
  BY <1>1 DEF Retry, Answer
<1>6. TypeOK'
  BY <1>2, <1>4, <1>5, BoundAssumption DEF IInv, TypeOK, Moved
<1>7. StagesInOrder' /\ DoneMeansPassed' /\ DocsOfDoneStages' /\ PriorDocsAreEarlier'
  BY <1>2, <1>4 DEF IInv, TypeOK, Moved, DocsOfDoneStages, PriorDocsAreEarlier
<1>8. Captured'
  BY <1>2, <1>4, <1>5, BoundAssumption DEF IInv, TypeOK, Moved, Captured
<1> QED
  BY <1>6, <1>7, <1>8 DEF IInv

LEMMA RecordStep ==
  ASSUME IInv, NEW r \in Request, RecordDoc(r)
  PROVE  IInv'
<1>1. /\ pc[r] = "record" /\ authoredDocs' = authoredDocs \cup {stage[r]}
      /\ pc' = [pc EXCEPT ![r] = "answered"] /\ answer' = [answer EXCEPT ![r] = "ok"]
      /\ UNCHANGED <<statuses, checklists, stage, attempt, priorDocs, wasReset>>
  BY DEF RecordDoc, Answer, flow
<1>2. stage[r] \in Stage /\ (~wasReset => statuses[stage[r]] = "done")
  BY <1>1 DEF IInv, Captured
<1> QED
  BY <1>1, <1>2 DEF IInv, TypeOK, StagesInOrder, DoneMeansPassed, DocsOfDoneStages,
                    PriorDocsAreEarlier, Captured

LEMMA StepInductive == IInv /\ [Next]_vars => IInv'
<1> SUFFICES ASSUME IInv, [Next]_vars PROVE IInv'
  OBVIOUS
<1>1. CASE Next
  BY <1>1, AdvanceStep, ResetStep, AnswerStep, AuthorBriefStep, AuthorSkillStep,
     AuthorReturnsStep, RecordStep DEF Next, Handle
<1>2. CASE UNCHANGED vars
  BY <1>2 DEF vars, flow, IInv, TypeOK, StagesInOrder, DoneMeansPassed, DocsOfDoneStages,
              PriorDocsAreEarlier, Captured
<1> QED
  BY <1>1, <1>2

LEMMA Inductive == Spec => []IInv
<1>1. Init => IInv
  BY InitInductive
<1>2. IInv /\ [Next]_vars => IInv'
  BY StepInductive
<1> QED
  BY <1>1, <1>2, PTL DEF Spec

-----------------------------------------------------------------------------
(* The theorems *)

\* Every variable keeps its type, whatever the workflow and the requests.
THEOREM TypeCorrect == Spec => []TypeOK
BY Inductive, PTL DEF IInv

\* The stages are done in order, one active at a time, whatever interleaves.
THEOREM StagesGoInOrder == Spec => []StagesInOrder
BY Inductive, PTL DEF IInv

\* The verdict on record belongs to the status: no stage is done on an
\* incomplete checklist, however requests, posts and resets interleave.
THEOREM DoneStagesPassed == Spec => []DoneMeansPassed
BY Inductive, PTL DEF IInv

\* Until a reset, only done stages have a document on record.
THEOREM DocsAreOfDoneStages == Spec => []DocsOfDoneStages
BY Inductive, PTL DEF IInv

\* Until a reset, no author is given a document of its own or a later stage.
THEOREM PriorDocsComeEarlier == Spec => []PriorDocsAreEarlier
BY Inductive, PTL DEF IInv

\* At most one more stage gets done per step, and done stages and their
\* verdicts are for good unless the flow is reset.
THEOREM DoneStagesStay == Spec => DoneForGood
<1> DEFINE Good ==
      /\ \A i \in Stage : statuses[i] = "done" =>
           statuses'[i] = "done" /\ checklists'[i] = checklists[i]
      /\ \A i, j \in Stage : statuses[i] # "done" /\ statuses'[i] = "done" /\
           statuses[j] # "done" /\ statuses'[j] = "done" => i = j
<1>1. ASSUME IInv, Next
      PROVE  Good \/ (wasReset' /\ statuses'[1] = "active" /\ authoredDocs' = {})
  <2>1. CASE Advance
    <3>1. PICK complete \in BOOLEAN, advanced \in BOOLEAN : Submit(Operator, complete, advanced)
      BY <2>1 DEF Advance
    <3>2. Moved(advanced)
      BY <1>1, <3>1, SubmitMoves DEF Document
    <3> QED
      BY <3>2 DEF Moved
  <2>2. CASE Reset
    BY <2>2, StageAssumption DEF Reset, InitFlowState, Stage
  <2>3. ASSUME NEW r \in Request, AuthorReturns(r)
        PROVE  Good
    <3>1. PICK complete \in BOOLEAN, advanced \in BOOLEAN : Submit(stage[r], complete, advanced)
      BY <2>3 DEF AuthorReturns
    <3>2. stage[r] \in Document
      BY <1>1, <2>3 DEF IInv, Captured, AuthorReturns, Document
    <3>3. Moved(advanced)
      BY <1>1, <3>1, <3>2, SubmitMoves
    <3> QED
      BY <3>3 DEF Moved
  <2>4. ASSUME NEW r \in Request, AuthorBrief(r)
        PROVE  Good
    <3>1. PICK i \in Stage : IsActive(i) /\ AdvanceFlow(i) /\ checklists' = checklists
      BY <2>4 DEF AuthorBrief
    <3> QED
      BY <1>1, <3>1, AdvanceKeepsOrder
  <2>5. CASE UNCHANGED flow
    BY <2>5 DEF flow
  <2> QED
    BY <1>1, <2>1, <2>2, <2>3, <2>4, <2>5
       DEF Next, Handle, AuthorWhenComplete, AuthorSkillStage, AuthorThrows, RecordDoc
<1>2. IInv /\ [Next]_vars =>
        \/ Good
        \/ wasReset' /\ statuses'[1] = "active" /\ authoredDocs' = {}
        \/ UNCHANGED vars
  BY <1>1
<1> QED
  BY <1>2, Inductive, PTL DEF Spec, DoneForGood

-----------------------------------------------------------------------------
(* Lemmas about sequences. *)

\* A nonempty set of naturals has a least element.
LEMMA LeastNatural ==
  ASSUME NEW T \in SUBSET Nat, T # {}
  PROVE  \E x \in T : \A y \in T : x <= y
<1> DEFINE less == {ss \in Nat \X Nat : ss[1] < ss[2]}
<1>1. IsWellFoundedOn(less, Nat)
  BY NatLessThanWellFounded DEF OpToRel
<1>2. \A x, y \in Nat : x < y => <<x, y>> \in less
  OBVIOUS
<1>3. T \subseteq Nat
  OBVIOUS
<1> HIDE DEF less
<1>4. PICK x \in T : \A y \in T : ~(<<y, x>> \in less)
  BY <1>1, <1>3, WFMin, Zenon
<1>5. \A y \in T : ~(y < x)
  BY <1>2, <1>3, <1>4
<1> QED BY <1>3, <1>5

\* The places of a finite set of numbers, by their rank.
UpTo(at, i) == {j \in at : j <= i}

\* The places of a sequence are told apart by their rank, and every rank up to
\* the number of them is one's.
LEMMA Ranks ==
  ASSUME NEW m \in Nat, NEW at \in SUBSET (1..m)
  PROVE  /\ IsFiniteSet(at) /\ Cardinality(at) \in Nat
         /\ \A i \in at : Cardinality(UpTo(at, i)) \in 1..Cardinality(at)
         /\ \A i, j \in at : Cardinality(UpTo(at, i)) = Cardinality(UpTo(at, j)) => i = j
         /\ \A n \in 1..Cardinality(at) : \E i \in at : Cardinality(UpTo(at, i)) = n
<1>1. IsFiniteSet(1..m)
  BY FS_Interval
<1>2. IsFiniteSet(at) /\ Cardinality(at) \in Nat
  BY <1>1, FS_Subset, FS_CardinalityType
<1>3. \A i \in at : /\ UpTo(at, i) \subseteq at /\ i \in UpTo(at, i)
                    /\ \A j \in at : i < j => j \notin UpTo(at, i) /\ UpTo(at, i) \subseteq UpTo(at, j)
  <2> SUFFICES ASSUME NEW i \in at
               PROVE  /\ UpTo(at, i) \subseteq at /\ i \in UpTo(at, i)
                      /\ \A j \in at : i < j => j \notin UpTo(at, i) /\ UpTo(at, i) \subseteq UpTo(at, j)
    OBVIOUS
  <2>1. at \subseteq Int /\ i \in Int
    OBVIOUS
  <2>2. UpTo(at, i) \subseteq at /\ i \in UpTo(at, i)
    BY <2>1 DEF UpTo
  <2>3. ASSUME NEW j \in at, i < j
        PROVE  j \notin UpTo(at, i) /\ UpTo(at, i) \subseteq UpTo(at, j)
    <3>1. j \in Int /\ ~(j <= i)
      BY <2>1, <2>3
    <3>2. \A k \in at : k <= i => k <= j
      BY <2>1, <2>3, <3>1
    <3>3. j \notin UpTo(at, i)
      BY <3>1 DEF UpTo
    <3>4. UpTo(at, i) \subseteq UpTo(at, j)
      BY <3>2, Zenon DEF UpTo
    <3> QED BY <3>3, <3>4
  <2> QED BY <2>2, <2>3
<1>4. \A i \in at : /\ IsFiniteSet(UpTo(at, i)) /\ Cardinality(UpTo(at, i)) \in Nat
                    /\ Cardinality(UpTo(at, i)) <= Cardinality(at)
  <2> SUFFICES ASSUME NEW i \in at
               PROVE  /\ IsFiniteSet(UpTo(at, i)) /\ Cardinality(UpTo(at, i)) \in Nat
                      /\ Cardinality(UpTo(at, i)) <= Cardinality(at)
    OBVIOUS
  <2>1. UpTo(at, i) \in SUBSET at
    BY <1>3
  <2>2. IsFiniteSet(UpTo(at, i)) /\ Cardinality(UpTo(at, i)) <= Cardinality(at)
    BY <1>2, <2>1, FS_Subset
  <2> QED BY <2>2, FS_CardinalityType
<1>5. \A i \in at : Cardinality(UpTo(at, i)) \in 1..Cardinality(at)
  <2>1. \A i \in at : Cardinality(UpTo(at, i)) # 0
    BY <1>3, <1>4, FS_EmptySet
  <2> QED BY <1>2, <1>4, <2>1
<1>6. \A i, j \in at : i < j => Cardinality(UpTo(at, i)) # Cardinality(UpTo(at, j))
  <2> SUFFICES ASSUME NEW i \in at, NEW j \in at, i < j
               PROVE  Cardinality(UpTo(at, i)) # Cardinality(UpTo(at, j))
    OBVIOUS
  <2>1. UpTo(at, i) \in SUBSET UpTo(at, j) /\ UpTo(at, i) # UpTo(at, j)
    BY <1>3
  <2> QED BY <2>1, <1>4, FS_Subset
<1>7. \A i, j \in at : Cardinality(UpTo(at, i)) = Cardinality(UpTo(at, j)) => i = j
  BY <1>6
<1>8. ASSUME NEW n \in 1..Cardinality(at)
      PROVE  \E i \in at : Cardinality(UpTo(at, i)) = n
  <2> DEFINE T == 1..Cardinality(at)
             f == [i \in at |-> Cardinality(UpTo(at, i))]
  <2>1. f \in [at -> T]
    BY <1>5
  <2>2. f \in Injection(at, T)
    BY <1>7, <2>1 DEF Injection, IsInjective
  <2>3. IsFiniteSet(T) /\ Cardinality(T) = Cardinality(at)
    BY <1>2, FS_Interval
  <2>4. f \in Surjection(at, T)
    <3> HIDE DEF f, T
    <3> QED BY <2>2, <2>3, FS_Injection
  <2> QED BY <2>4 DEF Surjection
<1> QED BY <1>2, <1>5, <1>7, <1>8

\* What is kept of a sequence is one, and holds every turn that was to be kept.
LEMMA KeptOf ==
  ASSUME NEW S, NEW turns \in Seq(S), NEW at \in SUBSET (DOMAIN turns)
  PROVE  /\ Kept(turns, at) \in Seq(S)
         /\ \A i \in at : \E n \in DOMAIN Kept(turns, at) : Kept(turns, at)[n] = turns[i]
<1>1. Len(turns) \in Nat /\ at \in SUBSET (1..Len(turns))
  OBVIOUS
<1>2. /\ Cardinality(at) \in Nat
      /\ \A i \in at : Cardinality(UpTo(at, i)) \in 1..Cardinality(at)
      /\ \A i, j \in at : Cardinality(UpTo(at, i)) = Cardinality(UpTo(at, j)) => i = j
      /\ \A n \in 1..Cardinality(at) : \E i \in at : Cardinality(UpTo(at, i)) = n
  BY <1>1, Ranks
<1>3. \A n \in 1..Cardinality(at) : Place(at, n) \in at /\ Cardinality(UpTo(at, Place(at, n))) = n
  BY <1>2, Zenon DEF Place, UpTo
<1>4. \A i \in at : Place(at, Cardinality(UpTo(at, i))) = i
  BY <1>2, <1>3
<1>5. \A i \in at : turns[i] \in S
  BY <1>1
<1>6. Kept(turns, at) = [n \in 1..Cardinality(at) |-> turns[Place(at, n)]]
  BY DEF Kept
<1>7. Kept(turns, at) \in Seq(S)
  BY <1>2, <1>3, <1>5, <1>6
<1>8. ASSUME NEW i \in at
      PROVE  \E n \in DOMAIN Kept(turns, at) : Kept(turns, at)[n] = turns[i]
  <2>1. Cardinality(UpTo(at, i)) \in DOMAIN Kept(turns, at)
    BY <1>2, <1>6
  <2>2. Kept(turns, at)[Cardinality(UpTo(at, i))] = turns[i]
    BY <1>2, <1>4, <1>6
  <2> QED BY <2>1, <2>2
<1> QED BY <1>7, <1>8

-----------------------------------------------------------------------------
\* Every step of a compaction keeps the turns that are pinned as they are.
Survives(turns, after) ==
  \A i \in DOMAIN turns : turns[i].pinned => \E n \in DOMAIN after : after[n] = turns[i]

LEMMA TurnsTyped ==
  /\ 0 \in 0..MaxCalls /\ 1 \in Sizes /\ {"none", "early", "late"} \subseteq Marks
  /\ \A t \in Turn : SummarizeTurn(t) \in Turn
<1>1. MaxCalls \in Nat
  BY ContextAssumption
<1>2. 0 \in 0..MaxCalls /\ 1 \in Sizes /\ {"none", "early", "late"} \subseteq Marks
  BY <1>1 DEF Sizes, Marks
<1>3. ASSUME NEW t \in Turn
      PROVE  SummarizeTurn(t) \in Turn
  <2>1. [t EXCEPT !.size = 1] \in Turn
    BY <1>2 DEF Turn
  <2>2. \A u \in Turn : [u EXCEPT !.cut = TRUE] \in Turn
    BY DEF Turn
  <2>3. \A u \in Turn, mark \in Marks : [u EXCEPT !.mark = mark] \in Turn
    BY DEF Turn
  <2>4. (IF t.mark = "early" THEN "early" ELSE "none") \in Marks
    BY <1>2
  <2> QED BY <2>1, <2>2, <2>3, <2>4 DEF SummarizeTurn
<1> QED BY <1>2, <1>3

LEMMA LargeNodes ==
  ASSUME NEW turns \in Seq(Turn)
  PROVE  LET after == CompressLargeNodes(turns)
         IN /\ after \in Seq(Turn) /\ DOMAIN after = DOMAIN turns
            /\ \A i \in DOMAIN turns : turns[i].pinned => after[i] = turns[i]
            /\ \A i \in DOMAIN turns : i <= KeepFirst \/ i > Len(turns) - KeepLast =>
                 after[i].pinned /\ after[i].calls = turns[i].calls /\ after[i].cut = turns[i].cut
<1> DEFINE after == CompressLargeNodes(turns)
<1>1. DOMAIN after = DOMAIN turns
  BY DEF CompressLargeNodes
<1>2. ASSUME NEW i \in DOMAIN turns
      PROVE  /\ after[i] \in Turn
             /\ turns[i].pinned => after[i] = turns[i]
             /\ i <= KeepFirst \/ i > Len(turns) - KeepLast =>
                  after[i].pinned /\ after[i].calls = turns[i].calls /\ after[i].cut = turns[i].cut
  <2>1. turns[i] \in Turn /\ SummarizeTurn(turns[i]) \in Turn
    BY TurnsTyped
  <2>2. turns[i].pinned \in BOOLEAN /\ [turns[i] EXCEPT !.pinned = TRUE] \in Turn
    BY <2>1 DEF Turn
  <2>3. CASE turns[i].pinned
    <3>1. after[i] = turns[i]
      BY <2>3 DEF CompressLargeNodes, Free
    <3> QED BY <3>1, <2>1, <2>3
  <2>4. CASE ~turns[i].pinned /\ (i <= KeepFirst \/ i > Len(turns) - KeepLast)
    <3>1. after[i] = [turns[i] EXCEPT !.pinned = TRUE]
      BY <2>4 DEF CompressLargeNodes, Free
    <3> QED BY <3>1, <2>1, <2>2, <2>4 DEF Turn
  <2>5. CASE ~turns[i].pinned /\ ~(i <= KeepFirst \/ i > Len(turns) - KeepLast)
    <3>1. after[i] = IF turns[i].size > NodeMax THEN SummarizeTurn(turns[i]) ELSE turns[i]
      BY <2>5 DEF CompressLargeNodes, Free
    <3> QED BY <3>1, <2>1, <2>5
  <2> QED BY <2>2, <2>3, <2>4, <2>5
<1>3. after \in Seq(Turn)
  <2>1. DOMAIN turns = 1..Len(turns) /\ Len(turns) \in Nat
    OBVIOUS
  <2>2. after \in [DOMAIN turns -> Turn]
    <3>1. \E g : after = [i \in DOMAIN turns |-> g[i]]
      <4>1. after = [i \in DOMAIN turns |-> after[i]]
        BY DEF CompressLargeNodes
      <4> QED BY <4>1
    <3> HIDE DEF after
    <3> QED BY <1>2, <3>1
  <2> HIDE DEF after
  <2> QED BY <2>1, <2>2
<1> QED BY <1>1, <1>2, <1>3

LEMMA Merged ==
  ASSUME NEW turns \in Seq(Turn), NEW upto \in Nat
  PROVE  MergeAndSummarize(turns, upto) \in Seq(Turn)
<1>1. CASE turns = << >>
  BY <1>1 DEF MergeAndSummarize
<1>2. CASE turns # << >>
  <2> DEFINE whole == SubSeq(turns, 1, Min({upto, Len(turns)}))
             shown == whole \o (IF upto < Len(turns) THEN <<SummarizeTurn(turns[upto + 1])>> ELSE <<>>)
             named == {i \in DOMAIN shown : shown[i].mark # "none"}
             merged == [calls |-> UNION {shown[i].calls : i \in DOMAIN shown}, size |-> 1,
                mark |-> IF named = {} THEN "none" ELSE IF Min(named) = 1 THEN shown[1].mark ELSE "late",
                pinned |-> FALSE, cut |-> TRUE]
  <2>1. Min({upto, Len(turns)}) \in {upto, Len(turns)} /\ Min({upto, Len(turns)}) <= Len(turns)
    <3>1. Len(turns) \in Nat
      OBVIOUS
    <3>2. \E x \in {upto, Len(turns)} : \A y \in {upto, Len(turns)} : x <= y
      BY <3>1
    <3> QED BY <3>1, <3>2 DEF Min
  <2>2. whole \in Seq(Turn)
    <3>1. \A k \in Nat : k <= Len(turns) => SubSeq(turns, 1, k) \in Seq(Turn)
      OBVIOUS
    <3>2. Min({upto, Len(turns)}) \in Nat
      BY <2>1
    <3> QED BY <2>1, <3>1, <3>2
  <2>3. shown \in Seq(Turn)
    <3>1. CASE upto < Len(turns)
      <4>1. turns[upto + 1] \in Turn
        BY <3>1
      <4>2. SummarizeTurn(turns[upto + 1]) \in Turn
        BY <4>1, TurnsTyped
      <4> HIDE DEF whole
      <4> QED BY <2>2, <3>1, <4>2
    <3>2. CASE ~(upto < Len(turns))
      <4> HIDE DEF whole
      <4> QED BY <2>2, <3>2
    <3> QED BY <3>1, <3>2
  <2>4. MergeAndSummarize(turns, upto) = <<merged>>
    BY <1>2, Zenon DEF MergeAndSummarize
  <2> HIDE DEF shown
  <2>5. \A i \in DOMAIN shown : shown[i] \in Turn
    BY <2>3
  <2>6. merged.calls \subseteq 0..MaxCalls
    BY <2>5 DEF Turn
  <2>7. merged.mark \in Marks
    <3>1. named # {} => 1 \in DOMAIN shown
      BY <2>3
    <3>2. named # {} => shown[1].mark \in Marks
      BY <3>1, <2>5 DEF Turn
    <3> QED BY <3>2, TurnsTyped
  <2>8. merged \in Turn
    BY <2>6, <2>7, TurnsTyped DEF Turn
  <2> HIDE DEF merged
  <2> QED BY <2>4, <2>8
<1> QED BY <1>1, <1>2

LEMMA Chain ==
  ASSUME NEW turns \in Seq(Turn), NEW upto \in Nat
  PROVE  /\ CompressChain(turns, upto) \in Seq(Turn)
         /\ Survives(turns, CompressChain(turns, upto))
<1> DEFINE free == {i \in DOMAIN turns : Free(turns[i])}
           pins == Kept(turns, DOMAIN turns \ free)
           rest == MergeAndSummarize(Kept(turns, free), upto)
<1>1. CASE Total(turns) <= ChainMax
  BY <1>1 DEF CompressChain, Survives
<1>2. CASE ~(Total(turns) <= ChainMax)
  <2>1. CompressChain(turns, upto) = pins \o rest
    BY <1>2 DEF CompressChain
  <2>2. /\ pins \in Seq(Turn)
        /\ \A i \in DOMAIN turns \ free : \E n \in DOMAIN pins : pins[n] = turns[i]
    <3>1. DOMAIN turns \ free \in SUBSET (DOMAIN turns)
      OBVIOUS
    <3> QED BY <3>1, KeptOf
  <2>3. Kept(turns, free) \in Seq(Turn)
    BY KeptOf
  <2>4. rest \in Seq(Turn)
    BY <2>3, Merged
  <2>5. pins \o rest \in Seq(Turn) /\ \A n \in DOMAIN pins : n \in DOMAIN (pins \o rest) /\ (pins \o rest)[n] = pins[n]
    <3> HIDE DEF pins, rest
    <3> QED BY <2>2, <2>4
  <2>6. \A i \in DOMAIN turns : turns[i].pinned => i \in DOMAIN turns \ free
    BY DEF Free
  <2> HIDE DEF pins, rest, free
  <2> QED BY <2>1, <2>2, <2>5, <2>6 DEF Survives
<1> QED BY <1>1, <1>2

LEMMA Sliding ==
  ASSUME NEW turns \in Seq(Turn)
  PROVE  /\ ApplySlidingWindow(turns) \in Seq(Turn)
         /\ Survives(turns, ApplySlidingWindow(turns))
<1> DEFINE free == {i \in DOMAIN turns : Free(turns[i])}
           excess == Cardinality(free) - SlideMax
           dropped == {i \in free : Cardinality({j \in free : j <= i}) <= excess}
<1>1. ApplySlidingWindow(turns) = Kept(turns, DOMAIN turns \ dropped)
  BY DEF ApplySlidingWindow
<1>2. \A i \in DOMAIN turns : turns[i].pinned => i \in DOMAIN turns \ dropped
  BY DEF Free
<1> HIDE DEF dropped
<1>3. DOMAIN turns \ dropped \in SUBSET (DOMAIN turns)
  OBVIOUS
<1>4. /\ Kept(turns, DOMAIN turns \ dropped) \in Seq(Turn)
      /\ \A i \in DOMAIN turns \ dropped :
           \E n \in DOMAIN Kept(turns, DOMAIN turns \ dropped) : Kept(turns, DOMAIN turns \ dropped)[n] = turns[i]
  BY <1>3, KeptOf
<1> QED BY <1>1, <1>2, <1>4 DEF Survives

\* A compaction yields a window, and a turn stays in it word for word when it
\* is pinned, or counts among the first or the last once the sections are put in
\* front.
LEMMA Compacted ==
  ASSUME NEW turns \in Seq(Turn), NEW upto \in Nat
  PROVE  LET after == CompactContextWindow(turns, upto)
         IN /\ after \in Seq(Turn)
            /\ \A i \in DOMAIN turns :
                 turns[i].pinned \/ Sections + i <= KeepFirst \/ i = Len(turns) =>
                   \E n \in DOMAIN after : after[n].pinned /\ after[n].calls = turns[i].calls
                                           /\ after[n].cut = turns[i].cut
<1>1. Sections \in Nat /\ KeepFirst \in Nat /\ KeepLast \in Nat /\ KeepLast > 0
  BY ContextAssumption
<1>2. PinnedZone \in Seq(Turn) /\ Len(PinnedZone) = Sections
  <2>1. [calls |-> {0}, size |-> 1, mark |-> "none", pinned |-> TRUE, cut |-> FALSE] \in Turn
    BY TurnsTyped DEF Turn
  <2> QED BY <1>1, <2>1 DEF PinnedZone
<1> DEFINE full == PinnedZone \o turns
           large == CompressLargeNodes(full)
           chain == CompressChain(large, upto)
           after == ApplySlidingWindow(chain)
<1>3. /\ full \in Seq(Turn) /\ Len(full) = Sections + Len(turns)
      /\ \A i \in DOMAIN turns : Sections + i \in DOMAIN full /\ full[Sections + i] = turns[i]
  BY <1>1, <1>2
<1>4. /\ large \in Seq(Turn) /\ DOMAIN large = DOMAIN full
      /\ \A i \in DOMAIN full : full[i].pinned => large[i] = full[i]
      /\ \A i \in DOMAIN full : i <= KeepFirst \/ i > Len(full) - KeepLast =>
           large[i].pinned /\ large[i].calls = full[i].calls /\ large[i].cut = full[i].cut
  <2> HIDE DEF full
  <2> QED BY <1>3, LargeNodes
<1>5. chain \in Seq(Turn) /\ Survives(large, chain)
  <2> HIDE DEF large
  <2> QED BY <1>4, Chain
<1>6. after \in Seq(Turn) /\ Survives(chain, after)
  <2> HIDE DEF chain
  <2> QED BY <1>5, Sliding
<1>7. CompactContextWindow(turns, upto) = after
  BY DEF CompactContextWindow
<1> HIDE DEF full, large, chain, after
<1>8. ASSUME NEW i \in DOMAIN turns, turns[i].pinned \/ Sections + i <= KeepFirst \/ i = Len(turns)
      PROVE  \E n \in DOMAIN after : after[n].pinned /\ after[n].calls = turns[i].calls
                                     /\ after[n].cut = turns[i].cut
  <2>1. Sections + i \in DOMAIN full /\ full[Sections + i] = turns[i] /\ Len(turns) \in Nat
    BY <1>3
  <2>2. /\ large[Sections + i].pinned /\ large[Sections + i].calls = turns[i].calls
        /\ large[Sections + i].cut = turns[i].cut
    <3>1. CASE turns[i].pinned
      BY <3>1, <1>4, <2>1
    <3>2. CASE Sections + i <= KeepFirst
      BY <3>2, <1>4, <2>1
    <3>3. CASE i = Len(turns)
      <4>1. Sections + i > Len(full) - KeepLast
        BY <3>3, <1>1, <1>3, <2>1
      <4> QED BY <4>1, <1>4, <2>1
    <3> QED BY <1>8, <3>1, <3>2, <3>3
  <2>3. PICK n \in DOMAIN chain : chain[n] = large[Sections + i]
    BY <1>4, <1>5, <2>1, <2>2 DEF Survives
  <2>4. PICK k \in DOMAIN after : after[k] = chain[n]
    BY <1>6, <2>2, <2>3 DEF Survives
  <2> QED BY <2>2, <2>3, <2>4
<1> QED BY <1>6, <1>7, <1>8

-----------------------------------------------------------------------------
(* Decisions. *)

\* A story that is not ready is planned again, whatever else is known of it, and
\* the debugger is not called past its budget.
LEMMA NotReady ==
  ASSUME NEW s \in Situation, ~s.ready
  PROVE  DecideNextAction(s) = "replan"
<1> DEFINE rows == DecisionTable(s)
           first == CHOOSE i \in DOMAIN rows : rows[i][1] /\ \A j \in 1..i - 1 : ~rows[j][1]
<1>1. (rows[1][1] <=> ~s.ready) /\ rows[1][2] = "replan" /\ DOMAIN rows = 1..13
  <2>1. PICK b \in BOOLEAN : b = ~s.ready
    OBVIOUS
  <2>2. rows[1] = <<b, "replan">>
    BY <2>1 DEF DecisionTable
  <2>3. DOMAIN rows = 1..13
    BY DEF DecisionTable
  <2> HIDE DEF rows
  <2>4. rows[1][1] = b /\ rows[1][2] = "replan"
    BY <2>2
  <2> QED BY <2>1, <2>3, <2>4, Zenon
<1>2. DecideNextAction(s) = rows[first][2]
  BY DEF DecideNextAction
<1> HIDE DEF rows
<1>3. \A i \in DOMAIN rows : rows[i][1] /\ (\A j \in 1..i - 1 : ~rows[j][1]) <=> i = 1
  <2>1. rows[1][1]
    BY <1>1
  <2>2. 1 \in DOMAIN rows /\ \A j \in 1..1 - 1 : ~rows[j][1]
    BY <1>1
  <2>3. \A i \in DOMAIN rows : i # 1 => 1 \in 1..i - 1
    BY <1>1
  <2> QED BY <2>1, <2>2, <2>3
<1>4. first = 1
  BY <1>1, <1>3
<1> HIDE DEF first
<1> QED BY <1>1, <1>2, <1>4

LEMMA WithinBudget ==
  ASSUME NEW s \in Situation, DecideNextAction(s) = "call_debugger", s.issue = "none"
  PROVE  ~s.exhausted
BY RoutingAssumption DEF RoutingAssumption

LEMMA NowTyped ==
  ASSUME ContextTypeOK, NEW denied \in {"none", "denied"}
  PROVE  /\ Now(denied) \in Situation
         /\ Now(denied).ready <=> phase # "idle"
         /\ Now(denied).exhausted <=> passes >= MaxPasses
         /\ Now(denied).issue = "none"
<1>1. [none |-> "none", pass |-> "passed", fail |-> "failed"][verdict] \in {"none", "passed", "failed"}
  BY DEF ContextTypeOK
<1>2. (phase # "idle") \in BOOLEAN /\ (passes >= MaxPasses) \in BOOLEAN
  BY DEF ContextTypeOK
<1> DEFINE r == [none |-> "none", pass |-> "passed", fail |-> "failed"][verdict]
<1>3. Now(denied) =
        [ready |-> phase # "idle", issue |-> "none", denied |-> denied, report |-> r,
         repair |-> IF passes = 0 THEN "none" ELSE "within",
         developer |-> IF Calls = 0 THEN "none" ELSE "patch",
         repeated |-> FALSE, exhausted |-> passes >= MaxPasses]
  BY DEF Now
<1>4. r \in {"none", "passed", "failed"}
  BY <1>1
<1> HIDE DEF r
<1>5. Now(denied) \in Situation
  BY <1>2, <1>3, <1>4 DEF Situation
<1>6. Now(denied).ready = (phase # "idle") /\ Now(denied).exhausted = (passes >= MaxPasses)
  <2>1. PICK b \in BOOLEAN : b = (phase # "idle")
    BY <1>2
  <2>2. PICK c \in BOOLEAN : c = (passes >= MaxPasses)
    BY <1>2
  <2>3. Now(denied).ready = b /\ Now(denied).exhausted = c
    BY <1>3, <2>1, <2>2
  <2> QED BY <2>1, <2>2, <2>3
<1>7. Now(denied).issue = "none"
  BY <1>3
<1> QED BY <1>5, <1>6, <1>7

-----------------------------------------------------------------------------
(* The catalog. *)

LEMMA Found ==
  ASSUME CatalogOK, NEW id \in Skills, FindSkill(id) # 0
  PROVE  FindSkill(id) \in DOMAIN catalog
<1> DEFINE at == {i \in DOMAIN catalog : catalog[i].id = id}
<1>1. at # {} /\ FindSkill(id) = Min(at)
  BY DEF FindSkill
<1>2. at \subseteq Nat
  BY DEF CatalogOK
<1>3. \E x \in at : \A y \in at : x <= y
  <2> HIDE DEF at
  <2>1. PICK n \in at : TRUE
    BY <1>1
  <2>2. n \in Nat
    BY <1>2, <2>1
  <2> QED BY <2>1, <2>2, <1>2, LeastNatural
<1>4. Min(at) \in at
  BY <1>3 DEF Min
<1> QED BY <1>1, <1>4

\* A request leaves the catalog well formed and every entry of a shipped skill
\* where it can be found.
LEMMA RequestKeepsCatalog ==
  ASSUME CatalogOK, BuiltinsSurvive, Control
  PROVE  CatalogOK' /\ BuiltinsSurvive'
<1>1. PICK req \in Requests : HandleSkillControl(req)
  BY DEF Control
<1>2. /\ req.id \in Skills /\ req.enabled \in BOOLEAN
      /\ catalog \in Seq(Entry) /\ ops \in Nat /\ ops < MaxOps /\ ops' = ops + 1 /\ MaxOps \in Nat
  BY <1>1, CatalogAssumption DEF Requests, CatalogOK, HandleSkillControl
<1>3. SUFFICES /\ catalog' \in Seq(Entry)
               /\ \A k \in DOMAIN catalog : catalog[k].builtin =>
                    \E j \in DOMAIN catalog' : catalog'[j].id = catalog[k].id /\ catalog'[j].builtin
  <2>1. CatalogOK'
    BY <1>2, <1>3 DEF CatalogOK
  <2>2. BuiltinsSurvive'
    BY <1>3, Zenon DEF BuiltinsSurvive
  <2> QED BY <2>1, <2>2
<1> DEFINE at == FindSkill(req.id)
<1>4. CASE Toggle(req)
  <2>1. at \in DOMAIN catalog
    BY <1>2, <1>4, Found DEF Toggle
  <2>2. catalog' = [catalog EXCEPT ![at] = [catalog[at] EXCEPT !.enabled = req.enabled]]
    BY <1>4 DEF Toggle
  <2>3. [catalog[at] EXCEPT !.enabled = req.enabled] \in Entry
    <3>1. catalog[at] \in Entry
      BY <1>2, <2>1
    <3> HIDE DEF at
    <3> QED BY <1>2, <3>1 DEF Entry
  <2>4. DOMAIN catalog' = DOMAIN catalog /\ catalog' \in Seq(Entry)
    BY <1>2, <2>1, <2>2, <2>3
  <2>5. \A k \in DOMAIN catalog : catalog'[k].id = catalog[k].id /\ catalog'[k].builtin = catalog[k].builtin
    BY <1>2, <2>1, <2>2 DEF Entry
  <2> QED BY <2>4, <2>5
<1>5. CASE Delete(req)
  <2>1. at \in DOMAIN catalog /\ catalog' = RemoveAt(catalog, at)
    BY <1>2, <1>5, Found DEF Delete
  <2>2. ~catalog[at].builtin
    BY <1>1, <1>5, <2>1 DEF HandleSkillControl, DecideSkillControl, CanDelete, Delete
  <2> HIDE DEF at
  <2>3. catalog' \in Seq(Entry)
    BY <1>2, <2>1 DEF RemoveAt
  <2>4. ASSUME NEW k \in DOMAIN catalog, catalog[k].builtin
        PROVE  \E j \in DOMAIN catalog' : catalog'[j] = catalog[k]
    <3>1. k \in Int /\ at \in Int /\ k # at
      BY <1>2, <2>1, <2>2, <2>4
    <3>2. CASE k < at
      <4>1. k \in DOMAIN RemoveAt(catalog, at) /\ RemoveAt(catalog, at)[k] = catalog[k]
        BY <1>2, <2>1, <3>1, <3>2 DEF RemoveAt
      <4> QED BY <2>1, <4>1
    <3>3. CASE k > at
      <4>1. k - 1 \in DOMAIN RemoveAt(catalog, at) /\ RemoveAt(catalog, at)[k - 1] = catalog[k]
        <5> DEFINE front == SubSeq(catalog, 1, at - 1)
                   back == SubSeq(catalog, at + 1, Len(catalog))
        <5>1. at \in 1..Len(catalog) /\ k \in 1..Len(catalog) /\ Len(catalog) \in Nat
          BY <1>2, <2>1
        <5>2. front \in Seq(Entry) /\ Len(front) = at - 1
          BY <1>2, <5>1
        <5>3. back \in Seq(Entry) /\ Len(back) = Len(catalog) - at
          BY <1>2, <5>1
        <5>4. k - at \in 1..Len(back) /\ back[k - at] = catalog[k]
          BY <1>2, <3>3, <5>1, <5>3
        <5>5. RemoveAt(catalog, at) = front \o back
          BY DEF RemoveAt
        <5> HIDE DEF front, back
        <5>6. k - 1 = Len(front) + (k - at) /\ k - at \in Nat
          BY <5>1, <5>2, <3>3
        <5>7. k - 1 \in DOMAIN (front \o back) /\ (front \o back)[k - 1] = back[k - at]
          BY <5>2, <5>3, <5>4, <5>6
        <5> QED BY <5>4, <5>5, <5>7
      <4> QED BY <2>1, <4>1
    <3> QED BY <3>1, <3>2, <3>3
  <2> QED BY <2>3, <2>4
<1>6. CASE Add(req)
  <2>1. catalog' = Append(catalog, Added(req.id)) /\ Added(req.id) \in Entry
    BY <1>2, <1>6 DEF Add, Added, Entry
  <2>2. catalog' \in Seq(Entry) /\ \A k \in DOMAIN catalog : k \in DOMAIN catalog' /\ catalog'[k] = catalog[k]
    <3> HIDE DEF at
    <3> QED BY <1>2, <2>1
  <2> QED BY <2>2
<1> QED BY <1>1, <1>4, <1>5, <1>6 DEF HandleSkillControl

-----------------------------------------------------------------------------
(* The story. *)

\* What a judge may be shown is on no list of what is kept from it.
LEMMA Judges ==
  /\ (GrantedTo["assessor"] \cup GrantedTo["debugger"]) \cap (Process \cup ReviewerDenied) = {}
  /\ {"failing_test_output", "acceptance_criteria", "diff_under_review", "gene_signals",
      "story_objective", "write_set_scope"} \cap (Process \cup ReviewerDenied) = {}
<1>1. /\ GrantedTo["assessor"] = {"requirement_intent", "delivered_result", "delivered_tests"}
      /\ GrantedTo["debugger"] = {"failing_output", "acceptance_criteria", "diff_under_review",
                                  "matching_failure_genes"}
  BY DEF GrantedTo
<1>2. Process = DeniedTo["assessor"] \cup DeniedTo["debugger"] \cup CrossStoryDenied
  <2>1. DOMAIN DeniedTo = {"assessor", "debugger"}
    BY DEF DeniedTo
  <2>2. \A x : x \in Process <=> x \in CrossStoryDenied \/ \E judge \in {"assessor", "debugger"} : x \in DeniedTo[judge]
    BY <2>1 DEF Process
  <2> QED BY <2>2
<1>3. \A x \in DeniedTo["assessor"] \cup DeniedTo["debugger"] :
        x \in {"implementation_history", "develop_history", "agent_reasoning", "developer_reasoning",
               "debugger_reasoning", "rejected_approach_rationale", "prior_debug_reasoning",
               "debug_attempts_reasoning"}
  BY DEF DeniedTo
<1> QED BY <1>1, <1>2, <1>3 DEF CrossStoryDenied, ReviewerDenied

\* The packet is a record with a task, whoever composed it.
PacketTyped == packet = [task |-> packet.task, sections |-> packet.sections]

\* The index is that of the code the story started from, or of the code as it is
\* between stories, unless the last sync failed.
IndexFollows == synced => index = IF phase = "idle" THEN uses ELSE base

\* A turn of one call that no compaction may touch, or that is yet to be pinned
\* by the place it stands at.
Verbatim(call, at) ==
  \E i \in DOMAIN window :
    window[i].calls = {call} /\ ~window[i].cut /\ (window[i].pinned \/ i = at)
Ends ==
  /\ marks = << >> => window = << >>
  /\ marks # << >> => Verbatim(Calls, Len(window))
  /\ marks # << >> /\ Sections < KeepFirst => Verbatim(1, 1)

ContextInv == ContextTypeOK /\ BuiltinsSurvive /\ PacketTyped /\ IndexFollows /\ Ends

LEMMA ContextInitially ==
  ASSUME ContextInit
  PROVE  ContextInv
<1> USE DEF ContextInit
<1>1. CatalogOK /\ BuiltinsSurvive
  BY CatalogAssumption DEF InitCatalog, CatalogOK, BuiltinsSurvive
<1>2. IndexOK /\ IndexFollows
  BY ContextAssumption DEF InitIndex, IndexOK, IndexFollows
<1>3. PacketTyped /\ packet.task.target_agent = "none"
  BY DEF NoPacket, PacketTyped
<1>4. Ends
  BY DEF Ends
<1>5. 0 \in 0..MaxStories /\ 0 \in 0..MaxPasses /\ 0 \in 0..MaxCompactions /\ 0 \in 0..MaxCalls /\ Code0 \in Uses
  BY ContextAssumption
<1>6. Len(<< >>) = 0 /\ << >> \in Seq(Turn) /\ << >> \in Seq(Marks)
  OBVIOUS
<1> QED BY <1>1, <1>2, <1>3, <1>4, <1>5, <1>6, ContextAssumption DEF ContextInv, ContextTypeOK, Phases

LEMMA StartKeeps ==
  ASSUME ContextInv, NEW c \in Contracts, NEW mode \in Modes, NEW host \in Machines, StartStory(c, mode, host)
  PROVE  ContextInv'
<1> USE DEF ContextInv, ContextTypeOK, StartStory
<1>1. CatalogOK' /\ BuiltinsSurvive'
  BY DEF CatalogOK, BuiltinsSurvive
<1>2. IndexOK' /\ IndexFollows'
  BY DEF IndexOK, IndexFollows
<1>3. Ends'
  BY DEF Ends, Verbatim, Calls
<1>4. PacketTyped' /\ packet'.task.target_agent = "developer"
  BY DEF PacketTyped, ComposeWithCodegraph, ComposeDeveloperTaskPacket
<1>5. story' \in 0..MaxStories
  <2>1. MaxStories \in Nat
    BY ContextAssumption
  <2> QED BY <2>1
<1>6. base' \in Uses
  BY DEF IndexOK
<1>7. contract' \subseteq Contracts /\ phase' \in Phases
  BY DEF Phases
<1> QED BY <1>1, <1>2, <1>3, <1>4, <1>5, <1>6, <1>7

LEMMA CallKeeps ==
  ASSUME ContextInv, NEW kind \in TurnKinds, NEW order, Call(kind, order)
  PROVE  ContextInv'
<1> USE DEF ContextInv, ContextTypeOK, Call
<1> DEFINE turn == [calls |-> {Calls + 1}, size |-> kind.size, mark |-> kind.mark,
                    pinned |-> FALSE, cut |-> FALSE]
<1>1. CatalogOK' /\ BuiltinsSurvive'
  BY DEF CatalogOK, BuiltinsSurvive
<1>2. IndexOK' /\ IndexFollows' /\ PacketTyped'
  BY DEF IndexOK, IndexFollows, PacketTyped
<1>3. /\ MaxCalls \in Nat /\ kind.mark \in Marks /\ kind.size \in Sizes
      /\ Calls \in Nat /\ made \in Nat /\ Calls <= made /\ made < MaxCalls /\ made' = made + 1
  BY ContextAssumption DEF Calls
<1>4. turn \in Turn
  BY <1>3 DEF Turn
<1>5. /\ window \in Seq(Turn) /\ window' = Append(window, turn)
      /\ marks \in Seq(Marks) /\ marks' = Append(marks, kind.mark)
  OBVIOUS
<1> HIDE DEF turn
<1>6. /\ window' \in Seq(Turn) /\ Len(window') = Len(window) + 1 /\ window'[Len(window')] = turn
      /\ \A i \in DOMAIN window : i \in DOMAIN window' /\ window'[i] = window[i]
      /\ Len(window') \in DOMAIN window'
  BY <1>4, <1>5
<1>7. marks' \in Seq(Marks) /\ Len(marks') = Calls + 1 /\ marks' # << >>
  BY <1>3, <1>5 DEF Calls
<1>8. Verbatim(Calls, Len(window))'
  <2>1. Calls' = Calls + 1
    BY <1>7 DEF Calls
  <2>2. turn.calls = {Calls + 1} /\ ~turn.cut
    BY DEF turn
  <2> QED BY <1>6, <2>1, <2>2 DEF Verbatim
<1>9. ASSUME Sections < KeepFirst
      PROVE  Verbatim(1, 1)'
  <2>1. CASE marks = << >>
    <3>1. window = << >> /\ Calls = 0
      BY <2>1 DEF Ends, Calls
    <3>2. Len(window') = 1 /\ turn.calls = {1} /\ ~turn.cut
      BY <3>1, <1>6 DEF turn
    <3> QED BY <1>6, <3>2 DEF Verbatim
  <2>2. CASE marks # << >>
    <3>1. Verbatim(1, 1)
      BY <1>9, <2>2 DEF Ends
    <3> QED BY <1>6, <3>1 DEF Verbatim
  <2> QED BY <2>1, <2>2
<1>10. Ends'
  BY <1>7, <1>8, <1>9 DEF Ends
<1>11. Len(prompt') = 3
  OBVIOUS
<1>12. Len(marks') <= MaxCalls /\ made' \in Len(marks')..MaxCalls
  BY <1>3, <1>7
<1> QED BY <1>1, <1>2, <1>6, <1>7, <1>10, <1>11, <1>12

LEMMA CompactKeeps ==
  ASSUME ContextInv, NEW upto \in 0..Len(window), Compact(upto)
  PROVE  ContextInv'
<1> USE DEF ContextInv, ContextTypeOK, Compact
<1>1. CatalogOK' /\ BuiltinsSurvive'
  BY DEF CatalogOK, BuiltinsSurvive
<1>2. IndexOK' /\ IndexFollows' /\ PacketTyped'
  BY DEF IndexOK, IndexFollows, PacketTyped
<1>3. window \in Seq(Turn) /\ upto \in Nat
  OBVIOUS
<1>4. /\ window' \in Seq(Turn)
      /\ \A i \in DOMAIN window :
           window[i].pinned \/ Sections + i <= KeepFirst \/ i = Len(window) =>
             \E n \in DOMAIN window' : window'[n].pinned /\ window'[n].calls = window[i].calls
                                       /\ window'[n].cut = window[i].cut
  <2> DEFINE after == CompactContextWindow(window, upto)
  <2>1. window' = after
    OBVIOUS
  <2>2. /\ after \in Seq(Turn)
        /\ \A i \in DOMAIN window :
             window[i].pinned \/ Sections + i <= KeepFirst \/ i = Len(window) =>
               \E n \in DOMAIN after : after[n].pinned /\ after[n].calls = window[i].calls
                                       /\ after[n].cut = window[i].cut
    <3> HIDE DEF ContextInv, ContextTypeOK, Compact
    <3> QED BY <1>3, Compacted
  <2> HIDE DEF after
  <2> QED BY <2>1, <2>2
<1>5. marks' = marks /\ marks # << >>
  BY DEF Ends
<1>6. Verbatim(Calls, Len(window))'
  <2>1. Verbatim(Calls, Len(window)) /\ Calls' = Calls
    BY <1>5 DEF Ends, Calls
  <2> QED BY <1>4, <2>1 DEF Verbatim
<1>7. ASSUME Sections < KeepFirst
      PROVE  Verbatim(1, 1)'
  <2>1. Verbatim(1, 1)
    BY <1>5, <1>7 DEF Ends
  <2>2. Sections + 1 <= KeepFirst
    <3> HIDE DEF ContextInv, ContextTypeOK, Compact
    <3>1. Sections \in Nat /\ KeepFirst \in Nat
      BY ContextAssumption
    <3> QED BY <1>7, <3>1
  <2> QED BY <1>4, <2>1, <2>2 DEF Verbatim
<1>8. Ends'
  BY <1>5, <1>6, <1>7 DEF Ends
<1>9. compactions' \in 0..MaxCompactions
  BY ContextAssumption
<1> QED BY <1>1, <1>2, <1>4, <1>8, <1>9

LEMMA EditKeeps ==
  ASSUME ContextInv, NEW f \in Files, NEW g \in Files, Edit(f, g)
  PROVE  ContextInv'
<1> USE DEF ContextInv, ContextTypeOK, Edit, ctx
<1>1. CatalogOK' /\ BuiltinsSurvive'
  BY DEF CatalogOK, BuiltinsSurvive
<1>2. uses' \in Uses
  BY DEF IndexOK, Uses
<1>3. IndexOK' /\ IndexFollows' /\ PacketTyped'
  BY <1>2 DEF IndexOK, IndexFollows, PacketTyped
<1>4. Ends'
  BY DEF Ends, Verbatim, Calls
<1> QED BY <1>1, <1>3, <1>4

LEMMA JudgeKeeps ==
  ASSUME ContextInv,
         \/ \E results \in TestRuns : Assess(results)
         \/ \E raw \in RawReports : Review(raw)
  PROVE  ContextInv'
<1> USE DEF ContextInv, ContextTypeOK
<1>1. UNCHANGED <<catalog, ops, uses, index, synced, story, contract, base, packet, prompt,
                  window, marks, carried, passes, compactions, made>>
  BY DEF Assess, Review
<1>2. CatalogOK' /\ BuiltinsSurvive'
  BY <1>1 DEF CatalogOK, BuiltinsSurvive
<1>3. IndexOK' /\ PacketTyped' /\ Ends'
  BY <1>1 DEF IndexOK, PacketTyped, Ends, Verbatim, Calls
<1>4. IndexFollows'
  BY <1>1 DEF IndexFollows, Assess, Review
<1>5. phase' \in Phases /\ verdict' \in {"none", "pass", "fail"}
  BY DEF Assess, Review, Phases, Verdict
<1>6. seen' \cap (Process \cup ReviewerDenied) = {}
  <2>1. CASE \E results \in TestRuns : Assess(results)
    <3>1. seen' \subseteq GrantedTo["assessor"]
      BY <2>1 DEF Assess, BuildFreshPacket
    <3> QED BY <3>1, Judges
  <2>2. CASE \E raw \in RawReports : Review(raw)
    <3>1. seen' \subseteq {"failing_test_output", "acceptance_criteria", "diff_under_review", "gene_signals",
                           "story_objective", "write_set_scope"}
      BY <2>2 DEF Review, BuildReviewerPacket
    <3> QED BY <3>1, Judges
  <2> QED BY <2>1, <2>2
<1>7. (report = NoReport \/ report.fields \cap Authority = {})'
  <2>1. CASE \E results \in TestRuns : Assess(results)
    BY <2>1 DEF Assess, NoReport
  <2>2. CASE \E raw \in RawReports : Review(raw)
    BY <2>2 DEF Review, RunReviewer, Authority
  <2> QED BY <2>1, <2>2
<1> QED BY <1>1, <1>2, <1>3, <1>4, <1>5, <1>6, <1>7

LEMMA DebugKeeps ==
  ASSUME ContextInv, Debug
  PROVE  ContextInv'
<1> USE DEF ContextInv, ContextTypeOK, Debug
<1>1. CatalogOK' /\ BuiltinsSurvive'
  BY DEF CatalogOK, BuiltinsSurvive
<1>2. IndexOK' /\ Ends'
  BY DEF IndexOK, Ends, Verbatim, Calls
<1>3. IndexFollows' /\ phase' \in Phases
  BY DEF IndexFollows, Phases
<1>4. passes' \in 0..MaxPasses
  <2>1. Now("none") \in Situation /\ Now("none").issue = "none" /\ DecideNextAction(Now("none")) = "call_debugger"
    BY NowTyped DEF Decided
  <2>2. ~(passes >= MaxPasses)
    BY <2>1, NowTyped, WithinBudget
  <2>3. MaxPasses \in Nat
    BY ContextAssumption
  <2> QED BY <2>2, <2>3
<1>5. PacketTyped' /\ packet'.task.target_agent = "debugger"
  <2>1. PICK c \in contract :
          packet' = [packet EXCEPT !.task = ComposeDebuggerTaskPacket(c, Changed, {}, Genes, FALSE)]
    OBVIOUS
  <2>2. PICK t, v : packet = [task |-> t, sections |-> v]
    BY DEF PacketTyped
  <2> DEFINE task == ComposeDebuggerTaskPacket(c, Changed, {}, Genes, FALSE)
  <2>3. task.target_agent = "debugger"
    BY DEF ComposeDebuggerTaskPacket
  <2> HIDE DEF task
  <2>4. packet' = [task |-> task, sections |-> v]
    <3>1. packet' = [packet EXCEPT !.task = task]
      BY <2>1 DEF task
    <3>2. \A p : p = [task |-> t, sections |-> v] => [p EXCEPT !.task = task] = [task |-> task, sections |-> v]
      OBVIOUS
    <3> QED BY <2>2, <3>1, <3>2
  <2> QED BY <2>3, <2>4 DEF PacketTyped
<1>6. seen' \cap (Process \cup ReviewerDenied) = {}
  <2>1. seen' \subseteq GrantedTo["debugger"]
    BY DEF BuildFreshPacket
  <2> QED BY <2>1, Judges
<1> QED BY <1>1, <1>2, <1>3, <1>4, <1>5, <1>6

\* A story that ends leaves nothing of its own but the filtered summary.
LEMMA Closed ==
  ASSUME ContextTypeOK, Close
  PROVE  /\ phase' = "idle" /\ contract' = {} /\ base' \in Uses
         /\ PacketTyped' /\ packet'.task.target_agent = "none"
         /\ Len(prompt') = 0 /\ window' = << >> /\ marks' = << >>
         /\ verdict' = "none" /\ seen' = {} /\ report' = NoReport /\ passes' = 0 /\ compactions' = 0
         /\ carried' \subseteq Carried /\ Ends'
<1> USE DEF Close
<1>1. PacketTyped' /\ packet'.task.target_agent = "none"
  BY DEF PacketTyped, NoPacket
<1>2. base' \in Uses
  BY ContextAssumption
<1>3. Ends'
  BY DEF Ends
<1>4. carried' \subseteq Carried
  <2> SUFFICES ASSUME NEW x \in InjectOwnSummary(window) PROVE x \in Carried
    OBVIOUS
  <2>1. PICK t \in Range(window) :
          x = [reasons |-> \E c \in t.calls \ {0} : marks[c] # "none", cut |-> t.cut]
    BY DEF InjectOwnSummary
  <2>2. t.cut \in BOOLEAN
    <3>1. window \in Seq(Turn)
      BY DEF ContextTypeOK
    <3>2. t \in Turn
      BY <3>1 DEF Range
    <3> QED BY <3>2 DEF Turn
  <2>3. PICK b \in BOOLEAN : b = (\E c \in t.calls \ {0} : marks[c] # "none")
    OBVIOUS
  <2>4. x = [reasons |-> b, cut |-> t.cut]
    BY <2>1, <2>3
  <2> QED BY <2>2, <2>4 DEF Carried
<1> QED BY <1>1, <1>2, <1>3, <1>4

LEMMA AcceptKeeps ==
  ASSUME ContextInv, NEW ok \in BOOLEAN, Accept(ok)
  PROVE  ContextInv'
<1> USE DEF ContextInv, ContextTypeOK, Accept
<1>1. CatalogOK' /\ BuiltinsSurvive'
  BY DEF CatalogOK, BuiltinsSurvive
<1>2. IndexOK'
  BY DEF IndexOK, CheckpointSync
<1>3. IndexFollows'
  BY DEF IndexFollows, CheckpointSync, Close
<1>4. 0 \in 0..MaxPasses /\ 0 \in 0..MaxCompactions /\ made' \in 0..MaxCalls
  BY ContextAssumption
<1>5. Len(<< >>) = 0 /\ << >> \in Seq(Turn) /\ << >> \in Seq(Marks) /\ MaxCalls \in Nat
  BY ContextAssumption
<1>6. /\ phase' = "idle" /\ contract' = {} /\ base' \in Uses
      /\ PacketTyped' /\ packet'.task.target_agent = "none"
      /\ Len(prompt') = 0 /\ window' = << >> /\ marks' = << >>
      /\ verdict' = "none" /\ seen' = {} /\ report' = NoReport /\ passes' = 0 /\ compactions' = 0
      /\ carried' \subseteq Carried /\ Ends'
  BY Closed
<1>7. story' = story /\ made' = made /\ story \in 0..MaxStories
  OBVIOUS
<1>8. ContextTypeOK'
  <2> HIDE DEF ContextInv, Accept
  <2> QED BY <1>1, <1>2, <1>4, <1>5, <1>6, <1>7 DEF Phases
<1> QED BY <1>1, <1>3, <1>6, <1>8

\* What a story is rolled back to is what its index was of: a story that is
\* between two others is planned, not rolled back.
LEMMA AbortKeeps ==
  ASSUME ContextInv, NEW denied \in {"none", "denied"}, Abort(denied)
  PROVE  ContextInv'
<1> USE DEF ContextInv, ContextTypeOK, Abort
<1>1. CatalogOK' /\ BuiltinsSurvive'
  BY DEF CatalogOK, BuiltinsSurvive
<1>2. IndexOK'
  BY DEF IndexOK
<1>3. phase # "idle"
  BY NowTyped, NotReady
<1>4. IndexFollows'
  BY <1>3 DEF IndexFollows, Close
<1>5. 0 \in 0..MaxPasses /\ 0 \in 0..MaxCompactions /\ made' \in 0..MaxCalls
  BY ContextAssumption
<1>6. Len(<< >>) = 0 /\ << >> \in Seq(Turn) /\ << >> \in Seq(Marks) /\ MaxCalls \in Nat
  BY ContextAssumption
<1>7. /\ phase' = "idle" /\ contract' = {} /\ base' \in Uses
      /\ PacketTyped' /\ packet'.task.target_agent = "none"
      /\ Len(prompt') = 0 /\ window' = << >> /\ marks' = << >>
      /\ verdict' = "none" /\ seen' = {} /\ report' = NoReport /\ passes' = 0 /\ compactions' = 0
      /\ carried' \subseteq Carried /\ Ends'
  BY Closed
<1>8. story' = story /\ made' = made /\ story \in 0..MaxStories
  OBVIOUS
<1>9. ContextTypeOK'
  <2> HIDE DEF ContextInv, Abort
  <2> QED BY <1>1, <1>2, <1>5, <1>6, <1>7, <1>8 DEF Phases
<1> QED BY <1>1, <1>4, <1>7, <1>9

LEMMA ControlKeeps ==
  ASSUME ContextInv, Control
  PROVE  ContextInv'
<1>1. UNCHANGED <<uses, index, synced, ctx>>
  BY DEF Control
<1>2. CatalogOK' /\ BuiltinsSurvive'
  BY RequestKeepsCatalog DEF ContextInv, ContextTypeOK
<1>3. IndexOK' /\ IndexFollows' /\ PacketTyped' /\ Ends'
  BY <1>1 DEF ContextInv, ContextTypeOK, IndexOK, IndexFollows, PacketTyped, Ends, Verbatim, Calls, ctx
<1> QED BY <1>1, <1>2, <1>3 DEF ContextInv, ContextTypeOK, ctx

LEMMA ContextStep ==
  ASSUME ContextInv, [ContextNext]_contextVars
  PROVE  ContextInv'
<1>1. CASE UNCHANGED contextVars
  <2>1. IndexOK' /\ CatalogOK' /\ BuiltinsSurvive' /\ IndexFollows' /\ PacketTyped' /\ Ends'
    BY <1>1 DEF ContextInv, ContextTypeOK, IndexOK, CatalogOK, BuiltinsSurvive, IndexFollows, PacketTyped,
                Ends, Verbatim, Calls, contextVars, ctx
  <2> QED BY <1>1, <2>1 DEF ContextInv, ContextTypeOK, contextVars, ctx
<1>2. CASE ContextNext
  BY <1>2, ControlKeeps, StartKeeps, CallKeeps, CompactKeeps, EditKeeps, JudgeKeeps, DebugKeeps,
     AcceptKeeps, AbortKeeps DEF ContextNext
<1> QED BY <1>1, <1>2

LEMMA ContextInvariant == ContextSpec => []ContextInv
<1>1. ContextInit => ContextInv
  BY ContextInitially
<1>2. ContextInv /\ [ContextNext]_contextVars => ContextInv'
  BY ContextStep
<1> QED BY <1>1, <1>2, PTL DEF ContextSpec

\* What an agent is told has its type in every run, whatever the requests, the
\* turns, the contracts and the bounds: no judge is shown what is kept from it,
\* and the debugger is not called past its budget.
THEOREM ContextTypeCorrect == ContextSpec => []ContextTypeOK
<1>1. ContextInv => ContextTypeOK
  BY DEF ContextInv
<1> QED BY <1>1, ContextInvariant, PTL

\* No sequence of requests takes the entry of a shipped skill away.
THEOREM ShippedSkillsSurvive == ContextSpec => []BuiltinsSurvive
<1>1. ContextInv => BuiltinsSurvive
  BY DEF ContextInv
<1> QED BY <1>1, ContextInvariant, PTL

\* The first and the newest call stay in the window word for word through any
\* number of compactions.
THEOREM EndsStayVerbatim == ContextSpec => []EndsVerbatim
<1>1. ContextInv => EndsVerbatim
  <2> SUFFICES ASSUME ContextInv, Calls > 0, Sections < KeepFirst, NEW c \in {1, Calls}
               PROVE  \E t \in Range(window) : t.calls = {c} /\ ~t.cut
    BY DEF EndsVerbatim
  <2>1. marks # << >>
    BY DEF Calls
  <2>2. \E at : Verbatim(c, at)
    BY <2>1 DEF ContextInv, Ends
  <2>3. PICK i \in DOMAIN window : window[i].calls = {c} /\ ~window[i].cut
    BY <2>2 DEF Verbatim
  <2> QED BY <2>3 DEF Range
<1> QED BY <1>1, ContextInvariant, PTL

\* The engine that is asked at a story's start knows the code as it is, so the
\* developer is told of every file that calls into those it writes.
THEOREM DependentsArePreserved == ContextSpec => PreservesDependents
<1>1. ContextInv /\ [ContextNext]_contextVars => [TellsOfDependents]_contextVars
  <2> SUFFICES ASSUME ContextInv, NEW c \in Contracts, NEW mode \in Modes, NEW host \in Machines,
                      StartStory(c, mode, host), EngineAvailable(host), synced
               PROVE  DirectUsers(uses, (c.write_set \cap Plain) \ TypesOnly)
                        \subseteq packet'.task.do_not_touch \cup c.write_set
    BY DEF TellsOfDependents
  <2>1. index = uses
    BY DEF ContextInv, IndexFollows, StartStory
  <2> DEFINE ws == c.write_set \cap Plain
             located == LocateRelevantCode(ws, c.symbols, TRUE)
             told == ComposeWithCodegraph(c, {}, Genes, TRUE)
  <2>2. packet'.task.do_not_touch = told.do_not_touch
    <3>1. EngineAvailable(host) = TRUE
      BY DEF EngineAvailable
    <3>2. packet'.task = [told EXCEPT !.relevant_files = @ \cup ForwardContractContext(c, TRUE)]
      BY <3>1 DEF StartStory
    <3> QED BY <3>2 DEF ComposeWithCodegraph, ComposeDeveloperTaskPacket
  <2>3. located.do_not_touch \subseteq told.do_not_touch
    BY DEF ComposeWithCodegraph, ComposeDeveloperTaskPacket
  <2>4. CASE ws = {}
    <3>1. DirectUsers(uses, ws \ TypesOnly) = {}
      BY <2>4 DEF DirectUsers
    <3> QED BY <3>1
  <2>5. CASE ws # {}
    <3>1. UNION {ExportedSymbols(f) : f \in ws} = ws \ TypesOnly
      BY DEF ExportedSymbols
    <3>2. EngineClient("impact", ws, TRUE) = ImpactRaw(UNION {ExportedSymbols(f) : f \in ws}) \ ws
      BY DEF EngineClient
    <3>3. ComputeImpactSet(ws, TRUE, {}) = EngineClient("impact", ws, TRUE)
      BY DEF ComputeImpactSet, FilterToReadScope
    <3>4. located.do_not_touch = ComputeImpactSet(ws, TRUE, {}) \ ws
      BY <2>5 DEF LocateRelevantCode
    <3>5. DirectUsers(uses, ws \ TypesOnly) \subseteq ImpactRaw(ws \ TypesOnly)
      BY <2>1 DEF ImpactRaw
    <3> QED BY <2>2, <2>3, <3>1, <3>2, <3>3, <3>4, <3>5
  <2> QED BY <2>4, <2>5
<1> QED BY <1>1, ContextInvariant, PTL DEF ContextSpec, PreservesDependents
=============================================================================
