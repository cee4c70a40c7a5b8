---------------------------- MODULE PlanningFlow ----------------------------
(***************************************************************************)
(* The planning flow: the stage engine of packages/planning-steward/src/   *)
(* workflow.ts behind the service of apps/api/src/planning.ts, whose       *)
(* author handler runs the author-and-advance loop of authorloop.ts.       *)
(*                                                                         *)
(* Handlers run on one event loop, so what runs between two awaits is one  *)
(* action.  An author request captures the active stage, awaits a document *)
(* from its author, and submits it to service.advance, which judges it     *)
(* for the stage that is active by then.  The await of that submission is  *)
(* a step of its own: other authors may resume before the document is      *)
(* recorded.                                                               *)
(*                                                                         *)
(* Abstracted: a document is the stage it was written for, or Operator for *)
(* one posted to /api/planning/advance; whether it satisfies a checklist   *)
(* is open, since its text is.  A ChecklistResult is its verdict and the   *)
(* document it is about.                                                   *)
(***************************************************************************)
EXTENDS WorkflowConfig

CONSTANTS
  N,            \* number of stages of configs/planning_workflow.yaml
  HasSkill,     \* [Stage -> BOOLEAN]: the stage has a doc-skill, so a checklist
  Request,      \* author requests
  Operator,     \* who wrote the documents posted to /api/planning/advance
  MaxRewrites,  \* maxRewrites of the requests
  MayReset      \* service.reset is called (no route of the API does)

Stage == 1..N

ASSUME StageAssumption == N \in Nat \ {0} /\ HasSkill \in [Stage -> BOOLEAN]
ASSUME OperatorAssumption == Operator \notin Nat
ASSUME BoundAssumption == MaxRewrites \in Nat /\ MayReset \in BOOLEAN

VARIABLES
  statuses,     \* PlanningFlowState.statuses
  checklists,   \* PlanningFlowState.checklists
  authoredDocs, \* stages with an authored document
  pc,           \* [Request -> where its handler is]
  stage,        \* [Request -> the stage it authors, 0 before]
  attempt,      \* [Request -> attempt of its loop]
  priorDocs,    \* [Request -> documents its author was given]
  answer,       \* [Request -> how it was answered]
  wasReset      \* history: the service was reset

flow == <<statuses, checklists>>
vars == <<statuses, checklists, authoredDocs, pc, stage, attempt, priorDocs, answer, wasReset>>

StageStatus == {"todo", "active", "done"}
Document == Stage \cup {Operator}
NoChecklist == [complete |-> FALSE, doc |-> 0]
ChecklistResult == [complete : BOOLEAN, doc : Document]

InitFlowState(st, cl) ==
  /\ st = [i \in Stage |-> IF i = 1 THEN "active" ELSE "todo"]
  /\ cl = [i \in Stage |-> NoChecklist]

Init ==
  /\ InitFlowState(statuses, checklists)
  /\ authoredDocs = {}
  /\ pc = [r \in Request |-> "idle"]
  /\ stage = [r \in Request |-> 0]
  /\ attempt = [r \in Request |-> 0]
  /\ priorDocs = [r \in Request |-> {}]
  /\ answer = [r \in Request |-> "none"]
  /\ wasReset = FALSE

-----------------------------------------------------------------------------
(* The engine: workflow.ts *)

IsActive(i) == i \in Stage /\ statuses[i] = "active"

IsComplete == \A i \in Stage : statuses[i] = "done"

\* advance: the active stage i is done, the next one active.
AdvanceFlow(i) ==
  statuses' = [j \in Stage |-> IF j = i THEN "done"
                               ELSE IF j = i + 1 THEN "active" ELSE statuses[j]]

\* Mutant: an incomplete checklist advances too.
AdvanceGatedAnyway(i, result) ==
  /\ checklists' = [checklists EXCEPT ![i] = result]
  /\ AdvanceFlow(i)

\* advanceGated: the verdict is recorded on the active stage either way, and
\* only a complete one advances.
AdvanceGated(i, result) ==
  /\ checklists' = [checklists EXCEPT ![i] = result]
  /\ IF result.complete THEN AdvanceFlow(i) ELSE UNCHANGED statuses

\* service.advance of a document while stage i is active; advanced is its answer.
SubmitAt(i, doc, complete, advanced) ==
  IF HasSkill[i]
    THEN /\ AdvanceGated(i, [complete |-> complete, doc |-> doc])
         /\ advanced = complete
    ELSE /\ AdvanceFlow(i)
         /\ advanced = TRUE
         /\ UNCHANGED checklists

\* service.advance, which refuses when the flow is complete.
Submit(doc, complete, advanced) ==
  \/ \E i \in Stage : IsActive(i) /\ SubmitAt(i, doc, complete, advanced)
  \/ IsComplete /\ advanced = FALSE /\ UNCHANGED flow

-----------------------------------------------------------------------------
(* The service: planning.ts *)

\* POST /api/planning/advance
Advance ==
  /\ \E complete, advanced \in BOOLEAN : Submit(Operator, complete, advanced)
  /\ UNCHANGED <<authoredDocs, pc, stage, attempt, priorDocs, answer, wasReset>>

Answer(r, how) ==
  /\ pc' = [pc EXCEPT ![r] = "answered"]
  /\ answer' = [answer EXCEPT ![r] = how]

AuthorWhenComplete(r) ==
  /\ pc[r] = "idle"
  /\ IsComplete
  /\ Answer(r, "complete")
  /\ UNCHANGED <<flow, authoredDocs, stage, attempt, priorDocs, wasReset>>

\* A stage without a doc-skill: the idea is the document.
AuthorBrief(r) ==
  /\ pc[r] = "idle"
  /\ \E i \in Stage :
       /\ IsActive(i) /\ ~HasSkill[i]
       /\ AdvanceFlow(i)
       /\ authoredDocs' = authoredDocs \cup {i}
       /\ stage' = [stage EXCEPT ![r] = i]
  /\ Answer(r, "ok")
  /\ UNCHANGED <<checklists, attempt, priorDocs, wasReset>>

\* Mutant: the stage's own document counts as a prior one.
AuthorSkillStageWithOwn(r) ==
  /\ pc[r] = "idle"
  /\ \E i \in Stage :
       /\ IsActive(i) /\ HasSkill[i]
       /\ stage' = [stage EXCEPT ![r] = i]
       /\ priorDocs' = [priorDocs EXCEPT ![r] = authoredDocs \cup {i}]
  /\ attempt' = [attempt EXCEPT ![r] = 1]
  /\ pc' = [pc EXCEPT ![r] = "authoring"]
  /\ UNCHANGED <<flow, authoredDocs, answer, wasReset>>

AuthorSkillStage(r) ==
  /\ pc[r] = "idle"
  /\ \E i \in Stage :
       /\ IsActive(i) /\ HasSkill[i]
       /\ stage' = [stage EXCEPT ![r] = i]
       /\ priorDocs' = [priorDocs EXCEPT ![r] = authoredDocs]
  /\ attempt' = [attempt EXCEPT ![r] = 1]
  /\ pc' = [pc EXCEPT ![r] = "authoring"]
  /\ UNCHANGED <<flow, authoredDocs, answer, wasReset>>

\* Mutant: a blocked document is always rewritten.
RetryForever(r) ==
  /\ pc' = [pc EXCEPT ![r] = "authoring"]
  /\ UNCHANGED <<attempt, answer>>

\* A blocked document is rewritten with the failing items until the loop gives up.
Retry(r) ==
  IF attempt[r] < MaxRewrites + 1
    THEN attempt' = [attempt EXCEPT ![r] = @ + 1] /\ UNCHANGED <<pc, answer>>
    ELSE Answer(r, "gave_up") /\ UNCHANGED attempt

\* The author delivers a document, which is submitted at once.
AuthorReturns(r) ==
  /\ pc[r] = "authoring"
  /\ \E complete, advanced \in BOOLEAN :
       /\ Submit(stage[r], complete, advanced)
       /\ IF advanced
            THEN pc' = [pc EXCEPT ![r] = "record"] /\ UNCHANGED <<attempt, answer>>
            ELSE Retry(r)
  /\ UNCHANGED <<authoredDocs, stage, priorDocs, wasReset>>

\* The author throws, and so does the handler.
AuthorThrows(r) ==
  /\ pc[r] = "authoring"
  /\ Answer(r, "rejected")
  /\ UNCHANGED <<flow, authoredDocs, stage, attempt, priorDocs, wasReset>>

\* The handler resumes after its document advanced a stage.
RecordDoc(r) ==
  /\ pc[r] = "record"
  /\ authoredDocs' = authoredDocs \cup {stage[r]}
  /\ Answer(r, "ok")
  /\ UNCHANGED <<flow, stage, attempt, priorDocs, wasReset>>

Reset ==
  /\ MayReset
  /\ InitFlowState(statuses', checklists')
  /\ authoredDocs' = {}
  /\ wasReset' = TRUE
  /\ UNCHANGED <<pc, stage, attempt, priorDocs, answer>>

Handle(r) == AuthorReturns(r) \/ AuthorThrows(r) \/ RecordDoc(r)

Next ==
  \/ Advance \/ Reset
  \/ \E r \in Request :
       AuthorWhenComplete(r) \/ AuthorBrief(r) \/ AuthorSkillStage(r) \/ Handle(r)

Spec == Init /\ [][Next]_vars

\* Handlers resume once their author settles.  That authors do settle is an
\* assumption on the engine: the handler passes no abort signal and no timeout.
FairSpec == Spec /\ \A r \in Request : WF_vars(Handle(r))

-----------------------------------------------------------------------------
(* Properties *)

\* Every variable holds a value of its type.
TypeOK ==
  /\ statuses \in [Stage -> StageStatus]
  /\ checklists \in [Stage -> ChecklistResult \cup {NoChecklist}]
  /\ authoredDocs \subseteq Stage
  /\ pc \in [Request -> {"idle", "authoring", "record", "answered"}]
  /\ stage \in [Request -> Stage \cup {0}]
  /\ attempt \in [Request -> 0..MaxRewrites + 1]
  /\ priorDocs \in [Request -> SUBSET Stage]
  /\ answer \in [Request -> {"none", "ok", "gave_up", "complete", "rejected"}]
  /\ wasReset \in BOOLEAN

\* However requests interleave, the flow is a prefix of done stages, then one
\* active stage, then todo: never two active ones, none skipped, and never
\* stuck with work left and no stage active.
StagesInOrder ==
  /\ \A i, j \in Stage : i < j /\ statuses[j] # "todo" => statuses[i] = "done"
  /\ \A i \in Stage : statuses[i] = "done" /\ i + 1 \in Stage => statuses[i + 1] # "todo"
  /\ statuses[1] # "todo"

\* The verdict on record belongs to the status: a done stage with a checklist
\* passed it, the active one has not, and a later stage was never judged.
DoneMeansPassed ==
  \A i \in Stage :
    /\ statuses[i] = "done" => checklists[i].complete = HasSkill[i]
    /\ statuses[i] = "active" => ~checklists[i].complete
    /\ statuses[i] = "todo" \/ ~HasSkill[i] => checklists[i] = NoChecklist

\* Until a reset, a document on record is of a done stage.
DocsOfDoneStages == ~wasReset => \A i \in authoredDocs : statuses[i] = "done"

\* Until a reset, an author is given documents of earlier stages only.
PriorDocsAreEarlier == ~wasReset => \A r \in Request : \A i \in priorDocs[r] : i < stage[r]

\* Whoever moves the flow, at most one more stage gets done, and a done stage
\* keeps its status and its verdict; only a reset takes them back.
DoneForGood ==
  [][\/ /\ \A i \in Stage : statuses[i] = "done" =>
             statuses'[i] = "done" /\ checklists'[i] = checklists[i]
        /\ \A i, j \in Stage : statuses[i] # "done" /\ statuses'[i] = "done" /\
             statuses[j] # "done" /\ statuses'[j] = "done" => i = j
     \/ wasReset' /\ statuses'[1] = "active" /\ authoredDocs' = {}]_vars

\* Every author request is answered, whatever the others do to the flow.
AuthorsAreAnswered == \A r \in Request : pc[r] = "authoring" ~> pc[r] = "answered"

-----------------------------------------------------------------------------
(* Claims of the repository's docs and comments the code does not keep. *)

\* docs/architecture/28_PLANNING_LLM_AUTHORING.md:59: later stages build on the
\* approved document of each earlier one, so a stage is done on a document that
\* was written for it (or that the operator posted).
DoneOnOwnDocument ==
  \A i \in Stage : checklists[i].complete => checklists[i].doc \in {i, Operator}
=============================================================================
