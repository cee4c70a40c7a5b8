-------------------------- MODULE AcceptanceProofs --------------------------
(* What holds of the two components that bring a change to the acceptance     *)
(* gates: StoryBuild, whatever the files, the symbols, the validation         *)
(* commands, the write set and the budgets, and ProviderRun, whatever the     *)
(* files, the write set, the calls and their number.                          *)
EXTENDS StoryBuild, ProviderRun, FiniteSetTheorems, TLAPS

Ended == {"cleanup", "over"}

\* No caller is told anything before the way out.
NothingTold == pc \notin Ended => result = "none"

\* The lanes share the first steps and the way out.
LanesApart ==
  /\ pc \in {"apply", "validate", "repair"} => lane # "observe"
  /\ pc = "observe" => lane = "observe"
  /\ pc = "rollback" => lane = "driver"

\* Before its first apply a lane that applies is on its baseline.
CleanBeforeApply ==
  lane # "observe" /\ pc \in {"compose", "develop", "apply"} => Changed = {}

\* Repairs are counted from the first failure only.
UncountedBeforeRepair ==
  /\ lane # "observe" /\ pc \in {"workspace", "compose", "develop", "apply", "validate"} => attempts = 0
  /\ lane = "driver" /\ pc = "repair" => attempts = 0
  /\ pc = "workspace" => attempts = 0

\* What producePatchProposal lets through to the developer's Observe.
InScope(edits) ==
  \A e \in edits : /\ e.path \in WriteSet \ TestFiles
                   /\ e.content = NoContent \/ SeedTree[e.path] \subseteq e.content
ProposalInScope == pc = "observe" => InScope(proposal.edits)

\* The inductive invariant.
Inv ==
  /\ TypeOK /\ NothingTold /\ LanesApart
  /\ CleanBeforeApply /\ UncountedBeforeRepair /\ ProposalInScope
  /\ ObservedInScope /\ FailsClean

-----------------------------------------------------------------------------
\* An output a model gives is about the files there are.
LEMMA OutputsAreTyped ==
  ASSUME NEW kind, NEW output \in Outputs(kind)
  PROVE  output.changed \in SUBSET Files /\ output.edits \in SUBSET Edits
<1>1. CASE output = [kind |-> "escalation", changed |-> {}, reversible |-> TRUE, edits |-> {}]
  BY <1>1
<1>2. CASE output # [kind |-> "escalation", changed |-> {}, reversible |-> TRUE, edits |-> {}]
  <2>1. PICK c \in SUBSET Files, r \in BOOLEAN, e \in {{}} \cup {{edit} : edit \in Edits} :
          output = [kind |-> kind, changed |-> c, reversible |-> r,
                    edits |-> IF e = {} THEN {[path |-> f, op |-> "modify", content |-> NoContent] : f \in c} ELSE e]
    BY <1>2 DEF Outputs
  <2>2. output.changed = c
    BY <2>1
  <2>3. \A f \in c : [path |-> f, op |-> "modify", content |-> NoContent] \in Edits
    BY DEF Edits
  <2>4. CASE e = {}
    BY <2>1, <2>2, <2>3, <2>4
  <2>5. CASE e # {}
    BY <2>1, <2>2, <2>5
  <2> QED BY <2>4, <2>5
<1> QED BY <1>1, <1>2

\* A validation passes exactly when every command does.
LEMMA ValidationIsExact ==
  ASSUME NEW files
  PROVE  /\ RunValidation(files) \in {"passed", "failed"}
         /\ RunValidation(files) = "passed" => \A c \in DOMAIN Needs : Passes(c, files)
BY DEF RunValidation

\* A diff turns a tree into a tree.
LEMMA DiffsAreTyped ==
  ASSUME TypeOK, NEW diff \in Diffs, ApplyPatch(diff)
  PROVE  tree' \in [Files -> Content]
BY DEF TypeOK, Diffs, ApplyPatch

\* What the composed packet of the observe lane lets through is in scope.
LEMMA ProducedIsInScope ==
  ASSUME NEW output \in Outputs("patch_proposal"), lane = "observe",
         ProducePatchProposal(output, DeveloperTaskPacket(lane))
  PROVE  InScope(output.edits)
<1>1. \A e \in output.edits :
        /\ e.path \in PathsOf(output) /\ e.path \in Files
        /\ e.op # "delete" /\ ~RemovesExports(e, DeveloperTaskPacket(lane))
  BY OutputsAreTyped DEF PathsOf, ProducePatchProposal, Edits
<1>2. PathsOf(output) \subseteq WriteSet /\ PathsOf(output) \cap TestFiles = {}
  BY DEF ProducePatchProposal, DeveloperTaskPacket
<1> QED BY <1>1, <1>2 DEF InScope, RemovesExports, DeveloperTaskPacket

-----------------------------------------------------------------------------
LEMMA InitEstablishes == Init => Inv
<1> SUFFICES ASSUME Init PROVE Inv
  OBVIOUS
<1> USE DEF Init
<1>1. TypeOK
  BY StoryBuildAssumption DEF TypeOK, Content, Proposals, NoProposal, Results, Budget
<1> QED BY <1>1 DEF Inv, NothingTold, LanesApart, CleanBeforeApply,
     UncountedBeforeRepair, ProposalInScope, ObservedInScope, FailsClean, Ended

LEMMA SeedWorkspaceKeeps == Inv /\ SeedWorkspace => Inv'
<1> SUFFICES ASSUME Inv, SeedWorkspace PROVE Inv'
  OBVIOUS
<1> USE DEF Inv, SeedWorkspace, Goto
<1>1. TypeOK'
  BY StoryBuildAssumption DEF TypeOK, Budget
<1>2. Changed' = {} /\ result' = "none" /\ attempts' = 0
  BY DEF Changed, NothingTold, Ended, UncountedBeforeRepair
<1> QED BY <1>1, <1>2 DEF NothingTold, LanesApart, CleanBeforeApply,
     UncountedBeforeRepair, ProposalInScope, ObservedInScope, FailsClean, Ended

LEMMA ComposeKeeps == Inv /\ Compose => Inv'
<1> SUFFICES ASSUME Inv, Compose PROVE Inv'
  OBVIOUS
<1> USE DEF Inv, Compose, Goto, Return
<1>1. TypeOK'
  BY DEF TypeOK, Budget, Results
<1>2. Changed' = Changed /\ result = "none" /\ result' \in {"none", "threw"}
  BY DEF Changed, NothingTold, Ended
<1> QED BY <1>1, <1>2 DEF NothingTold, LanesApart, CleanBeforeApply,
     UncountedBeforeRepair, ProposalInScope, ObservedInScope, FailsClean, Ended

LEMMA DevelopKeeps == Inv /\ Develop => Inv'
<1> SUFFICES ASSUME Inv, Develop PROVE Inv'
  OBVIOUS
<1>1. /\ pc = "develop" /\ UNCHANGED <<lane, fields, workspace, tree, attempts, verdict>>
      /\ Changed' = Changed /\ result = "none"
  BY DEF Inv, Develop, Goto, Return, Changed, NothingTold, Ended
<1>2. PICK output \in Outputs("patch_proposal") :
        /\ proposal' = proposal \/ proposal' = [changed |-> output.changed, edits |-> output.edits]
        /\ \/ /\ lane = "observe" /\ pc' = "observe" /\ result' = result
              /\ proposal'.edits = output.edits /\ ProducePatchProposal(output, DeveloperTaskPacket(lane))
           \/ lane # "observe" /\ pc' = "apply" /\ result' = result
           \/ pc' = "cleanup" /\ result' \in {"failed", "escalated"}
  BY DEF Develop, Goto, Return
<1>3. proposal' \in Proposals
  BY <1>2, OutputsAreTyped DEF Proposals, Inv, TypeOK
<1>4. advice' \in {"none", "submit", "self_correct", "escalate"}
  BY DEF Develop, DecidePreflightNext, Inv, TypeOK
<1>5. TypeOK'
  BY <1>1, <1>2, <1>3, <1>4 DEF Inv, TypeOK, Budget, Results
<1>6. lane # "observe" => Changed = {} /\ attempts = 0
  BY <1>1 DEF Inv, CleanBeforeApply, UncountedBeforeRepair
<1>7. ProposalInScope'
  BY <1>1, <1>2, ProducedIsInScope DEF ProposalInScope, InScope
<1>8. ObservedInScope'
  BY <1>1, <1>2 DEF Inv, ObservedInScope
<1> QED BY <1>1, <1>2, <1>5, <1>6, <1>7, <1>8 DEF Inv, NothingTold, LanesApart, CleanBeforeApply,
     UncountedBeforeRepair, FailsClean, Ended

LEMMA ApplyKeeps == Inv /\ Apply => Inv'
<1> SUFFICES ASSUME Inv, Apply PROVE Inv'
  OBVIOUS
<1>1. /\ pc = "apply" /\ lane # "observe" /\ attempts = 0 /\ Changed = {} /\ result = "none"
      /\ UNCHANGED <<lane, fields, workspace, proposal, attempts, verdict, advice>>
  BY DEF Inv, Apply, Goto, Return, LanesApart, UncountedBeforeRepair, CleanBeforeApply, NothingTold, Ended
<1>3. CASE tree' = tree /\ pc' = "cleanup" /\ result' \in {"failed", "threw"}
  <2>1. TypeOK' /\ Changed' = Changed
    BY <1>1, <1>3 DEF Inv, TypeOK, Budget, Results, Changed
  <2> QED BY <1>1, <1>3, <2>1 DEF Inv, NothingTold, LanesApart, CleanBeforeApply,
       UncountedBeforeRepair, ProposalInScope, ObservedInScope, FailsClean, Ended
<1>4. CASE /\ ApplyAllows(proposal.changed) /\ pc' = "validate" /\ result' = result
           /\ \E diff \in Diffs : ApplyPatch(diff)
  <2>1. tree' \in [Files -> Content]
    BY <1>4, DiffsAreTyped DEF Inv
  <2>2. TypeOK'
    BY <1>1, <1>4, <2>1 DEF Inv, TypeOK, Budget, Results
  <2> QED BY <1>1, <1>4, <2>1, <2>2 DEF Inv, NothingTold, LanesApart, CleanBeforeApply,
       UncountedBeforeRepair, ProposalInScope, ObservedInScope, FailsClean, Ended
<1> QED BY <1>3, <1>4 DEF Apply, Goto, Return

\* Validate and Revalidate: a verdict on a tree that stays as it is.
LEMMA VerdictKeeps == Inv /\ (Validate \/ Revalidate) => Inv'
<1> SUFFICES ASSUME Inv, Validate \/ Revalidate PROVE Inv'
  OBVIOUS
<1>1. /\ pc \in {"validate", "revalidate"} /\ lane # "observe" /\ result = "none"
      /\ UNCHANGED <<lane, fields, workspace, tree, proposal, attempts, advice>>
      /\ verdict' = RunValidation(tree)
  BY DEF Inv, Validate, Revalidate, Goto, Return, LanesApart, NothingTold, Ended
<1>2. \/ verdict' = "passed" /\ pc' = "cleanup" /\ result' = "checkpoint"
      \/ pc = "validate" /\ pc' = "repair" /\ result' = result
      \/ pc = "revalidate" /\ lane = "driver" /\ pc' = "rollback" /\ result' = result
  BY DEF Validate, Revalidate, Goto, Return
<1>3. Changed' = Changed
  BY <1>1 DEF Changed
<1>4. verdict' \in {"passed", "failed"}
  BY <1>1, ValidationIsExact
<1>5. TypeOK'
  BY <1>1, <1>2, <1>4 DEF Inv, TypeOK, Budget, Results
<1> QED BY <1>1, <1>2, <1>3, <1>5 DEF Inv, NothingTold, LanesApart, CleanBeforeApply,
     UncountedBeforeRepair, ProposalInScope, ObservedInScope, FailsClean, Ended

LEMMA DriverRepairKeeps == Inv /\ DriverRepair => Inv'
<1> SUFFICES ASSUME Inv, DriverRepair PROVE Inv'
  OBVIOUS
<1>1. pc = "repair" /\ lane = "driver" /\ attempts = 0 /\ result = "none"
  BY DEF Inv, DriverRepair, UncountedBeforeRepair, NothingTold, Ended
<1>2. PICK output \in Outputs("repair_proposal") :
        IF ~ProduceRepairProposal(output, AllowedRepairScope(proposal.changed))
             \/ ~ApplyAllows(output.changed)
          THEN FailRepair
          ELSE /\ attempts' = attempts + 1
               /\ proposal' = [changed |-> output.changed, edits |-> output.edits]
               /\ \E diff \in Diffs :
                    IF Fits(diff) THEN ApplyPatch(diff) /\ Goto("revalidate") /\ UNCHANGED result
                                  ELSE Return("threw") /\ UNCHANGED tree
               /\ UNCHANGED <<workspace, verdict, advice>>
  BY DEF DriverRepair
<1>3. output.changed \in SUBSET Files /\ output.edits \in SUBSET Edits
  BY OutputsAreTyped
<1>4. CASE FailRepair
  <2>1. TypeOK' /\ Changed' = Changed
    BY <1>1, <1>4 DEF FailRepair, Goto, Inv, TypeOK, Budget, Results, Changed
  <2> QED BY <1>1, <1>4, <2>1 DEF FailRepair, Goto, Inv, NothingTold, LanesApart,
       CleanBeforeApply, UncountedBeforeRepair, ProposalInScope, ObservedInScope, FailsClean, Ended
<1>5. CASE /\ ApplyAllows(output.changed) /\ attempts' = 1
           /\ proposal' = [changed |-> output.changed, edits |-> output.edits]
           /\ UNCHANGED <<lane, fields, workspace, verdict, advice>>
           /\ \/ \E diff \in Diffs : ApplyPatch(diff) /\ pc' = "revalidate" /\ result' = result
              \/ tree' = tree /\ pc' = "cleanup" /\ result' = "threw"
  <2>1. tree' \in [Files -> Content]
    <3>1. CASE tree' = tree
      BY <3>1 DEF Inv, TypeOK
    <3>2. CASE \E diff \in Diffs : ApplyPatch(diff)
      BY <3>2, DiffsAreTyped DEF Inv
    <3> QED BY <1>5, <3>1, <3>2
  <2>2. TypeOK'
    BY <1>1, <1>3, <1>5, <2>1 DEF Inv, TypeOK, Budget, Results, Proposals
  <2> QED BY <1>1, <1>5, <2>1, <2>2 DEF Inv, NothingTold, LanesApart, CleanBeforeApply,
       UncountedBeforeRepair, ProposalInScope, ObservedInScope, FailsClean, Ended
<1>6. CASE ~FailRepair
  BY <1>1, <1>2, <1>5, <1>6 DEF Goto, Return
<1> QED BY <1>4, <1>6

LEMMA DebugLoopKeeps == Inv /\ (DebugLoopRepair \/ DebugLoopExhausted) => Inv'
<1> SUFFICES ASSUME Inv, DebugLoopRepair \/ DebugLoopExhausted PROVE Inv'
  OBVIOUS
<1>1. /\ pc = "repair" /\ lane = "full" /\ result = "none"
      /\ UNCHANGED <<lane, fields, workspace, advice>>
      /\ attempts' \in {attempts, attempts + 1} /\ (attempts' # attempts => attempts < MaxAttempts)
  BY DEF Inv, DebugLoopRepair, DebugLoopExhausted, AttemptsLeft, Goto, Return, NothingTold, Ended
<1>2. attempts' \in 0..Budget'
  BY <1>1, StoryBuildAssumption DEF Inv, TypeOK, Budget
<1>3. CASE /\ UNCHANGED <<tree, verdict>> /\ proposal' \in Proposals
           /\ \/ pc' = "cleanup" /\ result' = "failed"
              \/ pc' = "repair" /\ result' = result
  <2>1. TypeOK' /\ Changed' = Changed
    BY <1>1, <1>2, <1>3 DEF Inv, TypeOK, Results, Changed
  <2> QED BY <1>1, <1>3, <2>1 DEF Inv, NothingTold, LanesApart, CleanBeforeApply,
       UncountedBeforeRepair, ProposalInScope, ObservedInScope, FailsClean, Ended
<1>4. CASE /\ proposal' \in Proposals /\ verdict' = RunValidation(tree')
           /\ \E diff \in Diffs : ApplyPatch(diff)
           /\ \/ verdict' = "passed" /\ pc' = "cleanup" /\ result' = "checkpoint"
              \/ pc' = "repair" /\ result' = result
  <2>1. tree' \in [Files -> Content]
    BY <1>4, DiffsAreTyped DEF Inv
  <2>2. verdict' \in {"passed", "failed"}
    BY <1>4, ValidationIsExact
  <2>3. TypeOK'
    BY <1>1, <1>2, <1>4, <2>1, <2>2 DEF Inv, TypeOK, Results
  <2> QED BY <1>1, <1>4, <2>3 DEF Inv, NothingTold, LanesApart, CleanBeforeApply,
       UncountedBeforeRepair, ProposalInScope, ObservedInScope, FailsClean, Ended
<1>5. CASE DebugLoopExhausted
  BY <1>3, <1>5 DEF DebugLoopExhausted, Return, Goto, Inv, TypeOK
<1>6. CASE DebugLoopRepair
  <2>1. CASE Return("failed") /\ UNCHANGED <<tree, proposal, verdict>>
    BY <1>3, <2>1 DEF Return, Goto, Inv, TypeOK
  <2>2. ASSUME NEW changed \in SUBSET Files,
               /\ proposal' = [changed |-> changed, edits |-> {}]
               /\ \E diff \in Diffs :
                    IF ApplyAllows(changed) /\ Fits(diff)
                      THEN /\ ApplyPatch(diff)
                           /\ verdict' = RunValidation(tree')
                           /\ IF verdict' = "passed" THEN Return("checkpoint")
                              ELSE Goto("repair") /\ UNCHANGED result
                      ELSE Goto("repair") /\ UNCHANGED <<tree, verdict, result>>
        PROVE  Inv'
    <3>1. proposal' \in Proposals
      BY <2>2 DEF Proposals
    <3> QED BY <1>3, <1>4, <2>2, <3>1 DEF Return, Goto
  <2> QED BY <1>6, <2>1, <2>2 DEF DebugLoopRepair
<1> QED BY <1>5, <1>6

LEMMA ObserveKeeps == Inv /\ Observe => Inv'
<1> SUFFICES ASSUME Inv, Observe PROVE Inv'
  OBVIOUS
<1>1. /\ pc = "observe" /\ lane = "observe" /\ result = "none"
      /\ UNCHANGED <<lane, fields, workspace, proposal>>
  BY DEF Inv, Observe, Goto, Return, NothingTold, LanesApart, Ended
<1>2. tree' \in [Files -> Content]
  <2>1. \A e \in proposal.edits : e.content = NoContent \/ e.content \in Content
    BY DEF Inv, TypeOK, Proposals, Edits
  <2>2. {} \in Content
    BY DEF Content
  <2>3. \A f \in Files : tree[f] \in Content
    BY DEF Inv, TypeOK
  <2>4. tree' = EditedTree(proposal.edits)
    BY DEF Observe
  <2>5. ASSUME NEW f \in Files
        PROVE  LET here == {e \in proposal.edits : e.path = f} IN
               (IF here = {} THEN tree[f]
                ELSE LET e == CHOOSE e \in here : TRUE IN
                     IF e.op = "delete" \/ e.content = NoContent THEN {} ELSE e.content) \in Content
    <3> DEFINE here == {e \in proposal.edits : e.path = f}
    <3>1. CASE here = {}
      BY <2>3, <3>1
    <3>2. CASE here # {}
      <4>1. (CHOOSE e \in here : TRUE) \in here
        BY <3>2
      <4> QED BY <2>1, <2>2, <3>2, <4>1
    <3> QED BY <3>1, <3>2
  <2> QED BY <2>4, <2>5 DEF EditedTree
<1>3. Changed' \subseteq WriteSet \ TestFiles /\ \A f \in Files : SeedTree[f] \subseteq tree'[f] \/ tree'[f] = {}
  <2>1. tree' = EditedTree(proposal.edits) /\ InScope(proposal.edits)
    BY <1>1 DEF Observe, Inv, ProposalInScope
  <2>2. Changed \subseteq WriteSet \ TestFiles /\ \A f \in Files : SeedTree[f] \subseteq tree[f] \/ tree[f] = {}
    BY <1>1 DEF Inv, ObservedInScope
  <2>3. ASSUME NEW f \in Files
        PROVE  /\ tree'[f] # SeedTree[f] => f \in WriteSet \ TestFiles
               /\ SeedTree[f] \subseteq tree'[f] \/ tree'[f] = {}
    <3> DEFINE here == {e \in proposal.edits : e.path = f}
    <3>1. CASE here = {}
      <4>1. tree'[f] = tree[f]
        BY <2>1, <3>1 DEF EditedTree
      <4> QED BY <2>2, <4>1 DEF Changed
    <3>2. CASE here # {}
      <4> DEFINE e == CHOOSE e \in here : TRUE
      <4>1. e \in here
        BY <3>2
      <4>2. tree'[f] = IF e.op = "delete" \/ e.content = NoContent THEN {} ELSE e.content
        BY <2>1, <3>2 DEF EditedTree
      <4> HIDE DEF e
      <4> QED BY <2>1, <4>1, <4>2 DEF InScope
    <3> QED BY <3>1, <3>2
  <2> QED BY <2>3 DEF Changed
<1>4. \/ result' # "submit"
      \/ \A c \in DOMAIN Needs : Passes(c, tree')
  <2>1. PICK typecheck \in BOOLEAN :
          LET passed == typecheck /\ RunValidation(tree') = "passed" IN
          CASE passed -> Return("submit") /\ UNCHANGED attempts
            [] ~passed /\ attempts >= MaxCorrections -> Return("escalated") /\ UNCHANGED attempts
            [] OTHER -> attempts' = attempts + 1 /\ Goto("develop") /\ UNCHANGED result
    BY DEF Observe
  <2>2. CASE RunValidation(tree') = "passed"
    BY <2>2, ValidationIsExact
  <2>3. CASE RunValidation(tree') # "passed"
    <3>1. result' \in {"escalated", "none"}
      BY <1>1, <2>1, <2>3 DEF Return
    <3> QED BY <3>1
  <2> QED BY <2>2, <2>3
<1>5. /\ verdict' \in {"passed", "failed"}
      /\ advice' \in {"submit", "self_correct", "escalate"}
  BY DEF Observe, DecidePreflightNext
<1>6. \/ pc' = "cleanup" /\ result' \in {"submit", "escalated"} /\ attempts' = attempts
      \/ pc' = "develop" /\ result' = result /\ attempts' = attempts + 1 /\ attempts < MaxCorrections
  <2>1. PICK typecheck \in BOOLEAN :
          LET passed == typecheck /\ RunValidation(tree') = "passed" IN
          CASE passed -> Return("submit") /\ UNCHANGED attempts
            [] ~passed /\ attempts >= MaxCorrections -> Return("escalated") /\ UNCHANGED attempts
            [] OTHER -> attempts' = attempts + 1 /\ Goto("develop") /\ UNCHANGED result
    BY DEF Observe
  <2> DEFINE passed == typecheck /\ RunValidation(tree') = "passed"
  <2>2. CASE passed
    BY <2>1, <2>2 DEF Return, Goto
  <2>3. CASE ~passed /\ attempts >= MaxCorrections
    BY <2>1, <2>3 DEF Return, Goto
  <2>4. CASE ~passed /\ ~(attempts >= MaxCorrections)
    <3>1. attempts < MaxCorrections
      BY <1>1, <2>4, StoryBuildAssumption DEF Inv, TypeOK, Budget
    <3>2. attempts' = attempts + 1 /\ Goto("develop") /\ UNCHANGED result
      BY <2>1, <2>4
    <3> QED BY <3>1, <3>2 DEF Goto
  <2> QED BY <2>2, <2>3, <2>4
<1>7. TypeOK'
  BY <1>1, <1>2, <1>5, <1>6, StoryBuildAssumption DEF Inv, TypeOK, Budget, Results
<1>8. ObservedInScope'
  BY <1>3, <1>4 DEF ObservedInScope
<1> QED BY <1>1, <1>6, <1>7, <1>8 DEF Inv, NothingTold, LanesApart, CleanBeforeApply,
     UncountedBeforeRepair, ProposalInScope, FailsClean, Ended

\* The steps that read and write no file: the rollback and the way out.
LEMMA WayOutKeeps == Inv /\ (Rollback \/ Cleanup) => Inv'
<1> SUFFICES ASSUME Inv, Rollback \/ Cleanup PROVE Inv'
  OBVIOUS
<1>1. /\ pc \in {"rollback", "cleanup"} /\ pc' \in Ended
      /\ UNCHANGED <<lane, fields, tree, proposal, attempts, verdict, advice>>
      /\ workspace' \in {workspace, "removed"} /\ result' \in {result, "rolled_back"}
  BY DEF Rollback, Cleanup, Return, Goto, Ended
<1>2. TypeOK' /\ Changed' = Changed
  BY <1>1 DEF Inv, TypeOK, Budget, Results, Changed, Ended
<1> QED BY <1>1, <1>2 DEF Inv, NothingTold, LanesApart, CleanBeforeApply,
     UncountedBeforeRepair, ProposalInScope, ObservedInScope, FailsClean, Ended

\* Inv is an invariant of every instance.
THEOREM InvariantHolds == Spec => []Inv
<1>1. Inv /\ [Next]_vars => Inv'
  <2> SUFFICES ASSUME Inv, [Next]_vars PROVE Inv'
    OBVIOUS
  <2>1. CASE UNCHANGED vars
    BY <2>1 DEF vars, Inv, TypeOK, Budget, NothingTold, LanesApart, CleanBeforeApply,
      UncountedBeforeRepair, ProposalInScope, ObservedInScope, FailsClean, Changed, Passes
  <2> QED BY <2>1, SeedWorkspaceKeeps, ComposeKeeps, DevelopKeeps, ApplyKeeps, VerdictKeeps,
       DriverRepairKeeps, DebugLoopKeeps, ObserveKeeps, WayOutKeeps DEF Next
<1> QED BY <1>1, InitEstablishes, PTL DEF Spec

\* TypeOK: every variable has its type and the attempts stay in their budget.
THEOREM TypeCorrect == Spec => []TypeOK
BY InvariantHolds, PTL DEF Inv

\* FailsClean: a driver's run that failed without a rollback changed nothing.
THEOREM FailuresAreClean == Spec => []FailsClean
BY InvariantHolds, PTL DEF Inv

\* ObservedInScope: over all its rounds the developer's Observe changes files of
\* the write set that are no tests, and submits what runs green on all of it.
THEOREM ObservedStaysInScope == Spec => []ObservedInScope
BY InvariantHolds, PTL DEF Inv

-----------------------------------------------------------------------------
(* A provider's run. *)

\* The indices of the events of a kind that are about a call.
EventsOf(kind, c) == {i \in DOMAIN events : events[i].kind = kind /\ events[i].call = c}

\* The exit gate decides last, and a run that is done was decided.
DecidedLast ==
  /\ step \in {"barrier", "sandbox", "stream", "collect"} => decision = "none"
  /\ step = "done" => decision # "none"

\* A call has one call event once it is made and one result once it is closed.
OneEventEach ==
  \A c \in Calls :
    /\ IF At(c, "unused") THEN EventsOf("call", c) = {}
                          ELSE \E i \in DOMAIN events : EventsOf("call", c) = {i}
    /\ IF At(c, "closed") THEN \E i \in DOMAIN events : EventsOf("result", c) = {i}
                          ELSE EventsOf("result", c) = {}

\* The stop hook speaks last.
StopHookLast ==
  /\ step \in {"barrier", "sandbox"} => events = <<>>
  /\ step = "stream" => \A i \in DOMAIN events : events[i].kind # "stop_blocked"

\* A report that was permitted is in the audit.
ReportAllowed ==
  \E i \in DOMAIN audit : audit[i].decision = "allow" /\ calls[audit[i].call].tool = "report"

\* What the mediator's flag knows: it is set by the executor, between the
\* permission and the record; a driver's call that is neither executed nor
\* thrown has its record.
FlagTellsAudit ==
  /\ \A i \in DOMAIN audit : ~At(audit[i].call, "unused")
  /\ ReportAllowed => reportSeen
  /\ \A c \in Calls : At(c, "post") /\ calls[c].tool = "report" => reportSeen
  /\ wiring = "driver" /\ reportSeen =>
       ReportAllowed \/ \E c \in Calls : calls[c].tool = "report" /\ calls[c].at \in {"post", "threw"}

\* The stop hook of a driver's run that got past its stream.
HookTellsAudit ==
  wiring = "driver" /\ (step = "collect" \/ decision # "none") /\ events # <<>> =>
    (events[Len(events)].kind = "stop_blocked" <=> ~ReportAllowed)

\* The part of the inductive invariant that tells the events and the flag.
RunInv ==
  /\ ProviderTypeOK /\ DecidedLast
  /\ OneEventEach /\ StopHookLast /\ FlagTellsAudit /\ HookTellsAudit

\* What Append does to the events of a kind about a call.
LEMMA EventsOfAppend ==
  ASSUME ProviderTypeOK, NEW e \in Events, events' = Append(events, e),
         NEW kind, NEW c
  PROVE  EventsOf(kind, c)' =
           EventsOf(kind, c) \cup (IF e.kind = kind /\ e.call = c THEN {Len(events) + 1} ELSE {})
<1>1. /\ events \in Seq(Events)
      /\ DOMAIN events = 1..Len(events) /\ Len(events) \in Nat
      /\ DOMAIN events' = 1..(Len(events) + 1)
      /\ events'[Len(events) + 1] = e
      /\ \A i \in 1..Len(events) : events'[i] = events[i]
  BY DEF ProviderTypeOK
<1>2. Len(events) + 1 \in DOMAIN events'
  BY <1>1
<1>3. 1..(Len(events) + 1) = (1..Len(events)) \cup {Len(events) + 1}
  BY <1>1
<1> QED BY <1>1, <1>2, <1>3 DEF EventsOf

\* A call that moves within the mediator, with no event, keeps one event each.
LEMMA MovesKeepEvents ==
  ASSUME ProviderTypeOK, OneEventEach, NEW c \in Calls, NEW place,
         ~At(c, "unused"), ~At(c, "closed"), place \notin {"unused", "closed"},
         Moves(c, place), UNCHANGED events
  PROVE  OneEventEach'
<1>1. \A d \in Calls : /\ At(d, "unused")' <=> At(d, "unused")
                       /\ At(d, "closed")' <=> At(d, "closed")
  BY DEF ProviderTypeOK, Moves, At
<1> QED BY <1>1 DEF OneEventEach, EventsOf

LEMMA ClosingKeepsEvents ==
  ASSUME ProviderTypeOK, OneEventEach, NEW c \in Calls,
         ~At(c, "unused"), ~At(c, "closed"),
         Moves(c, "closed"), Emits("result", c)
  PROVE  OneEventEach'
<1>1. \A d \in Calls : /\ At(d, "unused")' <=> At(d, "unused")
                       /\ At(d, "closed")' <=> (d = c \/ At(d, "closed"))
  BY DEF ProviderTypeOK, Moves, At
<1>2. \A d \in Calls : /\ EventsOf("call", d)' = EventsOf("call", d)
                       /\ EventsOf("result", d)' =
                            EventsOf("result", d) \cup (IF c = d THEN {Len(events) + 1} ELSE {})
  <2>1. [kind |-> "result", call |-> c] \in Events
    BY DEF Events
  <2> DEFINE e == [kind |-> "result", call |-> c]
  <2>2. e \in Events /\ events' = Append(events, e) /\ e.kind = "result" /\ e.call = c
    BY <2>1 DEF Emits
  <2> HIDE DEF e
  <2>3. \A kind, d : EventsOf(kind, d)' =
           EventsOf(kind, d) \cup (IF e.kind = kind /\ e.call = d THEN {Len(events) + 1} ELSE {})
    BY <2>2, EventsOfAppend
  <2> QED BY <2>2, <2>3
<1>3. DOMAIN events \subseteq DOMAIN events' /\ Len(events) + 1 \in DOMAIN events'
  BY DEF ProviderTypeOK, Emits
<1>4. EventsOf("result", c) = {}
  BY DEF OneEventEach
<1>5. ASSUME NEW d \in Calls
      PROVE  IF At(d, "unused")' THEN EventsOf("call", d)' = {}
                                 ELSE \E i \in DOMAIN events' : EventsOf("call", d)' = {i}
  BY <1>1, <1>2, <1>3 DEF OneEventEach
<1>6. ASSUME NEW d \in Calls
      PROVE  IF At(d, "closed")' THEN \E i \in DOMAIN events' : EventsOf("result", d)' = {i}
                                 ELSE EventsOf("result", d)' = {}
  <2>1. CASE d = c
    BY <2>1, <1>1, <1>2, <1>3, <1>4
  <2>2. CASE d # c
    BY <2>2, <1>1, <1>2, <1>3 DEF OneEventEach
  <2> QED BY <2>1, <2>2
<1> QED BY <1>5, <1>6 DEF OneEventEach

\* Making a call adds its one call event.
LEMMA IssuingKeepsEvents ==
  ASSUME ProviderTypeOK, OneEventEach, NEW c \in Calls, Issue(c)
  PROVE  OneEventEach'
<1>1. PICK tool \in Tools, files \in SUBSET Files, formed \in BOOLEAN :
        calls' = [calls EXCEPT ![c] =
          [at |-> IF wiring = "sdk" /\ tool \notin Surface THEN "threw" ELSE "pre",
           tool |-> tool, files |-> files, formed |-> formed, echoed |-> FALSE]]
  BY DEF Issue
<1>2. /\ \A d \in Calls : /\ At(d, "unused")' <=> (d # c /\ At(d, "unused"))
                          /\ At(d, "closed")' <=> At(d, "closed")
      /\ At(c, "unused")
  BY <1>1 DEF ProviderTypeOK, Issue, At
<1>3. \A d \in Calls : /\ EventsOf("result", d)' = EventsOf("result", d)
                       /\ EventsOf("call", d)' =
                            EventsOf("call", d) \cup (IF c = d THEN {Len(events) + 1} ELSE {})
  <2> DEFINE e == [kind |-> "call", call |-> c]
  <2>1. e \in Events /\ events' = Append(events, e) /\ e.kind = "call" /\ e.call = c
    BY DEF Events, Issue, Emits
  <2> HIDE DEF e
  <2>2. \A kind, d : EventsOf(kind, d)' =
           EventsOf(kind, d) \cup (IF e.kind = kind /\ e.call = d THEN {Len(events) + 1} ELSE {})
    BY <2>1, EventsOfAppend
  <2> QED BY <2>1, <2>2
<1>4. DOMAIN events \subseteq DOMAIN events' /\ Len(events) + 1 \in DOMAIN events'
  BY DEF ProviderTypeOK, Emits, Issue
<1>5. EventsOf("call", c) = {}
  BY <1>2 DEF OneEventEach
<1>6. ASSUME NEW d \in Calls
      PROVE  IF At(d, "unused")' THEN EventsOf("call", d)' = {}
                                 ELSE \E i \in DOMAIN events' : EventsOf("call", d)' = {i}
  <2>1. CASE d = c
    BY <2>1, <1>2, <1>3, <1>4, <1>5
  <2>2. CASE d # c
    BY <2>2, <1>2, <1>3, <1>4 DEF OneEventEach
  <2> QED BY <2>1, <2>2
<1>7. ASSUME NEW d \in Calls
      PROVE  IF At(d, "closed")' THEN \E i \in DOMAIN events' : EventsOf("result", d)' = {i}
                                 ELSE EventsOf("result", d)' = {}
  BY <1>2, <1>3, <1>4 DEF OneEventEach
<1> QED BY <1>6, <1>7 DEF OneEventEach

\* The stop hook's event is about no call.
LEMMA BlockingKeepsEvents ==
  ASSUME ProviderTypeOK, OneEventEach, UNCHANGED calls,
         events' = Append(events, [kind |-> "stop_blocked"])
  PROVE  OneEventEach'
<1> DEFINE e == [kind |-> "stop_blocked"]
<1>1. e \in Events /\ events' = Append(events, e) /\ e.kind = "stop_blocked"
  BY DEF Events
<1>2. DOMAIN events \subseteq DOMAIN events'
  BY DEF ProviderTypeOK
<1> HIDE DEF e
<1>3. \A kind, d : EventsOf(kind, d)' =
         EventsOf(kind, d) \cup (IF e.kind = kind /\ e.call = d THEN {Len(events) + 1} ELSE {})
  BY <1>1, EventsOfAppend
<1>4. \A d : EventsOf("call", d)' = EventsOf("call", d) /\ EventsOf("result", d)' = EventsOf("result", d)
  BY <1>1, <1>3
<1> QED BY <1>2, <1>4 DEF OneEventEach, At

LEMMA AuditTyped ==
  ASSUME ProviderTypeOK
  PROVE  \A i \in DOMAIN audit : audit[i].call \in Calls
<1>1. \A r \in AuditRecords : r.call \in Calls
  BY DEF AuditRecords
<1>2. \A i \in DOMAIN audit : audit[i] \in AuditRecords
  BY DEF ProviderTypeOK
<1> QED BY <1>1, <1>2

\* A step of the mediator that neither executes nor records an allowed call.
LEMMA FlagKept ==
  ASSUME ProviderTypeOK, FlagTellsAudit, UNCHANGED <<wiring, reportSeen, audit>>,
         calls' \in [Calls -> CallRecords],
         \A d \in Calls :
           \/ calls'[d] = calls[d]
           \/ /\ calls[d].at = "unused" /\ calls'[d].at \in {"pre", "threw"}
           \/ /\ calls[d].at \notin {"unused", "post", "threw"}
              /\ calls'[d].at \notin {"unused", "post"}
              /\ calls'[d].tool = calls[d].tool
  PROVE  FlagTellsAudit' /\ (ReportAllowed' <=> ReportAllowed)
<1>1. \A i \in DOMAIN audit : audit[i].call \in Calls
  BY AuditTyped
<1>2. \A i \in DOMAIN audit : calls'[audit[i].call].at # "unused"
                              /\ calls'[audit[i].call].tool = calls[audit[i].call].tool
  BY <1>1 DEF FlagTellsAudit, At
<1>3. ReportAllowed' <=> ReportAllowed
  BY <1>2 DEF ReportAllowed
<1>4. \A c \in Calls : At(c, "post")' /\ calls'[c].tool = "report" => reportSeen
  BY DEF FlagTellsAudit, At
<1>5. \A c \in Calls : calls[c].at \in {"post", "threw"} => calls'[c] = calls[c]
  OBVIOUS
<1>6. wiring' = "driver" /\ reportSeen' =>
        ReportAllowed' \/ \E c \in Calls : calls'[c].tool = "report" /\ calls'[c].at \in {"post", "threw"}
  BY <1>3, <1>5 DEF FlagTellsAudit
<1>7. (\A i \in DOMAIN audit : ~At(audit[i].call, "unused"))'
  BY <1>2 DEF At
<1>8. ReportAllowed' => reportSeen'
  BY <1>3 DEF FlagTellsAudit
<1>9. (\A c \in Calls : At(c, "post") /\ calls[c].tool = "report" => reportSeen)'
  BY <1>4 DEF At
<1> QED BY <1>3, <1>6, <1>7, <1>8, <1>9 DEF FlagTellsAudit

\* What a record adds to the audit.
LEMMA RecordedCall ==
  ASSUME ProviderTypeOK, FlagTellsAudit, NEW c \in Calls, NEW said \in {"allow", "deny"},
         ~At(c, "unused"), Moves(c, "answer"), Records(c, said)
  PROVE  /\ audit' \in Seq(AuditRecords)
         /\ (\A i \in DOMAIN audit : ~At(audit[i].call, "unused"))'
         /\ ReportAllowed' <=> ReportAllowed \/ (said = "allow" /\ calls[c].tool = "report")
<1> DEFINE r == [call |-> c, decision |-> said,
                 whitelisted |-> IsWhitelisted(calls[c].tool, Surface)]
<1>1. r \in AuditRecords
  BY DEF IsWhitelisted, AuditRecords
<1>2. audit' = Append(audit, r) /\ r.call = c /\ r.decision = said
  BY DEF Records
<1> HIDE DEF r
<1>3. audit' \in Seq(AuditRecords)
  BY <1>1, <1>2 DEF ProviderTypeOK
<1>4. /\ DOMAIN audit' = DOMAIN audit \cup {Len(audit) + 1}
      /\ audit'[Len(audit) + 1] = r
      /\ \A i \in DOMAIN audit : audit'[i] = audit[i]
  BY <1>2 DEF ProviderTypeOK
<1>5. \A d \in Calls : /\ calls'[d].tool = calls[d].tool
                       /\ calls[d].at # "unused" => calls'[d].at # "unused"
  BY DEF Moves, ProviderTypeOK
<1>6. \A i \in DOMAIN audit : audit[i].call \in Calls
  BY AuditTyped
<1>7. calls[c].at # "unused"
  BY DEF At
<1>8. (\A i \in DOMAIN audit : ~At(audit[i].call, "unused"))'
  BY <1>2, <1>4, <1>5, <1>6, <1>7 DEF FlagTellsAudit, At
<1>9. ReportAllowed' <=> ReportAllowed \/ (said = "allow" /\ calls[c].tool = "report")
  BY <1>2, <1>4, <1>5, <1>6 DEF ReportAllowed
<1> QED BY <1>3, <1>8, <1>9

\* Where an action leaves alone everything the mediator's flag is about.
LEMMA FlagUntouched ==
  ASSUME FlagTellsAudit, UNCHANGED <<wiring, calls, reportSeen, audit>>
  PROVE  FlagTellsAudit' /\ (ReportAllowed' <=> ReportAllowed)
BY DEF FlagTellsAudit, ReportAllowed, At

LEMMA RunInvInit == ASSUME ProviderInit PROVE RunInv
<1> USE DEF ProviderInit, At, Unused
<1>1. ProviderTypeOK
  <2>1. Unused \in CallRecords
    BY DEF Tools, CallRecords
  <2>2. <<>> \in Seq(Events) /\ <<>> \in Seq(AuditRecords)
    OBVIOUS
  <2> QED BY <2>1, <2>2 DEF ProviderTypeOK, Over
<1>2. OneEventEach /\ StopHookLast /\ FlagTellsAudit /\ HookTellsAudit
  BY DEF OneEventEach, EventsOf, StopHookLast, FlagTellsAudit, HookTellsAudit, ReportAllowed
<1>3. DecidedLast
  BY DEF DecidedLast
<1> QED BY <1>1, <1>2, <1>3 DEF RunInv

\* A call moves to a place there is.
LEMMA MovesTyped ==
  ASSUME ProviderTypeOK, NEW c \in Calls,
         NEW place \in {"permission", "execute", "threw", "post", "answer", "closed", "unanswered"},
         Moves(c, place)
  PROVE  calls' \in [Calls -> CallRecords]
BY DEF ProviderTypeOK, Moves, CallRecords

\* An event about a call is an event.
LEMMA EmitsTyped ==
  ASSUME ProviderTypeOK, NEW c \in Calls, NEW kind \in {"call", "result"}, Emits(kind, c)
  PROVE  events' \in Seq(Events)
<1>1. [kind |-> kind, call |-> c] \in Events
  BY DEF Events
<1> QED BY <1>1 DEF ProviderTypeOK, Emits

\* A record of a call is a record.
LEMMA RecordsTyped ==
  ASSUME ProviderTypeOK, NEW c \in Calls, NEW said \in {"allow", "deny"}, Records(c, said)
  PROVE  audit' \in Seq(AuditRecords)
<1>1. [call |-> c, decision |-> said, whitelisted |-> IsWhitelisted(calls[c].tool, Surface)]
        \in AuditRecords
  BY DEF IsWhitelisted, AuditRecords
<1> QED BY <1>1 DEF ProviderTypeOK, Records

LEMMA TypeStep == ASSUME ProviderTypeOK, [ProviderNext]_providerVars PROVE ProviderTypeOK'
<1>1. CASE ProveBarrier \/ MakeSandbox \/ StreamFails \/ RemoveSandbox
  BY <1>1 DEF ProveBarrier, MakeSandbox, StreamFails, RemoveSandbox, ProviderTypeOK, Over
<1>2. CASE StreamEnds
  <2>1. [kind |-> "stop_blocked"] \in Events
    BY DEF Events
  <2> QED BY <1>2, <2>1 DEF StreamEnds, ProviderTypeOK, Over
<1>3. CASE RunExitGate
  <2>1. decision' \in {"write_checkpoint", "escalate_human", "route_debugger"}
    BY <1>3 DEF RunExitGate, DecideDelegationOutcome
  <2> QED BY <1>3, <2>1 DEF RunExitGate, ProviderTypeOK, Over
<1>4. ASSUME NEW c \in Calls, Issue(c) PROVE ProviderTypeOK'
  <2>1. events' \in Seq(Events)
    BY <1>4, EmitsTyped DEF Issue
  <2> QED BY <1>4, <2>1 DEF Issue, ProviderTypeOK, CallRecords
<1>5. ASSUME NEW c \in Calls, Mediates(c) PROVE ProviderTypeOK'
  <2>1. /\ \A place \in {"permission", "execute", "threw", "post", "answer", "closed", "unanswered"} :
              Moves(c, place) => calls' \in [Calls -> CallRecords]
        /\ \A kind \in {"call", "result"} : Emits(kind, c) => events' \in Seq(Events)
        /\ \A said \in {"allow", "deny"} : Records(c, said) =>
              audit' \in Seq(AuditRecords)
    BY MovesTyped, EmitsTyped, RecordsTyped
  <2>2. CASE PreHook(c) \/ Permission(c) \/ Post(c)
    BY <2>1, <2>2 DEF PreHook, Permission, Post, Refuse, ProviderTypeOK
  <2>3. CASE Execute(c)
    <3>1. calls[c].files \subseteq Files
      BY DEF ProviderTypeOK, CallRecords
    <3>2. touched' \subseteq Files /\ gone' \subseteq touched' \cap PreTask
      <4>1. CASE Writes(calls[c])
        BY <3>1, <4>1 DEF Writes, ProviderTypeOK
      <4>2. CASE UNCHANGED <<touched, gone>>
        BY <4>2 DEF ProviderTypeOK
      <4> QED BY <2>3, <4>1, <4>2 DEF Execute
    <3>3. calls' \in [Calls -> CallRecords]
      BY <2>1, <2>3 DEF Execute
    <3> QED BY <2>3, <3>2, <3>3 DEF Execute, ProviderTypeOK
  <2>4. CASE Answer(c) \/ Throws(c)
    BY <2>1, <2>4 DEF Answer, Throws, ProviderTypeOK
  <2> QED BY <1>5, <2>2, <2>3, <2>4 DEF Mediates
<1>6. ASSUME NEW c \in Calls, EngineEchoes(c) PROVE ProviderTypeOK'
  BY <1>6 DEF EngineEchoes, ProviderTypeOK, CallRecords
<1>7. CASE UNCHANGED providerVars
  BY <1>7 DEF providerVars, ProviderTypeOK
<1> QED BY <1>1, <1>2, <1>3, <1>4, <1>5, <1>6, <1>7 DEF ProviderNext

\* While the stream runs nothing is decided, and the stop hook is silent.
LEMMA StreamKeeps ==
  ASSUME RunInv, step = "stream", step' = "stream", UNCHANGED <<wiring, decision>>,
         \/ UNCHANGED events
         \/ \E c \in Calls, kind \in {"call", "result"} : Emits(kind, c)
  PROVE  DecidedLast' /\ StopHookLast' /\ HookTellsAudit'
<1>1. decision = "none" /\ decision' = "none"
  BY DEF RunInv, DecidedLast
<1>2. \A i \in DOMAIN events' : events'[i].kind # "stop_blocked"
  <2>1. events \in Seq(Events) /\ \A i \in DOMAIN events : events[i].kind # "stop_blocked"
    BY DEF RunInv, ProviderTypeOK, StopHookLast
  <2>2. ASSUME NEW c \in Calls, NEW kind \in {"call", "result"}, Emits(kind, c)
        PROVE  \A i \in DOMAIN events' : events'[i].kind # "stop_blocked"
    BY <2>1, <2>2 DEF Emits
  <2> QED BY <2>1, <2>2
<1> QED BY <1>1, <1>2 DEF DecidedLast, StopHookLast, HookTellsAudit

\* A refused call: a denial is recorded, the flag stays.
LEMMA RefusalKeeps ==
  ASSUME RunInv, NEW c \in Calls, calls[c].at \in {"pre", "permission"}, Refuse(c),
         UNCHANGED <<wiring, reportSeen, events>>
  PROVE  OneEventEach' /\ FlagTellsAudit'
<1>1. ~At(c, "unused") /\ ~At(c, "closed") /\ ~At(c, "post") /\ ~At(c, "threw")
  BY DEF At
<1>2. OneEventEach'
  BY <1>1, MovesKeepEvents DEF RunInv, Refuse
<1>3. /\ (\A i \in DOMAIN audit : ~At(audit[i].call, "unused"))'
      /\ ReportAllowed' <=> ReportAllowed
  BY <1>1, RecordedCall DEF RunInv, Refuse
<1>4. \A d \in Calls : calls'[d].tool = calls[d].tool
                       /\ (calls'[d].at = calls[d].at \/ d = c)
                       /\ calls'[c].at = "answer"
  BY DEF RunInv, ProviderTypeOK, Refuse, Moves
<1>5. (\A d \in Calls : At(d, "post") /\ calls[d].tool = "report" => reportSeen)'
  BY <1>4 DEF RunInv, FlagTellsAudit, At
<1>6. wiring' = "driver" /\ reportSeen' =>
        ReportAllowed' \/ \E d \in Calls : calls'[d].tool = "report" /\ calls'[d].at \in {"post", "threw"}
  BY <1>1, <1>3, <1>4 DEF RunInv, FlagTellsAudit, At
<1>7. ReportAllowed' => reportSeen'
  BY <1>3 DEF RunInv, FlagTellsAudit
<1> QED BY <1>2, <1>3, <1>5, <1>6, <1>7 DEF FlagTellsAudit

LEMMA IssueStep == ASSUME RunInv, NEW c \in Calls, Issue(c) PROVE RunInv'
<1>1. ProviderTypeOK'
  BY TypeStep DEF RunInv, ProviderNext
<1>2. OneEventEach'
  BY IssuingKeepsEvents DEF RunInv
<1>3. FlagTellsAudit'
  <2>1. PICK tool \in Tools, files \in SUBSET Files, formed \in BOOLEAN :
          calls' = [calls EXCEPT ![c] =
            [at |-> IF wiring = "sdk" /\ tool \notin Surface THEN "threw" ELSE "pre",
             tool |-> tool, files |-> files, formed |-> formed, echoed |-> FALSE]]
    BY DEF Issue
  <2>2. \A d \in Calls : calls'[d] = calls[d] \/ (calls[d].at = "unused" /\ calls'[d].at \in {"pre", "threw"})
    BY <2>1 DEF RunInv, ProviderTypeOK, Issue, At
  <2>3. calls' \in [Calls -> CallRecords]
    BY <1>1 DEF ProviderTypeOK
  <2>4. UNCHANGED <<wiring, reportSeen, audit>>
    BY DEF Issue
  <2> QED BY <2>2, <2>3, <2>4, FlagKept DEF RunInv
<1>4. DecidedLast' /\ StopHookLast' /\ HookTellsAudit'
  BY StreamKeeps DEF Issue
<1> QED BY <1>1, <1>2, <1>3, <1>4 DEF RunInv

LEMMA PreHookStep == ASSUME RunInv, NEW c \in Calls, PreHook(c) \/ Permission(c) PROVE RunInv'
<1>1. ProviderTypeOK'
  BY TypeStep DEF RunInv, ProviderNext, Mediates
<1>2. DecidedLast' /\ StopHookLast' /\ HookTellsAudit'
  BY StreamKeeps DEF PreHook, Permission
<1>3. calls[c].at \in {"pre", "permission"} /\ UNCHANGED <<wiring, reportSeen, events>>
  BY DEF PreHook, Permission, At
<1>4. CASE Refuse(c)
  BY <1>1, <1>2, <1>3, <1>4, RefusalKeeps DEF RunInv
<1>5. ASSUME NEW place \in {"permission", "execute"}, Moves(c, place), UNCHANGED audit
      PROVE  RunInv'
  <2>1. OneEventEach'
    BY <1>3, <1>5, MovesKeepEvents DEF RunInv, At
  <2>2. \A d \in Calls : calls'[d] = calls[d] \/ (d = c /\ calls'[d].at = place /\ calls'[d].tool = calls[d].tool)
    BY <1>5 DEF RunInv, ProviderTypeOK, Moves
  <2>3. calls' \in [Calls -> CallRecords]
    BY <1>1 DEF ProviderTypeOK
  <2>4. FlagTellsAudit'
    BY <1>3, <1>5, <2>2, <2>3, FlagKept DEF RunInv
  <2> QED BY <1>1, <1>2, <2>1, <2>4 DEF RunInv
<1> QED BY <1>4, <1>5 DEF PreHook, Permission

LEMMA ExecuteStep == ASSUME RunInv, NEW c \in Calls, Execute(c) PROVE RunInv'
<1>1. ProviderTypeOK'
  BY TypeStep DEF RunInv, ProviderNext, Mediates
<1>2. DecidedLast' /\ StopHookLast' /\ HookTellsAudit'
  BY StreamKeeps DEF Execute
<1>3. PICK place \in {"post", "threw"} : Moves(c, place)
  BY DEF Execute
<1>4. /\ calls[c].at = "execute"
      /\ UNCHANGED <<wiring, audit, events>>
      /\ reportSeen' <=> reportSeen \/ calls[c].tool = "report"
  BY DEF Execute, At
<1>5. OneEventEach'
  BY <1>3, <1>4, MovesKeepEvents DEF RunInv, At
<1>6. \A d \in Calls : /\ calls'[d].tool = calls[d].tool
                       /\ d # c => calls'[d].at = calls[d].at
                       /\ calls'[c].at = place
  BY <1>3 DEF RunInv, ProviderTypeOK, Moves
<1>7. \A i \in DOMAIN audit : audit[i].call \in Calls
  BY AuditTyped DEF RunInv
<1>8. (\A i \in DOMAIN audit : ~At(audit[i].call, "unused"))'
  BY <1>4, <1>6, <1>7 DEF RunInv, FlagTellsAudit, At
<1>9. ReportAllowed' <=> ReportAllowed
  BY <1>4, <1>6, <1>7 DEF ReportAllowed
<1>10. (\A d \in Calls : At(d, "post") /\ calls[d].tool = "report" => reportSeen)'
  BY <1>4, <1>6 DEF RunInv, FlagTellsAudit, At
<1>11. wiring' = "driver" /\ reportSeen' =>
        ReportAllowed' \/ \E d \in Calls : calls'[d].tool = "report" /\ calls'[d].at \in {"post", "threw"}
  BY <1>4, <1>6, <1>9 DEF RunInv, FlagTellsAudit
<1>12. FlagTellsAudit'
  BY <1>4, <1>8, <1>9, <1>10, <1>11 DEF RunInv, FlagTellsAudit
<1> QED BY <1>1, <1>2, <1>5, <1>12 DEF RunInv

LEMMA PostStep == ASSUME RunInv, NEW c \in Calls, Post(c) PROVE RunInv'
<1>1. ProviderTypeOK'
  BY TypeStep DEF RunInv, ProviderNext, Mediates
<1>2. DecidedLast' /\ StopHookLast' /\ HookTellsAudit'
  BY StreamKeeps DEF Post
<1>3. /\ calls[c].at = "post" /\ Moves(c, "answer") /\ Records(c, "allow")
      /\ UNCHANGED <<wiring, reportSeen, events>>
  BY DEF Post, At
<1>4. OneEventEach'
  BY <1>3, MovesKeepEvents DEF RunInv, At
<1>5. /\ (\A i \in DOMAIN audit : ~At(audit[i].call, "unused"))'
      /\ ReportAllowed' <=> ReportAllowed \/ calls[c].tool = "report"
  BY <1>3, RecordedCall DEF RunInv, At
<1>6. \A d \in Calls : /\ calls'[d].tool = calls[d].tool
                       /\ d # c => calls'[d].at = calls[d].at
                       /\ calls'[c].at = "answer"
  BY <1>3 DEF RunInv, ProviderTypeOK, Moves
<1>7. calls[c].tool = "report" => reportSeen
  BY <1>3 DEF RunInv, FlagTellsAudit, At
<1>8. (\A d \in Calls : At(d, "post") /\ calls[d].tool = "report" => reportSeen)'
  BY <1>3, <1>6 DEF RunInv, FlagTellsAudit, At
<1>9. ReportAllowed' => reportSeen'
  BY <1>3, <1>5, <1>7 DEF RunInv, FlagTellsAudit
<1>10. wiring' = "driver" /\ reportSeen' =>
        ReportAllowed' \/ \E d \in Calls : calls'[d].tool = "report" /\ calls'[d].at \in {"post", "threw"}
  BY <1>3, <1>5, <1>6 DEF RunInv, FlagTellsAudit
<1>11. FlagTellsAudit'
  BY <1>5, <1>8, <1>9, <1>10 DEF FlagTellsAudit
<1> QED BY <1>1, <1>2, <1>4, <1>11 DEF RunInv

\* An answer is given, or the SDK keeps the tool's exception to itself.
LEMMA AnswerStep ==
  ASSUME RunInv, NEW c \in Calls, Answer(c) \/ Throws(c), step' = "stream"
  PROVE  RunInv'
<1>1. ProviderTypeOK'
  BY TypeStep DEF RunInv, ProviderNext, Mediates
<1>2. /\ \/ calls[c].at = "answer" /\ Moves(c, "closed") /\ Emits("result", c)
         \/ calls[c].at = "threw" /\ wiring # "driver" /\ Moves(c, "unanswered") /\ UNCHANGED events
      /\ step = "stream" /\ UNCHANGED <<wiring, reportSeen, audit, decision>>
  BY DEF Answer, Throws, At
<1>3. DecidedLast' /\ StopHookLast' /\ HookTellsAudit'
  BY <1>2, StreamKeeps
<1>4. OneEventEach'
  <2>1. CASE calls[c].at = "answer" /\ Moves(c, "closed") /\ Emits("result", c)
    <3>1. ~At(c, "unused") /\ ~At(c, "closed") /\ ProviderTypeOK /\ OneEventEach
      BY <2>1 DEF RunInv, At
    <3> QED BY <2>1, <3>1, ClosingKeepsEvents
  <2>2. CASE calls[c].at = "threw" /\ Moves(c, "unanswered") /\ UNCHANGED events
    BY <2>2, MovesKeepEvents DEF RunInv, At
  <2> QED BY <1>2, <2>1, <2>2
<1>5. \A d \in Calls : /\ calls'[d].tool = calls[d].tool
                       /\ d # c => calls'[d].at = calls[d].at
                       /\ calls'[c].at \in {"closed", "unanswered"}
  <2>1. PICK place \in {"closed", "unanswered"} : Moves(c, place)
    BY <1>2
  <2> QED BY <2>1 DEF RunInv, ProviderTypeOK, Moves
<1>6. \A i \in DOMAIN audit : audit[i].call \in Calls
  BY AuditTyped DEF RunInv
<1>7. (\A i \in DOMAIN audit : ~At(audit[i].call, "unused"))'
  BY <1>2, <1>5, <1>6 DEF RunInv, FlagTellsAudit, At
<1>8. ReportAllowed' <=> ReportAllowed
  BY <1>2, <1>5, <1>6 DEF ReportAllowed
<1>9. (\A d \in Calls : At(d, "post") /\ calls[d].tool = "report" => reportSeen)'
  BY <1>2, <1>5 DEF RunInv, FlagTellsAudit, At
<1>10. wiring' = "driver" /\ reportSeen' =>
        ReportAllowed' \/ \E d \in Calls : calls'[d].tool = "report" /\ calls'[d].at \in {"post", "threw"}
  BY <1>2, <1>5, <1>8 DEF RunInv, FlagTellsAudit
<1>11. FlagTellsAudit'
  BY <1>2, <1>7, <1>8, <1>9, <1>10 DEF RunInv, FlagTellsAudit
<1> QED BY <1>1, <1>3, <1>4, <1>11 DEF RunInv

LEMMA EchoStep == ASSUME RunInv, NEW c \in Calls, EngineEchoes(c) PROVE RunInv'
<1>1. ProviderTypeOK'
  BY TypeStep DEF RunInv, ProviderNext
<1>2. DecidedLast' /\ StopHookLast' /\ HookTellsAudit'
  BY StreamKeeps DEF EngineEchoes
<1>3. /\ \A d \in Calls : calls'[d].at = calls[d].at /\ calls'[d].tool = calls[d].tool
      /\ UNCHANGED <<wiring, reportSeen, audit, events>>
  BY DEF RunInv, ProviderTypeOK, EngineEchoes
<1>4. \A i \in DOMAIN audit : audit[i].call \in Calls
  BY AuditTyped DEF RunInv
<1>5. OneEventEach'
  BY <1>3 DEF RunInv, OneEventEach, EventsOf, At
<1>6. ReportAllowed' <=> ReportAllowed
  BY <1>3, <1>4 DEF ReportAllowed
<1>7. FlagTellsAudit'
  BY <1>3, <1>4, <1>6 DEF RunInv, FlagTellsAudit, At
<1> QED BY <1>1, <1>2, <1>5, <1>7 DEF RunInv

\* Steps of the run itself, which leave its calls alone.
LEMMA LeavingStep ==
  ASSUME RunInv, step = "stream", step' = "cleanup",
         UNCHANGED <<wiring, calls, touched, gone, sandbox, reportSeen, audit, events, decision>>
  PROVE  RunInv'
<1>1. ProviderTypeOK'
  BY DEF RunInv, ProviderTypeOK
<1>2. DecidedLast' /\ StopHookLast' /\ HookTellsAudit'
  BY DEF RunInv, DecidedLast, StopHookLast, HookTellsAudit
<1>3. OneEventEach' /\ FlagTellsAudit'
  BY FlagUntouched DEF RunInv, OneEventEach, EventsOf, At
<1> QED BY <1>1, <1>2, <1>3 DEF RunInv

LEMMA StartStep == ASSUME RunInv, ProveBarrier \/ MakeSandbox PROVE RunInv'
<1>1. ProviderTypeOK'
  BY TypeStep DEF RunInv, ProviderNext
<1>2. /\ step \in {"barrier", "sandbox"} /\ step' \in {"sandbox", "failed", "stream", "collect"}
      /\ UNCHANGED <<wiring, calls, touched, gone, reportSeen, audit, events, decision>>
  BY DEF ProveBarrier, MakeSandbox
<1>3. OneEventEach' /\ FlagTellsAudit'
  BY <1>2, FlagUntouched DEF RunInv, OneEventEach, EventsOf, At
<1>4. DecidedLast'
  BY <1>2 DEF RunInv, DecidedLast
<1>5. StopHookLast' /\ HookTellsAudit'
  BY <1>2 DEF RunInv, DecidedLast, StopHookLast, HookTellsAudit
<1> QED BY <1>1, <1>3, <1>4, <1>5 DEF RunInv

LEMMA StreamEndsStep == ASSUME RunInv, StreamEnds PROVE RunInv'
<1>1. ProviderTypeOK'
  BY TypeStep DEF RunInv, ProviderNext
<1>2. /\ step = "stream" /\ step' = "collect"
      /\ UNCHANGED <<wiring, calls, touched, gone, sandbox, reportSeen, audit, decision>>
      /\ \A c \in Calls : calls[c].at \in {"unused", "closed", "unanswered"}
  BY DEF StreamEnds, InFlight
<1>3. FlagTellsAudit' /\ (ReportAllowed' <=> ReportAllowed)
  BY <1>2, FlagUntouched DEF RunInv
<1>4. wiring = "driver" => (reportSeen <=> ReportAllowed)
  BY <1>2 DEF RunInv, FlagTellsAudit
<1>5. DecidedLast' /\ StopHookLast'
  BY <1>2 DEF RunInv, DecidedLast, StopHookLast
<1>6. CASE wiring = "driver" /\ ~reportSeen
  <2>1. events' = Append(events, [kind |-> "stop_blocked"])
    BY <1>6 DEF StreamEnds
  <2>2. OneEventEach'
    BY <1>2, <2>1, BlockingKeepsEvents DEF RunInv
  <2>3. events'[Len(events')].kind = "stop_blocked"
    BY <2>1 DEF RunInv, ProviderTypeOK
  <2>4. HookTellsAudit'
    BY <1>3, <1>4, <1>6, <2>3 DEF HookTellsAudit
  <2> QED BY <1>1, <1>3, <1>5, <2>2, <2>4 DEF RunInv
<1>7. CASE ~(wiring = "driver" /\ ~reportSeen)
  <2>1. events' = events
    BY <1>7 DEF StreamEnds
  <2>2. OneEventEach'
    BY <1>2, <2>1 DEF RunInv, OneEventEach, EventsOf, At
  <2>3. events # <<>> => Len(events) \in DOMAIN events
    BY DEF RunInv, ProviderTypeOK
  <2>4. events # <<>> => events[Len(events)].kind # "stop_blocked"
    BY <1>2, <2>3 DEF RunInv, StopHookLast
  <2>5. HookTellsAudit'
    BY <1>2, <1>3, <1>4, <1>7, <2>1, <2>4 DEF HookTellsAudit
  <2> QED BY <1>1, <1>3, <1>5, <2>2, <2>5 DEF RunInv
<1> QED BY <1>6, <1>7

LEMMA EndStep == ASSUME RunInv, RunExitGate \/ RemoveSandbox PROVE RunInv'
<1>1. ProviderTypeOK'
  BY TypeStep DEF RunInv, ProviderNext
<1>2. /\ UNCHANGED <<wiring, calls, touched, gone, reportSeen, audit, events>>
      /\ step \in {"collect", "cleanup"} /\ step' \in {"cleanup", "failed", "done"}
      /\ step = "cleanup" => UNCHANGED decision /\ (step' = "done" => decision # "none")
      /\ step = "collect" => decision = "none" /\ step' = "cleanup"
  BY DEF RunInv, DecidedLast, RunExitGate, RemoveSandbox
<1>3. OneEventEach' /\ FlagTellsAudit' /\ (ReportAllowed' <=> ReportAllowed)
  BY <1>2, FlagUntouched DEF RunInv, OneEventEach, EventsOf, At
<1>4. DecidedLast' /\ StopHookLast'
  BY <1>2 DEF RunInv, DecidedLast, StopHookLast
<1>5. HookTellsAudit'
  BY <1>2, <1>3 DEF RunInv, HookTellsAudit
<1> QED BY <1>1, <1>3, <1>4, <1>5 DEF RunInv

\* Every step keeps the invariant.
LEMMA RunInvStep == ASSUME RunInv, [ProviderNext]_providerVars PROVE RunInv'
<1>1. CASE ProveBarrier \/ MakeSandbox
  BY <1>1, StartStep
<1>2. CASE StreamEnds
  BY <1>2, StreamEndsStep
<1>3. CASE StreamFails
  BY <1>3, LeavingStep DEF StreamFails
<1>4. CASE RunExitGate \/ RemoveSandbox
  BY <1>4, EndStep
<1>5. ASSUME NEW c \in Calls, Issue(c) \/ EngineEchoes(c) PROVE RunInv'
  BY <1>5, IssueStep, EchoStep
<1>6. ASSUME NEW c \in Calls, PreHook(c) \/ Permission(c) \/ Execute(c) \/ Post(c)
      PROVE  RunInv'
  BY <1>6, PreHookStep, ExecuteStep, PostStep
<1>7. ASSUME NEW c \in Calls, Answer(c) \/ Throws(c) PROVE RunInv'
  <2>1. CASE step' = "stream"
    BY <1>7, <2>1, AnswerStep
  <2>2. CASE step' # "stream"
    BY <1>7, <2>2, LeavingStep DEF Answer, Throws
  <2> QED BY <2>1, <2>2
<1>8. CASE UNCHANGED providerVars
  <2>1. UNCHANGED <<wiring, step, calls, touched, gone, sandbox, reportSeen, audit, events, decision>>
    BY <1>8 DEF providerVars
  <2>2. ProviderTypeOK' /\ DecidedLast' /\ StopHookLast'
    BY <2>1 DEF RunInv, ProviderTypeOK, DecidedLast, StopHookLast
  <2>3. OneEventEach' /\ FlagTellsAudit' /\ (ReportAllowed' <=> ReportAllowed)
    BY <2>1, FlagUntouched DEF RunInv, OneEventEach, EventsOf, At
  <2>4. HookTellsAudit'
    BY <2>1, <2>3 DEF RunInv, HookTellsAudit
  <2> QED BY <2>2, <2>3, <2>4 DEF RunInv
<1> QED BY <1>1, <1>2, <1>3, <1>4, <1>5, <1>6, <1>7, <1>8 DEF ProviderNext, Mediates

-----------------------------------------------------------------------------
(* One record for each answer. *)

Answered(c) == calls[c].at \in {"answer", "closed"}

OneRecordEach ==
  \A c \in Calls : IF Answered(c) THEN \E i \in DOMAIN audit : RecordsOf(c) = {i}
                                  ELSE RecordsOf(c) = {}

\* A step that records nothing answers nothing.
LEMMA SilentKeepsRecords ==
  ASSUME OneRecordEach, UNCHANGED audit, \A d \in Calls : Answered(d)' <=> Answered(d)
  PROVE  OneRecordEach'
BY DEF OneRecordEach, RecordsOf

\* A record is of the call that is answered with it.
LEMMA RecordingKeepsRecords ==
  ASSUME ProviderTypeOK, OneRecordEach, NEW c \in Calls, ~Answered(c), Moves(c, "answer"),
         NEW said \in {"allow", "deny"}, Records(c, said)
  PROVE  OneRecordEach'
<1>1. \A d \in Calls : Answered(d)' <=> (d = c \/ Answered(d))
  BY DEF ProviderTypeOK, Moves, Answered
<1> DEFINE rec == [call |-> c, decision |-> said, whitelisted |-> IsWhitelisted(calls[c].tool, Surface)]
<1>2. rec.call = c /\ audit' = Append(audit, rec)
  BY DEF Records
<1> HIDE DEF rec
<1>3. /\ DOMAIN audit' = DOMAIN audit \cup {Len(audit) + 1}
      /\ audit'[Len(audit) + 1].call = c /\ Len(audit) + 1 \notin DOMAIN audit
      /\ \A i \in DOMAIN audit : audit'[i] = audit[i]
  BY <1>2 DEF ProviderTypeOK
<1>4. \A d \in Calls : RecordsOf(d)' = RecordsOf(d) \cup (IF d = c THEN {Len(audit) + 1} ELSE {})
  BY <1>3 DEF RecordsOf
<1>5. ASSUME NEW d \in Calls
      PROVE  IF Answered(d)' THEN \E i \in DOMAIN audit' : RecordsOf(d)' = {i} ELSE RecordsOf(d)' = {}
  <2>1. CASE d = c
    BY <1>1, <1>3, <1>4, <2>1 DEF OneRecordEach
  <2>2. CASE d # c
    BY <1>1, <1>3, <1>4, <2>2 DEF OneRecordEach
  <2> QED BY <2>1, <2>2
<1> QED BY <1>5 DEF OneRecordEach

LEMMA RecordStep ==
  ASSUME ProviderTypeOK, OneRecordEach, [ProviderNext]_providerVars
  PROVE  OneRecordEach'
<1>1. CASE UNCHANGED <<calls, audit>>
  BY <1>1, SilentKeepsRecords DEF Answered
<1>2. ASSUME NEW c \in Calls, Issue(c) PROVE OneRecordEach'
  <2>1. UNCHANGED audit /\ \A d \in Calls : Answered(d)' <=> Answered(d)
    BY <1>2 DEF Issue, At, Answered, ProviderTypeOK
  <2> QED BY <2>1, SilentKeepsRecords
<1>3. ASSUME NEW c \in Calls, EngineEchoes(c) PROVE OneRecordEach'
  <2>1. UNCHANGED audit /\ \A d \in Calls : Answered(d)' <=> Answered(d)
    BY <1>3 DEF EngineEchoes, At, Answered, ProviderTypeOK
  <2> QED BY <2>1, SilentKeepsRecords
<1>4. ASSUME NEW c \in Calls, Mediates(c) PROVE OneRecordEach'
  <2>1. CASE Moves(c, "answer") /\ (\E said \in {"allow", "deny"} : Records(c, said)) /\ ~Answered(c)
    BY <2>1, RecordingKeepsRecords
  <2>2. ASSUME UNCHANGED audit,
               NEW place \in {"permission", "execute", "post", "threw", "closed", "unanswered"},
               Moves(c, place), Answered(c) <=> place = "closed"
        PROVE  OneRecordEach'
    <3>1. \A d \in Calls : Answered(d)' <=> Answered(d)
      BY <2>2 DEF Moves, Answered, ProviderTypeOK
    <3> QED BY <2>2, <3>1, SilentKeepsRecords
  <2>3. CASE PreHook(c) \/ Permission(c) \/ Post(c)
    BY <2>1, <2>2, <2>3 DEF PreHook, Permission, Post, Refuse, At, Answered
  <2>4. CASE Execute(c)
    BY <2>2, <2>4 DEF Execute, At, Answered
  <2>5. CASE Answer(c)
    BY <2>2, <2>5 DEF Answer, At, Answered
  <2>6. CASE Throws(c)
    BY <1>1, <2>2, <2>6 DEF Throws, At, Answered
  <2> QED BY <1>4, <2>3, <2>4, <2>5, <2>6 DEF Mediates
<1>5. CASE ProveBarrier \/ MakeSandbox \/ StreamEnds \/ StreamFails \/ RunExitGate \/ RemoveSandbox
           \/ UNCHANGED providerVars
  BY <1>1, <1>5 DEF ProveBarrier, MakeSandbox, StreamEnds, StreamFails, RunExitGate, RemoveSandbox, providerVars
<1> QED BY <1>2, <1>3, <1>4, <1>5 DEF ProviderNext

-----------------------------------------------------------------------------
(* What a run changes. *)

\* The scripts' writers name what they write.
SdkConfined ==
  wiring = "sdk" =>
    /\ touched \subseteq WriteSet
    /\ \A c \in Calls : At(c, "execute") /\ calls[c].tool \in WriteTools => calls[c].files \subseteq WriteSet

\* What the exit gate's verdict leaves to be seen.
ForeignIsMoved ==
  LET foreign == touched \ (WriteSet \cup QuotedFiles) IN
  /\ foreign \subseteq gone
  /\ Cardinality(foreign) <= Cardinality((Added \cap WriteSet) \ QuotedFiles)
DecisionIsBounded == decision \in {"write_checkpoint", "route_debugger"} => ForeignIsMoved

\* A set of naturals has a least member.
LEMMA LeastRule ==
  ASSUME NEW T \in SUBSET Nat, T # {}
  PROVE  \E x \in T : \A y \in T : x <= y
<1> DEFINE less == {ss \in Nat \X Nat : ss[1] < ss[2]}
<1>1. IsWellFoundedOn(less, Nat)
  BY NatLessThanWellFounded DEF OpToRel
<1>2. \A x, y \in Nat : x < y => <<x, y>> \in less
  OBVIOUS
<1>3. T \subseteq Nat
  OBVIOUS
<1> HIDE DEF less
<1>4. PICK x \in T : \A y \in T : ~(<<y, x>> \in less)
  BY <1>1, <1>3, WFMin, Zenon
<1>5. \A y \in T : ~(y < x)
  BY <1>2, <1>3, <1>4
<1> QED BY <1>3, <1>5

\* The gateway's deny_unlisted mode lets a write through to the write set only.
LEMMA AllowedWriteIsListed ==
  ASSUME NEW req, NEW contract, NEW disposable,
         req.mode = "deny_unlisted", req.isWrite,
         EvaluateToolRequest(req, contract, disposable) = "allow"
  PROVE  req.targets \subseteq contract.writeSet
<1> SUFFICES ASSUME ~(req.targets \subseteq contract.writeSet) PROVE FALSE
  OBVIOUS
<1> DEFINE inWriteSet == ~req.isWrite \/ req.targets \subseteq contract.writeSet
           rules == <<
    Rule(req.tool \notin req.roleTools, "deny"),
    Rule(req.risk \in {"sudo", "destructive", "remote_exec", "exfiltration"}, "deny"),
    Rule(req.targets \cap SecretFiles # {}, "deny"),
    Rule(req.isWrite /\ req.targets \cap ProtectedFiles # {}, "deny"),
    Rule(req.isWrite /\ req.targets \cap EscapingFiles # {}, "deny"),
    Rule(/\ req.mode = "bypass_workspace"
         /\ req.targets = {} \/ ~(req.targets \subseteq disposable), "deny"),
    Rule(req.network /\ ~contract.network, "ask"),
    Rule(req.risk = "forbidden", "deny"),
    Rule(req.isWrite /\ ~inWriteSet /\ req.mode \notin {"ask", "bypass_workspace"}, "deny"),
    Rule(req.handle, "ask"),
    Rule(TRUE, ModeRule(req, inWriteSet)) >>
<1>1. EvaluateToolRequest(req, contract, disposable) = FirstDecisive(rules)
  BY DEF EvaluateToolRequest
<1>2. /\ DOMAIN rules = 1..11 /\ rules[9].when
      /\ \A i \in 1..9 : rules[i].verdict # "allow"
  <2>1. Len(rules) = 11 /\ DOMAIN rules = 1..11
    OBVIOUS
  <2>2. rules[9].when
    BY DEF Rule
  <2>3. /\ rules[1].verdict = "deny" /\ rules[2].verdict = "deny" /\ rules[3].verdict = "deny"
        /\ rules[4].verdict = "deny" /\ rules[5].verdict = "deny" /\ rules[6].verdict = "deny"
        /\ rules[7].verdict = "ask" /\ rules[8].verdict = "deny" /\ rules[9].verdict = "deny"
    BY DEF Rule
  <2> HIDE DEF rules
  <2>4. ASSUME NEW i \in 1..9 PROVE rules[i].verdict # "allow"
    <3>1. i = 1 \/ i = 2 \/ i = 3 \/ i = 4 \/ i = 5 \/ i = 6 \/ i = 7 \/ i = 8 \/ i = 9
      OBVIOUS
    <3> QED BY <2>3, <3>1
  <2> QED BY <2>1, <2>2, <2>4
<1> HIDE DEF rules
<1> DEFINE T == {i \in 1..11 : rules[i].when}
<1>3. PICK x \in T : \A y \in T : x <= y
  <2>1. T \in SUBSET Nat /\ T # {}
    BY <1>2
  <2> HIDE DEF T
  <2> QED BY <2>1, LeastRule
<1> DEFINE First(i) == rules[i].when /\ \A j \in 1..(i - 1) : ~rules[j].when
<1>4. x \in DOMAIN rules /\ First(x)
  BY <1>2, <1>3
<1> DEFINE z == CHOOSE i \in DOMAIN rules : First(i)
<1>5. z \in DOMAIN rules /\ First(z)
  BY <1>4
<1>6. FirstDecisive(rules) = rules[z].verdict
  BY DEF FirstDecisive
<1> HIDE DEF z
<1>7. z \in 1..9
  BY <1>2, <1>5
<1> QED BY <1>1, <1>2, <1>6, <1>7

\* So does the permission chain of the scripts' tools.
LEMMA SdkWritesAreListed ==
  ASSUME wiring = "sdk", NEW call, call.tool \in WriteTools, PermissionAllows(call)
  PROVE  call.files \subseteq WriteSet
<1>1. Targets(call) = call.files
  BY DEF PermissionAllows, IsWhitelisted, Surface, SurfaceOf, Targets
<1> DEFINE req == [mode |-> "deny_unlisted", tool |-> call.tool, roleTools |-> Surface, risk |-> "none",
                   isWrite |-> call.tool \in WriteTools, targets |-> call.files,
                   network |-> FALSE, handle |-> FALSE]
<1>2. EvaluateToolRequest(req, Contract, Files) = "allow"
  BY <1>1 DEF PermissionAllows, ProviderCanUseTool
<1>3. req.mode = "deny_unlisted" /\ req.isWrite /\ req.targets = call.files /\ Contract.writeSet = WriteSet
  BY DEF Contract
<1> HIDE DEF req
<1> QED BY <1>2, <1>3, AllowedWriteIsListed

LEMMA ConfinedStep ==
  ASSUME ProviderTypeOK, SdkConfined, [ProviderNext]_providerVars
  PROVE  SdkConfined'
<1> SUFFICES ASSUME wiring' = "sdk" PROVE SdkConfined'
  BY DEF SdkConfined
<1>1. wiring = "sdk"
  BY DEF ProviderNext, ProveBarrier, MakeSandbox, StreamEnds, StreamFails, RunExitGate, RemoveSandbox,
    Issue, EngineEchoes, Mediates, PreHook, Permission, Execute, Post, Answer, Throws, providerVars
<1>2. ASSUME touched' \subseteq WriteSet,
             \A d \in Calls : At(d, "execute")' => calls'[d] = calls[d] /\ At(d, "execute")
      PROVE  SdkConfined'
  BY <1>1, <1>2 DEF SdkConfined
<1>3. CASE UNCHANGED <<calls, touched>>
  BY <1>1, <1>2, <1>3 DEF SdkConfined, At
<1>4. ASSUME NEW c \in Calls, Issue(c) PROVE SdkConfined'
  <2>1. \A d \in Calls : At(d, "execute")' => calls'[d] = calls[d] /\ At(d, "execute")
    BY <1>4 DEF Issue, At, ProviderTypeOK
  <2>2. touched' \subseteq WriteSet
    BY <1>1, <1>4 DEF Issue, SdkConfined
  <2> QED BY <1>2, <2>1, <2>2
<1>5. ASSUME NEW c \in Calls, EngineEchoes(c) PROVE SdkConfined'
  BY <1>1, <1>5 DEF EngineEchoes
<1>6. ASSUME NEW c \in Calls, NEW place \in {"permission", "post", "threw", "answer", "closed", "unanswered"},
             Moves(c, place), touched' \subseteq WriteSet
      PROVE  SdkConfined'
  <2>1. \A d \in Calls : At(d, "execute")' => calls'[d] = calls[d] /\ At(d, "execute")
    BY <1>6 DEF Moves, At, ProviderTypeOK
  <2> QED BY <1>2, <1>6, <2>1
<1>7. ASSUME NEW c \in Calls, PreHook(c) \/ Post(c) \/ Answer(c) \/ Throws(c) PROVE SdkConfined'
  <2>1. touched' \subseteq WriteSet
    BY <1>1, <1>7 DEF SdkConfined, PreHook, Post, Answer, Throws
  <2>2. \E place \in {"permission", "post", "threw", "answer", "closed", "unanswered"} : Moves(c, place)
    BY <1>1, <1>7 DEF PreHook, Post, Answer, Throws, Refuse
  <2> QED BY <1>6, <2>1, <2>2
<1>8. ASSUME NEW c \in Calls, Permission(c) PROVE SdkConfined'
  <2>1. touched' \subseteq WriteSet
    BY <1>1, <1>8 DEF SdkConfined, Permission
  <2>2. CASE Refuse(c)
    BY <1>6, <2>1, <2>2 DEF Refuse
  <2>3. CASE PermissionAllows(calls[c]) /\ Moves(c, "execute")
    <3>1. \A d \in Calls : /\ calls'[d].tool = calls[d].tool /\ calls'[d].files = calls[d].files
                           /\ d # c => (At(d, "execute")' <=> At(d, "execute"))
      BY <2>3 DEF Moves, At, ProviderTypeOK
    <3>2. calls[c].tool \in WriteTools => calls[c].files \subseteq WriteSet
      BY <1>1, <2>3, SdkWritesAreListed
    <3> QED BY <1>1, <2>1, <3>1, <3>2 DEF SdkConfined
  <2> QED BY <1>8, <2>2, <2>3 DEF Permission
<1>9. ASSUME NEW c \in Calls, Execute(c) PROVE SdkConfined'
  <2>1. touched' \subseteq WriteSet
    <3>1. CASE calls[c].tool \in WriteTools /\ Writes(calls[c])
      <4>1. calls[c].files \subseteq WriteSet /\ touched \subseteq WriteSet
        BY <1>1, <1>9, <3>1 DEF Execute, SdkConfined
      <4> QED BY <3>1, <4>1 DEF Writes
    <3>2. CASE UNCHANGED touched
      BY <1>1, <3>2 DEF SdkConfined
    <3> QED BY <1>9, <3>1, <3>2 DEF Execute, Writes
  <2> QED BY <1>6, <1>9, <2>1 DEF Execute
<1>10. CASE ProveBarrier \/ MakeSandbox \/ StreamEnds \/ StreamFails \/ RunExitGate \/ RemoveSandbox
            \/ UNCHANGED providerVars
  BY <1>3, <1>10 DEF ProveBarrier, MakeSandbox, StreamEnds, StreamFails, RunExitGate, RemoveSandbox, providerVars
<1> QED BY <1>4, <1>5, <1>7, <1>8, <1>9, <1>10 DEF ProviderNext, Mediates

\* What is removed or added in a run is some of its files.
LEMMA ShownIsMoved ==
  ASSUME ProviderTypeOK, NEW sources \in SUBSET gone, NEW misread \in BOOLEAN,
         MayShow(sources, misread), DiffFileSet(sources, misread) \subseteq WriteSet
  PROVE  ForeignIsMoved
<1> DEFINE foreign == touched \ (WriteSet \cup QuotedFiles)
           plain == (Added \cap WriteSet) \ QuotedFiles
<1>1. IsFiniteSet(sources) /\ IsFiniteSet(foreign) /\ IsFiniteSet(Added \ QuotedFiles)
  <2>1. sources \subseteq Files /\ foreign \subseteq Files /\ Added \ QuotedFiles \subseteq Files
    BY DEF ProviderTypeOK, Added
  <2> QED BY <2>1, ProviderAssumption, FS_Subset
<1>2. ~misread
  <2>1. OtherName \notin WriteSet
    BY ProviderAssumption, FilesAssumption
  <2> QED BY <2>1 DEF DiffFileSet
<1>3. foreign \subseteq sources
  BY DEF DiffFileSet
<1>4. Added \ QuotedFiles \subseteq WriteSet
  <2>1. \A f \in Added : f \notin sources
    BY DEF Added, ProviderTypeOK
  <2> QED BY <2>1 DEF DiffFileSet, Added
<1>5. plain = Added \ QuotedFiles
  BY <1>4
<1>6. Cardinality(sources) <= Cardinality(Added \ QuotedFiles)
  <2>1. ~(Cardinality(sources) > Cardinality(Added \ QuotedFiles))
    BY <1>2 DEF MayShow
  <2>2. Cardinality(sources) \in Nat /\ Cardinality(Added \ QuotedFiles) \in Nat
    BY <1>1, FS_CardinalityType
  <2> QED BY <2>1, <2>2
<1>7. Cardinality(foreign) <= Cardinality(sources)
  BY <1>1, <1>3, FS_Subset
<1>8. Cardinality(foreign) \in Nat /\ Cardinality(sources) \in Nat /\ Cardinality(plain) \in Nat
  BY <1>1, <1>5, FS_CardinalityType
<1>9. Cardinality(foreign) <= Cardinality(plain)
  BY <1>5, <1>6, <1>7, <1>8
<1> QED BY <1>3, <1>9 DEF ForeignIsMoved

LEMMA DecisionStep ==
  ASSUME RunInv, DecisionIsBounded, [ProviderNext]_providerVars
  PROVE  DecisionIsBounded'
<1>1. CASE UNCHANGED <<decision, touched, gone>>
  BY <1>1 DEF DecisionIsBounded, ForeignIsMoved, Added
<1>2. CASE RunExitGate
  <2>1. PICK misread \in BOOLEAN, sources \in SUBSET gone :
          /\ MayShow(sources, misread)
          /\ \E stages :
               decision' = DecideDelegationOutcome(ExitGateVerdict(DiffFileSet(sources, misread), Contract, stages))
    BY <1>2 DEF RunExitGate
  <2>2. decision' \in {"write_checkpoint", "route_debugger"} => DiffFileSet(sources, misread) \subseteq WriteSet
    BY <2>1 DEF DecideDelegationOutcome, ExitGateVerdict, Contract
  <2>3. decision' \in {"write_checkpoint", "route_debugger"} => ForeignIsMoved
    BY <2>1, <2>2, ShownIsMoved DEF RunInv
  <2>4. UNCHANGED <<touched, gone>>
    BY <1>2 DEF RunExitGate
  <2> QED BY <2>3, <2>4 DEF DecisionIsBounded, ForeignIsMoved, Added
<1>3. ASSUME NEW c \in Calls, Execute(c) PROVE DecisionIsBounded'
  <2>1. decision' = "none"
    BY <1>3 DEF Execute, RunInv, DecidedLast
  <2> QED BY <2>1 DEF DecisionIsBounded
<1> QED BY <1>1, <1>2, <1>3 DEF ProviderNext, ProveBarrier, MakeSandbox, StreamEnds, StreamFails, RemoveSandbox,
  Issue, EngineEchoes, Mediates, PreHook, Permission, Post, Answer, Throws, Refuse, providerVars

\* The inductive invariant of a provider's run.
ProviderInv == RunInv /\ OneRecordEach /\ SdkConfined /\ DecisionIsBounded

LEMMA ProviderInvariantHolds == ProviderSpec => []ProviderInv
<1>1. ASSUME ProviderInit PROVE ProviderInv
  <2>1. OneRecordEach
    BY <1>1 DEF ProviderInit, OneRecordEach, Answered, Unused, RecordsOf
  <2>2. SdkConfined /\ DecisionIsBounded
    BY <1>1 DEF ProviderInit, SdkConfined, At, Unused, DecisionIsBounded
  <2> QED BY <1>1, <2>1, <2>2, RunInvInit DEF ProviderInv
<1>2. ASSUME ProviderInv, [ProviderNext]_providerVars PROVE ProviderInv'
  <2>1. RunInv /\ ProviderTypeOK
    BY <1>2 DEF ProviderInv, RunInv
  <2> QED BY <1>2, <2>1, RunInvStep, RecordStep, ConfinedStep, DecisionStep DEF ProviderInv
<1> QED BY <1>1, <1>2, PTL DEF ProviderSpec

\* TypeOK of a provider's run: every variable has its type.
THEOREM RunTypeCorrect == ProviderSpec => []ProviderTypeOK
<1>1. ProviderInv => ProviderTypeOK
  BY DEF ProviderInv, RunInv
<1> QED BY <1>1, ProviderInvariantHolds, PTL

\* CheckpointInWriteSet: the scripts' tools change nothing outside of the write
\* set, and what a patch changed outside of it before a checkpoint is a quoted
\* name or a file moved onto an added one of the write set.
THEOREM RunCheckpointsInWriteSet == ProviderSpec => []CheckpointInWriteSet
<1>1. ProviderInv => CheckpointInWriteSet
  BY DEF ProviderInv, SdkConfined, DecisionIsBounded, ForeignIsMoved, CheckpointInWriteSet
<1> QED BY <1>1, ProviderInvariantHolds, PTL

\* EventsTellTheRun: one call event, one record and one result for every call
\* that is answered, and a driver's run says stop_blocked exactly when the audit
\* has no permitted report.
THEOREM RunEventsTell == ProviderSpec => []EventsTellTheRun
<1>1. ASSUME ProviderInv PROVE EventsTellTheRun
  <2>1. Cardinality({}) = 0 /\ \A i : Cardinality({i}) = 1
    BY FS_EmptySet, FS_Singleton
  <2>2. ASSUME NEW c \in Calls
        PROVE  /\ Cardinality(EventsOf("call", c)) = IF At(c, "unused") THEN 0 ELSE 1
               /\ Cardinality(EventsOf("result", c)) = IF At(c, "closed") THEN 1 ELSE 0
               /\ Cardinality(RecordsOf(c)) = IF Answered(c) THEN 1 ELSE 0
    BY <1>1, <2>1 DEF ProviderInv, RunInv, OneEventEach, OneRecordEach
  <2>3. step = "done" => decision # "none"
    BY <1>1 DEF ProviderInv, RunInv, DecidedLast
  <2>4. wiring = "driver" /\ step \in {"collect", "done"} /\ events # <<>> =>
          (events[Len(events)].kind = "stop_blocked" <=> ~ReportAllowed)
    BY <1>1, <2>3 DEF ProviderInv, RunInv, HookTellsAudit
  <2>5. ASSUME NEW c \in Calls
        PROVE  Cardinality(EventsOf("result", c)) = IF At(c, "answer") THEN 0 ELSE Cardinality(RecordsOf(c))
    BY <2>2 DEF At, Answered
  <2> QED BY <2>2, <2>4, <2>5 DEF EventsTellTheRun, EventsOf, ReportAllowed, Answered
<1> QED BY <1>1, ProviderInvariantHolds, PTL

=============================================================================
