----------------------------- MODULE StoryBuild -----------------------------
(* One story built in a disposable git workspace: the Supervisor's packets,   *)
(* the developer's proposal and its gates, the apply boundary, the validation *)
(* commands, the repair and the way out.  Three lanes drive it: "driver"      *)
(* (scripts/driver-loop.ts: one repair, rollback on a terminal failure),      *)
(* "full" (scripts/full-loop-skeleton.ts: the debug loop) and "observe" (the  *)
(* developer's own apply-and-run before it submits).                          *)
(*                                                                            *)
(* A file's content is the set of exported symbols in it, {} when it is not   *)
(* there; a validation command passes when the files have the symbols it      *)
(* needs.  A diff turns one content of one file into another, and nothing     *)
(* compares that file with those its proposal claims.                         *)
EXTENDS AcceptanceGates, Preflight

CONSTANTS
  Symbols,       \* exported symbols
  SeedTree,      \* the committed baseline, a content for every file
  TestFiles,     \* files TEST_FILE matches
  Needs,         \* what each validation command needs of the files
  Contracts,     \* the sets of fields a contract may have
  MaxAttempts,   \* maxAttempts of the debug loop
  MaxCorrections \* maxSelfCorrections of the observe loop

Content == SUBSET Symbols
Required == {"story_id", "objective", "allowed_write_set", "acceptance_criteria",
             "validation_commands", "rollback_notes"}

ASSUME StoryBuildAssumption ==
  /\ SeedTree \in [Files -> Content]
  /\ TestFiles \subseteq Files
  /\ \A c \in DOMAIN Needs : Needs[c] \in [Files -> Content]
  /\ Contracts \subseteq SUBSET Required
  /\ MaxAttempts \in Nat /\ MaxCorrections \in Nat

VARIABLES
  lane,       \* who drives the story
  fields,     \* the fields the contract has
  pc,         \* the next step
  workspace,  \* "none", "exists" or "removed"
  tree,       \* the content of every file of the workspace
  proposal,   \* the proposal in hand
  attempts,   \* repairs asked for, or self-corrections made
  verdict,    \* of the validation or preflight last run
  advice,     \* verdict of the preflight, which only advises
  result      \* what the caller is told

vars == <<lane, fields, pc, workspace, tree, proposal, attempts, verdict, advice, result>>

NoContent == {"no content"}
\* A create is a modify of a file that is not there.
Edits ==
  [path : Files, op : {"modify"}, content : Content \cup {NoContent}]
    \cup [path : Files, op : {"delete"}, content : {NoContent}]
NoProposal == [changed |-> {}, edits |-> {}]
Proposals == [changed : SUBSET Files, edits : SUBSET Edits]

-----------------------------------------------------------------------------
(* Packets. *)

\* A contract field that is missing makes the composer throw.
MissingFields == Required \ fields

\* The developer's packet.  The composer sets neither the acceptance tests nor
\* the current files; a caller of the observe lane gives both.
DeveloperTaskPacket(wiring) ==
  IF wiring = "observe"
    THEN [writeSet |-> WriteSet, acceptanceTests |-> TestFiles, currentFiles |-> Files]
    ELSE [writeSet |-> WriteSet, acceptanceTests |-> {}, currentFiles |-> {}]

\* The repair is confined to the failing diff's files; an empty diff falls back
\* to the write set.  Of the do-not-touch list no entry is a path.
AllowedRepairScope(changed) == IF changed # {} THEN changed ELSE WriteSet

-----------------------------------------------------------------------------
(* Proposals. *)

\* Mutant: the paths of the edits are not looked at.
PathsClaimed(output) == output.changed

PathsOf(output) == output.changed \cup {e.path : e \in output.edits}

RemovesExports(edit, packet) ==
  /\ edit.op # "delete" /\ edit.content # NoContent
  /\ edit.path \in packet.currentFiles
  /\ ~(SeedTree[edit.path] \subseteq edit.content)

\* producePatchProposal of what the model answered.
ProducePatchProposal(output, packet) ==
  /\ output.kind = "patch_proposal"
  /\ output.changed # {}
  /\ PathsOf(output) \subseteq packet.writeSet
  /\ PathsOf(output) \cap packet.acceptanceTests = {}
  /\ \A e \in output.edits : e.op # "delete" /\ ~RemovesExports(e, packet)
  /\ output.reversible

\* produceRepairProposal: a repair may delete, but not a test.
ProduceRepairProposal(output, scope) ==
  /\ output.kind = "repair_proposal"
  /\ output.changed # {}
  /\ PathsOf(output) \subseteq scope
  /\ \A e \in output.edits : ~(e.op = "delete" /\ e.path \in TestFiles)
  /\ output.reversible

\* What a model may answer a role with; an output that names no edits modifies
\* what it changed.
Outputs(kind) ==
  {[kind |-> "escalation", changed |-> {}, reversible |-> TRUE, edits |-> {}]} \cup
  {[kind |-> kind, changed |-> c, reversible |-> r,
    edits |-> IF e = {} THEN {[path |-> f, op |-> "modify", content |-> NoContent] : f \in c} ELSE e] :
     c \in SUBSET Files, r \in BOOLEAN, e \in {{}} \cup {{edit} : edit \in Edits}}

-----------------------------------------------------------------------------
(* The apply boundary, the validation commands and the preflight. *)

\* applyProposal's decision: the write set, then the gateway for every file.
ApplyAllows(changed) ==
  /\ WriteSetHolds(changed, WriteSet)
  /\ \A f \in changed :
       "allow" = EvaluateToolRequest(
         [mode |-> "bypass_workspace", tool |-> "apply_patch", roleTools |-> {"apply_patch"},
          risk |-> "none", isWrite |-> TRUE, targets |-> {f}, network |-> FALSE, handle |-> FALSE],
         [writeSet |-> WriteSet, network |-> FALSE], Files)

\* The diff that is applied is not read for what it touches.
Diffs == [path : Files, from : Content, to : Content]

\* git apply: a diff that does not match the tree changes nothing and throws.
Fits(diff) == tree[diff.path] = diff.from
ApplyPatch(diff) == tree' = [tree EXCEPT ![diff.path] = diff.to]

Passes(command, files) == \A f \in Files : Needs[command][f] \subseteq files[f]

RunValidation(files) ==
  IF \A c \in DOMAIN Needs : Passes(c, files) THEN "passed" ELSE "failed"

MaxSelfCorrectionAttempts == 2

\* A repeated signature is never counted by its callers.
DecidePreflightNext(passed, corrections) ==
  IF passed THEN "submit"
  ELSE IF corrections >= MaxSelfCorrectionAttempts THEN "escalate" ELSE "self_correct"

\* defaultApplyEdits: an edit without content empties its file.
EditedTree(edits) ==
  [f \in Files |->
     LET here == {e \in edits : e.path = f} IN
     IF here = {} THEN tree[f]
     ELSE LET e == CHOOSE e \in here : TRUE IN
          IF e.op = "delete" \/ e.content = NoContent THEN {} ELSE e.content]

-----------------------------------------------------------------------------
Init ==
  /\ lane \in {"driver", "full", "observe"}
  /\ fields \in Contracts
  /\ pc = "workspace" /\ workspace = "none"
  /\ tree = [f \in Files |-> {}]
  /\ proposal = NoProposal /\ attempts = 0
  /\ verdict = "none" /\ advice = "none" /\ result = "none"

Goto(place) == pc' = place /\ UNCHANGED <<lane, fields>>
Return(what) == result' = what /\ Goto("cleanup")

\* Mutant: the answer is given without the way back.
FailRepairPlain == Return("failed") /\ UNCHANGED <<workspace, tree, proposal, attempts, verdict, advice>>

\* A terminal failure after the first apply: the driver rolls back.
FailRepair == Goto("rollback") /\ UNCHANGED <<workspace, tree, proposal, attempts, verdict, advice, result>>

\* The story is selected, its workspace made, seeded and committed.
SeedWorkspace ==
  /\ pc = "workspace"
  /\ workspace' = "exists" /\ tree' = SeedTree
  /\ Goto(IF lane = "driver" THEN "compose" ELSE "develop")
  /\ UNCHANGED <<proposal, attempts, verdict, advice, result>>

\* The driver composes the packet of the contract, or throws.
Compose ==
  /\ pc = "compose"
  /\ IF MissingFields = {} THEN Goto("develop") /\ UNCHANGED result ELSE Return("threw")
  /\ UNCHANGED <<workspace, tree, proposal, attempts, verdict, advice>>

\* The developer answers.  The full lane takes the provider's output after the
\* shallow check only, the others what producePatchProposal lets through.
Develop ==
  /\ pc = "develop"
  /\ \E output \in Outputs("patch_proposal") :
       LET produced == IF lane = "full"
                         THEN output.kind = "patch_proposal" /\ output.changed # {}
                         ELSE ProducePatchProposal(output, DeveloperTaskPacket(lane)) IN
       IF produced
         THEN /\ proposal' = [changed |-> output.changed, edits |-> output.edits]
              /\ IF lane = "observe" THEN Goto("observe") /\ UNCHANGED result
                 ELSE IF SpecConformanceGate(
                           [complete |-> TRUE, changed |-> output.changed, reversible |-> output.reversible],
                           [writeSet |-> WriteSet, checkable |-> TRUE])
                   THEN Goto("apply") /\ UNCHANGED result
                   ELSE Return("failed")
         ELSE /\ Return(IF lane = "observe" THEN "escalated" ELSE "failed")
              /\ UNCHANGED proposal
  \* The driver's preflight reads a map with none of its commands, and passes.
  /\ advice' = IF lane = "observe" THEN advice ELSE DecidePreflightNext(TRUE, 0)
  /\ UNCHANGED <<workspace, tree, attempts, verdict>>

\* The proposal is applied; a diff that does not fit throws.
Apply ==
  /\ pc = "apply"
  /\ IF ~ApplyAllows(proposal.changed) THEN Return("failed") /\ UNCHANGED tree
     ELSE \E diff \in Diffs :
            IF Fits(diff) THEN ApplyPatch(diff) /\ Goto("validate") /\ UNCHANGED result
                          ELSE Return("threw") /\ UNCHANGED tree
  /\ UNCHANGED <<workspace, proposal, attempts, verdict, advice>>

Validate ==
  /\ pc = "validate"
  /\ verdict' = RunValidation(tree)
  /\ IF verdict' = "passed" THEN Return("checkpoint")
     ELSE Goto("repair") /\ UNCHANGED result
  /\ UNCHANGED <<workspace, tree, proposal, attempts, advice>>

\* The driver's one repair: produced, applied without the spec gate, validated.
DriverRepair ==
  /\ pc = "repair" /\ lane = "driver"
  /\ \E output \in Outputs("repair_proposal") :
       IF ~ProduceRepairProposal(output, AllowedRepairScope(proposal.changed))
            \/ ~ApplyAllows(output.changed)
         THEN FailRepair
         ELSE /\ attempts' = attempts + 1
              /\ proposal' = [changed |-> output.changed, edits |-> output.edits]
              /\ \E diff \in Diffs :
                   IF Fits(diff) THEN ApplyPatch(diff) /\ Goto("revalidate") /\ UNCHANGED result
                                 ELSE Return("threw") /\ UNCHANGED tree
              /\ UNCHANGED <<workspace, verdict, advice>>

Revalidate ==
  /\ pc = "revalidate" /\ lane = "driver"
  /\ verdict' = RunValidation(tree)
  /\ IF verdict' = "passed" THEN Return("checkpoint")
     ELSE Goto("rollback") /\ UNCHANGED result
  /\ UNCHANGED <<workspace, tree, proposal, attempts, advice>>

\* git checkout of the story's branch, which holds the workspace id and names
\* no ref of the repository: the command fails and the tree stays as it is.
Rollback ==
  /\ pc = "rollback"
  /\ Return("rolled_back")
  /\ UNCHANGED <<workspace, tree, proposal, attempts, verdict, advice>>

AttemptsLeft == attempts < MaxAttempts

\* One attempt of the debug loop, applied over what the last one left; a diff
\* that does not fit is an attempt that failed.
DebugLoopRepair ==
  /\ pc = "repair" /\ lane = "full" /\ AttemptsLeft
  /\ attempts' = attempts + 1
  /\ \/ \* no output, or one of the wrong shape: the caller may ask again, and does not
        Return("failed") /\ UNCHANGED <<tree, proposal, verdict>>
     \/ \E changed \in (SUBSET Files) \ {{}} :
          IF ~WriteSetHolds(changed, WriteSet) THEN Return("failed") /\ UNCHANGED <<tree, proposal, verdict>>
          ELSE /\ proposal' = [changed |-> changed, edits |-> {}]
               /\ \E diff \in Diffs :
                    IF ApplyAllows(changed) /\ Fits(diff)
                      THEN /\ ApplyPatch(diff)
                           /\ verdict' = RunValidation(tree')
                           /\ IF verdict' = "passed" THEN Return("checkpoint")
                              ELSE Goto("repair") /\ UNCHANGED result
                      ELSE Goto("repair") /\ UNCHANGED <<tree, verdict, result>>
  /\ UNCHANGED <<workspace, advice>>

DebugLoopExhausted ==
  /\ pc = "repair" /\ lane = "full" /\ ~AttemptsLeft
  /\ Return("failed")
  /\ UNCHANGED <<workspace, tree, proposal, attempts, verdict, advice>>

\* The developer's Observe: the edits are applied over those of earlier rounds
\* and the affected tests run; red, and corrections left, asks for another.  The
\* preflight is given the proposal only, so its own count of corrections is 0.
Observe ==
  /\ pc = "observe"
  /\ tree' = EditedTree(proposal.edits)
  /\ \E typecheck \in BOOLEAN :
       LET passed == typecheck /\ RunValidation(tree') = "passed" IN
       /\ verdict' = IF passed THEN "passed" ELSE "failed"
       /\ advice' = DecidePreflightNext(passed, 0)
       /\ CASE passed -> Return("submit") /\ UNCHANGED attempts
            [] ~passed /\ attempts >= MaxCorrections -> Return("escalated") /\ UNCHANGED attempts
            [] OTHER -> attempts' = attempts + 1 /\ Goto("develop") /\ UNCHANGED result
  /\ UNCHANGED <<workspace, proposal>>

\* finally: the workspace is removed.  tree keeps what it was.
Cleanup ==
  /\ pc = "cleanup"
  /\ workspace' = "removed"
  /\ Goto("over")
  /\ UNCHANGED <<tree, proposal, attempts, verdict, advice, result>>

Next ==
  \/ SeedWorkspace \/ Compose \/ Develop \/ Apply \/ Validate
  \/ DriverRepair \/ Revalidate \/ Rollback
  \/ DebugLoopRepair \/ DebugLoopExhausted \/ Observe \/ Cleanup

\* The model answers and the commands end.
Spec == Init /\ [][Next]_vars /\ WF_vars(Next)

-----------------------------------------------------------------------------
(* Properties. *)

Results == {"none", "checkpoint", "failed", "rolled_back", "threw", "submit", "escalated"}

Budget == CASE lane = "driver" -> 1 [] lane = "full" -> MaxAttempts [] lane = "observe" -> MaxCorrections

\* Every variable has its type; the attempts stay in the lane's budget.
TypeOK ==
  /\ lane \in {"driver", "full", "observe"} /\ fields \in Contracts
  /\ pc \in {"workspace", "compose", "develop", "apply", "validate", "repair", "revalidate",
             "rollback", "observe", "cleanup", "over"}
  /\ workspace \in {"none", "exists", "removed"}
  /\ tree \in [Files -> Content]
  /\ proposal \in Proposals
  /\ attempts \in 0..Budget
  /\ verdict \in {"none", "passed", "failed"}
  /\ advice \in {"none", "submit", "self_correct", "escalate"}
  /\ result \in Results

Changed == {f \in Files : tree[f] # SeedTree[f]}

\* A driver's run that reports a failure without a rollback left the baseline as
\* it was: every failure after the first apply goes through the rollback
\* (driver-loop.ts:204-236, 266-280).
FailsClean ==
  lane = "driver" /\ result = "failed" => Changed = {}

\* Whatever rounds of edits the developer's Observe applied one over another,
\* the workspace differs from its baseline in files of the write set that are no
\* tests; a file still has the exports it had, unless an edit without content
\* emptied it; what is submitted runs green on all of it (developer-runtime
\* producePatchProposal, runDeveloperObserveLoop, preflight-runner defaultApplyEdits).
ObservedInScope ==
  lane = "observe" /\ pc # "workspace" =>
    /\ Changed \subseteq WriteSet \ TestFiles
    /\ \A f \in Files : SeedTree[f] \subseteq tree[f] \/ tree[f] = {}
    /\ result = "submit" => \A c \in DOMAIN Needs : Passes(c, tree)

\* What is applied is in the write set: "defense-in-depth: repo-relative
\* changed_files must be within the write-set" (tool-executor/src/index.ts:26).
CheckpointInScope == result = "checkpoint" => Changed \subseteq WriteSet

\* The preflight and the loop that runs it decide alike: "repeated signature =>
\* escalate, never loop" (preflight-runner/src/index.ts:7).
LoopAgreesWithPreflight ==
  [][pc = "observe" => (result' = "escalated" <=> advice' = "escalate")]_vars

\* What is submitted is green by itself, without the edits of earlier rounds.
SubmittedStandsAlone ==
  lane = "observe" /\ result = "submit" =>
    LET own == [f \in Files |-> IF \E e \in proposal.edits : e.path = f THEN tree[f] ELSE SeedTree[f]]
    IN \A c \in DOMAIN Needs : Passes(c, own)

\* A rolled back run is back on its baseline (driver-loop.ts:13-14).
RolledBackIsBaseline == result = "rolled_back" => Changed = {}

\* A modify of an emitted proposal keeps the exports of the file it modifies
\* (supervisor-runtime/src/index.ts:206).
ModifyKeepsExports ==
  lane = "driver" /\ pc \in {"apply", "validate"} =>
    \A e \in proposal.edits :
      e.op = "modify" /\ e.content # NoContent => SeedTree[e.path] \subseteq e.content

=============================================================================
