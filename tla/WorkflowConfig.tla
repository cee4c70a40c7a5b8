--------------------------- MODULE WorkflowConfig ---------------------------
(***************************************************************************)
(* What the planning service loads before it runs a flow, as functions:    *)
(* the stages of configs/planning_workflow.yaml (workflow.ts), a stage's   *)
(* doc-skill and the cursor over its steps (docskill.ts), and the stage    *)
(* order as workflow.ts drives it against itself.                          *)
(*                                                                         *)
(* A line of a file is its indent, whether it opens a list item, its form  *)
(* and its key and value; a value is NoValue where the file says ~, null   *)
(* or nothing, "" for an empty quoted string.                              *)
(***************************************************************************)
EXTENDS Integers, Sequences, FiniteSets, SequencesExt

NoValue == "~"
Malformed == <<"malformed">>

\* Blank lines and comments are skipped; a line indented with a tab or without
\* a key is refused.
Tokenise(lines) == SelectSeq(lines, LAMBDA l : l.form # "blank")
WellSplit(tokens) == \A i \in DOMAIN tokens : tokens[i].form = "pair"

StageFields == {"id", "name", "desc", "skill"}

Tops(tokens) == {i \in DOMAIN tokens : tokens[i].indent = 0}
Items(tokens) == {i \in DOMAIN tokens \ Tops(tokens) : tokens[i].item}
\* The list item a line belongs to: the last one that was opened, 0 for none.
ItemOf(tokens, i) ==
  LET opened == {d \in Items(tokens) : d <= i}
  IN IF opened = {} THEN 0 ELSE CHOOSE d \in opened : \A e \in opened : e <= d
FieldsOf(tokens, d) == {i \in DOMAIN tokens \ Tops(tokens) : ItemOf(tokens, i) = d}

DistinctKeys(tokens, S) == \A i, j \in S : tokens[i].key = tokens[j].key => i = j
ValueOf(tokens, S, key) == tokens[CHOOSE i \in S : tokens[i].key = key].value
KeysOf(tokens, S) == {tokens[i].key : i \in S}

\* The scalars above the list and the list's key, each once.
TopLevelHolds(tokens) ==
  LET top == Tops(tokens) IN
  /\ \A i \in top : /\ ~tokens[i].item /\ tokens[i].key \in {"mode", "label", "stages"}
                    /\ tokens[i].key = "stages" => tokens[i].value = NoValue
  /\ DistinctKeys(tokens, top)
  /\ {"mode", "label", "stages"} \subseteq KeysOf(tokens, top)
  /\ \A key \in {"mode", "label"} : ValueOf(tokens, top, key) # NoValue

\* What is indented comes after the list's key and belongs to an item.
NestingHolds(tokens) ==
  \A i \in DOMAIN tokens \ Tops(tokens) :
    LET d == ItemOf(tokens, i) IN
    /\ \E j \in Tops(tokens) : j < i /\ tokens[j].key = "stages"
    /\ d # 0 /\ (d # i => tokens[i].indent > tokens[d].indent)

\* Every item has the four fields once and no other; only the skill may be null.
AssignStageField(tokens, d) ==
  LET fields == FieldsOf(tokens, d) IN
  /\ DistinctKeys(tokens, fields) /\ KeysOf(tokens, fields) = StageFields
  /\ \A key \in {"id", "name", "desc"} : ValueOf(tokens, fields, key) \notin {NoValue, ""}

ParsePlanningWorkflow(lines) ==
  LET tokens == Tokenise(lines)
      items == SetToSortSeq(Items(tokens), LAMBDA d, e : d < e)
      stage(d) == [key \in StageFields |-> ValueOf(tokens, FieldsOf(tokens, d), key)]
  IN IF /\ tokens # << >> /\ WellSplit(tokens)
        /\ TopLevelHolds(tokens) /\ NestingHolds(tokens)
        /\ items # << >> /\ \A d \in Items(tokens) : AssignStageField(tokens, d)
        /\ \A d, e \in Items(tokens) : stage(d).id = stage(e).id => d = e
     THEN [i \in DOMAIN items |-> stage(items[i])]
     ELSE Malformed
LoadPlanningWorkflowFile(file) ==
  IF file.readable THEN ParsePlanningWorkflow(file.lines) ELSE Malformed

\* One edit away from a good configuration there is no silent default: a line
\* that is missing, said twice, without a key or at another depth is refused,
\* a blank one more is not.
Line(indent, item, key, value) == [indent |-> indent, item |-> item, form |-> "pair", key |-> key, value |-> value]
GoodConfig ==
  <<Line(0, FALSE, "mode", "greenfield"), Line(0, FALSE, "label", "G"), Line(0, FALSE, "stages", NoValue),
    Line(2, TRUE, "id", "brief"), Line(4, FALSE, "name", "Brief"), Line(4, FALSE, "desc", "idea"), Line(4, FALSE, "skill", NoValue),
    Line(2, TRUE, "id", "prd"), Line(4, FALSE, "skill", "bmad-prd"), Line(4, FALSE, "name", "PRD"), Line(4, FALSE, "desc", "draft")>>
ASSUME ConfigAssumption ==
  /\ LoadPlanningWorkflowFile([readable |-> FALSE, lines |-> GoodConfig]) = Malformed
  /\ LET stages == LoadPlanningWorkflowFile([readable |-> TRUE, lines |-> GoodConfig])
     IN [i \in DOMAIN stages |-> <<stages[i].id, stages[i].skill>>] = <<<<"brief", NoValue>>, <<"prd", "bmad-prd">>>>
  /\ \A i \in DOMAIN GoodConfig :
       /\ ParsePlanningWorkflow(RemoveAt(GoodConfig, i)) = Malformed
       /\ ParsePlanningWorkflow(InsertAt(GoodConfig, i, GoodConfig[i])) = Malformed
       /\ \A form \in {"tab", "no key"} : ParsePlanningWorkflow([GoodConfig EXCEPT ![i].form = form]) = Malformed
       /\ ParsePlanningWorkflow([GoodConfig EXCEPT ![i].indent = IF @ = 0 THEN 2 ELSE 0]) = Malformed
       /\ ParsePlanningWorkflow(InsertAt(GoodConfig, i, [GoodConfig[i] EXCEPT !.form = "blank"]))
            = ParsePlanningWorkflow(GoodConfig)
  /\ ParsePlanningWorkflow([GoodConfig EXCEPT ![8].value = "brief"]) = Malformed

-----------------------------------------------------------------------------
(* Doc-skills. *)

\* A SKILL.md opens with its frontmatter, closes it and names the three
\* required fields; other fields are kept.
RequiredFrontmatter == {"name", "description", "role"}
FrontmatterHolds(md) ==
  LET tokens == Tokenise(md.lines)
      all == DOMAIN tokens
  IN /\ md.opens /\ md.closes /\ WellSplit(tokens)
     /\ DistinctKeys(tokens, all) /\ RequiredFrontmatter \subseteq KeysOf(tokens, all)
     /\ \A key \in RequiredFrontmatter : ValueOf(tokens, all, key) \notin {NoValue, ""}
Frontmatter(md) ==
  LET tokens == Tokenise(md.lines)
  IN [key \in KeysOf(tokens, DOMAIN tokens) |-> ValueOf(tokens, DOMAIN tokens, key)]
\* A skill is a directory with the three files and steps/, whose files are
\* taken in the order of their names (numbers here): its fields and its steps.
LoadDocSkill(dir) ==
  IF {"SKILL.md", "template.md", "checklist.md", "steps/"} \subseteq dir.entries
     /\ FrontmatterHolds(dir.md)
  THEN <<Frontmatter(dir.md)>> \o <<SetToSortSeq(dir.steps, LAMBDA a, b : a < b)>>
  ELSE Malformed

\* A cursor is the steps and the number of those that were surfaced before the
\* current one; <<>> when there is no current step.
InitStepSequencer(skill) == <<skill[2], 0>>
CurrentStep(seq) == IF seq[2] < Len(seq[1]) THEN <<seq[1][seq[2] + 1]>> ELSE << >>
IsAuthoringStepComplete(seq) == seq[1] = << >> \/ seq[2] + 1 >= Len(seq[1])
NextStep(seq) == IF IsAuthoringStepComplete(seq) THEN Malformed ELSE <<seq[1], seq[2] + 1>>

\* Going on until it is refused surfaces every step once, in order.
ASSUME StepsAssumption ==
  \A names \in SUBSET (1..4) :
    LET skill == LoadDocSkill([entries |-> {"SKILL.md", "template.md", "checklist.md", "steps/"}, steps |-> names,
                   md |-> [opens |-> TRUE, closes |-> TRUE,
                           lines |-> <<Line(0, FALSE, "role", "r"), Line(0, FALSE, "name", "n"),
                                       Line(0, FALSE, "description", "d")>>]])
        at[k \in 0..4] == IF k = 0 THEN InitStepSequencer(skill)
                          ELSE IF at[k - 1] = Malformed THEN Malformed ELSE NextStep(at[k - 1])
        shown == FlattenSeq([k \in 1..5 |-> IF at[k - 1] = Malformed THEN << >> ELSE CurrentStep(at[k - 1])])
    IN shown = SetToSortSeq(names, LAMBDA a, b : a < b)

-----------------------------------------------------------------------------
(* The stage order, as assertStageOrderingBarrier probes it. *)

CanActivate(st, i) == i \in DOMAIN st /\ st[i] = "todo" /\ \A j \in 1..(i - 1) : st[j] = "done"
\* Activation out of order, twice, or out of range throws.
ActivateStage(st, i) ==
  IF i \notin DOMAIN st THEN Malformed
  ELSE IF st[i] \in {"active", "done"} \/ \E j \in 1..(i - 1) : st[j] # "done" THEN Malformed
  ELSE [st EXCEPT ![i] = "active"]
ActiveStages(st) == {i \in DOMAIN st : st[i] = "active"}
\* The first active stage is done and the next one active, whatever it was.
AdvanceStatuses(st) ==
  IF ActiveStages(st) = {} THEN Malformed
  ELSE LET a == CHOOSE i \in ActiveStages(st) : \A j \in ActiveStages(st) : i <= j
       IN [i \in DOMAIN st |-> IF i = a THEN "done" ELSE IF i = a + 1 THEN "active" ELSE st[i]]
AllDisallowedActivationsRefused(st) ==
  \A i \in 0..(Len(st) + 1) : CanActivate(st, i) \/ ActivateStage(st, i) = Malformed
StageOrderingBarrier(n) ==
  LET walk[k \in 0..n] == IF k = 0 THEN [i \in 1..n |-> IF i = 1 THEN "active" ELSE "todo"]
                          ELSE AdvanceStatuses(walk[k - 1])
  IN [refused_out_of_order |-> \A k \in 0..n : AllDisallowedActivationsRefused(walk[k]),
      no_wrap_on_over_advance |-> walk[n] = [i \in 1..n |-> "done"] /\ AdvanceStatuses(walk[n]) = Malformed,
      never_two_active |-> \A k \in 0..n : Cardinality(ActiveStages(walk[k])) <= 1]

\* The barrier holds for workflows of up to five stages, and the guard that
\* asks and the one that throws agree on every four statuses.
ASSUME BarrierAssumption ==
  /\ \A n \in 1..5 : LET proof == StageOrderingBarrier(n) IN \A p \in DOMAIN proof : proof[p]
  /\ \A st \in [1..4 -> {"todo", "active", "done"}], i \in 0..5 :
       CanActivate(st, i) <=> ActivateStage(st, i) # Malformed
=============================================================================
