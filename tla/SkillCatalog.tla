---------------------------- MODULE SkillCatalog ----------------------------
(* The skill catalog of the cockpit and of the agents' prompts: the API       *)
(* toggles, adds and deletes entries of skills/skill_manifest.json, and every *)
(* model call of a developer or a reviewer mounts what the file says at that  *)
(* moment.  An entry is found by the first one that has its id, but an add    *)
(* does not look whether the id is taken, so an id may have several entries.  *)
EXTENDS Integers, Sequences, FiniteSets, FiniteSetsExt, SequencesExt

CONSTANTS
  Skills,     \* skill ids of one role
  Shipped,    \* the catalog a checkout starts with
  DependsOn,  \* the depends_on of each skill's skill.json
  MaxOps      \* bound: catalog changes

VARIABLES catalog, ops

Entry == [id : Skills, status : {"registered", "draft", "needs_tests", "quarantined"},
          enabled : BOOLEAN, builtin : BOOLEAN]

ASSUME CatalogAssumption ==
  /\ Shipped \in Seq(Entry) /\ MaxOps \in Nat
  /\ DependsOn \in [Skills -> SUBSET Skills]

CatalogOK == catalog \in Seq(Entry) /\ ops \in 0..MaxOps

InitCatalog == catalog = Shipped /\ ops = 0

\* Where the first entry of an id is, 0 when it has none.
FindSkill(id) ==
  LET at == {i \in DOMAIN catalog : catalog[i].id = id}
  IN IF at = {} THEN 0 ELSE Min(at)

\* A deleted entry may be any but a builtin one; what else a request names
\* that is not the catalog's is refused with it.
CanDelete(at) == \A i \in DOMAIN catalog : i = at => ~catalog[i].builtin
\* Mutant: the decision looks at the newest entry of the id.
DecideSkillControlOnNewest(req) ==
  /\ ~req.overreach
  /\ req.op \in {"toggle", "add", "delete"}
  /\ req.op = "delete" => CanDelete(Max({i \in DOMAIN catalog : catalog[i].id = req.id} \cup {0}))
DecideSkillControl(req) ==
  /\ ~req.overreach
  /\ req.op \in {"toggle", "add", "delete"}
  /\ req.op = "delete" => CanDelete(FindSkill(req.id))

Requests == [op : {"toggle", "add", "delete", "register", "promote"},
             id : Skills, enabled : BOOLEAN, overreach : BOOLEAN]

Toggle(req) ==
  /\ req.op = "toggle"
  /\ FindSkill(req.id) # 0
  /\ catalog' = [catalog EXCEPT ![FindSkill(req.id)].enabled = req.enabled]

Delete(req) ==
  /\ req.op = "delete"
  /\ FindSkill(req.id) # 0
  /\ catalog' = RemoveAt(catalog, FindSkill(req.id))

Added(id) == [id |-> id, status |-> "registered", enabled |-> TRUE, builtin |-> FALSE]
Add(req) ==
  /\ req.op = "add"
  /\ catalog' = Append(catalog, Added(req.id))

\* One request of the cockpit: read, decide, change and write back.
HandleSkillControl(req) ==
  /\ ops < MaxOps
  /\ DecideSkillControl(req)
  /\ Toggle(req) \/ Delete(req) \/ Add(req)
  /\ ops' = ops + 1

-----------------------------------------------------------------------------
(* Mounting. *)

IdsWith(status, on) ==
  {catalog[i].id : i \in {j \in DOMAIN catalog :
      catalog[j].status = status /\ (on => catalog[j].enabled)}}
SelectSkills == IdsWith("registered", TRUE)

\* The sort leaves out a dependency that is not selected and throws at a cycle.
Acyclic(ids) ==
  \A some \in (SUBSET ids) \ {{}} : \E s \in some : DependsOn[s] \cap some = {}
DependencyOrders(ids) ==
  {order \in SetToSeqs(ids) :
     \A i, j \in DOMAIN order : order[i] \in DependsOn[order[j]] => i < j}

\* An agent whose skills cannot be sorted works without any, while the page that
\* shows its prompt then lists every registered skill, also those turned off.
Mounted == IF Acyclic(SelectSkills) THEN SelectSkills ELSE {}
MountedInView ==
  IF Acyclic(SelectSkills) THEN SelectSkills ELSE IdsWith("registered", FALSE)

\* Warnings are injected for the selected and for the quarantined.
Avoided == SelectSkills \cup IdsWith("quarantined", FALSE)

-----------------------------------------------------------------------------
(* A skill that was shipped with the product is in the catalog for good: it   *)
(* may be turned off, but no sequence of adds, toggles and deletes, also of   *)
(* entries that share its id, takes its entry away (skillControl.ts).         *)
BuiltinsSurvive ==
  \A i \in DOMAIN Shipped : Shipped[i].builtin =>
    \E j \in DOMAIN catalog : catalog[j].id = Shipped[i].id /\ catalog[j].builtin
=============================================================================
