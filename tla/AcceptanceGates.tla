-------------------------- MODULE AcceptanceGates --------------------------
(* The gates a change passes on its way from an agent to a checkpoint, as     *)
(* functions of what they read: the permission gateway, the permission chain  *)
(* of the provider lane, the spec-conformance gate, the regression gate, the  *)
(* exit gate and the decision made of its verdict.  Paths are members of      *)
(* Files; what a path's name says of it (a secret, a protected place, outside *)
(* of the workspace) is the set it belongs to.                                *)
EXTENDS Naturals, Sequences

CONSTANTS
  Files,            \* paths
  SecretFiles,      \* paths SECRET_PATH or PROVIDER_SECRET_PATH matches
  ProtectedFiles,   \* paths PROTECTED_FRAGMENT matches
  EscapingFiles,    \* paths that resolve outside of the workspace
  WriteSet          \* allowed_write_set of the contract at work

ASSUME FilesAssumption ==
  /\ SecretFiles \subseteq Files
  /\ ProtectedFiles \subseteq Files
  /\ EscapingFiles \subseteq Files
  /\ WriteSet \subseteq Files

\* The verdict of the first rule that applies.
FirstDecisive(rules) ==
  rules[CHOOSE i \in DOMAIN rules :
          rules[i].when /\ \A j \in 1..(i - 1) : ~rules[j].when].verdict

Rule(condition, verdict) == [when |-> condition, verdict |-> verdict]

-----------------------------------------------------------------------------
(* The permission gateway. *)

\* What a mode says of a request no earlier rule decides.
ModeRule(req, inWriteSet) ==
  CASE req.mode = "plan" ->
         IF req.isWrite \/ req.tool \in {"write_file", "shell", "apply_patch"} THEN "deny" ELSE "allow"
    [] req.mode = "ask" -> IF req.isWrite THEN "ask" ELSE "allow"
    [] req.mode = "accept_edits" -> IF ~req.isWrite \/ inWriteSet THEN "allow" ELSE "ask"
    [] req.mode = "bypass_workspace" -> "allow"
    [] req.mode = "deny_unlisted" -> IF inWriteSet \/ ~req.isWrite THEN "allow" ELSE "deny"

\* The ordered pipeline: a role's tools, the command, the paths, disposability,
\* network, the contract, the write set, a secret handle, the mode.
EvaluateToolRequest(req, contract, disposable) ==
  LET inWriteSet == ~req.isWrite \/ req.targets \subseteq contract.writeSet IN
  FirstDecisive(<<
    Rule(req.tool \notin req.roleTools, "deny"),
    Rule(req.risk \in {"sudo", "destructive", "remote_exec", "exfiltration"}, "deny"),
    Rule(req.targets \cap SecretFiles # {}, "deny"),
    Rule(req.isWrite /\ req.targets \cap ProtectedFiles # {}, "deny"),
    Rule(req.isWrite /\ req.targets \cap EscapingFiles # {}, "deny"),
    Rule(/\ req.mode = "bypass_workspace"
         /\ req.targets = {} \/ ~(req.targets \subseteq disposable), "deny"),
    Rule(req.network /\ ~contract.network, "ask"),
    Rule(req.risk = "forbidden", "deny"),
    Rule(req.isWrite /\ ~inWriteSet /\ req.mode \notin {"ask", "bypass_workspace"}, "deny"),
    Rule(req.handle, "ask"),
    Rule(TRUE, ModeRule(req, inWriteSet)) >>)

-----------------------------------------------------------------------------
(* The provider lane's permission chain: the surface, then the policy. *)

WriteTools == {"apply_patch", "write_file", "write", "edit"}

\* canUseTool of a call: targets are the paths its input names, none for a patch.
ProviderCanUseTool(tool, targets, contract, disposable, roleTools) ==
  /\ tool # "shell"
  /\ targets \cap SecretFiles = {}
  /\ "allow" = EvaluateToolRequest(
       [mode |-> "deny_unlisted", tool |-> tool, roleTools |-> roleTools, risk |-> "none",
        isWrite |-> tool \in WriteTools, targets |-> targets, network |-> FALSE, handle |-> FALSE],
       contract, disposable)

\* The validating pre-hook, and the surface permission that is always first.
PreHookAllows(tool, formed, surface) == tool # "shell" /\ tool \in surface /\ formed
IsWhitelisted(tool, surface) == tool # "shell" /\ tool \in surface

-----------------------------------------------------------------------------
(* Proposals, regressions and the exit gate. *)

WriteSetHolds(changed, writeSet) == changed \subseteq writeSet

\* The hard gate before the validator: required fields, the write set, criteria
\* a machine can check, and a way back.
SpecConformanceGate(proposal, contract) ==
  /\ proposal.complete
  /\ WriteSetHolds(proposal.changed, contract.writeSet)
  /\ contract.checkable
  /\ proposal.reversible

\* The tests of earlier stories that now fail; a test the run does not report
\* counts as unbroken.
BrokenTests(prior, failing) == failing \cap UNION {prior[s] : s \in DOMAIN prior}

\* Mutant: only a proposal that lies outside altogether is rejected whole.
ExitGateVerdictAll(changed, contract, stages) ==
  LET out == changed \ contract.writeSet
      passes == stages.validator /\ stages.assessor
                /\ BrokenTests(stages.prior, stages.failing) = {}
  IN [accepted |-> passes /\ ~(changed # {} /\ out = changed),
      rejectedWhole |-> changed # {} /\ out = changed, outOfWriteSet |-> out]

\* runExitGate of the files a diff names.  A file outside of the write set
\* rejects the whole proposal and the later stages are skipped; a stage that is
\* not wired passes.
ExitGateVerdict(changed, contract, stages) ==
  LET out == changed \ contract.writeSet
      spec == SpecConformanceGate(
                [complete |-> TRUE, changed |-> changed, reversible |-> TRUE], contract)
  IN [accepted |-> /\ out = {} /\ spec
                   /\ stages.validator /\ stages.assessor
                   /\ BrokenTests(stages.prior, stages.failing) = {},
      rejectedWhole |-> out # {},
      outOfWriteSet |-> out]

DecideDelegationOutcome(verdict) ==
  CASE verdict.accepted -> "write_checkpoint"
    [] ~verdict.accepted /\ verdict.rejectedWhole /\ verdict.outOfWriteSet # {} -> "escalate_human"
    [] OTHER -> "route_debugger"

=============================================================================
