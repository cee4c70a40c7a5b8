---------------------------- MODULE PolicyChanges ----------------------------
(***************************************************************************)
(* The parts of packages/gate-control beside the gate itself, as           *)
(* functions: which changes of a policy stop for a person, the token cap   *)
(* of one run and the ledger seeded with what a project has spent.         *)
(*                                                                         *)
(* A policy is a function from its leaf keys to values.  A key is the      *)
(* first pattern of the classifier it matches; a switch is "on", "off" or  *)
(* something else, a tool list its length and whether it names a shell.    *)
(***************************************************************************)
EXTENDS Naturals, Sequences, FiniteSets

Absent == "absent"
At0(p, key) == IF key \in DOMAIN p THEN p[key] ELSE Absent
DiffPolicy(before, after) ==
  {key \in DOMAIN before \cup DOMAIN after : At0(before, key) # At0(after, key)}

Guardrails == {"real_api", "default_deny", "kill_switch", "tools", "network", "sandbox", "guardrail"}

\* Spending and the network weaken unless they are switched off, a default deny
\* unless it is switched on, a kill switch and a sandbox only when they are
\* switched off, a tool list unless it got shorter and named no shell anew.
WeakensGuardrail(key, was, is) ==
  CASE key \in {"real_api", "network"} -> ~(was = "on" /\ is = "off")
    [] key = "default_deny" -> ~(was = "off" /\ is = "on")
    [] key \in {"kill_switch", "sandbox"} -> was = "on" /\ is = "off"
    [] key = "tools" -> (is.shell /\ ~was.shell) \/ is.length >= was.length
    [] OTHER -> TRUE

\* A key that is neither a guardrail nor plainly the user's own stops too.
ClassifyPolicyChange(before, after) ==
  IF \E key \in DiffPolicy(before, after) :
       IF key \in Guardrails THEN WeakensGuardrail(key, At0(before, key), At0(after, key)) ELSE key # "benign"
  THEN "stop" ELSE "apply_and_log"

\* What is applied without a stop switches nothing on that spends or reaches
\* out and nothing off that protects, and takes no protecting key away but the
\* kill switch's and the sandbox's.
Switches == {"real_api", "default_deny", "kill_switch", "network", "sandbox"}
ASSUME ClassifierAssumption ==
  LET keys == Switches \cup {"guardrail", "benign", "unknown"}
      one(key) == {[k \in {key} |-> v] : v \in {"on", "off", "other"}} \cup {[k \in {} |-> "on"]}
      two(k, l) == {[x \in {k, l} |-> IF x = k THEN v ELSE w] : v, w \in {"on", "off"}}
  IN /\ \A key \in keys : \A before, after \in one(key) :
          ClassifyPolicyChange(before, after) = "apply_and_log" =>
            /\ key \in {"real_api", "network"} => At0(after, key) # "on" \/ At0(before, key) = "on"
            /\ key \in {"default_deny", "kill_switch", "sandbox"} => ~(At0(before, key) = "on" /\ At0(after, key) = "off")
            /\ key \in {"guardrail", "unknown"} => before = after
            /\ DOMAIN before # DOMAIN after => key \in {"benign", "kill_switch", "sandbox"}
     /\ \A k, l \in keys : \A before, after \in two(k, l) :
          ClassifyPolicyChange(before, after) = "stop" <=>
            \E key \in {k, l} : ClassifyPolicyChange([x \in {key} |-> before[key]], [x \in {key} |-> after[key]]) = "stop"

\* TokenCapGuard.record: the run that crosses the cap is over.
RecordTokens(guard, tokens, cap) ==
  [total |-> guard.total + tokens, killed |-> guard.killed \/ guard.total + tokens >= cap]
\* A ledger that starts from what the project spent; no budget is no ceiling.
SeedBudgetLedger(cost) == [capped |-> cost.has_budget, ceiling |-> cost.budget, spent |-> cost.cumulative]
LedgerCanStart(ledger, estimate) ==
  ledger.capped => ledger.spent < ledger.ceiling /\ ledger.spent + estimate <= ledger.ceiling

\* A run goes over its cap by its last call only; a seeded ledger lets no run
\* start that its estimate takes over the project's budget.
ASSUME CapAssumption ==
  /\ \A cap \in 1..4, calls \in [1..3 -> 0..2] :
       LET at[k \in 0..3] == IF k = 0 THEN [total |-> 0, killed |-> FALSE]
                             ELSE IF at[k - 1].killed THEN at[k - 1] ELSE RecordTokens(at[k - 1], calls[k], cap)
       IN at[3].total < cap + 2 /\ (at[3].killed <=> at[3].total >= cap)
  /\ \A cumulative \in 0..4, budget \in 0..4, estimate \in 0..4 :
       LedgerCanStart(SeedBudgetLedger([has_budget |-> TRUE, budget |-> budget, cumulative |-> cumulative]), estimate)
         => cumulative + estimate <= budget /\ cumulative < budget
=============================================================================
