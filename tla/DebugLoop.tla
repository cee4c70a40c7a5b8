----------------------------- MODULE DebugLoop -----------------------------
(***************************************************************************)
(* The debug loop of packages/debugger-runtime/src/index.ts over the       *)
(* failure bank of packages/failure-bank/src/index.ts, wired together as   *)
(* in scripts/full-loop-skeleton.ts.                                       *)
(*                                                                         *)
(* A failed validation starts runDebugLoop.  It banks a gene for the       *)
(* failure, gives up if the bank finds its pattern systemic, and otherwise *)
(* asks for repairs until one passes, is refused, or the attempts are      *)
(* used.  The bank outlives the loops: what one loop banked decides what a *)
(* later one may do.                                                       *)
(*                                                                         *)
(* Abstracted: a signature is a member of Signal, and Overlap says which   *)
(* of them have a token in common the way bankGene looks for it, by        *)
(* substring, so that Overlap need not be symmetric.  Nothing resolves a   *)
(* gene or consolidates the bank, so every gene is active.                 *)
(***************************************************************************)
EXTENDS FailureGenes

CONSTANTS
  Signal,       \* signatures of failures
  NoSignal,     \* before the first loop
  Overlap,      \* <<banked, new>>: a token of banked occurs in new
  MaxAttempts,  \* maxAttempts of every loop
  MaxGenes,     \* maxActiveGenes of the bank
  MaxLoops      \* bound: loops that may run

ASSUME OverlapAssumption ==
  /\ Overlap \subseteq Signal \X Signal
  /\ \A s \in Signal : <<s, s>> \in Overlap
ASSUME SignalAssumption == NoSignal \notin Signal
ASSUME BoundAssumption ==
  /\ MaxAttempts \in Nat /\ MaxGenes \in Nat /\ MaxLoops \in Nat

\* recurringThreshold of the bank's default configuration, which is always used.
RecurringThreshold == 2

VARIABLES
  bank,       \* the genes in the order they were added
  pc,         \* where runDebugLoop is
  signature,  \* of the failure it debugs
  attempts,   \* repairs it asked for
  result,     \* how the last loop ended
  loops,      \* loops started
  failures,   \* failures handed to bankGene
  dropped     \* of these, the ones it answered with bank_full

vars == <<bank, pc, signature, attempts, result, loops, failures, dropped>>

Gene == [signal : Signal, count : Nat \ {0}]

\* How a loop ends; the last four are escalations, told apart by their reason.
Result == {"none", "validated", "self_correct", "systemic", "no_output", "refused", "exhausted"}

Init ==
  /\ bank = <<>>
  /\ pc = "idle"
  /\ signature = NoSignal
  /\ attempts = 0
  /\ result = "none"
  /\ loops = 0
  /\ failures = 0 /\ dropped = 0

-----------------------------------------------------------------------------
(* The bank *)

\* i is the first gene with a token in common with signal s.
IsExisting(i, s) ==
  /\ i \in DOMAIN bank
  /\ <<bank[i].signal, s>> \in Overlap
  /\ \A j \in DOMAIN bank : <<bank[j].signal, s>> \in Overlap => i <= j

Known(s) == \E i \in DOMAIN bank : <<bank[i].signal, s>> \in Overlap

\* Mutant: a merge overwrites the count it should add to.
MergeResets(i) == bank' = [bank EXCEPT ![i].count = 1] /\ UNCHANGED dropped

\* The failure is one more of gene i.
Merge(i) == bank' = [bank EXCEPT ![i].count = @ + 1] /\ UNCHANGED dropped

\* A gene of its own, unless the bank is full.
AddGene(s) ==
  IF Len(bank) < MaxGenes
  THEN bank' = Append(bank, [signal |-> s, count |-> 1]) /\ UNCHANGED dropped
  ELSE dropped' = dropped + 1 /\ UNCHANGED bank

\* Mutant: only a gene with the very same signature is merged with.
BankGeneSame(s) ==
  /\ failures' = failures + 1
  /\ \/ \E i \in DOMAIN bank : bank[i].signal = s /\ Merge(i)
     \/ (\A i \in DOMAIN bank : bank[i].signal # s) /\ AddGene(s)

\* The failure merges with the first gene it shares a token with, or is added;
\* the loop drops what bankGene answers.
BankGene(s) ==
  /\ failures' = failures + 1
  /\ \/ \E i \in DOMAIN bank : IsExisting(i, s) /\ Merge(i)
     \/ ~Known(s) /\ AddGene(s)

\* Mutant: the gene just built is looked at instead of the one in the bank.
IsSystemicFresh(s) == 1 >= RecurringThreshold

\* The gene in the bank recurs; a failure the full bank turned away does not.
IsSystemic(s) ==
  \E i \in DOMAIN bank : IsExisting(i, s) /\ bank[i].count >= RecurringThreshold

-----------------------------------------------------------------------------
(* The loop *)

End(how) == pc' = "idle" /\ result' = how

\* A validation failed: steps 1 to 3 of runDebugLoop.
Begin(s) ==
  /\ pc = "idle" /\ loops < MaxLoops
  /\ BankGene(s)
  /\ pc' = "check"
  /\ signature' = s
  /\ attempts' = 0
  /\ loops' = loops + 1
  /\ UNCHANGED result

\* Step 4.
EscalateSystemic ==
  /\ pc = "check"
  /\ IsSystemic(signature)
  /\ End("systemic")
  /\ UNCHANGED <<bank, signature, attempts, loops, failures, dropped>>

Proceed ==
  /\ pc = "check"
  /\ ~IsSystemic(signature)
  /\ pc' = "repair"
  /\ UNCHANGED <<bank, signature, attempts, result, loops, failures, dropped>>

\* One more repair is asked for.
AskForRepair ==
  /\ pc = "repair" /\ attempts < MaxAttempts
  /\ attempts' = attempts + 1

\* Mutant: off by one, the caller is asked to try again with no attempt left.
NoValidOutputLate ==
  /\ AskForRepair
  /\ End(IF attempts' > MaxAttempts THEN "no_output" ELSE "self_correct")
  /\ UNCHANGED <<bank, signature, loops, failures, dropped>>

\* Steps 6 and 7: no proposal, or one that is not well formed.
NoValidOutput ==
  /\ AskForRepair
  /\ End(IF attempts' >= MaxAttempts THEN "no_output" ELSE "self_correct")
  /\ UNCHANGED <<bank, signature, loops, failures, dropped>>

\* Steps 8 and 9: not a repair, or one outside the allowed write set.
RefuseProposal ==
  /\ AskForRepair
  /\ End("refused")
  /\ UNCHANGED <<bank, signature, loops, failures, dropped>>

\* Step 10: the repair is applied and the validation passes.
RepairPasses ==
  /\ AskForRepair
  /\ End("validated")
  /\ UNCHANGED <<bank, signature, loops, failures, dropped>>

\* The validation still fails: the failure is banked unless it was the last.
RepairFails ==
  /\ AskForRepair
  /\ IF attempts' < MaxAttempts THEN BankGene(signature) ELSE UNCHANGED <<bank, failures, dropped>>
  /\ UNCHANGED <<pc, signature, result, loops>>

\* The attempts are used.
EscalateExhausted ==
  /\ pc = "repair" /\ attempts >= MaxAttempts
  /\ End("exhausted")
  /\ UNCHANGED <<bank, signature, attempts, loops, failures, dropped>>

Loop ==
  \/ EscalateSystemic \/ Proceed
  \/ NoValidOutput \/ RefuseProposal \/ RepairPasses \/ RepairFails
  \/ EscalateExhausted

Next == Loop \/ \E s \in Signal : Begin(s)

Spec == Init /\ [][Next]_vars

-----------------------------------------------------------------------------
(* Properties *)

\* Every variable holds a value of its type; attempts keep to the budget.
TypeOK ==
  /\ bank \in Seq(Gene)
  /\ pc \in {"idle", "check", "repair"}
  /\ signature \in Signal \cup {NoSignal}
  /\ attempts \in 0..MaxAttempts
  /\ result \in Result
  /\ loops \in Nat /\ failures \in Nat /\ dropped \in Nat

\* The bank is selective: however failures of overlapping signatures follow
\* one another, a gene is never banked beside an earlier one it has a token
\* in common with, nor beyond the bank's size.
Selective ==
  /\ \A i, j \in DOMAIN bank :
       i < j => <<bank[i].signal, bank[j].signal>> \notin Overlap
  /\ Len(bank) <= MaxGenes

\* No failure is lost or counted twice, over all loops: the counts add up to
\* the failures banked less those the full bank turned away.
TotalCount ==
  LET sum[i \in 0..Len(bank)] == IF i = 0 THEN 0 ELSE sum[i - 1] + bank[i].count
  IN sum[Len(bank)]
FailuresAreCounted == TotalCount + dropped = failures

\* The last attempt's failure is not banked.
Retries == IF attempts > 0 /\ attempts = MaxAttempts THEN attempts - 1 ELSE attempts

\* While a loop repairs, the count of its pattern's gene is this loop's own
\* failures and no other's: the pattern is new to the bank, and no later loop
\* repairs it.  The one way around is a full bank: then every failure of this
\* loop was turned away, and any number of loops may repair the same pattern.
FirstOrTurnedAway ==
  pc = "repair" =>
    /\ \A i \in DOMAIN bank : IsExisting(i, signature) => bank[i].count = 1 + Retries
    /\ ~Known(signature) => Len(bank) >= MaxGenes /\ dropped >= 1 + Retries

\* The answer of a loop fits the attempts it reports: the caller is asked to try
\* again only while attempts are left, and an escalation for want of attempts
\* comes after exactly maxAttempts of them.
AnswerFitsAttempts ==
  pc = "idle" =>
    /\ attempts <= MaxAttempts
    /\ result = "systemic" => attempts = 0
    /\ result = "self_correct" => attempts \in 1..(MaxAttempts - 1)
    /\ result \in {"no_output", "exhausted"} => attempts = MaxAttempts

-----------------------------------------------------------------------------
(* Claims of the repository's docs and comments the code does not keep. *)

\* docs/workflows/04_DEBUG_LOOP_RUNTIME_WORKFLOW.md:21-22: a systemic pattern
\* skips the remaining budget and escalates.
SystemicSkipsBudget ==
  pc = "repair" /\ attempts < MaxAttempts => ~IsSystemic(signature)

\* failure-bank/src/index.ts:77: the caller of a full bank consolidates first.
NoFailureTurnedAway == dropped = 0
=============================================================================
