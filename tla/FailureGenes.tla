----------------------------- MODULE FailureGenes -----------------------------
(***************************************************************************)
(* What packages/debugger-runtime makes of a failure and what              *)
(* packages/failure-bank keeps of it, as functions: the class and the      *)
(* signature of a failure, the genes a context is warned with, the         *)
(* consolidation of a bank, its reload, and the race of several debuggers. *)
(*                                                                         *)
(* A log is the set of words it holds.  A token of a signature is a word,  *)
(* keyed when it has the form key:word; a context is the words in it.  An  *)
(* avoid line is its number of words.                                      *)
(***************************************************************************)
EXTENDS Naturals, Sequences, FiniteSets
LOCAL INSTANCE Folds
LOCAL INSTANCE TLC

(* Triage. *)

\* The patterns of classifyFailure in the order they are tried.
FailureClasses == <<"typecheck", "lint", "schema", "integration", "test">>
ClassifyFailure(seen) ==
  LET hits == {i \in DOMAIN FailureClasses : FailureClasses[i] \in seen}
  IN IF hits = {} THEN "runtime" ELSE FailureClasses[CHOOSE i \in hits : \A j \in hits : i <= j]

StopWords == {"error", "failed", "expected", "received", "test", "the", "and"}
\* The class and the first six words of the log that say something.
BuildFailureSignature(class, words) ==
  LET telling == SelectSeq(words, LAMBDA w : w \notin StopWords)
      first(i) == \A j \in 1..(i - 1) : telling[j] # telling[i]
      chosen == {i \in DOMAIN telling :
                   first(i) /\ Cardinality({j \in 1..i : first(j)}) <= 6}
  IN {[keyed |-> FALSE, word |-> w] : w \in {class} \cup {telling[i] : i \in chosen}}

DecideRepairRoute(same_cause, same_signature, attempts, budget) ==
  IF same_signature >= budget.signature \/ attempts >= budget.debugger THEN "human"
  ELSE IF same_cause THEN "debugger" ELSE "developer"

\* An avoid line of more than 40 words throws.
EmitFailureGene(gene) ==
  IF gene.avoid > 40 THEN "throws"
  ELSE [tokens |-> gene.tokens, avoid |-> gene.avoid, count |-> 1, status |-> "active"]

\* What a debugger is not given: what the developer or an earlier debugger thought.
DebuggerForbiddenKeys ==
  {"developer_reasoning", "develop_reasoning", "agent_reasoning", "implementation_history",
   "develop_history", "prior_debug_reasoning", "previous_debug_reasoning", "debug_attempts_reasoning"}
ToFreshDebugPacket(packet) == packet \ DebuggerForbiddenKeys

-----------------------------------------------------------------------------
(* The bank.  A gene: its tokens, severity (0 the worst), count, status,     *)
(* avoid line and whether it has a remedy.                                   *)

SignalMatches(gene, context) == \E t \in gene.tokens : t.keyed /\ t.word \in context

\* The first most of the places in S in an order.
FirstOf(most, S, Before(_, _)) == {i \in S : Cardinality({j \in S \ {i} : Before(j, i)}) < most}
\* The worst and most frequent active genes that match; a tie keeps the bank's order.
InjectRelevant(bank, context, most) ==
  FirstOf(most, {i \in DOMAIN bank : bank[i].status = "active" /\ SignalMatches(bank[i], context)},
    LAMBDA i, j : \/ bank[i].severity < bank[j].severity
                  \/ /\ bank[i].severity = bank[j].severity
                     /\ bank[i].count > bank[j].count \/ (bank[i].count = bank[j].count /\ i < j))
PreloadProvenRemedies(bank, context, most) ==
  FirstOf(most, {i \in DOMAIN bank : /\ bank[i].status = "resolved" /\ bank[i].remedy
                                     /\ SignalMatches(bank[i], context)},
    LAMBDA i, j : bank[i].count > bank[j].count \/ (bank[i].count = bank[j].count /\ i < j))
PairResolvedDirection(gene) == [gene EXCEPT !.status = "resolved", !.remedy = TRUE]

\* A gene is absorbed by the first one before it that was not absorbed itself
\* and has a token of its own in common; genes are in the order of their ids.
Absorber(genes) ==
  LET by[j \in DOMAIN genes] ==
        LET hits == {i \in 1..(j - 1) : by[i] = i /\ genes[i].tokens \cap genes[j].tokens # {}}
        IN IF hits = {} THEN j ELSE CHOOSE i \in hits : \A k \in hits : i <= k
  IN by
Consolidate(bank) ==
  LET active == SelectSeq(bank, LAMBDA g : g.status = "active")
      by == Absorber(active)
      group(i) == {j \in DOMAIN active : by[j] = i}
      total(S) == MapThenFoldSet(+, 0, LAMBDA j : active[j].count, LAMBDA T : CHOOSE j \in T : TRUE, S)
      kept == {i \in DOMAIN active : by[i] = i}
  IN {[active[i] EXCEPT !.count = total(group(i)),
         !.avoid = CHOOSE a \in {active[j].avoid : j \in group(i)} : \A j \in group(i) : active[j].avoid <= a] :
        i \in kept}

\* A gene a reload does not drop.
GeneFields == {"id", "matching_signal", "summary", "strategy", "avoid", "failure_type", "severity",
               "story_id", "version", "created_at", "status"}
BankFailureTypes == {"test_failure", "build_error", "type_error", "runtime_error", "validation_fail",
                     "regression", "timeout", "scope_error", "skill_failure", "unknown"}
ValidateFailureGene(fields, avoid, type, severity, status) ==
  /\ GeneFields \subseteq fields /\ avoid <= 40
  /\ type \in BankFailureTypes
  /\ severity \in {"fatal", "recoverable", "warning"} /\ status \in {"active", "resolved", "superseded"}

\* Consolidation loses no occurrence and leaves no two genes with a token in
\* common.
ASSUME ConsolidateAssumption ==
  \A tokens \in [1..4 -> (SUBSET {1, 2}) \ {{}}], status \in [1..4 -> {"active", "resolved"}] :
    LET bank == [i \in 1..4 |-> [id |-> i, tokens |-> tokens[i], count |-> i, avoid |-> i, status |-> status[i]]]
        genes == Consolidate(bank)
        active == {i \in 1..4 : status[i] = "active"}
        sum(S) == MapThenFoldSet(+, 0, LAMBDA x : x, LAMBDA T : CHOOSE x \in T : TRUE, S)
    IN /\ sum({10 * g.id + g.count : g \in genes}) - 10 * sum({g.id : g \in genes}) = sum(active)
       /\ \A g, h \in genes : g # h => g.tokens \cap h.tokens = {}

\* No context is warned with a gene the debug loop banked: it writes tokens
\* without a key and they are looked up by what follows the key.  Nor would a
\* reload keep one: the loop's failure classes are none of the bank's.  And any
\* two failures of a class have a token in common, which makes the second of
\* them a recurrence of the first.
ASSUME WarningAssumption ==
  /\ \A words \in {<<"the", "login", "fails">>, <<"test", "error">>}, class \in {"test", "runtime"} :
       ~SignalMatches([tokens |-> BuildFailureSignature(class, words)], {"login", "fails", class})
  /\ \A seen \in SUBSET {FailureClasses[i] : i \in DOMAIN FailureClasses} :
       ~ValidateFailureGene(GeneFields, 1, ClassifyFailure(seen), "recoverable", "active")
  /\ \A one, other \in [1..2 -> {"login", "parser", "failed"}], class \in {"test", "runtime"} :
       BuildFailureSignature(class, one) \cap BuildFailureSignature(class, other) # {}

\* What is banked under a key warns of it until its repair is told; then it is
\* offered as a remedy instead.  Of the genes that match, none left out is worse
\* than one a context is warned with.  A person who was asked is still asked
\* after more failures, and an avoid line too long banks nothing.
ASSUME BankLifeAssumption ==
  /\ \A word, asked \in {"login", "parser"}, most \in 0..2 :
       LET gene == [tokens |-> {[keyed |-> TRUE, word |-> word]}, avoid |-> 3]
           emitted == EmitFailureGene(gene) @@ [severity |-> 0, remedy |-> FALSE]
           paired == PairResolvedDirection(emitted)
           hit == IF asked = word /\ most > 0 THEN {1} ELSE {}
       IN /\ InjectRelevant(<<emitted>>, {asked}, most) = hit
          /\ PreloadProvenRemedies(<<emitted>>, {asked}, most) = {}
          /\ InjectRelevant(<<paired>>, {asked}, most) = {}
          /\ PreloadProvenRemedies(<<paired>>, {asked}, most) = hit
          /\ EmitFailureGene([gene EXCEPT !.avoid = 41]) = "throws"
  /\ \A severity, count \in [1..3 -> 0..1], most \in 0..3 :
       LET bank == [i \in 1..3 |-> [tokens |-> {[keyed |-> TRUE, word |-> "login"]}, status |-> "active",
                                   severity |-> severity[i], count |-> count[i]]]
           told == InjectRelevant(bank, {"login"}, most)
       IN /\ Cardinality(told) = most
          /\ \A i \in told, j \in (1..3) \ told :
               severity[i] < severity[j] \/ (severity[i] = severity[j] /\ count[i] >= count[j])
  /\ \A one, other \in BOOLEAN, sig, att, more \in 0..2 :
       LET budget == [signature |-> 2, debugger |-> 3]
       IN DecideRepairRoute(one, sig, att, budget) = "human"
            => DecideRepairRoute(other, sig + more, att + more, budget) = "human"
  /\ ToFreshDebugPacket(DebuggerForbiddenKeys \cup {"failing_output"}) = {"failing_output"}

-----------------------------------------------------------------------------
(* Several debuggers at once. *)

\* Each gets a direction of the diagnosis, in turn; none is sent to widen the
\* write set.
SeedDirections(directions, k) ==
  LET safe == SelectSeq(directions, LAMBDA d : d # "widen_write_set")
  IN [i \in 1..k |-> IF safe = << >> THEN "none" ELSE safe[((i - 1) % Len(safe)) + 1]]
\* All run to their end; the first in order that passed wins, and the genes of
\* those that failed are kept.
RunCompetitiveDebug(attempts) ==
  LET passed == {i \in DOMAIN attempts : attempts[i].passed}
  IN [winner |-> IF passed = {} THEN 0 ELSE CHOOSE i \in passed : \A j \in passed : i <= j,
      genes |-> {i \in DOMAIN attempts \ passed : attempts[i].gene}]
ASSUME RaceAssumption ==
  /\ \A attempts \in [1..3 -> [passed : BOOLEAN, gene : BOOLEAN]] :
       LET race == RunCompetitiveDebug(attempts)
       IN /\ race.winner # 0 => attempts[race.winner].passed /\ race.winner \notin race.genes
          /\ race.winner = 0 => race.genes = {i \in 1..3 : attempts[i].gene}
  /\ \A k \in 0..3, directions \in UNION {[1..n -> {"a", "b", "widen_write_set"}] : n \in 0..3} :
     LET seeds == SeedDirections(directions, k)
        safe == {directions[i] : i \in DOMAIN directions} \ {"widen_write_set"}
    IN /\ \A i \in 1..k : seeds[i] \in (IF safe = {} THEN {"none"} ELSE safe)
       /\ k >= Len(directions) => safe \subseteq {seeds[i] : i \in 1..k}
=============================================================================
