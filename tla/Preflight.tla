------------------------------ MODULE Preflight ------------------------------
(***************************************************************************)
(* packages/preflight-runner as functions: which commands may run, the     *)
(* decision the report ends in, the report of a proposal's own word and    *)
(* the report of a real run.                                               *)
(*                                                                         *)
(* A command is the start the allow-list is compared with (the first eight *)
(* characters, in which the default policy's commands keep their first     *)
(* word) and whether it holds a forbidden word.  A line of a test run's    *)
(* output tells whether it names a failing test.                           *)
(***************************************************************************)
EXTENDS Naturals, Sequences, FiniteSets

\* A pass is submitted; a repeated signature or used up corrections escalate.
DecideNext(passed, corrections, repeats, policy) ==
  IF passed THEN "submit"
  ELSE IF repeats >= policy.repeats \/ corrections >= policy.corrections THEN "escalate"
  ELSE "self_correct"

IsCommandAllowed(command, policy) ==
  ~command.forbidden /\ \E i \in DOMAIN policy.allowed : policy.allowed[i] = command.start

\* The commands a proposal asks for, or the first two of the policy.
RequestedCommands(proposal, policy) ==
  IF proposal.names_commands THEN proposal.commands
  ELSE [i \in 1..(IF Len(policy.allowed) < 2 THEN Len(policy.allowed) ELSE 2) |->
          [start |-> policy.allowed[i], forbidden |-> FALSE]]

\* A command that is not allowed stops the report before any is run; of the
\* others those fail that the proposal itself says failed.
RunPreflight(proposal, policy) ==
  LET requested == RequestedCommands(proposal, policy)
      blocked == SelectSeq(requested, LAMBDA c : ~IsCommandAllowed(c, policy))
      failures == SelectSeq(requested, LAMBDA c : c.start \in proposal.failed)
  IN IF blocked # << >>
     THEN [passed |-> FALSE, run |-> << >>, failures |-> blocked, verdict |-> "escalate"]
     ELSE [passed |-> failures = << >>, run |-> requested, failures |-> failures,
           verdict |-> DecideNext(failures = << >>, proposal.corrections, proposal.repeats, policy)]

\* The tests a red run names; a run that names none gives its targets back.
ParseFailingTests(lines, targets) ==
  LET named == {l.test : l \in {l \in lines : l.not_ok /\ ~l.subtest}}
  IN IF named = {} THEN targets ELSE named
DefaultRunTests(status, lines, targets) ==
  [passed |-> status = 0, failing |-> IF status = 0 THEN {} ELSE ParseFailingTests(lines, targets)]

\* The edits are applied, the types checked if there is a checker ("none" when
\* not) and the tests run; the report is of what they said.
ExecutePreflight(input, typecheck, tests) ==
  LET passed == typecheck # "bad" /\ tests.passed
  IN [passed |-> passed,
      run |-> (IF typecheck = "none" THEN << >> ELSE <<"pnpm typecheck">>) \o <<"pnpm test --filter affected">>,
      failures |-> (IF typecheck = "bad" THEN {"typecheck"} ELSE {}) \cup tests.failing,
      verdict |-> DecideNext(passed, input.corrections, input.repeats, input.policy)]

\* A report passes exactly when it submits and never with a failure in it, and
\* no command runs beside one that is blocked; a real run may be red without a
\* failure to name (no targets and no line that says which test), and a
\* proposal's own word is green whenever it is silent.
Policy2 == [allowed |-> <<"pnpm typ", "pnpm tes">>, corrections |-> 2, repeats |-> 2]
ASSUME PreflightAssumption ==
  /\ \A commands \in UNION {[1..n -> [start : {"pnpm typ", "pnpm tes", "node a.j"}, forbidden : BOOLEAN]] : n \in 0..2},
        names_commands \in BOOLEAN, failed \in SUBSET {"pnpm typ", "pnpm tes"},
        corrections \in 0..3, repeats \in 0..3 :
       LET report == RunPreflight([commands |-> commands, names_commands |-> names_commands, failed |-> failed,
                                   corrections |-> corrections, repeats |-> repeats], Policy2)
       IN /\ report.passed <=> report.verdict = "submit"
          /\ report.passed <=> report.failures = << >>
          /\ report.verdict = "self_correct" => corrections < 2 /\ repeats < 2
          /\ \A i \in DOMAIN report.run : IsCommandAllowed(report.run[i], Policy2)
          /\ failed = {} /\ report.run # << >> => report.passed
  /\ \A status \in 0..1, targets \in SUBSET {"t1", "t2"}, typecheck \in {"none", "ok", "bad"},
        lines \in SUBSET [test : {"t1", "suite"}, not_ok : BOOLEAN, subtest : BOOLEAN] :
       LET tests == DefaultRunTests(status, lines, targets)
           report == ExecutePreflight([corrections |-> 0, repeats |-> 0, policy |-> Policy2], typecheck, tests)
       IN /\ report.passed <=> report.verdict = "submit"
          /\ report.passed => report.failures = {}
          /\ report.failures = {} /\ ~report.passed => targets = {} /\ typecheck # "bad"
=============================================================================
