---------------------------- MODULE GateControl ----------------------------
(***************************************************************************)
(* The spending gate: real_api_calls of configs/policy.yaml, which the     *)
(* runs of packages/gate-control/src/index.ts open before they spend and   *)
(* close after, reading back what they wrote.                              *)
(*                                                                         *)
(* Runs are scripts of their own (scripts/provider-mode-*.ts), each a      *)
(* process, so every read and every write of the policy file is a step.    *)
(* setGateEnabled reads the whole file, replaces enabled in what it read,  *)
(* writes that back and reads it again; the operator edits the kill switch *)
(* in the same file.                                                       *)
(*                                                                         *)
(* Abstracted: the policy is its enabled and kill_switch (a write is whole,*)
(* never torn), and the function a run guards is its stay in "running".    *)
(***************************************************************************)
EXTENDS PolicyChanges

CONSTANTS
  Run,          \* gated runs
  InCI,         \* runs whose environment has CI set
  CiOverride,   \* ci_override of the policy
  Ceiling,      \* ceiling of the BudgetLedger every run is given
  IOFaults,     \* reads and writes of the policy may fail
  Crashes       \* runs may be killed

ASSUME RunAssumption == IsFiniteSet(Run) /\ InCI \subseteq Run
ASSUME ConstantAssumption ==
  /\ CiOverride \in BOOLEAN /\ IOFaults \in BOOLEAN /\ Crashes \in BOOLEAN
  /\ Ceiling \in Nat

VARIABLES
  policy,       \* configs/policy.yaml: enabled and kill_switch
  killWanted,   \* the operator's last edit engaged the kill switch
  pc,           \* [Run -> where runGated is, or how it ended]
  src           \* [Run -> what setGateEnabled read before it writes]

vars == <<policy, killWanted, pc, src>>

Policy == [enabled : BOOLEAN, kill : BOOLEAN]
InFlight == {"open_read", "open_write", "open_verify", "running",
             "close_read", "close_write", "close_verify"}
Ended == {"refused", "unread", "closed", "critical", "rejected", "crashed"}

\* Past its write of enabled: true.
Opened == {"open_verify", "running", "close_read", "close_write", "close_verify"}

\* Ended by an error, or killed.
Failed == {"critical", "rejected", "crashed"}

Init ==
  /\ policy = [enabled |-> FALSE, kill |-> FALSE]
  /\ killWanted = FALSE
  /\ pc = [r \in Run |-> "idle"]
  /\ src = [r \in Run |-> policy]

-----------------------------------------------------------------------------
Goto(r, place) == pc' = [pc EXCEPT ![r] = place]

\* Every script builds a BudgetLedger of its own, with nothing spent, and
\* nothing records into it.
LedgerSpent == 0
CanStart == LedgerSpent < Ceiling

\* isGatedAllowed of the policy as it would be with the gate open.
IsGatedAllowed(r) == ~policy.kill /\ ~(CiOverride /\ r \in InCI)

\* The budget check, then the kill switch and CI as the policy has them now.
Start(r) ==
  /\ pc[r] = "idle"
  /\ IF CanStart /\ IsGatedAllowed(r) THEN Goto(r, "open_read") ELSE Goto(r, "refused")
  /\ UNCHANGED <<policy, killWanted, src>>

\* The first read of the policy throws out of runGated.
StartThrows(r) ==
  /\ IOFaults
  /\ pc[r] = "idle" /\ CanStart
  /\ Goto(r, "unread")
  /\ UNCHANGED <<policy, killWanted, src>>

\* setGateEnabled reads the policy; a failed read is an unverified result.
ReadSrc(r, from, to, failed) ==
  /\ pc[r] = from
  /\ \/ src' = [src EXCEPT ![r] = policy] /\ Goto(r, to)
     \/ IOFaults /\ Goto(r, failed) /\ UNCHANGED src
  /\ UNCHANGED <<policy, killWanted>>

\* It writes what it read with enabled replaced.  A write may throw, which is
\* an unverified result, or not take without a word.
WriteSrc(r, from, enabled, to, failed) ==
  /\ pc[r] = from
  /\ \/ policy' = [src[r] EXCEPT !.enabled = enabled] /\ Goto(r, to)
     \/ IOFaults /\ Goto(r, to) /\ UNCHANGED policy
     \/ IOFaults /\ Goto(r, failed) /\ UNCHANGED policy
  /\ UNCHANGED <<killWanted, src>>

\* It reads back what the policy says now; that read throws out of runGated.
ReadBack(r, from, enabled, to, failed) ==
  /\ pc[r] = from
  /\ \/ Goto(r, IF policy.enabled = enabled THEN to ELSE failed)
     \/ IOFaults /\ Goto(r, "rejected")
  /\ UNCHANGED <<policy, killWanted, src>>

OpenRead(r)   == ReadSrc(r, "open_read", "open_write", "refused")
OpenWrite(r)  == WriteSrc(r, "open_write", TRUE, "open_verify", "refused")
OpenVerify(r) == ReadBack(r, "open_verify", TRUE, "running", "refused")

\* Mutant: a run whose function throws leaves without closing.
FnEndsWithoutFinally(r) ==
  /\ pc[r] = "running"
  /\ Goto(r, "close_read") \/ Goto(r, "closed")
  /\ UNCHANGED <<policy, killWanted, src>>

\* The function returns or throws; either way the finally block closes.
FnEnds(r) ==
  /\ pc[r] = "running"
  /\ Goto(r, "close_read")
  /\ UNCHANGED <<policy, killWanted, src>>

CloseRead(r)   == ReadSrc(r, "close_read", "close_write", "critical")
CloseWrite(r)  == WriteSrc(r, "close_write", FALSE, "close_verify", "critical")
\* Mutant: the close is not read back.
CloseTrusted(r) ==
  /\ pc[r] = "close_verify"
  /\ Goto(r, "closed")
  /\ UNCHANGED <<policy, killWanted, src>>
CloseVerify(r) == ReadBack(r, "close_verify", FALSE, "closed", "critical")

Step(r) ==
  \/ OpenRead(r) \/ OpenWrite(r) \/ OpenVerify(r)
  \/ FnEnds(r)
  \/ CloseRead(r) \/ CloseWrite(r) \/ CloseVerify(r)

\* The process dies.
Crash(r) ==
  /\ Crashes
  /\ pc[r] \in InFlight
  /\ Goto(r, "crashed")
  /\ UNCHANGED <<policy, killWanted, src>>

\* The operator edits the kill switch.
SetKillSwitch ==
  /\ \E engaged \in BOOLEAN :
       /\ policy' = [policy EXCEPT !.kill = engaged]
       /\ killWanted' = engaged
  /\ UNCHANGED <<pc, src>>

Next ==
  \/ SetKillSwitch
  \/ \E r \in Run : Start(r) \/ StartThrows(r) \/ Step(r) \/ Crash(r)

Spec == Init /\ [][Next]_vars

\* A run that started goes on: its steps are synchronous, and the function it
\* guards is a model call of bounded steps.
FairSpec == Spec /\ \A r \in Run : WF_vars(Step(r))

-----------------------------------------------------------------------------
(* Properties *)

\* Every variable holds a value of its type.
TypeOK ==
  /\ policy \in Policy
  /\ killWanted \in BOOLEAN
  /\ pc \in [Run -> {"idle"} \cup InFlight \cup Ended]
  /\ src \in [Run -> Policy]

\* An open gate has a run behind it that will still close it, or that failed:
\* however the reads and writes of runs interleave, and whatever stale policy
\* they write back, runs that ended well never leave it open between them.
OpenIsOwned == policy.enabled => \E r \in Run : pc[r] \in Opened \cup Failed

\* A run in CI never opens the gate under ci_override, whoever else has it open.
NeverInCI == CiOverride => \A r \in InCI : pc[r] \in {"idle", "refused", "unread"}

\* The gate does not stay open unless some run ended saying so.
GateCloses ==
  policy.enabled ~> ~policy.enabled \/ \E r \in Run : pc[r] \in Failed

-----------------------------------------------------------------------------
(* Claims of gate-control/src/index.ts the code does not keep. *)

\* Lines 199-203: the gate is always closed, or the run throws CRITICAL.
ClosedOrCritical ==
  policy.enabled => \E r \in Run : pc[r] \in Opened \/ pc[r] = "critical"

\* Line 12: once the operator engaged the kill switch, no run may start.
KillSwitchHalts ==
  [][\A r \in Run : killWanted /\ pc[r] = "idle" => pc'[r] \in {"idle", "refused", "unread"}]_vars
=============================================================================
