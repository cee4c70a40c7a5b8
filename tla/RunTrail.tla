------------------------------ MODULE RunTrail ------------------------------
(***************************************************************************)
(* What a project run leaves behind: the trace of packages/event-log, the  *)
(* reviews recorded in it, and the workspaces promoteWorkspace exports and *)
(* rollbackPromotion removes.                                              *)
(*                                                                         *)
(* A process is a node process that works on one run: the harness and the  *)
(* review console of apps/console.  An operation runs without an await     *)
(* between its reads and writes, so within a process it is one call; the   *)
(* other process, a crash or a failing write may come between any two      *)
(* accesses to the disk, and each access is a step.                        *)
(*                                                                         *)
(* Abstracted: an event is its seq, what its previous_event_hash is the    *)
(* hash of, its type and its subject.  Event ids are random, so hashes     *)
(* differ: the hash of the i-th line is i, and 0 is no hash.  A promotion  *)
(* is its target, a path outside the sandbox; nothing keeps two promotions *)
(* from the same one.  Both processes are given the run state as it is;    *)
(* ProjectLoop has its file.                                               *)
(***************************************************************************)
EXTENDS Naturals, Sequences, FiniteSets

CONSTANTS
  Harness, Console,   \* the two processes
  Stories,            \* the stories of the run
  Targets,            \* paths outside the sandbox a promotion may be given
  MaxLines,           \* bound on the lines of the trace
  None

Procs == {Harness, Console}

ASSUME ProcAssumption == Harness # Console
ASSUME BoundAssumption == MaxLines \in Nat
ASSUME SubjectAssumption == Targets \cap {"approved", "denied", None} = {}

VARIABLES
  trace,        \* the lines of the trace file that can be read back
  torn,         \* its last line was cut short: readJsonl throws
  pc,           \* [Procs -> what the process does next]
  job,          \* [Procs -> the event its operation is to record]
  tail,         \* [Procs -> the line it took for the last one, 0 for none]
  run,          \* the stories of ProjectRunState: done, and with a checkpoint
  disk,         \* [Targets -> what is at the path]
  met,          \* processes whose operation met another at its target
  doubt,        \* targets whose last operation did not end alone with its record
  given,        \* targets a PromotionRecord has been returned for
  sandbox       \* the workspace the run worked in exists

vars == <<trace, torn, pc, job, tail, run, disk, met, doubt, given, sandbox>>

Subjects == Targets \cup {"approved", "denied", None}
Types == {"human_review", "promotion", "promotion_rollback", "note", "spawn_plan"}
\* since counts the lines there were when the operation began, or up to the
\* last one it wrote itself.
Job == [type : Types, ref : Subjects, left : 0..2, since : 0..MaxLines]
Event == [seq : Nat, prev : 0..MaxLines, type : Types, ref : Subjects]

\* Between two accesses to the disk, where another process may come in.
Working == {"copy", "remove", "tail", "append"}
NoJob == [type |-> "note", ref |-> None, left |-> 0, since |-> 0]

TypeOK ==
  /\ trace \in Seq(Event) /\ Len(trace) \in 0..MaxLines
  /\ torn \in BOOLEAN
  /\ pc \in [Procs -> {"idle", "ask"} \cup Working]
  /\ job \in [Procs -> Job]
  /\ tail \in [Procs -> 0..Len(trace)]
  /\ run \in [done : SUBSET Stories, sha : SUBSET Stories]
  /\ disk \in [Targets -> {"absent", "partial", "whole"}]
  /\ met \subseteq Procs
  /\ doubt \subseteq Targets /\ given \subseteq Subjects
  /\ sandbox \in BOOLEAN

Init ==
  /\ trace = << >> /\ torn = FALSE
  /\ pc = [p \in Procs |-> "idle"]
  /\ job = [p \in Procs |-> NoJob]
  /\ tail = [p \in Procs |-> 0]
  /\ run = [done |-> {}, sha |-> {}]
  /\ disk \in [Targets -> {"absent", "partial"}]  \* something may be there
  /\ met = {} /\ doubt = {} /\ given = {}
  /\ sandbox = TRUE

-----------------------------------------------------------------------------
\* The scheduler's onCheckpoint; its result is synced into the run state after.
Progress(s) ==
  /\ pc[Harness] = "idle"
  /\ run' = IF s \in run.sha THEN [run EXCEPT !.done = @ \cup {s}]
            ELSE [run EXCEPT !.sha = @ \cup {s}]
  /\ UNCHANGED <<trace, torn, pc, job, tail, disk, met, doubt, given, sandbox>>

-----------------------------------------------------------------------------
(* Recording an event: read the file, take the last line, append. *)

onlyTrace == UNCHANGED <<run, sandbox>>

\* Enter an operation that records n events of one type after what is at
\* place; room for them is a bound of the instance.
Starts(p, place, type, ref, n) ==
  /\ pc[p] = "idle"
  /\ Len(trace) < MaxLines
  /\ pc' = [pc EXCEPT ![p] = place]
  /\ job' = [job EXCEPT ![p] =
               [type |-> type, ref |-> ref, left |-> n, since |-> Len(trace)]]

\* The operation is over.  One that was alone at its target and reached its
\* record leaves no doubt of what is there.
Over(p, recorded) ==
  /\ pc' = [pc EXCEPT ![p] = "idle"]
  /\ job' = [job EXCEPT ![p] = NoJob]
  /\ tail' = [tail EXCEPT ![p] = 0]
  /\ met' = met \ {p}
  /\ doubt' = IF recorded /\ p \notin met THEN doubt \ {job[p].ref}
              ELSE doubt \cup ({job[p].ref} \cap Targets)

\* The operation threw: what it did at its target stays without a record.
Abandoned(p) == Over(p, FALSE) /\ UNCHANGED given

\* readJsonl throws on a line that was cut short.
ReadTail(p) ==
  /\ pc[p] = "tail"
  /\ IF torn
     THEN Abandoned(p)
     ELSE /\ tail' = [tail EXCEPT ![p] = Len(trace)]
          /\ pc' = [pc EXCEPT ![p] = "append"]
          /\ UNCHANGED <<job, met, doubt, given>>
  /\ UNCHANGED <<trace, torn, disk>> /\ onlyTrace

\* Mutant: seq is counted over the file as it is now.
NextSeqNow(p) == Len(trace)

\* seq: last ? last.seq + 1 : 0
NextSeq(p) == IF tail[p] = 0 THEN 0 ELSE trace[tail[p]].seq + 1

NextEvent(p) ==
  [seq |-> NextSeq(p), prev |-> tail[p], type |-> job[p].type, ref |-> job[p].ref]

\* An operation that records several takes its own event for the next tail.
Rest(p) == [job[p] EXCEPT !.left = job[p].left - 1, !.since = Len(trace) + 1]

\* appendFileSync of one line.  Past a torn line nothing can be read back.
AppendEvent(p) ==
  /\ pc[p] = "append" /\ Len(trace) < MaxLines
  /\ trace' = IF torn THEN trace ELSE Append(trace, NextEvent(p))
  /\ given' = IF job[p].type = "promotion" THEN given \cup {job[p].ref} ELSE given
  /\ IF job[p].left > 1 /\ ~torn
     THEN /\ job' = [job EXCEPT ![p] = Rest(p)]
          /\ tail' = [tail EXCEPT ![p] = Len(trace) + 1]
          /\ UNCHANGED <<pc, met, doubt>>
     ELSE Over(p, ~torn)
  /\ UNCHANGED <<torn, disk>> /\ onlyTrace

\* The write stops short: no line is read back any more, and the call throws.
AppendTears(p) ==
  /\ pc[p] = "append"
  /\ torn' = TRUE
  /\ Abandoned(p)
  /\ UNCHANGED <<trace, disk>> /\ onlyTrace

\* The bound on the trace is reached under a process that is about to append.
AppendStops(p) ==
  /\ pc[p] = "append" /\ Len(trace) = MaxLines
  /\ Abandoned(p)
  /\ UNCHANGED <<trace, torn, disk>> /\ onlyTrace

Records(p, type, ref, n) ==
  /\ Starts(p, "tail", type, ref, n)
  /\ UNCHANGED <<trace, torn, tail, disk, met, doubt, given>> /\ onlyTrace

\* Refused before the trace is touched: deny without a reason, a delta that
\* is not validated, authorship that needs no confirmation.
WriteHandoffCard(p) == Records(p, "note", None, 1)
RecordTestIntegrity(p, needsConfirmation) == needsConfirmation /\ Records(p, "note", None, 1)
ApplyBacklogDelta(p, validated) == validated /\ Records(p, "note", None, 1)
TransitionToTerminalState(p) == Records(p, "note", None, 1)
RecordResolvedSettings(p) == Records(p, "note", None, 1)
RecordProviderRegistrations(p, n) == Records(p, "note", None, n)

\* recordSpawnPlan appends an event with seq 0 and no previous hash, without
\* a look at the file.
RecordSpawnPlan(p) ==
  /\ Starts(p, "append", "spawn_plan", None, 1)
  /\ tail' = [tail EXCEPT ![p] = 0]
  /\ UNCHANGED <<trace, torn, disk, met, doubt, given>> /\ onlyTrace

-----------------------------------------------------------------------------
(* Review, promotion and its rollback. *)

Complete == run.done = Stories /\ run.sha = Stories

\* runReviewCLI: an incomplete run is BLOCKED, otherwise the console asks.
AskReview(p) ==
  /\ pc[p] = "idle" /\ Complete
  /\ pc' = [pc EXCEPT ![p] = "ask"]
  /\ UNCHANGED <<trace, torn, job, tail, disk, met, doubt, given>> /\ onlyTrace

\* recordReviewDecision of the answer; deny without a reason throws.
AnswerReview(p, outcome, reason) ==
  /\ pc[p] = "ask"
  /\ IF outcome = "denied" /\ ~reason
     THEN pc' = [pc EXCEPT ![p] = "idle"] /\ UNCHANGED job
     ELSE /\ pc' = [pc EXCEPT ![p] = "tail"]
          /\ job' = [job EXCEPT ![p] = [type |-> "human_review", ref |-> outcome,
                                         left |-> 1, since |-> Len(trace)]]
  /\ UNCHANGED <<trace, torn, tail, disk, met, doubt, given>> /\ onlyTrace

Busy(k) == \E p \in Procs : job[p].ref = k

\* An operation begins at a target, where another one may be at work.
BeginsAt(p, k, place, type) ==
  LET others == {q \in Procs : job[q].ref = k} IN
  /\ Starts(p, place, type, k, 1)
  /\ disk' = [disk EXCEPT ![k] = "partial"]
  /\ met' = IF others = {} THEN met ELSE met \cup others \cup {p}
  /\ UNCHANGED <<trace, torn, tail, doubt, given>> /\ onlyTrace

\* promoteWorkspace: every story done and checkpointed, then cpSync, which
\* needs the sandbox and copies over what is at the target.
StartPromotion(p, k) == Complete /\ sandbox /\ BeginsAt(p, k, "copy", "promotion")

\* rollbackPromotion of a PromotionRecord: the target and the sandbox must
\* be there.
StartRollback(p, k) ==
  /\ k \in given /\ disk[k] # "absent" /\ sandbox
  /\ BeginsAt(p, k, "remove", "promotion_rollback")

\* cpSync or rmSync returns.  Where the other process was at work meanwhile,
\* its files may be missing again, or there again.
EffectEnds(p, place, outcome) ==
  /\ pc[p] = place
  /\ \E d \in {outcome} \cup (IF p \in met THEN {"partial"} ELSE {}) :
       disk' = [disk EXCEPT ![job[p].ref] = d]
  /\ pc' = [pc EXCEPT ![p] = "tail"]
  /\ UNCHANGED <<trace, torn, job, tail, met, doubt, given>> /\ onlyTrace

CopyEnds(p) == EffectEnds(p, "copy", "whole")

\* Mutant: rmSync is not recursive.
RemoveEndsEarly(p) == EffectEnds(p, "remove", "partial")

RemoveEnds(p) == EffectEnds(p, "remove", "absent")

\* cpSync or rmSync throws: what it had done stays.
EffectFails(p) ==
  /\ pc[p] \in {"copy", "remove"}
  /\ Abandoned(p)
  /\ UNCHANGED <<trace, torn, disk>> /\ onlyTrace

\* The finally of a run's script removes its workspace.
CleanupWorkspace ==
  /\ pc[Harness] = "idle" /\ sandbox
  /\ sandbox' = FALSE
  /\ UNCHANGED <<trace, torn, pc, job, tail, run, disk, met, doubt, given>>

\* The process dies and a new one takes its place.
Crash(p) ==
  /\ pc[p] # "idle"
  /\ Abandoned(p)
  /\ UNCHANGED <<trace, torn, disk>> /\ onlyTrace

-----------------------------------------------------------------------------
Notes(p) ==
  \/ WriteHandoffCard(p) \/ TransitionToTerminalState(p) \/ RecordResolvedSettings(p)
  \/ \E ok \in BOOLEAN : RecordTestIntegrity(p, ok) \/ ApplyBacklogDelta(p, ok)
  \/ \E n \in 1..2 : RecordProviderRegistrations(p, n)
  \/ RecordSpawnPlan(p)

Reviews(p) ==
  \/ AskReview(p)
  \/ \E o \in {"approved", "denied"}, r \in BOOLEAN : AnswerReview(p, o, r)

Promotes(p) ==
  \/ \E k \in Targets : StartPromotion(p, k) \/ StartRollback(p, k)

\* What a process that has begun an operation does next.
Works(p) ==
  \/ ReadTail(p) \/ AppendEvent(p) \/ AppendTears(p) \/ AppendStops(p)
  \/ CopyEnds(p) \/ EffectFails(p) \/ RemoveEnds(p)

Next ==
  \/ \E s \in Stories : Progress(s)
  \/ CleanupWorkspace
  \/ \E p \in Procs : Notes(p) \/ Reviews(p) \/ Promotes(p) \/ Works(p) \/ Crash(p)

Spec == Init /\ [][Next]_vars

-----------------------------------------------------------------------------
(* Properties. *)

Continues(e, n) ==
  /\ e.prev \in 0..n
  /\ e.seq = IF e.prev = 0 THEN 0 ELSE trace[e.prev].seq + 1

\* No event is left without the line it names as its predecessor, and its seq
\* is one more than that line's.  It continues the trace as its writer found
\* it: that line is the last one there was when the operation began, or the
\* line before of the same operation, or one written meanwhile by the other
\* process, so that no process forks the chain by itself.  Only a spawn plan
\* names none in a trace that has lines.
EventsHaveParents ==
  /\ \A i \in 1..Len(trace) : Continues(trace[i], i - 1)
  /\ \A p \in Procs : pc[p] = "append" /\ job[p].type # "spawn_plan" =>
       Continues(NextEvent(p), Len(trace)) /\ NextEvent(p).prev >= job[p].since

LastAt(i, k) ==
  trace[i].ref = k /\ \A j \in 1..Len(trace) : j > i => trace[j].ref # k

\* What an operation that ended leaves at its target.
Outcome(type) == IF type = "promotion" THEN "whole" ELSE "absent"

Told(k) == \A i \in 1..Len(trace) : LastAt(i, k) => disk[k] = Outcome(trace[i].type)

\* The trace tells what was exported: at a target where nothing is under way
\* there is what the last event on it says, the whole workspace after a
\* promotion and nothing after a rollback, unless the last operation there
\* was cut off before its record or met another.  The next one to end alone
\* sets that right, whatever it found.
TraceTellsDisk == \A k \in Targets : k \in doubt \/ Busy(k) \/ Told(k)

\* docs/validation/01_RUNTIME_INVARIANTS.md:17 of the trace: "monotonic
\* sequence + previous_event_hash chain intact", as validateTraceEvent checks.
ChainIntact ==
  \A i \in 1..Len(trace) : trace[i].seq = i - 1 /\ trace[i].prev = i - 1

Recorded(type, k) == \E i \in 1..Len(trace) : trace[i].type = type /\ trace[i].ref = k

\* docs/validation/05_PROMOTION_GATE_TESTS.md:9: a "promotion without human
\* approval" is "blocked".
PromotedWasApproved ==
  \A k \in Targets : Recorded("promotion", k) => Recorded("human_review", "approved")
=============================================================================
