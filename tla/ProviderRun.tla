---------------------------- MODULE ProviderRun ----------------------------
(* One story worked by a model through the confined tool layer: the barrier   *)
(* that must hold first, the disposable sandbox, the engine's stream of tool  *)
(* calls, each mediated in steps (pre-hook, permission chain, execution,      *)
(* post-hook and audit record), the stop hook, the diff against the pre-task  *)
(* tree and the exit gate.  Two lanes wire the same mediator: ProviderDriver  *)
(* takes one call at a time and runs the stop hook; the scripts give the      *)
(* tools to the SDK, which runs the calls of a step together and turns an     *)
(* exception of a tool into an answer for the model.                          *)
(* Names that StoryBuild has too carry the component's, so that one module    *)
(* can extend both.                                                           *)
EXTENDS AcceptanceGates, FiniteSets

CONSTANTS
  Calls,        \* the tool calls an engine may make, by toolCallId
  Lanes,        \* the wirings a run may have: "driver", "sdk"
  PriorTests,   \* acceptance tests of earlier stories, by story
  PreTask,      \* the files of the pre-task tree
  QuotedFiles,  \* files whose name git puts between quotes in a diff
  OtherName     \* what diffFileSet reads where a diff holds no file's name

ASSUME ProviderAssumption ==
  /\ Lanes \subseteq {"driver", "sdk"}
  /\ IsFiniteSet(Files)
  /\ PreTask \subseteq Files /\ QuotedFiles \subseteq Files
  /\ OtherName \notin Files

VARIABLES
  wiring,     \* the wiring of this run
  step,       \* where the run is
  calls,      \* what became of every call
  touched,    \* files of the sandbox that differ from the pre-task tree
  gone,       \* those of them that were removed
  sandbox,    \* the sandbox exists
  reportSeen, \* the mediator's flag the stop hook reads
  audit,      \* the mediator's records, in order
  events,     \* the events of the run, in order
  decision    \* what the exit gate's verdict leads to

providerVars == <<wiring, step, calls, touched, gone, sandbox, reportSeen, audit, events, decision>>

\* The exposed tools: the provider tool set, or the scripts' own.
\* read_relevant_files stands for every tool that only reads.
SurfaceOf(w) ==
  IF w = "driver" THEN {"apply_patch", "read_relevant_files", "report"}
                  ELSE {"write_file", "read_relevant_files", "report"}
Surface == SurfaceOf(wiring)
Tools == {"apply_patch", "write_file", "read_relevant_files", "report", "shell", "unknown"}
Contract == [writeSet |-> WriteSet, network |-> FALSE, checkable |-> TRUE]
Unused == [at |-> "unused", tool |-> "unknown", files |-> {}, formed |-> FALSE, echoed |-> FALSE]
Events == [kind : {"call", "result"}, call : Calls] \cup [kind : {"stop_blocked"}]
CallRecords ==
  [at : {"unused", "pre", "permission", "execute", "threw", "post", "answer", "closed", "unanswered"},
   tool : Tools, files : SUBSET Files, formed : BOOLEAN, echoed : BOOLEAN]
AuditRecords == [call : Calls, decision : {"allow", "deny"}, whitelisted : BOOLEAN]
Over == {"done", "failed"}

-----------------------------------------------------------------------------
(* Properties of the tool layer the barrier probes before any spend. *)

\* The paths canUseTool sees: those the input names.  A patch names none.
Targets(call) == IF call.tool = "apply_patch" THEN {} ELSE call.files

PermissionAllows(call) ==
  /\ IsWhitelisted(call.tool, Surface)
  /\ ProviderCanUseTool(call.tool, Targets(call), Contract, Files, Surface)

\* assertToolLayerConfinementBarrier: a shell and an unexpected tool are refused,
\* and a diff outside of the write set is rejected whole.
BarrierHolds ==
  /\ \A t \in {"shell", "unknown"} : ~PreHookAllows(t, TRUE, Surface) /\ ~IsWhitelisted(t, Surface)
  /\ \A f \in Files \ WriteSet :
       ExitGateVerdict({f}, Contract,
         [validator |-> TRUE, assessor |-> TRUE, prior |-> PriorTests, failing |-> {}]).rejectedWhole

-----------------------------------------------------------------------------
ProviderInit ==
  /\ wiring \in Lanes
  /\ step = "barrier"
  /\ calls = [c \in Calls |-> Unused]
  /\ touched = {} /\ gone = {} /\ sandbox = FALSE /\ reportSeen = FALSE
  /\ audit = <<>> /\ events = <<>> /\ decision = "none"

At(c, place) == calls[c].at = place
Moves(c, place) == calls' = [calls EXCEPT ![c].at = place]
InFlight == {c \in Calls : calls[c].at \notin {"unused", "closed", "unanswered"}}
Records(c, verdict) ==
  audit' = Append(audit, [call |-> c, decision |-> verdict,
                          whitelisted |-> IsWhitelisted(calls[c].tool, Surface)])
Emits(kind, c) == events' = Append(events, [kind |-> kind, call |-> c])

\* The barrier is proven, or the run is refused before anything is made.
ProveBarrier ==
  /\ step = "barrier"
  /\ step' = IF BarrierHolds THEN "sandbox" ELSE "failed"
  /\ UNCHANGED <<wiring, calls, touched, gone, sandbox, reportSeen, audit, events, decision>>

\* The sandbox is made; a gate that does not open leaves the engine unused.
MakeSandbox ==
  /\ step = "sandbox"
  /\ sandbox' = TRUE
  /\ step' \in {"stream", "collect"}
  /\ UNCHANGED <<wiring, calls, touched, gone, reportSeen, audit, events, decision>>

\* The engine makes a tool call: one at a time for the driver.  The SDK answers
\* a call of a tool it was not given by itself, as if the tool had thrown.
Issue(c) ==
  /\ step = "stream" /\ At(c, "unused")
  /\ wiring = "driver" => InFlight = {}
  /\ \E tool \in Tools, files \in SUBSET Files, formed \in BOOLEAN :
       /\ files = {} \/ tool \in {"write_file", "apply_patch", "read_relevant_files"}
       /\ tool = "write_file" => Cardinality(files) = 1
       /\ calls' = [calls EXCEPT ![c] =
            [at |-> IF wiring = "sdk" /\ tool \notin Surface THEN "threw" ELSE "pre",
             tool |-> tool, files |-> files, formed |-> formed, echoed |-> FALSE]]
  /\ Emits("call", c)
  /\ UNCHANGED <<wiring, step, touched, gone, sandbox, reportSeen, audit, decision>>

\* A refused call is recorded and never reaches the executor.
Refuse(c) == Moves(c, "answer") /\ Records(c, "deny")

PreHook(c) ==
  /\ At(c, "pre") /\ step = "stream"
  /\ IF PreHookAllows(calls[c].tool, calls[c].formed, Surface)
       THEN Moves(c, "permission") /\ UNCHANGED audit
       ELSE Refuse(c)
  /\ UNCHANGED <<wiring, step, touched, gone, sandbox, reportSeen, events, decision>>

Permission(c) ==
  /\ At(c, "permission") /\ step = "stream"
  /\ IF PermissionAllows(calls[c])
       THEN Moves(c, "execute") /\ UNCHANGED audit
       ELSE Refuse(c)
  /\ UNCHANGED <<wiring, step, touched, gone, sandbox, reportSeen, events, decision>>

\* What a call leaves of its files: each is changed, or as it was before the
\* task; a patch may remove one of the pre-task tree.
Writes(call) ==
  \E changed \in SUBSET call.files :
  \E removed \in SUBSET (changed \cap PreTask) :
    /\ call.tool \in WriteTools
    /\ removed = {} \/ call.tool = "apply_patch"
    /\ touched' = (touched \ call.files) \cup changed
    /\ gone' = (gone \ call.files) \cup removed

\* The executor runs.  It may throw, before or after its effect, and then
\* nothing records the call.
Execute(c) ==
  /\ At(c, "execute") /\ step = "stream"
  /\ reportSeen' = (reportSeen \/ calls[c].tool = "report")
  /\ \/ Moves(c, "post") /\ calls[c].tool \in WriteTools /\ Writes(calls[c])
     \/ Moves(c, "post") /\ calls[c].tool \notin WriteTools /\ UNCHANGED <<touched, gone>>
     \/ Moves(c, "threw") /\ (Writes(calls[c]) \/ UNCHANGED <<touched, gone>>)
  /\ UNCHANGED <<wiring, step, sandbox, audit, events, decision>>

\* Post-hooks and the record.
Post(c) ==
  /\ At(c, "post") /\ step = "stream"
  /\ Moves(c, "answer") /\ Records(c, "allow")
  /\ UNCHANGED <<wiring, step, touched, gone, sandbox, reportSeen, events, decision>>

\* The answer reaches the events of the run.
Answer(c) ==
  /\ At(c, "answer") /\ step = "stream"
  /\ Moves(c, "closed") /\ Emits("result", c)
  /\ UNCHANGED <<wiring, step, touched, gone, sandbox, reportSeen, audit, decision>>

\* An exception ends the driver's run.  The SDK answers it to the model, and its
\* part of the stream, a tool-error, is not one the run makes an event of.
Throws(c) ==
  /\ At(c, "threw") /\ step = "stream"
  /\ IF wiring = "driver"
       THEN step' = "cleanup" /\ UNCHANGED <<calls, events>>
       ELSE Moves(c, "unanswered") /\ UNCHANGED <<step, events>>
  /\ UNCHANGED <<wiring, touched, gone, sandbox, reportSeen, audit, decision>>

\* Mutant: the engine's result is not skipped.
EngineEchoesTwice(c) ==
  /\ wiring = "driver" /\ step = "stream" /\ At(c, "closed") /\ ~calls[c].echoed
  /\ calls' = [calls EXCEPT ![c].echoed = TRUE]
  /\ Emits("result", c)
  /\ UNCHANGED <<wiring, step, touched, gone, sandbox, reportSeen, audit, decision>>

\* The engine repeats the result of a call the driver has handled.
EngineEchoes(c) ==
  /\ wiring = "driver" /\ step = "stream" /\ At(c, "closed") /\ ~calls[c].echoed
  /\ calls' = [calls EXCEPT ![c].echoed = TRUE]
  /\ UNCHANGED <<wiring, step, touched, gone, sandbox, reportSeen, audit, events, decision>>

\* The stream ends when every call is answered; the driver runs the stop hook.
StreamEnds ==
  /\ step = "stream" /\ InFlight = {}
  /\ step' = "collect"
  /\ events' = IF wiring = "driver" /\ ~reportSeen
                 THEN Append(events, [kind |-> "stop_blocked"]) ELSE events
  /\ UNCHANGED <<wiring, calls, touched, gone, sandbox, reportSeen, audit, decision>>

\* The engine's stream throws.
StreamFails ==
  /\ step = "stream"
  /\ step' = "cleanup"
  /\ UNCHANGED <<wiring, calls, touched, gone, sandbox, reportSeen, audit, events, decision>>

Added == touched \ PreTask

\* The authoritative diff: everything is staged first, so new files count.  A
\* removed file may be shown as the source of a rename, one for each added file.
\* A name that is no file's is read of a rename onto a quoted one, of a name
\* with a blank, which git ends with a tab, or of a line like a diff's own.
MayShow(sources, misread) ==
  /\ Cardinality(sources) <= Cardinality(Added)
  /\ Cardinality(sources) > Cardinality(Added \ QuotedFiles) => misread
  /\ misread => touched # {}

\* diffFileSet: neither a quoted name nor the source of a rename is read.
DiffFileSet(sources, misread) ==
  (touched \ (QuotedFiles \cup sources)) \cup (IF misread THEN {OtherName} ELSE {})

\* The exit gate over the diff, with what its injected stages answer.
RunExitGate ==
  /\ step = "collect"
  /\ \E validator, assessor, misread \in BOOLEAN,
        failing \in SUBSET UNION {PriorTests[s] : s \in DOMAIN PriorTests},
        sources \in SUBSET gone :
       /\ MayShow(sources, misread)
       /\ decision' = DecideDelegationOutcome(ExitGateVerdict(DiffFileSet(sources, misread), Contract,
            [validator |-> validator, assessor |-> assessor, prior |-> PriorTests, failing |-> failing]))
  /\ step' = "cleanup"
  /\ UNCHANGED <<wiring, calls, touched, gone, sandbox, reportSeen, audit, events>>

\* Mutant: only a run that got to its decision removes its sandbox.
RemoveSandboxWhenDecided ==
  /\ step = "cleanup"
  /\ sandbox' = (decision = "none")
  /\ step' = IF decision = "none" THEN "failed" ELSE "done"
  /\ UNCHANGED <<wiring, calls, touched, gone, reportSeen, audit, events, decision>>

\* finally: the sandbox is removed, whatever happened.
RemoveSandbox ==
  /\ step = "cleanup"
  /\ sandbox' = FALSE
  /\ step' = IF decision = "none" THEN "failed" ELSE "done"
  /\ UNCHANGED <<wiring, calls, touched, gone, reportSeen, audit, events, decision>>

Mediates(c) == PreHook(c) \/ Permission(c) \/ Execute(c) \/ Post(c) \/ Answer(c) \/ Throws(c)

ProviderNext ==
  \/ ProveBarrier \/ MakeSandbox \/ StreamEnds \/ StreamFails \/ RunExitGate \/ RemoveSandbox
  \/ \E c \in Calls : Issue(c) \/ Mediates(c) \/ EngineEchoes(c)

\* Tools return and the stream ends; an engine need not make a call.
ProviderFairness ==
  /\ WF_providerVars(ProveBarrier \/ MakeSandbox \/ StreamEnds \/ RunExitGate \/ RemoveSandbox)
  /\ \A c \in Calls : WF_providerVars(Mediates(c))

ProviderSpec == ProviderInit /\ [][ProviderNext]_providerVars /\ ProviderFairness

-----------------------------------------------------------------------------
(* Properties. *)

\* Every variable has its type.
ProviderTypeOK ==
  /\ wiring \in Lanes
  /\ step \in {"barrier", "sandbox", "stream", "collect", "cleanup"} \cup Over
  /\ calls \in [Calls -> CallRecords]
  /\ touched \subseteq Files /\ gone \subseteq touched \cap PreTask
  /\ sandbox \in BOOLEAN /\ reportSeen \in BOOLEAN
  /\ audit \in Seq(AuditRecords)
  /\ events \in Seq(Events)
  /\ decision \in {"none", "write_checkpoint", "escalate_human", "route_debugger"}

\* The scripts' tools change nothing outside of the write set, since their calls
\* name what they write.  A patch's paths are not seen before the diff is, and
\* what a run that leads to a checkpoint or to the debugger changed outside is
\* then a quoted name, or a file moved onto an added one of the write set
\* (providerToolPolicy.ts:40-84, delegationResult.ts:60-71, exitGate.ts:137-155).
CheckpointInWriteSet ==
  /\ wiring = "sdk" => touched \subseteq WriteSet
  /\ decision \in {"write_checkpoint", "route_debugger"} =>
       LET foreign == touched \ (WriteSet \cup QuotedFiles) IN
       /\ foreign \subseteq gone
       /\ Cardinality(foreign) <= Cardinality((Added \cap WriteSet) \ QuotedFiles)

\* "100% of the sandbox's changes pass the write-set check, ZERO exceptions"
\* (exitGate.ts:11-12); a quoted name and the source of a rename do not.
CheckpointAllInWriteSet == decision = "write_checkpoint" => touched \subseteq WriteSet

RecordsOf(c) == {i \in DOMAIN audit : audit[i].call = c}

\* The events and the audit tell the same run: a call has one call event, and a
\* result after it exactly when the audit has its one record and the answer was
\* given; a driver's run that got to its end says stop_blocked exactly when no
\* report call was permitted (providerDriver.ts:91-155, confinement.ts:218-271,
\* aiSdkEngine.ts:62-80).
EventsTellTheRun ==
  /\ \A c \in Calls :
       LET of(kind) == {i \in DOMAIN events : events[i].kind = kind /\ events[i].call = c} IN
       /\ Cardinality(of("call")) = IF At(c, "unused") THEN 0 ELSE 1
       /\ Cardinality(of("result")) = IF At(c, "answer") THEN 0 ELSE Cardinality(RecordsOf(c))
       /\ Cardinality(RecordsOf(c)) = IF calls[c].at \in {"answer", "closed"} THEN 1 ELSE 0
  /\ wiring = "driver" /\ step \in {"collect", "done"} /\ events # <<>> =>
       (events[Len(events)].kind = "stop_blocked"
          <=> ~\E i \in DOMAIN audit :
                 audit[i].decision = "allow" /\ calls[audit[i].call].tool = "report")

\* The audit is complete: a call that is over has its record, allowed or denied
\* (confinement.ts:178).
EveryCallAudited ==
  \A c \in Calls : calls[c].at \in {"closed", "unanswered"} => RecordsOf(c) # {}

\* A run ends with its sandbox removed.
RunSettles == <>(step \in Over /\ ~sandbox)

=============================================================================
