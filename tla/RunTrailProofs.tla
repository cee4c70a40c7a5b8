--------------------------- MODULE RunTrailProofs ---------------------------
(***************************************************************************)
(* What holds of RunTrail whatever the stories, the targets and the bound  *)
(* on the trace, with two processes writing at once.                       *)
(***************************************************************************)
EXTENDS RunTrail, TLAPS

LEMMA JobTypes ==
  /\ NoJob \in Job
  /\ \A t \in Types, r \in Subjects, n \in 0..2, m \in 0..MaxLines :
       [type |-> t, ref |-> r, left |-> n, since |-> m] \in Job
  /\ \A j \in Job : j.ref \in Subjects /\ j.type \in Types /\ j.since \in 0..MaxLines
<1>1. NoJob \in Job
  BY BoundAssumption DEF NoJob, Job, Types, Subjects
<1> QED BY <1>1 DEF Job

\* An operation that has more events to record.
LEMMA RestType ==
  ASSUME NEW p \in Procs, job[p] \in Job, job[p].left > 1, Len(trace) + 1 \in 0..MaxLines
  PROVE  /\ Rest(p) \in Job /\ Rest(p).since = Len(trace) + 1
         /\ Rest(p).type = job[p].type /\ Rest(p).ref = job[p].ref
<1>1. job[p].left - 1 \in 0..2
  BY DEF Job
<1>2. Rest(p) \in Job
  BY <1>1 DEF Rest, Job
<1>3. Rest(p).since = Len(trace) + 1
  BY DEF Rest, Job
<1>4. Rest(p).type = job[p].type /\ Rest(p).ref = job[p].ref
  BY DEF Rest, Job
<1> QED BY <1>2, <1>3, <1>4

\* NextEvent continues the line the process took for the last one.
LEMMA NextEventType == ASSUME TypeOK, NEW p \in Procs PROVE NextEvent(p) \in Event
<1>1. tail[p] \in 0..Len(trace) /\ job[p] \in Job /\ Len(trace) <= MaxLines
  BY BoundAssumption DEF TypeOK
<1>2. NextSeq(p) \in Nat
  <2>1. CASE tail[p] = 0
    BY <2>1 DEF NextSeq
  <2>2. CASE tail[p] # 0
    <3>1. trace[tail[p]] \in Event
      BY <1>1, <2>2 DEF TypeOK
    <3> QED BY <2>2, <3>1 DEF NextSeq, Event
  <2> QED BY <2>1, <2>2
<1>3. tail[p] \in 0..MaxLines
  BY <1>1, BoundAssumption DEF TypeOK
<1> QED BY <1>1, <1>2, <1>3, JobTypes DEF NextEvent, Event

\* The first event, or the last, of an operation.
LEMMA StartsType ==
  ASSUME TypeOK, NEW p \in Procs, NEW place \in Working, NEW t \in Types,
         NEW r \in Subjects, NEW n \in 0..2, Starts(p, place, t, r, n)
  PROVE  /\ pc' \in [Procs -> {"idle", "ask"} \cup Working] /\ job' \in [Procs -> Job]
         /\ job'[p] = [type |-> t, ref |-> r, left |-> n, since |-> Len(trace)]
         /\ pc'[p] = place
<1>1. Len(trace) \in 0..MaxLines
  BY DEF TypeOK
<1>2. [type |-> t, ref |-> r, left |-> n, since |-> Len(trace)] \in Job
  BY <1>1, JobTypes
<1> QED BY <1>2 DEF Starts, TypeOK

LEMMA OverType ==
  ASSUME TypeOK, NEW p \in Procs, NEW b \in BOOLEAN, Over(p, b)
  PROVE  /\ pc' \in [Procs -> {"idle", "ask"} \cup Working] /\ job' \in [Procs -> Job]
         /\ tail' \in [Procs -> 0..Len(trace)] /\ met' \subseteq Procs
         /\ doubt' \subseteq Targets /\ pc'[p] = "idle" /\ job'[p] = NoJob
<1> USE DEF Over, TypeOK
<1>1. 0 \in 0..Len(trace)
  OBVIOUS
<1>2. tail' \in [Procs -> 0..Len(trace)]
  BY <1>1
<1>3. job' \in [Procs -> Job] /\ job'[p] = NoJob
  BY JobTypes
<1>4. pc' \in [Procs -> {"idle", "ask"} \cup Working] /\ pc'[p] = "idle"
  OBVIOUS
<1>5. met' \subseteq Procs /\ doubt' \subseteq Targets
  OBVIOUS
<1> QED BY <1>2, <1>3, <1>4, <1>5

LEMMA TypeStep == TypeOK /\ [Next]_vars => TypeOK'
<1> SUFFICES ASSUME TypeOK, [Next]_vars PROVE TypeOK'
  OBVIOUS
<1> USE BoundAssumption DEF TypeOK, onlyTrace
<1>0. /\ {"tail", "append", "copy", "remove"} \subseteq Working
      /\ Types = {"human_review", "promotion", "promotion_rollback", "note", "spawn_plan"}
      /\ 1 \in 0..2 /\ None \in Subjects /\ Targets \subseteq Subjects
      /\ {"approved", "denied"} \subseteq Subjects
  BY DEF Working, Types, Subjects
<1>1. ASSUME NEW s \in Stories, Progress(s) PROVE TypeOK'
  BY <1>1 DEF Progress
<1>2. CASE CleanupWorkspace
  BY <1>2 DEF CleanupWorkspace
<1>3. ASSUME NEW p \in Procs, NEW n \in 0..2, Records(p, "note", None, n) PROVE TypeOK'
  <2>1. pc' \in [Procs -> {"idle", "ask"} \cup Working] /\ job' \in [Procs -> Job]
    BY <1>0, <1>3, StartsType DEF Records
  <2> QED BY <1>3, <2>1 DEF Records
<1>4. ASSUME NEW p \in Procs, RecordSpawnPlan(p) PROVE TypeOK'
  <2>1. pc' \in [Procs -> {"idle", "ask"} \cup Working] /\ job' \in [Procs -> Job]
    BY <1>0, <1>4, StartsType DEF RecordSpawnPlan
  <2>2. 0 \in 0..Len(trace)
    OBVIOUS
  <2> QED BY <1>4, <2>1, <2>2 DEF RecordSpawnPlan
<1>5. ASSUME NEW p \in Procs, Reviews(p) PROVE TypeOK'
  <2>1. CASE AskReview(p)
    BY <2>1 DEF AskReview
  <2>2. ASSUME NEW o \in {"approved", "denied"}, NEW r \in BOOLEAN, AnswerReview(p, o, r)
        PROVE  TypeOK'
    <3>1. [type |-> "human_review", ref |-> o, left |-> 1, since |-> Len(trace)] \in Job
      BY <1>0, JobTypes
    <3>2. job' \in [Procs -> Job]
      BY <2>2, <3>1 DEF AnswerReview
    <3>3. pc' \in [Procs -> {"idle", "ask"} \cup Working]
      BY <1>0, <2>2 DEF AnswerReview
    <3> QED BY <2>2, <3>2, <3>3 DEF AnswerReview
  <2> QED BY <1>5, <2>1, <2>2 DEF Reviews
<1>6. ASSUME NEW p \in Procs, NEW k \in Targets, NEW place \in {"copy", "remove"},
             NEW t \in {"promotion", "promotion_rollback"}, BeginsAt(p, k, place, t)
      PROVE  TypeOK'
  <2>1. Starts(p, place, t, k, 1)
    BY <1>6 DEF BeginsAt
  <2>2. pc' \in [Procs -> {"idle", "ask"} \cup Working] /\ job' \in [Procs -> Job]
    BY <1>0, <2>1, StartsType
  <2>3. met' \subseteq Procs /\ disk' \in [Targets -> {"absent", "partial", "whole"}]
    BY <1>6 DEF BeginsAt
  <2> QED BY <1>6, <2>2, <2>3 DEF BeginsAt
<1>7. ASSUME NEW p \in Procs, Abandoned(p), UNCHANGED <<trace, disk, run, sandbox>>,
             torn' \in BOOLEAN
      PROVE  TypeOK'
  BY <1>7, OverType DEF Abandoned
<1>8. ASSUME NEW p \in Procs, NEW place \in {"copy", "remove"}, NEW o \in {"whole", "absent"},
             EffectEnds(p, place, o)
      PROVE  TypeOK'
  BY <1>0, <1>8 DEF EffectEnds
<1>9. ASSUME NEW p \in Procs, AppendEvent(p) PROVE TypeOK'
  <2>1. trace' \in Seq(Event) /\ Len(trace') \in 0..MaxLines /\ Len(trace) <= Len(trace')
    BY <1>9, NextEventType DEF AppendEvent
  <2>2. given' \subseteq Subjects
    <3>1. given' = given \/ given' = given \cup {job[p].ref}
      BY <1>9 DEF AppendEvent
    <3> QED BY <3>1, JobTypes
  <2>3. CASE job[p].left > 1 /\ ~torn
    <3>1. Len(trace') = Len(trace) + 1 /\ Len(trace) + 1 \in 0..MaxLines
      BY <1>9, <2>3, NextEventType DEF AppendEvent
    <3>2. tail' \in [Procs -> 0..Len(trace')]
      BY <1>9, <2>3, <3>1 DEF AppendEvent
    <3>3. job' = [job EXCEPT ![p] = Rest(p)]
      BY <1>9, <2>3 DEF AppendEvent
    <3>4. Rest(p) \in Job
      BY <2>3, <3>1, RestType
    <3>5. job' \in [Procs -> Job]
      BY <3>3, <3>4
    <3> QED BY <1>9, <2>1, <2>2, <2>3, <3>2, <3>5 DEF AppendEvent
  <2>4. CASE ~(job[p].left > 1 /\ ~torn)
    <3>1. Over(p, ~torn)
      BY <1>9, <2>4 DEF AppendEvent
    <3>2. 0..Len(trace) \subseteq 0..Len(trace')
      BY <2>1
    <3>3. tail' \in [Procs -> 0..Len(trace')]
      BY <3>1, <3>2, OverType
    <3> QED BY <1>9, <2>1, <2>2, <3>1, <3>3, OverType DEF AppendEvent
  <2> QED BY <2>3, <2>4
<1>10. ASSUME NEW p \in Procs, ReadTail(p) PROVE TypeOK'
  <2>1. CASE torn
    BY <1>10, <1>7, <2>1 DEF ReadTail
  <2>2. CASE ~torn
    <3>1. tail' = [tail EXCEPT ![p] = Len(trace)] /\ pc' = [pc EXCEPT ![p] = "append"]
      BY <1>10, <2>2 DEF ReadTail
    <3>2. UNCHANGED <<trace, torn, disk, job, met, doubt, given, run, sandbox>>
      BY <1>10, <2>2 DEF ReadTail
    <3>3. Len(trace) \in 0..Len(trace)
      OBVIOUS
    <3>4. tail' \in [Procs -> 0..Len(trace')]
      BY <3>1, <3>2, <3>3
    <3> QED BY <1>0, <3>1, <3>2, <3>4
  <2> QED BY <2>1, <2>2
<1>11. ASSUME NEW p \in Procs, Notes(p) PROVE TypeOK'
  BY <1>11, <1>3, <1>4 DEF Notes, WriteHandoffCard, TransitionToTerminalState,
     RecordResolvedSettings, RecordTestIntegrity, ApplyBacklogDelta, RecordProviderRegistrations
<1>12. ASSUME NEW p \in Procs, Works(p) \/ Crash(p) PROVE TypeOK'
  BY <1>12, <1>7, <1>8, <1>9, <1>10
     DEF Works, Crash, AppendTears, AppendStops, EffectFails, CopyEnds, RemoveEnds
<1>13. ASSUME NEW p \in Procs, Promotes(p) PROVE TypeOK'
  BY <1>6, <1>13 DEF Promotes, StartPromotion, StartRollback
<1>14. CASE UNCHANGED vars
  BY <1>14 DEF vars
<1> QED BY <1>1, <1>2, <1>5, <1>11, <1>12, <1>13, <1>14 DEF Next

LEMMA InitTypeOK == Init => TypeOK
<1> SUFFICES ASSUME Init PROVE TypeOK
  OBVIOUS
<1>1. trace \in Seq(Event) /\ Len(trace) = 0 /\ 0 \in 0..MaxLines
  BY BoundAssumption DEF Init
<1>2. tail \in [Procs -> 0..Len(trace)]
  BY <1>1 DEF Init
<1>3. job \in [Procs -> Job]
  BY JobTypes DEF Init
<1>4. disk \in [Targets -> {"absent", "partial", "whole"}]
  BY DEF Init
<1> QED BY <1>1, <1>2, <1>3, <1>4 DEF Init, TypeOK, Working

\* Every variable keeps its type; what a process took for the last line is a
\* line of the trace.
THEOREM TypeCorrect == Spec => []TypeOK
BY InitTypeOK, TypeStep, PTL DEF Spec

-----------------------------------------------------------------------------
\* Nothing of another process is touched.
Alone(p) == \A q \in Procs \ {p} : pc'[q] = pc[q] /\ job'[q] = job[q] /\ tail'[q] = tail[q]

LEMMA StepAlone ==
  ASSUME TypeOK, NEW p \in Procs, Notes(p) \/ Reviews(p) \/ Promotes(p) \/ Works(p) \/ Crash(p)
  PROVE  Alone(p)
<1> USE DEF TypeOK, Alone
<1>1. ASSUME Notes(p) PROVE Alone(p)
  BY <1>1 DEF Notes, WriteHandoffCard, TransitionToTerminalState, RecordResolvedSettings,
     RecordTestIntegrity, ApplyBacklogDelta, RecordProviderRegistrations, RecordSpawnPlan,
     Records, Starts
<1>2. ASSUME Reviews(p) PROVE Alone(p)
  BY <1>2 DEF Reviews, AskReview, AnswerReview
<1>3. ASSUME Promotes(p) PROVE Alone(p)
  BY <1>3 DEF Promotes, StartPromotion, StartRollback, BeginsAt, Starts
<1>4. ASSUME Abandoned(p) PROVE Alone(p)
  BY <1>4 DEF Abandoned, Over
<1>5. ASSUME AppendEvent(p) PROVE Alone(p)
  BY <1>5 DEF AppendEvent, Over
<1>6. ASSUME ReadTail(p) \/ CopyEnds(p) \/ RemoveEnds(p) PROVE Alone(p)
  BY <1>4, <1>6 DEF ReadTail, CopyEnds, RemoveEnds, EffectEnds
<1> QED BY <1>1, <1>2, <1>3, <1>4, <1>5, <1>6
        DEF Works, Crash, AppendTears, AppendStops, EffectFails

\* Only an append changes the trace, and it appends one event.
LEMMA TraceStep ==
  ASSUME [Next]_vars
  PROVE  \/ trace' = trace
         \/ \E p \in Procs : AppendEvent(p) /\ trace' = Append(trace, NextEvent(p))
<1> USE DEF onlyTrace
<1>1. ASSUME NEW p \in Procs, Notes(p) PROVE trace' = trace
  BY <1>1 DEF Notes, WriteHandoffCard, TransitionToTerminalState, RecordResolvedSettings,
     RecordTestIntegrity, ApplyBacklogDelta, RecordProviderRegistrations, RecordSpawnPlan, Records
<1>2. ASSUME NEW p \in Procs, Reviews(p) \/ Promotes(p) \/ Crash(p) PROVE trace' = trace
  BY <1>2 DEF Reviews, AskReview, AnswerReview, Promotes, StartPromotion, StartRollback,
     BeginsAt, Crash
<1>3. ASSUME NEW p \in Procs, Works(p), ~AppendEvent(p) PROVE trace' = trace
  BY <1>3 DEF Works, ReadTail, AppendTears, AppendStops, CopyEnds, EffectFails, RemoveEnds,
     EffectEnds
<1>4. ASSUME NEW p \in Procs, AppendEvent(p)
      PROVE  trace' = trace \/ trace' = Append(trace, NextEvent(p))
  BY <1>4 DEF AppendEvent
<1>5. ASSUME CleanupWorkspace \/ (\E s \in Stories : Progress(s)) \/ UNCHANGED vars
      PROVE  trace' = trace
  BY <1>5 DEF CleanupWorkspace, Progress, vars
<1>6. CASE \E p \in Procs : AppendEvent(p)
  BY <1>4, <1>6
<1>7. CASE ~(\E p \in Procs : AppendEvent(p)) /\ Next
  BY <1>1, <1>2, <1>3, <1>5, <1>7 DEF Next
<1> QED BY <1>5, <1>6, <1>7

\* What a process is about to append continues the trace as it is.
LEMMA NextContinues == ASSUME TypeOK, NEW p \in Procs PROVE Continues(NextEvent(p), Len(trace))
<1>1. NextEvent(p).prev = tail[p] /\ NextEvent(p).seq = NextSeq(p) /\ tail[p] \in 0..Len(trace)
  BY DEF NextEvent, TypeOK
<1> QED BY <1>1 DEF Continues, NextSeq

\* The strengthening: an operation begins at lines that are there, and takes a
\* tail no older than that.
Fresh ==
  \A p \in Procs :
    /\ job[p].since <= Len(trace)
    /\ pc[p] = "append" /\ job[p].type # "spawn_plan" => tail[p] >= job[p].since

Lines == \A i \in 1..Len(trace) : Continues(trace[i], i - 1)

PInv == TypeOK /\ Lines /\ Fresh

LEMMA PInvImplies == PInv => EventsHaveParents
<1>1. \A p \in Procs : NextEvent(p).prev = tail[p]
  BY DEF NextEvent
<1> QED BY <1>1, NextContinues DEF PInv, Lines, Fresh, EventsHaveParents

LEMMA LinesStep == TypeOK /\ Lines /\ [Next]_vars => Lines'
<1> SUFFICES ASSUME TypeOK, Lines, [Next]_vars PROVE Lines'
  OBVIOUS
<1>1. CASE trace' = trace
  BY <1>1 DEF Lines, Continues
<1>2. ASSUME NEW p \in Procs, trace' = Append(trace, NextEvent(p)) PROVE Lines'
  <2> DEFINE n == Len(trace)
  <2>1. /\ NextEvent(p) \in Event /\ trace \in Seq(Event) /\ n \in Nat
        /\ Len(trace') = n + 1 /\ trace'[n + 1] = NextEvent(p)
        /\ \A i \in 1..n : trace'[i] = trace[i]
    BY <1>2, NextEventType DEF TypeOK
  <2> DEFINE C(e, m) == /\ e.prev \in 0..m
                        /\ e.seq = IF e.prev = 0 THEN 0 ELSE trace'[e.prev].seq + 1
  <2>2. ASSUME NEW e, NEW m \in 0..n, Continues(e, m) PROVE C(e, m)
    BY <2>1, <2>2 DEF Continues
  <2>3. ASSUME NEW i \in 1..n PROVE C(trace'[i], i - 1)
    <3>1. Continues(trace[i], i - 1) /\ i - 1 \in 0..n
      BY <2>1 DEF Lines
    <3>2. C(trace[i], i - 1)
      BY <2>2, <3>1
    <3> QED BY <2>1, <3>2
  <2>4. C(trace'[n + 1], n)
    <3>1. Continues(NextEvent(p), n) /\ n \in 0..n
      BY <2>1, NextContinues
    <3>2. C(NextEvent(p), n)
      BY <2>2, <3>1
    <3> QED BY <2>1, <3>2
  <2>5. (n + 1) - 1 = n /\ 1..Len(trace') = (1..n) \cup {n + 1}
    BY <2>1
  <2>6. \A i \in 1..Len(trace') : C(trace'[i], i - 1)
    <3> HIDE DEF C, n
    <3> QED BY <2>3, <2>4, <2>5
  <2> QED BY <2>6 DEF Lines, Continues
<1> QED BY <1>1, <1>2, TraceStep

LEMMA FreshStep == TypeOK /\ TypeOK' /\ Fresh /\ [Next]_vars => Fresh'
<1> SUFFICES ASSUME TypeOK, TypeOK', Fresh, [Next]_vars PROVE Fresh'
  OBVIOUS
<1> USE BoundAssumption DEF onlyTrace
<1>0. /\ Len(trace) \in Nat /\ Len(trace') \in Nat
      /\ \A p \in Procs : job[p] \in Job /\ job[p].since \in Nat /\ tail[p] \in Nat
  BY JobTypes DEF TypeOK
<1>1. Len(trace) <= Len(trace')
  BY TraceStep, NextEventType DEF TypeOK
\* A process that does nothing stays fresh.
<1>2. ASSUME NEW q \in Procs, pc'[q] = pc[q], job'[q] = job[q], tail'[q] = tail[q]
      PROVE  /\ job'[q].since <= Len(trace')
             /\ pc'[q] = "append" /\ job'[q].type # "spawn_plan" => tail'[q] >= job'[q].since
  BY <1>0, <1>1, <1>2 DEF Fresh
<1>3. CASE CleanupWorkspace \/ (\E s \in Stories : Progress(s)) \/ UNCHANGED vars
  BY <1>2, <1>3 DEF CleanupWorkspace, Progress, vars, Fresh
<1>4. ASSUME NEW p \in Procs,
             Notes(p) \/ Reviews(p) \/ Promotes(p) \/ Works(p) \/ Crash(p)
      PROVE  Fresh'
  <2>1. ASSUME NEW place \in Working, NEW t \in Types, NEW r \in Subjects, NEW n \in 0..2,
               Starts(p, place, t, r, n), place = "append" => t = "spawn_plan", trace' = trace
        PROVE  /\ job'[p].since <= Len(trace')
               /\ pc'[p] = "append" /\ job'[p].type # "spawn_plan" => tail'[p] >= job'[p].since
    <3>1. pc'[p] = place /\ job'[p] = [type |-> t, ref |-> r, left |-> n, since |-> Len(trace)]
      BY <2>1, StartsType
    <3> QED BY <1>0, <2>1, <3>1
  <2>2. ASSUME NEW b \in BOOLEAN, Over(p, b)
        PROVE  /\ job'[p].since <= Len(trace')
               /\ pc'[p] = "append" /\ job'[p].type # "spawn_plan" => tail'[p] >= job'[p].since
    BY <1>0, <2>2, OverType DEF NoJob
  <2>3. ASSUME AppendEvent(p), job[p].left > 1, ~torn
        PROVE  /\ job'[p].since <= Len(trace')
               /\ pc'[p] = "append" /\ job'[p].type # "spawn_plan" => tail'[p] >= job'[p].since
    <3>1. Len(trace') = Len(trace) + 1 /\ Len(trace) + 1 \in 0..MaxLines
      BY <2>3, NextEventType DEF AppendEvent, TypeOK
    <3>2. job' = [job EXCEPT ![p] = Rest(p)]
      BY <2>3 DEF AppendEvent
    <3>3. job'[p] = Rest(p) /\ tail'[p] = Len(trace) + 1
      BY <2>3, <3>2 DEF AppendEvent, TypeOK
    <3>4. Rest(p).since = Len(trace) + 1
      BY <1>0, <2>3, <3>1, RestType
    <3> QED BY <1>0, <3>1, <3>3, <3>4
  <2>4. ASSUME ReadTail(p), ~torn
        PROVE  /\ job'[p].since <= Len(trace')
               /\ pc'[p] = "append" /\ job'[p].type # "spawn_plan" => tail'[p] >= job'[p].since
    BY <1>0, <2>4 DEF ReadTail, TypeOK, Fresh
  <2>5. ASSUME EffectEnds(p, "copy", "whole") \/ EffectEnds(p, "remove", "absent")
        PROVE  /\ job'[p].since <= Len(trace')
               /\ pc'[p] = "append" /\ job'[p].type # "spawn_plan" => tail'[p] >= job'[p].since
    BY <1>0, <2>5 DEF EffectEnds, TypeOK, Fresh
  <2>6. ASSUME Reviews(p)
        PROVE  /\ job'[p].since <= Len(trace')
               /\ pc'[p] = "append" /\ job'[p].type # "spawn_plan" => tail'[p] >= job'[p].since
    <3>1. pc'[p] # "append" /\ trace' = trace
      BY <2>6 DEF Reviews, AskReview, AnswerReview, TypeOK
    <3>2. CASE job' = job
      BY <1>0, <3>1, <3>2 DEF Fresh
    <3>3. CASE job' # job
      BY <1>0, <2>6, <3>1, <3>3 DEF Reviews, AskReview, AnswerReview, TypeOK
    <3> QED BY <3>2, <3>3
  <2>7. /\ {"tail", "append", "copy", "remove"} \subseteq Working
        /\ {"promotion", "promotion_rollback", "note", "spawn_plan"} \subseteq Types
        /\ None \in Subjects /\ Targets \subseteq Subjects /\ 1 \in 0..2
    BY DEF Working, Types, Subjects
  <2>8. ASSUME Notes(p)
        PROVE  /\ job'[p].since <= Len(trace')
               /\ pc'[p] = "append" /\ job'[p].type # "spawn_plan" => tail'[p] >= job'[p].since
    <3>1. ASSUME NEW n \in 0..2, Records(p, "note", None, n)
          PROVE  Starts(p, "tail", "note", None, n) /\ trace' = trace
      BY <3>1 DEF Records
    <3>2. ASSUME RecordSpawnPlan(p)
          PROVE  Starts(p, "append", "spawn_plan", None, 1) /\ trace' = trace
      BY <3>2 DEF RecordSpawnPlan
    <3>3. RecordSpawnPlan(p) \/ \E n \in 0..2 : Records(p, "note", None, n)
      BY <2>8 DEF Notes, WriteHandoffCard, TransitionToTerminalState, RecordResolvedSettings,
         RecordTestIntegrity, ApplyBacklogDelta, RecordProviderRegistrations
    <3> QED BY <2>1, <2>7, <3>1, <3>2, <3>3
  <2>9. ASSUME Promotes(p)
        PROVE  /\ job'[p].since <= Len(trace')
               /\ pc'[p] = "append" /\ job'[p].type # "spawn_plan" => tail'[p] >= job'[p].since
    <3>1. \E k \in Targets : \/ Starts(p, "copy", "promotion", k, 1) /\ trace' = trace
                             \/ Starts(p, "remove", "promotion_rollback", k, 1) /\ trace' = trace
      BY <2>9 DEF Promotes, StartPromotion, StartRollback, BeginsAt
    <3> QED BY <2>1, <2>7, <3>1
  <2>10. /\ job'[p].since <= Len(trace')
         /\ pc'[p] = "append" /\ job'[p].type # "spawn_plan" => tail'[p] >= job'[p].since
    <3>1. CASE Works(p) \/ Crash(p)
      <4>1. \/ \E b \in BOOLEAN : Over(p, b)
            \/ AppendEvent(p) /\ job[p].left > 1 /\ ~torn
            \/ ReadTail(p) /\ ~torn
            \/ EffectEnds(p, "copy", "whole") \/ EffectEnds(p, "remove", "absent")
        BY <3>1 DEF Works, Crash, AppendTears, AppendStops, EffectFails, CopyEnds, RemoveEnds,
           ReadTail, AppendEvent, Abandoned, TypeOK
      <4> QED BY <2>2, <2>3, <2>4, <2>5, <4>1
    <3> QED BY <1>4, <2>6, <2>8, <2>9, <3>1
  <2>11. ASSUME NEW q \in Procs \ {p}
         PROVE  pc'[q] = pc[q] /\ job'[q] = job[q] /\ tail'[q] = tail[q]
    BY <1>4, StepAlone DEF Alone
  <2> QED BY <1>2, <2>10, <2>11 DEF Fresh
<1> QED BY <1>3, <1>4 DEF Next

\* Two processes that append at once can fork the chain of events, but none
\* does so by itself, and no event is left without the line it names.
THEOREM ChainNeverDangles == Spec => []EventsHaveParents
<1>1. Init => PInv
  <2> SUFFICES ASSUME Init PROVE PInv
    OBVIOUS
  <2>1. trace = << >> /\ \A p \in Procs : job[p] = NoJob /\ pc[p] = "idle"
    BY DEF Init
  <2> QED BY <2>1, InitTypeOK DEF PInv, Lines, Fresh, NoJob
<1>2. PInv /\ [Next]_vars => PInv'
  BY TypeStep, LinesStep, FreshStep DEF PInv
<1> QED BY <1>1, <1>2, PInvImplies, PTL DEF Spec

-----------------------------------------------------------------------------
(***************************************************************************)
(* The trace and the disk.                                                 *)
(***************************************************************************)
\* Where an operation on a target stands: once its effect is done, and if it
\* met no other, its target is as it left it.
Doing(p) ==
  IF job[p].ref \in Targets
  THEN /\ job[p].type \in {"promotion", "promotion_rollback"} /\ job[p].left = 1
       /\ \/ pc[p] = "copy" /\ job[p].type = "promotion"
          \/ pc[p] = "remove" /\ job[p].type = "promotion_rollback"
          \/ /\ pc[p] \in {"tail", "append"}
             /\ p \in met \/ disk[job[p].ref] = Outcome(job[p].type)
  ELSE pc[p] \notin {"copy", "remove"}

\* Two operations at one target have met.
Meetings ==
  \A p, q \in Procs : p # q /\ job[p].ref \in Targets /\ job[q].ref = job[p].ref => p \in met

\* The inductive invariant.
DInv == TypeOK /\ Meetings /\ (\A p \in Procs : Doing(p)) /\ TraceTellsDisk

LEMMA NoJobFacts == NoJob.ref = None /\ NoJob.ref \notin Targets
BY SubjectAssumption DEF NoJob

LEMMA SameTrace ==
  trace' = trace => \A k : disk'[k] = disk[k] => (Told(k)' <=> Told(k))
BY DEF Told, LastAt

\* An event about something else tells nothing of k.
LEMMA OtherAppended ==
  ASSUME TypeOK, NEW e \in Event, trace' = Append(trace, e), NEW k, e.ref # k,
         disk'[k] = disk[k], Told(k)
  PROVE  Told(k)'
<1> DEFINE n == Len(trace)
<1>1. /\ Len(trace') = n + 1 /\ trace'[n + 1] = e /\ n \in Nat
      /\ \A i \in 1..n : trace'[i] = trace[i]
  BY DEF TypeOK
<1>2. 1..(n + 1) = (1..n) \cup {n + 1}
  BY <1>1
<1>3. ASSUME NEW i \in 1..Len(trace'), LastAt(i, k)' PROVE disk'[k] = Outcome(trace'[i].type)
  <2>1. i \in 1..n /\ trace'[i] = trace[i]
    BY <1>1, <1>2, <1>3 DEF LastAt
  <2>2. LastAt(i, k)
    BY <1>1, <1>2, <1>3, <2>1 DEF LastAt
  <2> QED BY <2>1, <2>2 DEF Told
<1> QED BY <1>3 DEF Told, Outcome

\* The last event on k is the one just appended.
LEMMA OwnAppended ==
  ASSUME TypeOK, NEW e \in Event, trace' = Append(trace, e), NEW k, e.ref = k,
         disk'[k] = Outcome(e.type)
  PROVE  Told(k)'
<1> DEFINE n == Len(trace)
<1>1. Len(trace') = n + 1 /\ trace'[n + 1] = e /\ n \in Nat
  BY DEF TypeOK
<1>2. ASSUME NEW i \in 1..Len(trace'), LastAt(i, k)' PROVE i = n + 1
  BY <1>1, <1>2 DEF LastAt
<1> QED BY <1>1, <1>2 DEF Told, Outcome

\* Every other process stands where it stood, when what it has at a target of
\* its own is left as it was.
LEMMA OthersStand ==
  ASSUME DInv, NEW p \in Procs, Alone(p), NEW q \in Procs \ {p},
         job[q].ref \in Targets => disk'[job[q].ref] = disk[job[q].ref] \/ q \in met',
         q \in met => q \in met'
  PROVE  Doing(q)'
<1>1. Doing(q) /\ pc'[q] = pc[q] /\ job'[q] = job[q]
  BY DEF DInv, Alone
<1> QED BY <1>1 DEF Doing, Outcome

\* p works on no target, before or after, and the trace stays or gets an event
\* that is about none.
LEMMA Quiet ==
  ASSUME DInv, TypeOK', NEW p \in Procs, Alone(p), disk' = disk, met' = met, doubt' = doubt,
         job[p].ref \notin Targets, job'[p].ref \notin Targets, pc'[p] \notin {"copy", "remove"},
         \/ trace' = trace
         \/ \E e \in Event : trace' = Append(trace, e) /\ e.ref \notin Targets
  PROVE  DInv'
<1>1. Doing(p)'
  BY DEF Doing
<1>2. \A q \in Procs \ {p} : Doing(q)'
  BY OthersStand
<1>3. Meetings'
  BY DEF DInv, Meetings, Alone
<1>4. ASSUME NEW k \in Targets PROVE k \in doubt' \/ Busy(k)' \/ Told(k)'
  <2>1. Busy(k) => Busy(k)'
    BY DEF Busy, Alone
  <2>2. Told(k) => Told(k)'
    BY SameTrace, OtherAppended DEF DInv
  <2> QED BY <2>1, <2>2 DEF DInv, TraceTellsDisk
<1> QED BY <1>1, <1>2, <1>3, <1>4 DEF DInv, TraceTellsDisk

\* p ends, with or without its record.
LEMMA Ends ==
  ASSUME DInv, TypeOK', NEW p \in Procs, Alone(p), NEW b \in BOOLEAN, Over(p, b), disk' = disk,
         \/ ~b /\ trace' = trace
         \/ b /\ pc[p] = "append" /\ trace' = Append(trace, NextEvent(p))
  PROVE  DInv'
<1>0. TypeOK /\ pc'[p] = "idle" /\ job'[p] = NoJob /\ met' = met \ {p}
  BY OverType DEF DInv, Over
<1>1. Doing(p)'
  BY <1>0, NoJobFacts DEF Doing
<1>2. \A q \in Procs \ {p} : Doing(q)'
  BY <1>0, OthersStand
<1>3. Meetings'
  <2> SUFFICES ASSUME NEW q \in Procs, NEW r \in Procs, q # r, job'[q].ref \in Targets,
                      job'[r].ref = job'[q].ref
               PROVE  q \in met'
    BY DEF Meetings
  <2>1. q # p /\ r # p
    BY <1>0, NoJobFacts
  <2> QED BY <1>0, <2>1 DEF DInv, Meetings, Alone
<1>4. NextEvent(p) \in Event /\ NextEvent(p).ref = job[p].ref /\ NextEvent(p).type = job[p].type
  BY <1>0, NextEventType DEF NextEvent
<1>5. ASSUME NEW k \in Targets, k # job[p].ref PROVE k \in doubt' \/ Busy(k)' \/ Told(k)'
  <2>1. Busy(k) => Busy(k)'
    BY <1>5 DEF Busy, Alone
  <2>2. Told(k) => Told(k)'
    BY <1>0, <1>4, <1>5, SameTrace, OtherAppended
  <2>3. k \in doubt => k \in doubt'
    BY <1>5 DEF Over
  <2> QED BY <2>1, <2>2, <2>3 DEF DInv, TraceTellsDisk
<1>6. ASSUME NEW k \in Targets, k = job[p].ref PROVE k \in doubt' \/ Busy(k)' \/ Told(k)'
  <2>1. CASE b /\ p \notin met
    <3>1. disk[k] = Outcome(job[p].type)
      BY <1>6, <2>1 DEF DInv, Doing
    <3> QED BY <1>0, <1>4, <1>6, <2>1, <3>1, OwnAppended
  <2>2. CASE ~(b /\ p \notin met)
    BY <1>6, <2>2 DEF Over
  <2> QED BY <2>1, <2>2
<1> QED BY <1>1, <1>2, <1>3, <1>5, <1>6 DEF DInv, TraceTellsDisk

LEMMA Begins ==
  ASSUME DInv, TypeOK', NEW p \in Procs, Alone(p), NEW k \in Targets,
         NEW place \in {"copy", "remove"}, NEW t \in {"promotion", "promotion_rollback"},
         place = (IF t = "promotion" THEN "copy" ELSE "remove"), BeginsAt(p, k, place, t)
  PROVE  DInv'
<1> DEFINE others == {q \in Procs : job[q].ref = k}
<1>1. Starts(p, place, t, k, 1) /\ trace' = trace /\ doubt' = doubt
  BY DEF BeginsAt
<1>2. pc'[p] = place /\ job'[p].type = t /\ job'[p].ref = k /\ job'[p].left = 1
  <2>1. place \in Working /\ t \in Types /\ k \in Subjects /\ 1 \in 0..2
    BY DEF Working, Types, Subjects
  <2>2. TypeOK
    BY DEF DInv
  <2>3. pc'[p] = place /\ job'[p] = [type |-> t, ref |-> k, left |-> 1, since |-> Len(trace)]
    BY <1>1, <2>1, <2>2, StartsType
  <2> QED BY <2>3
<1>3. met \subseteq met' /\ others \subseteq met' /\ (others # {} => p \in met')
  BY DEF BeginsAt
<1>4. \A j \in Targets : j # k => disk'[j] = disk[j]
  BY DEF BeginsAt, DInv, TypeOK
<1>5. Doing(p)'
  BY <1>2 DEF Doing
<1>6. ASSUME NEW q \in Procs \ {p} PROVE Doing(q)'
  BY <1>3, <1>4, OthersStand
<1>7. Meetings'
  <2> SUFFICES ASSUME NEW q \in Procs, NEW r \in Procs, q # r, job'[q].ref \in Targets,
                      job'[r].ref = job'[q].ref
               PROVE  q \in met'
    BY DEF Meetings
  <2>1. CASE q = p
    BY <1>2, <1>3, <2>1 DEF Alone
  <2>2. CASE r = p
    BY <1>2, <1>3, <2>2 DEF Alone
  <2>3. CASE q # p /\ r # p
    BY <1>3, <2>3 DEF Alone, DInv, Meetings
  <2> QED BY <2>1, <2>2, <2>3
<1>8. job[p].ref \notin Targets
  BY <1>1 DEF Starts, DInv, Doing
<1>9. ASSUME NEW j \in Targets PROVE j \in doubt' \/ Busy(j)' \/ Told(j)'
  <2>1. CASE j = k
    BY <1>2, <2>1 DEF Busy
  <2>2. CASE j # k
    <3>1. Busy(j) => Busy(j)'
      BY <1>8 DEF Busy, Alone
    <3>2. Told(j) => Told(j)'
      BY <1>1, <1>4, <2>2, SameTrace
    <3> QED BY <1>1, <3>1, <3>2 DEF DInv, TraceTellsDisk
  <2> QED BY <2>1, <2>2
<1> QED BY <1>5, <1>6, <1>7, <1>9 DEF DInv, TraceTellsDisk

\* p keeps its job: its effect ends, or it takes the last line.
LEMMA GoesOn ==
  ASSUME DInv, TypeOK', NEW p \in Procs, Alone(p), trace' = trace, met' = met, doubt' = doubt,
         job' = job, pc'[p] \in {"tail", "append"},
         \A k \in Targets : k # job[p].ref => disk'[k] = disk[k],
         job[p].ref \in Targets =>
           p \in met \/ disk'[job[p].ref] = Outcome(job[p].type)
  PROVE  DInv'
<1>1. Doing(p)'
  <2>1. Doing(p)
    BY DEF DInv
  <2> QED BY <2>1 DEF Doing, Outcome
<1>2. ASSUME NEW q \in Procs \ {p} PROVE Doing(q)'
  BY OthersStand DEF DInv, Meetings
<1>3. Meetings'
  BY DEF DInv, Meetings
<1>4. ASSUME NEW k \in Targets PROVE k \in doubt' \/ Busy(k)' \/ Told(k)'
  <2>1. Busy(k)' <=> Busy(k)
    BY DEF Busy
  <2>2. k # job[p].ref => (Told(k) => Told(k)')
    BY SameTrace
  <2>3. k = job[p].ref => Busy(k)
    BY DEF Busy
  <2> QED BY <2>1, <2>2, <2>3 DEF DInv, TraceTellsDisk
<1> QED BY <1>1, <1>2, <1>3, <1>4 DEF DInv, TraceTellsDisk

LEMMA DiskStep == DInv /\ [Next]_vars => DInv'
<1> SUFFICES ASSUME DInv, [Next]_vars PROVE DInv'
  OBVIOUS
<1>0. TypeOK /\ TypeOK' /\ None \notin Targets
  BY TypeStep, SubjectAssumption DEF DInv
<1> USE DEF onlyTrace
<1>1. CASE CleanupWorkspace \/ (\E s \in Stories : Progress(s)) \/ UNCHANGED vars
  <2>1. UNCHANGED <<trace, pc, job, disk, met, doubt>>
    BY <1>1 DEF CleanupWorkspace, Progress, vars
  <2>2. \A p \in Procs : Doing(p)' <=> Doing(p)
    BY <2>1 DEF Doing, Outcome
  <2>3. \A k : (Busy(k)' <=> Busy(k)) /\ (Told(k)' <=> Told(k))
    BY <2>1, SameTrace DEF Busy
  <2> QED BY <1>0, <2>1, <2>2, <2>3 DEF DInv, Meetings, TraceTellsDisk
<1>2. ASSUME NEW p \in Procs, pc[p] \in {"idle", "ask"} PROVE job[p].ref \notin Targets
  BY <1>2 DEF DInv, Doing
<1>3. ASSUME NEW p \in Procs, Notes(p), Alone(p) PROVE DInv'
  <2>1. \/ \E n \in 0..2 : Records(p, "note", None, n)
        \/ RecordSpawnPlan(p)
    BY <1>3 DEF Notes, WriteHandoffCard, TransitionToTerminalState, RecordResolvedSettings,
       RecordTestIntegrity, ApplyBacklogDelta, RecordProviderRegistrations
  <2>2. /\ pc[p] = "idle" /\ UNCHANGED <<trace, disk, met, doubt>>
        /\ job'[p].ref = None /\ pc'[p] \notin {"copy", "remove"}
    BY <1>0, <2>1 DEF Records, RecordSpawnPlan, Starts, TypeOK
  <2> QED BY <1>0, <1>2, <1>3, <2>2, Quiet
<1>4. ASSUME NEW p \in Procs, Reviews(p), Alone(p) PROVE DInv'
  <2>1. pc[p] \in {"idle", "ask"} /\ UNCHANGED <<trace, disk, met, doubt>>
    BY <1>4 DEF Reviews, AskReview, AnswerReview
  <2>2. job'[p].ref \notin Targets /\ pc'[p] \notin {"copy", "remove"}
    <3>1. CASE AskReview(p)
      BY <1>0, <1>2, <2>1, <3>1 DEF AskReview, TypeOK
    <3>2. ASSUME NEW o \in {"approved", "denied"}, NEW r \in BOOLEAN, AnswerReview(p, o, r)
          PROVE  job'[p].ref \notin Targets /\ pc'[p] \notin {"copy", "remove"}
      <4>1. o \notin Targets
        BY SubjectAssumption
      <4>2. \/ pc' = [pc EXCEPT ![p] = "idle"] /\ job' = job
            \/ pc' = [pc EXCEPT ![p] = "tail"] /\ \E n, m : job' = [job EXCEPT ![p] =
                 [type |-> "human_review", ref |-> o, left |-> n, since |-> m]]
        BY <3>2, Zenon DEF AnswerReview
      <4>3. CASE job' = job
        BY <1>0, <1>2, <2>1, <4>2, <4>3 DEF TypeOK
      <4>4. ASSUME NEW n, NEW m, pc' = [pc EXCEPT ![p] = "tail"], job' = [job EXCEPT ![p] =
                     [type |-> "human_review", ref |-> o, left |-> n, since |-> m]]
            PROVE  job'[p].ref \notin Targets /\ pc'[p] \notin {"copy", "remove"}
        BY <1>0, <4>1, <4>4 DEF TypeOK
      <4> QED BY <1>0, <1>2, <2>1, <4>2, <4>3, <4>4 DEF TypeOK
    <3> QED BY <1>4, <3>1, <3>2 DEF Reviews
  <2> QED BY <1>0, <1>2, <1>4, <2>1, <2>2, Quiet
<1>5. ASSUME NEW p \in Procs, Promotes(p), Alone(p) PROVE DInv'
  BY <1>0, <1>5, Begins DEF Promotes, StartPromotion, StartRollback
<1>6. ASSUME NEW p \in Procs, Abandoned(p), Alone(p), trace' = trace, disk' = disk PROVE DInv'
  BY <1>0, <1>6, Ends DEF Abandoned
<1>7. ASSUME NEW p \in Procs, CopyEnds(p) \/ RemoveEnds(p), Alone(p) PROVE DInv'
  <2>1. Doing(p) /\ pc[p] \in {"copy", "remove"}
    BY <1>7 DEF DInv, CopyEnds, RemoveEnds, EffectEnds
  <2>2. job[p].ref \in Targets
    BY <2>1 DEF Doing
  <2>3. /\ CopyEnds(p) => job[p].type = "promotion"
        /\ RemoveEnds(p) => job[p].type = "promotion_rollback"
    BY <2>1, <2>2 DEF CopyEnds, RemoveEnds, EffectEnds, Doing
  <2>4. p \in met \/ disk'[job[p].ref] = Outcome(job[p].type)
    BY <1>0, <1>7, <2>2, <2>3 DEF CopyEnds, RemoveEnds, EffectEnds, TypeOK, Outcome
  <2>5. /\ UNCHANGED <<trace, met, doubt, job>> /\ pc'[p] = "tail"
        /\ \A k \in Targets : k # job[p].ref => disk'[k] = disk[k]
    BY <1>0, <1>7 DEF CopyEnds, RemoveEnds, EffectEnds, TypeOK
  <2> QED BY <1>0, <1>7, <2>4, <2>5, GoesOn
<1>8. ASSUME NEW p \in Procs, ReadTail(p), Alone(p) PROVE DInv'
  <2>1. CASE torn
    BY <1>6, <1>8, <2>1 DEF ReadTail
  <2>2. CASE ~torn
    <3>1. /\ UNCHANGED <<trace, met, doubt, job, disk>> /\ pc'[p] = "append" /\ pc[p] = "tail"
      BY <1>0, <1>8, <2>2 DEF ReadTail, TypeOK
    <3>2. Doing(p)
      BY DEF DInv
    <3>3. job[p].ref \in Targets => p \in met \/ disk'[job[p].ref] = Outcome(job[p].type)
      BY <3>1, <3>2 DEF Doing
    <3> QED BY <1>0, <1>8, <3>1, <3>3, GoesOn
  <2> QED BY <2>1, <2>2
<1>9. ASSUME NEW p \in Procs, AppendEvent(p), Alone(p) PROVE DInv'
  <2>1. pc[p] = "append" /\ disk' = disk /\ (torn => trace' = trace)
    BY <1>9 DEF AppendEvent
  <2>2. ~torn => trace' = Append(trace, NextEvent(p))
    BY <1>9 DEF AppendEvent
  <2>3. CASE Over(p, ~torn)
    BY <1>0, <1>9, <2>1, <2>2, <2>3, Ends
  <2>4. CASE ~Over(p, ~torn)
    <3>1. /\ job[p].left > 1 /\ ~torn /\ UNCHANGED <<pc, met, doubt>>
          /\ job' = [job EXCEPT ![p] = Rest(p)]
      BY <1>9, <2>4 DEF AppendEvent
    <3>2. job[p].ref \notin Targets
      BY <3>1 DEF DInv, Doing
    <3>3. job'[p].ref = job[p].ref
      <4>1. Len(trace') = Len(trace) + 1 /\ Len(trace') \in 0..MaxLines /\ job[p] \in Job
        BY <1>0, <2>2, <3>1, NextEventType DEF TypeOK
      <4>2. Rest(p).ref = job[p].ref
        BY <3>1, <4>1, RestType
      <4> QED BY <1>0, <3>1, <4>2 DEF TypeOK
    <3>4. NextEvent(p) \in Event /\ NextEvent(p).ref = job[p].ref
      BY <1>0, NextEventType DEF NextEvent
    <3> QED BY <1>0, <1>9, <2>1, <2>2, <3>1, <3>2, <3>3, <3>4, Quiet
  <2> QED BY <2>3, <2>4
<1>10. ASSUME NEW p \in Procs, Works(p) \/ Crash(p), Alone(p) PROVE DInv'
  BY <1>6, <1>7, <1>8, <1>9, <1>10
     DEF Works, Crash, AppendTears, AppendStops, EffectFails
<1>11. ASSUME NEW p \in Procs, Notes(p) \/ Reviews(p) \/ Promotes(p) \/ Works(p) \/ Crash(p)
       PROVE  DInv'
  BY <1>0, <1>3, <1>4, <1>5, <1>10, <1>11, StepAlone
<1> QED BY <1>1, <1>11 DEF Next

LEMMA InitDInv == Init => DInv
<1> SUFFICES ASSUME Init PROVE DInv
  OBVIOUS
<1>1. trace = << >> /\ \A p \in Procs : job[p] = NoJob /\ pc[p] = "idle"
  BY DEF Init
<1>2. Meetings /\ \A p \in Procs : Doing(p)
  BY <1>1, NoJobFacts DEF Meetings, Doing
<1>3. TraceTellsDisk
  BY <1>1 DEF TraceTellsDisk, Told
<1> QED BY <1>2, <1>3, InitTypeOK DEF DInv

\* Whatever two processes do to the disk and the trace, and whichever of their
\* steps fail, the last event on a target tells what is there, once an
\* operation has ended there alone and with its record.
THEOREM TraceIsTrue == Spec => []TraceTellsDisk
<1>1. Spec => []DInv
  BY InitDInv, DiskStep, PTL DEF Spec
<1>2. DInv => TraceTellsDisk
  BY DEF DInv
<1> QED BY <1>1, <1>2, PTL
=============================================================================
