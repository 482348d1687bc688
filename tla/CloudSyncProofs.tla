-------------------------- MODULE CloudSyncProofs --------------------------
(* Proofs about CloudSync: it is SessionAudit with a reader, so SessionAudit's *)
(* invariant holds; what the cloud shows was once read from the local tables.  *)
EXTENDS CloudSync, SessionAuditProofs

-----------------------------------------------------------------------------
(* What the local tables keep from one step to the next.                    *)

RowsStay ==
    \A e \in Events :
        rows[e] # Missing => rows'[e] = rows[e] \/ SessionOf[e] \in wiped'

CompletedIsFinal ==
    \A s \in Sessions :
        runs[s].status = "completed" => runs'[s].status = "completed" \/ s \in Overturned'

\* Nothing takes it back that an operator was there.
OverturnedStays == wiped \subseteq wiped' /\ overruled \subseteq overruled'

LEMMA StepKeepsRows == ASSUME IInv, [Next]_vars PROVE RowsStay
<1> USE DEF RowsStay, TypeOK, memory, admin, history
<1>0. TypeOK /\ RowHasId /\ RunIdsAgree
  BY DEF IInv
<1>l. \A e \in Events : rows[e] \in Ids => SessionOf[e] \in WithRun
  BY <1>0, NoIdAssumption, SessionAssumption DEF RowHasId, RunIdsAgree, WithRun
<1>1. ASSUME NEW s \in Sessions, SessionStart(s) PROVE RowsStay
  BY <1>1 DEF SessionStart
<1>2. ASSUME NEW s \in Sessions, ImplicitInsert(s) PROVE RowsStay
  BY <1>2 DEF ImplicitInsert
<1>3. ASSUME NEW s \in Sessions, SessionEnd(s) PROVE RowsStay
  BY <1>3 DEF SessionEnd
<1>4. ASSUME NEW s \in Sessions, FlipAtEnd(s) PROVE RowsStay
  BY <1>4 DEF FlipAtEnd
<1>5. ASSUME NEW s \in Sessions, GetRunId(s) PROVE RowsStay
  BY <1>5 DEF GetRunId
<1>6. ASSUME NEW s \in Sessions, SaveContextPack(s) PROVE RowsStay
  BY <1>6 DEF SaveContextPack
<1>7. ASSUME NEW e \in Events, ToolUse(e) PROVE RowsStay
  BY <1>7 DEF ToolUse
<1>8. ASSUME NEW e \in Events, EnqueueEvent(e) PROVE RowsStay
  BY <1>8 DEF EnqueueEvent
<1>9. ASSUME NEW s \in Sessions, DispatchOpen(s) PROVE RowsStay
  BY <1>9 DEF DispatchOpen
<1>10. ASSUME NEW s \in Sessions, DispatchClose(s) PROVE RowsStay
  BY <1>10 DEF DispatchClose
<1>11. ASSUME NEW e \in Events, DispatchEvent(e) PROVE RowsStay
  <2>1. PICK i \in {Link(SessionOf[e]), NoId} : rows' = RowWritten(e, i)
    BY <1>11 DEF DispatchEvent
  <2>2. e \in SameRow(e)
    BY DEF SameRow
  <2> QED
    BY <1>0, <2>1, <2>2 DEF RowWritten, Recorded
<1>12. ASSUME NEW job \in queue, GiveUp(job) PROVE RowsStay
  BY <1>12 DEF GiveUp
<1>13. ASSUME NEW S \in SUBSET Sessions, Sweep(S) PROVE RowsStay
  BY <1>13 DEF Sweep
<1>14. CASE Crash
  BY <1>14 DEF Crash
<1>15. CASE UNCHANGED vars
  BY <1>15 DEF vars
<1>16. ASSUME NEW s \in Sessions, LookToCancel(s) PROVE RowsStay
  BY <1>16 DEF LookToCancel
<1>17. ASSUME NEW s \in Sessions, CancelRun(s) PROVE RowsStay
  BY <1>17 DEF CancelRun
<1>18. CASE ResetTrail
  BY <1>0, <1>l, <1>18 DEF ResetTrail
<1>19. CASE DeleteRuns
  BY <1>0, <1>l, <1>19 DEF DeleteRuns
<1> QED
  BY <1>1, <1>2, <1>3, <1>4, <1>5, <1>6, <1>7, <1>8, <1>9, <1>10, <1>11, <1>12, <1>13,
     <1>14, <1>15, <1>16, <1>17, <1>18, <1>19 DEF Next, Dispatch

LEMMA StepKeepsOverturned == [Next]_vars => OverturnedStays
<1> SUFFICES ASSUME [Next]_vars PROVE OverturnedStays
  OBVIOUS
<1> USE DEF OverturnedStays, admin
<1>1. ASSUME NEW s \in Sessions, SessionStart(s) PROVE OverturnedStays
  BY <1>1 DEF SessionStart
<1>2. ASSUME NEW s \in Sessions, ImplicitInsert(s) PROVE OverturnedStays
  BY <1>2 DEF ImplicitInsert
<1>3. ASSUME NEW s \in Sessions, SessionEnd(s) PROVE OverturnedStays
  BY <1>3 DEF SessionEnd
<1>4. ASSUME NEW s \in Sessions, FlipAtEnd(s) PROVE OverturnedStays
  BY <1>4 DEF FlipAtEnd
<1>5. ASSUME NEW s \in Sessions, GetRunId(s) PROVE OverturnedStays
  BY <1>5 DEF GetRunId
<1>6. ASSUME NEW s \in Sessions, SaveContextPack(s) PROVE OverturnedStays
  BY <1>6 DEF SaveContextPack
<1>7. ASSUME NEW e \in Events, ToolUse(e) PROVE OverturnedStays
  BY <1>7 DEF ToolUse
<1>8. ASSUME NEW e \in Events, EnqueueEvent(e) PROVE OverturnedStays
  BY <1>8 DEF EnqueueEvent
<1>9. ASSUME NEW s \in Sessions, DispatchOpen(s) PROVE OverturnedStays
  BY <1>9 DEF DispatchOpen
<1>10. ASSUME NEW s \in Sessions, DispatchClose(s) PROVE OverturnedStays
  BY <1>10 DEF DispatchClose
<1>11. ASSUME NEW e \in Events, DispatchEvent(e) PROVE OverturnedStays
  BY <1>11 DEF DispatchEvent
<1>12. ASSUME NEW job \in queue, GiveUp(job) PROVE OverturnedStays
  BY <1>12 DEF GiveUp
<1>13. ASSUME NEW S \in SUBSET Sessions, Sweep(S) PROVE OverturnedStays
  BY <1>13 DEF Sweep
<1>14. CASE Crash
  BY <1>14 DEF Crash
<1>15. CASE UNCHANGED vars
  BY <1>15 DEF vars
<1>16. ASSUME NEW s \in Sessions, LookToCancel(s) PROVE OverturnedStays
  BY <1>16 DEF LookToCancel
<1>17. ASSUME NEW s \in Sessions, CancelRun(s) PROVE OverturnedStays
  BY <1>17 DEF CancelRun
<1>18. CASE ResetTrail
  BY <1>18 DEF ResetTrail
<1>19. CASE DeleteRuns
  BY <1>19 DEF DeleteRuns
<1> QED
  BY <1>1, <1>2, <1>3, <1>4, <1>5, <1>6, <1>7, <1>8, <1>9, <1>10, <1>11, <1>12, <1>13,
     <1>14, <1>15, <1>16, <1>17, <1>18, <1>19 DEF Next, Dispatch

LEMMA StepKeepsCompleted ==
    ASSUME runs \in [Sessions -> Run], RunsChange
    PROVE  CompletedIsFinal
<1> USE DEF CompletedIsFinal, Overturned, HasRun, Run
<1>1. ASSUME NEW s \in Sessions, NEW i \in Ids, runs' = Inserted(s, i)
      PROVE  CompletedIsFinal
  BY <1>1 DEF Inserted
<1>2. ASSUME NEW s \in Sessions, runs' = Completed(s) PROVE CompletedIsFinal
  BY <1>2 DEF Completed
<1>3. ASSUME NEW S \in SUBSET Sessions, NEW how \in {"abandoned", "cancelled"},
             runs' = Discarded(S, how)
      PROVE  CompletedIsFinal
  BY <1>3 DEF Discarded
<1>4. CASE UNCHANGED runs
  BY <1>4
<1>5. CASE runs' = [s \in Sessions |-> NoRun] /\ wiped' = wiped \cup WithRun
  BY <1>5 DEF WithRun
<1>6. ASSUME NEW s \in Sessions, runs' = Cancelled(s, cancelling[s]),
             runs[s].status = "completed" /\ runs' # runs => s \in overruled'
      PROVE  CompletedIsFinal
  BY <1>6 DEF Cancelled
<1> QED
  BY <1>1, <1>2, <1>3, <1>4, <1>5, <1>6 DEF RunsChange

-----------------------------------------------------------------------------
(* The composition.                                                         *)

LEMMA PairedStepIsNext == PairedStep => Next
BY DEF PairedStep, Next

LEMMA LocalStepIsNext == LocalStep => Next
BY DEF LocalStep, Next

LEMMA StepIsLocalOrDaemon ==
    [CloudNext]_cloudVars => \/ Next /\ UNCHANGED daemon
                             \/ DaemonStep
                             \/ UNCHANGED cloudVars
BY PairedStepIsNext, LocalStepIsNext DEF CloudNext

LEMMA StepIsLocalStep == [CloudNext]_cloudVars => [Next]_vars
<1>1. DaemonStep => UNCHANGED vars
  BY DEF DaemonStep
<1>2. UNCHANGED cloudVars => UNCHANGED vars
  BY DEF cloudVars
<1> QED
  BY <1>1, <1>2, StepIsLocalOrDaemon

\* The daemon only reads the local tables: whatever SessionAudit promises
\* holds in team mode.
THEOREM Composition == CloudSpec => Spec
<1>1. CloudInit => Init
  BY DEF CloudInit
<1> QED
  BY <1>1, StepIsLocalStep, PTL DEF CloudSpec, Spec

-----------------------------------------------------------------------------
(* The inductive invariant.                                                 *)

CloudHasId == \A s \in Sessions : cloud[s].id # NoId <=> cloud[s].status # "none"

\* A run shown completed is completed, or an operator made it something else.
CloudIsBehind ==
    \A s \in Sessions :
        cloud[s].status = "completed" => runs[s].status = "completed" \/ s \in Overturned

OneInFlight == \A p, q \in pushing : p = q

\* A row in flight has the id of its run, is not ahead of the local row, nor
\* behind what the cloud shows.
RunInFlight(p) ==
    /\ p.row.id = runs[p.job.of].id \/ p.job.of \in wiped
    /\ p.row.status = "completed"
         => runs[p.job.of].status = "completed" \/ p.job.of \in Overturned
    /\ cloud[p.job.of].status = "completed"
         => p.row.status = "completed" \/ p.job.of \in Overturned

InFlightAgrees ==
    \A p \in pushing :
        IF p.job.kind = "event"
        THEN p.row.run = rows[p.row.of] \/ SessionOf[p.row.of] \in wiped
        ELSE RunInFlight(p)

CloudIInv ==
    /\ IInv
    /\ CloudTypeOK
    /\ CloudHasId
    /\ CloudIsBehind
    /\ OneInFlight
    /\ InFlightAgrees
    /\ CloudTells
    /\ DoneIsThere

LEMMA JobParts ==
    ASSUME NEW job \in Job
    PROVE  IF job.kind = "event" THEN job.of \in Events
           ELSE job.kind \in {"open", "close"} /\ job.of \in Sessions
BY DEF Job

LEMMA CloudInitIInv == CloudInit => CloudIInv
<1> SUFFICES ASSUME CloudInit PROVE CloudIInv
  OBVIOUS
<1>1. IInv
  BY InitIInv DEF CloudInit
<1>2. CloudTypeOK
  BY <1>1 DEF CloudInit, CloudTypeOK, IInv, Statuses, NoRun
<1>3. \A e \in Events : EventJob(e) \in Job
  BY DEF EventJob, Job
<1> QED
  BY <1>1, <1>2, <1>3
  DEF NoRun, CloudInit, CloudIInv, CloudHasId, CloudIsBehind, OneInFlight, InFlightAgrees,
      CloudTells, DoneIsThere

-----------------------------------------------------------------------------
(* A step of the machine.                                                   *)

\* What a step of SessionAudit leaves of the tables.
LEMMA LocalTablesStay ==
    ASSUME IInv, [Next]_vars
    PROVE  IInv' /\ RowsStay /\ CompletedIsFinal /\ KeepsRuns /\ OverturnedStays
<1>1. TypeOK /\ RowHasId /\ resets \in Nat
  BY DEF IInv, TypeOK
<1>2. RunsChange
  BY <1>1, StepChangesRuns
<1>3. runs \in [Sessions -> Run]
  BY <1>1 DEF TypeOK, Run
<1> QED
  BY <1>1, <1>2, <1>3, NextIInv, StepKeepsRows, StepKeepsCompleted, StepKeepsOverturned, RunsStep

LEMMA SyncStaysTyped ==
    ASSUME sync \in [Job -> {"none", "due", "done", "dead"}], unpaired \subseteq Job,
           PairedStep \/ LocalStep
    PROVE  sync' \in [Job -> {"none", "due", "done", "dead"}] /\ unpaired' \subseteq Job
<1>1. ASSUME NEW job \in Job, Paired(job)
      PROVE  sync' \in [Job -> {"none", "due", "done", "dead"}] /\ unpaired' \subseteq Job
  BY <1>1 DEF Paired
<1>2. /\ \A s \in Sessions : OpenJob(s) \in Job /\ CloseJob(s) \in Job
      /\ \A e \in Events : EventJob(e) \in Job
  BY DEF Job, OpenJob, CloseJob, EventJob
<1>3. CASE PairedStep
  BY <1>1, <1>2, <1>3 DEF PairedStep
<1>4. CASE LocalStep
  BY <1>4 DEF LocalStep
<1> QED
  BY <1>3, <1>4

LEMMA PairedKeepsDone ==
    ASSUME sync \in [Job -> {"none", "due", "done", "dead"}], PairedStep \/ LocalStep
    PROVE  \A e \in Events : sync'[EventJob(e)] = "done" => sync[EventJob(e)] = "done"
<1>1. ASSUME NEW job \in Job, Paired(job), NEW k \in Job, sync'[k] = "done"
      PROVE  sync[k] = "done"
  BY <1>1 DEF Paired
<1>2. /\ \A s \in Sessions : OpenJob(s) \in Job /\ CloseJob(s) \in Job
      /\ \A e \in Events : EventJob(e) \in Job
  BY DEF Job, OpenJob, CloseJob, EventJob
<1>3. CASE PairedStep
  BY <1>1, <1>2, <1>3 DEF PairedStep
<1>4. CASE LocalStep
  BY <1>4 DEF LocalStep
<1> QED
  BY <1>3, <1>4

LEMMA MachineStep ==
    ASSUME CloudIInv, PairedStep \/ LocalStep, UNCHANGED daemon
    PROVE  CloudIInv'
<1> USE DEF daemon
<1>1. IInv' /\ RowsStay /\ CompletedIsFinal /\ KeepsRuns /\ OverturnedStays
  BY LocalTablesStay, PairedStepIsNext, LocalStepIsNext DEF CloudIInv
<1>2. CloudTypeOK /\ CloudHasId /\ CloudIsBehind /\ OneInFlight /\ InFlightAgrees
      /\ CloudTells /\ DoneIsThere /\ RowHasId
  BY DEF CloudIInv, IInv
<1>3. CloudTypeOK'
  BY <1>1, <1>2, SyncStaysTyped DEF CloudTypeOK, IInv
<1>4. CloudHasId' /\ OneInFlight'
  BY <1>2 DEF CloudHasId, OneInFlight
<1>5. CloudIsBehind'
  BY <1>1, <1>2 DEF CloudIsBehind, CompletedIsFinal, OverturnedStays, Overturned
<1>6. InFlightAgrees'
  <2> SUFFICES ASSUME NEW p \in pushing
               PROVE  IF p.job.kind = "event"
                      THEN p.row.run = rows'[p.row.of] \/ SessionOf[p.row.of] \in wiped'
                      ELSE RunInFlight(p)'
    BY DEF InFlightAgrees
  <2>1. p.job \in Job
    BY <1>2 DEF CloudTypeOK
  <2>2. CASE p.job.kind = "event"
    <3>1. /\ p.job.of \in Events /\ p.row.of \in SameRow(p.job.of)
          /\ p.row.run \in Ids \cup {NoId}
          /\ p.row.run = rows[p.row.of] \/ SessionOf[p.row.of] \in wiped
      BY <1>2, <2>1, <2>2, JobParts DEF InFlightAgrees, CloudTypeOK
    <3>2. p.row.of \in Events /\ p.row.run # Missing
      BY <3>1, NoIdAssumption DEF SameRow
    <3> QED
      BY <1>1, <2>2, <3>1, <3>2 DEF RowsStay, OverturnedStays
  <2>3. CASE p.job.kind # "event"
    <3> DEFINE s == p.job.of
    <3>1. s \in Sessions /\ RunInFlight(p) /\ p.row.id \in Ids
      BY <1>2, <2>1, <2>3, JobParts DEF InFlightAgrees, CloudTypeOK
    <3>2. p.row.id = runs[s].id => p.row.id = runs'[s].id \/ s \in wiped'
      BY <1>1, <1>2, <3>1, NoIdAssumption DEF RowHasId, KeepsRuns
    <3> QED
      BY <1>1, <2>3, <3>1, <3>2
      DEF CompletedIsFinal, RunInFlight, OverturnedStays, Overturned
  <2> QED
    BY <2>2, <2>3
<1>7. CloudTells'
  <2>1. ASSUME NEW s \in Sessions, cloud[s].id # NoId
        PROVE  cloud[s].id = runs'[s].id \/ s \in wiped'
    BY <1>1, <1>2, <2>1 DEF CloudTells, KeepsRuns, RowHasId, OverturnedStays
  <2>2. ASSUME NEW e \in Events, cloudRows[e] # Missing
        PROVE  cloudRows[e] = rows'[e] \/ SessionOf[e] \in wiped'
    BY <1>1, <1>2, <2>2 DEF CloudTells, RowsStay, OverturnedStays
  <2> QED
    BY <1>2, <2>1, <2>2 DEF CloudTells
<1>8. DoneIsThere'
  <2>1. \A e \in Events : InCloud(e)' = InCloud(e)
    BY DEF InCloud
  <2> QED
    BY <1>2, <2>1, PairedKeepsDone DEF DoneIsThere, CloudTypeOK
<1> QED
  BY <1>1, <1>3, <1>4, <1>5, <1>6, <1>7, <1>8 DEF CloudIInv

-----------------------------------------------------------------------------
(* A step of the daemon.                                                    *)

LEMMA SyncValue ==
    ASSUME NEW job \in Job, NEW v,
           sync \in [Job -> {"none", "due", "done", "dead"}],
           v \in {"none", "due", "done", "dead"}, sync' = [sync EXCEPT ![job] = v]
    PROVE  sync' \in [Job -> {"none", "due", "done", "dead"}]
OBVIOUS

LEMMA CloudRowsKeep == UNCHANGED cloudRows => \A e \in Events : InCloud(e)' = InCloud(e)
BY DEF InCloud

LEMMA FailedValue == \A job : Failed(job) \in {"due", "dead"}
BY DEF Failed

\* A row is only put in flight if there is one.
LEMMA FoundRow ==
    ASSUME IInv, NEW job \in Job, Found(job)
    PROVE  IF job.kind = "event"
           THEN /\ Row(job) \in [of : SameRow(job.of), run : Ids \cup {NoId}]
                /\ Row(job).run = rows[Row(job).of]
           ELSE Row(job) \in [id : Ids, status : Statuses \ {"none"}]
<1>1. TypeOK /\ RowHasId
  BY DEF IInv
<1>2. CASE job.kind = "event"
  <2>1. job.of \in Events /\ Recorded(job.of)
    BY <1>2, JobParts DEF Found
  <2>2. Holder(job.of) \in SameRow(job.of) /\ rows[Holder(job.of)] # Missing
    BY <2>1 DEF Holder, Recorded
  <2>3. Holder(job.of) \in Events
    BY <2>2 DEF SameRow
  <2> QED
    BY <1>1, <1>2, <2>2, <2>3 DEF Row, TypeOK
<1>3. CASE job.kind # "event"
  <2>1. job.of \in Sessions /\ job.kind \in {"open", "close"}
    BY <1>3, JobParts
  <2>e. Explicit # NoId
    BY NoIdAssumption DEF Explicit, Ids
  <2>2. HasRun(job.of)
    BY <1>1, <2>1, <2>e DEF Found, RowHasId, HasRun
  <2>3. runs[job.of] \in [id : Ids \cup {NoId}, status : Statuses]
    BY <1>1, <2>1 DEF TypeOK
  <2>4. runs[job.of].id # NoId /\ runs[job.of].status # "none"
    BY <1>1, <2>1, <2>2 DEF RowHasId, HasRun
  <2> QED
    BY <1>3, <2>3, <2>4 DEF Row
<1> QED
  BY <1>2, <1>3

LEMMA BeginPushStep ==
    ASSUME CloudIInv, NEW job \in Job, BeginPush(job), UNCHANGED <<vars, unpaired>>
    PROVE  CloudIInv'
<1>1. IInv' /\ TypeOK'
  BY NextIInv DEF CloudIInv, IInv
<1>2. CloudTypeOK /\ CloudHasId /\ CloudIsBehind /\ InFlightAgrees /\ CloudTells /\ IInv
      /\ DoneIsThere
  BY DEF CloudIInv
<1>3. /\ pushing = {} /\ UNCHANGED <<cloud, cloudRows, unpaired, runs, rows, wiped, overruled>>
      /\ attempts' = [attempts EXCEPT ![job] = @ + 1]
  BY DEF BeginPush, vars, admin
<1>4. attempts' \in [Job -> Nat]
  BY <1>2, <1>3 DEF CloudTypeOK
<1>5. CASE Found(job)
  <2>1. pushing' = {[job |-> job, row |-> Row(job)]} /\ UNCHANGED sync
    BY <1>5 DEF BeginPush
  <2>2. CloudTypeOK'
    BY <1>1, <1>2, <1>3, <1>4, <1>5, <2>1, FoundRow DEF CloudTypeOK
  <2>3. InFlightAgrees'
    BY <1>2, <1>3, <1>5, <2>1, JobParts, FoundRow
    DEF InFlightAgrees, RunInFlight, Row, CloudIsBehind, Overturned
  <2>4. DoneIsThere'
    BY <1>2, <1>3, <2>1, CloudRowsKeep DEF DoneIsThere
  <2> QED
    BY <1>1, <1>2, <1>3, <2>1, <2>2, <2>3, <2>4
    DEF CloudIInv, CloudHasId, CloudIsBehind, OneInFlight, CloudTells, Overturned
<1>6. CASE ~ Found(job)
  <2>1. sync' = [sync EXCEPT ![job] = Failed(job)] /\ UNCHANGED pushing
    BY <1>6 DEF BeginPush
  <2>2. sync' \in [Job -> {"none", "due", "done", "dead"}]
    BY <1>2, <2>1, FailedValue, SyncValue DEF CloudTypeOK
  <2>3. CloudTypeOK'
    BY <1>1, <1>2, <1>3, <1>4, <2>1, <2>2 DEF CloudTypeOK
  <2>4. DoneIsThere'
    <3>1. \A e \in Events : EventJob(e) \in Job
      BY DEF EventJob, Job
    <3>2. \A k \in Job : sync'[k] = "done" => sync[k] = "done"
      BY <1>2, <2>1, FailedValue DEF CloudTypeOK
    <3> QED
      BY <1>2, <1>3, <3>1, <3>2, CloudRowsKeep DEF DoneIsThere
  <2> QED
    BY <1>1, <1>2, <1>3, <2>1, <2>3, <2>4
    DEF CloudIInv, CloudHasId, CloudIsBehind, OneInFlight, CloudTells, InFlightAgrees,
        Overturned
<1> QED
  BY <1>5, <1>6

\* What the cloud shows completed stays so, unless an operator was there.
Stays ==
    \A s \in Sessions :
        cloud[s].status = "completed" => cloud'[s].status = "completed" \/ s \in Overturned

\* A run lands: the cloud's row has its id and is not ahead of the local one.
LEMMA RunLands ==
    ASSUME CloudIInv, NEW p \in pushing, p.job.kind # "event", Landed(p),
           UNCHANGED <<vars, unpaired>>
    PROVE  /\ cloud' \in [Sessions -> [id : Ids \cup {NoId}, status : Statuses]]
           /\ cloudRows' = cloudRows
           /\ CloudHasId' /\ CloudIsBehind' /\ CloudTells'
           /\ Stays
<1> USE DEF Stays, Overturned
<1> DEFINE s == p.job.of
<1>1. /\ p.job \in Job /\ s \in Sessions /\ RunInFlight(p)
      /\ p.row \in [id : Ids, status : Statuses \ {"none"}]
  BY JobParts DEF CloudIInv, CloudTypeOK, InFlightAgrees
<1>2. /\ cloud \in [Sessions -> [id : Ids \cup {NoId}, status : Statuses]]
      /\ CloudHasId /\ CloudIsBehind /\ CloudTells
  BY DEF CloudIInv, CloudTypeOK
<1>3. cloud' = PushedRun(s, p.row) /\ cloudRows' = cloudRows
      /\ UNCHANGED <<runs, rows, wiped, overruled>>
  BY DEF Landed, vars, admin
<1>4. p.row.id # NoId /\ p.row.status # "none"
  BY <1>1, NoIdAssumption
<1>5. CASE cloud[s].status = "none"
  <2>1. cloud' = [cloud EXCEPT ![s] = p.row]
    BY <1>3, <1>5 DEF PushedRun
  <2>2. cloud[s].id = NoId
    BY <1>1, <1>2, <1>5 DEF CloudHasId
  <2>3. cloud' \in [Sessions -> [id : Ids \cup {NoId}, status : Statuses]]
    BY <1>1, <1>2, <2>1
  <2>4. cloud'[s] = p.row /\ \A t \in Sessions \ {s} : cloud'[t] = cloud[t]
    BY <1>1, <1>2, <2>1
  <2>5. CloudHasId' /\ CloudIsBehind'
    BY <1>1, <1>2, <1>3, <1>4, <2>4 DEF CloudHasId, CloudIsBehind, RunInFlight
  <2>6. \A e \in Events : cloudRows[e] \in Ids => cloud[SessionOf[e]].id # NoId
    BY <1>2, NoIdAssumption DEF CloudTells, Ids
  <2>7. \A e \in Events : cloudRows[e] \in Ids => cloud'[SessionOf[e]].id = cloud[SessionOf[e]].id
    BY <2>2, <2>4, <2>6, SessionAssumption
  <2>8. CloudTells'
    BY <1>1, <1>2, <1>3, <2>4, <2>7 DEF CloudTells, RunInFlight
  <2> QED
    BY <1>3, <1>5, <2>3, <2>4, <2>5, <2>8
<1>6. CASE cloud[s].status # "none"
  <2>1. cloud' = [cloud EXCEPT ![s].status = p.row.status]
    BY <1>3, <1>6 DEF PushedRun
  <2>2. /\ cloud' \in [Sessions -> [id : Ids \cup {NoId}, status : Statuses]]
        /\ cloud'[s].status = p.row.status
        /\ \A t \in Sessions : cloud'[t].id = cloud[t].id
        /\ \A t \in Sessions \ {s} : cloud'[t] = cloud[t]
    BY <1>1, <1>2, <2>1
  <2>3. CloudHasId' /\ CloudIsBehind'
    BY <1>1, <1>2, <1>3, <1>4, <1>6, <2>2 DEF CloudHasId, CloudIsBehind, RunInFlight
  <2>4. CloudTells'
    BY <1>2, <1>3, <2>2, SessionAssumption DEF CloudTells
  <2> QED
    BY <1>1, <1>3, <2>2, <2>3, <2>4 DEF RunInFlight
<1> QED
  BY <1>5, <1>6

\* An event lands: the foreign key gives it the run the cloud has.
LEMMA EventLands ==
    ASSUME CloudIInv, NEW p \in pushing, p.job.kind = "event", Referenced(p), Landed(p),
           UNCHANGED <<vars, unpaired>>
    PROVE  /\ cloudRows' \in [Events -> Ids \cup {Missing, NoId}]
           /\ cloud' = cloud
           /\ CloudTells'
           /\ InCloud(p.job.of)' /\ \A e \in Events : InCloud(e) => InCloud(e)'
<1> DEFINE e == p.row.of
           i == p.row.run
<1>1. /\ p.job \in Job /\ p.job.of \in Events /\ e \in SameRow(p.job.of)
      /\ i \in Ids \cup {NoId} /\ (i = rows[e] \/ SessionOf[e] \in wiped)
  BY JobParts DEF CloudIInv, CloudTypeOK, InFlightAgrees
<1>2. e \in Events /\ SessionOf[e] = SessionOf[p.job.of] /\ i # Missing
  BY <1>1, NoIdAssumption DEF SameRow, RowId
<1>3. cloudRows \in [Events -> Ids \cup {Missing, NoId}] /\ CloudTells
  BY DEF CloudIInv, CloudTypeOK
<1>4. /\ cloudRows' = IF InCloud(p.job.of) THEN cloudRows ELSE [cloudRows EXCEPT ![e] = i]
      /\ cloud' = cloud /\ UNCHANGED <<runs, rows, wiped>>
  BY DEF Landed, vars, admin
<1>5. CASE InCloud(p.job.of)
  BY <1>3, <1>4, <1>5, CloudRowsKeep, <1>1 DEF CloudTells
<1>6. CASE ~ InCloud(p.job.of)
  <2>1. cloudRows' = [cloudRows EXCEPT ![e] = i]
    BY <1>4, <1>6
  <2>2. cloudRows' \in [Events -> Ids \cup {Missing, NoId}]
    BY <1>1, <1>2, <1>3, <2>1
  <2>3. ASSUME NEW f \in Events, cloudRows'[f] # Missing
        PROVE  /\ cloudRows'[f] = rows[f] \/ SessionOf[f] \in wiped
               /\ cloudRows'[f] \in Ids => cloudRows'[f] = cloud[SessionOf[f]].id
    <3>1. CASE f = e
      BY <1>1, <1>2, <1>3, <2>1, <3>1, NoIdAssumption DEF Referenced
    <3>2. CASE f # e
      BY <1>3, <2>1, <2>3, <3>2 DEF CloudTells
    <3> QED
      BY <3>1, <3>2
  <2>4. CloudTells'
    BY <1>3, <1>4, <2>3 DEF CloudTells
  <2>5. \A f \in Events : cloudRows[f] # Missing => cloudRows'[f] # Missing
    BY <1>2, <1>3, <2>1
  <2>6. \A f \in Events : SameRow(f) \subseteq Events
    BY DEF SameRow
  <2>7. cloudRows'[e] # Missing
    BY <1>2, <1>3, <2>1
  <2> QED
    BY <1>1, <1>4, <2>2, <2>4, <2>5, <2>6, <2>7 DEF InCloud
<1> QED
  BY <1>5, <1>6

LEMMA FinishPushStep ==
    ASSUME CloudIInv, NEW p \in pushing, FinishPush(p), UNCHANGED <<vars, unpaired>>
    PROVE  CloudIInv' /\ Stays
<1>1. IInv' /\ TypeOK'
  BY NextIInv DEF CloudIInv, IInv
<1>2. CloudTypeOK /\ CloudHasId /\ CloudIsBehind /\ InFlightAgrees /\ CloudTells
      /\ OneInFlight /\ DoneIsThere
  BY DEF CloudIInv
<1>3. p.job \in Job /\ UNCHANGED <<runs, rows, unpaired, wiped, overruled>>
  BY <1>2 DEF CloudTypeOK, vars, admin
<1>4. pushing' = {} /\ OneInFlight' /\ InFlightAgrees'
  <2>1. pushing' = pushing \ {p}
    BY DEF FinishPush
  <2>2. pushing' = {}
    BY <1>2, <2>1 DEF OneInFlight
  <2> QED
    BY <2>2 DEF OneInFlight, InFlightAgrees
<1>5. sync' \in [Job -> {"none", "due", "done", "dead"}] /\ attempts' \in [Job -> Nat]
  <2>1. \/ sync' = [sync EXCEPT ![p.job] = "done"]
        \/ sync' = [sync EXCEPT ![p.job] = Failed(p.job)]
        \/ UNCHANGED sync
    BY DEF FinishPush
  <2>2. attempts' = [attempts EXCEPT ![p.job] = 0] \/ UNCHANGED attempts
    BY DEF FinishPush
  <2> QED
    BY <1>2, <1>3, <2>1, <2>2, FailedValue, SyncValue DEF CloudTypeOK
<1>j. \A e \in Events : EventJob(e) \in Job /\ EventJob(e) = [kind |-> "event", of |-> e]
  BY DEF EventJob, Job
<1>6. CASE /\ Referenced(p) /\ Landed(p)
           /\ sync' = [sync EXCEPT ![p.job] = "done"] \/ UNCHANGED sync
  <2>n. \A k \in Job : sync'[k] = "done" => sync[k] = "done" \/ k = p.job
    BY <1>2, <1>6 DEF CloudTypeOK
  <2>1. CASE p.job.kind = "event"
    <3>1. /\ cloudRows' \in [Events -> Ids \cup {Missing, NoId}]
          /\ cloud' = cloud /\ CloudTells'
          /\ InCloud(p.job.of)' /\ \A e \in Events : InCloud(e) => InCloud(e)'
      BY <1>6, <2>1, EventLands
    <3>2. CloudTypeOK'
      BY <1>1, <1>2, <1>3, <1>4, <1>5, <3>1 DEF CloudTypeOK
    <3>3. DoneIsThere'
      <4>1. ASSUME NEW e \in Events, sync'[EventJob(e)] = "done"
            PROVE  InCloud(e)'
        <5>1. CASE EventJob(e) = p.job
          BY <1>j, <3>1, <5>1
        <5>2. CASE EventJob(e) # p.job
          BY <1>2, <1>j, <2>n, <3>1, <4>1, <5>2 DEF DoneIsThere
        <5> QED
          BY <5>1, <5>2
      <4> QED
        BY <4>1 DEF DoneIsThere
    <3> QED
      BY <1>1, <1>2, <1>3, <1>4, <3>1, <3>2, <3>3
      DEF CloudIInv, CloudHasId, CloudIsBehind, Stays, Overturned
  <2>2. CASE p.job.kind # "event"
    <3>1. /\ cloud' \in [Sessions -> [id : Ids \cup {NoId}, status : Statuses]]
          /\ cloudRows' = cloudRows
          /\ CloudHasId' /\ CloudIsBehind' /\ CloudTells' /\ Stays
      BY <1>6, <2>2, RunLands
    <3>2. CloudTypeOK'
      BY <1>1, <1>2, <1>3, <1>4, <1>5, <3>1 DEF CloudTypeOK
    <3>3. DoneIsThere'
      <4>1. \A e \in Events : EventJob(e) # p.job
        BY <1>j, <2>2
      <4> QED
        BY <1>2, <1>j, <2>n, <3>1, <4>1, CloudRowsKeep DEF DoneIsThere
    <3> QED
      BY <1>1, <1>4, <3>1, <3>2, <3>3 DEF CloudIInv
  <2> QED
    BY <2>1, <2>2
<1>7. CASE UNCHANGED <<cloud, cloudRows>> /\ sync' = [sync EXCEPT ![p.job] = Failed(p.job)]
  <2>1. CloudTypeOK'
    BY <1>1, <1>2, <1>3, <1>4, <1>5, <1>7 DEF CloudTypeOK
  <2>2. DoneIsThere'
    <3>1. \A k \in Job : sync'[k] = "done" => sync[k] = "done"
      BY <1>2, <1>3, <1>7, FailedValue DEF CloudTypeOK
    <3> QED
      BY <1>2, <1>j, <1>7, <3>1, CloudRowsKeep DEF DoneIsThere
  <2> QED
    BY <1>1, <1>2, <1>3, <1>4, <1>7, <2>1, <2>2
    DEF CloudIInv, CloudHasId, CloudIsBehind, CloudTells, Stays, Overturned
<1> QED
  BY <1>6, <1>7 DEF FinishPush

LEMMA DaemonCrashStep ==
    ASSUME CloudIInv, DaemonCrash, UNCHANGED <<vars, unpaired>>
    PROVE  CloudIInv'
<1>1. IInv' /\ TypeOK'
  BY NextIInv DEF CloudIInv, IInv
<1>2. /\ pushing' = {}
      /\ UNCHANGED <<sync, attempts, cloud, cloudRows, unpaired, runs, rows, wiped, overruled>>
  BY DEF DaemonCrash, vars, admin
<1>3. CloudTypeOK'
  BY <1>1, <1>2 DEF CloudIInv, CloudTypeOK
<1>4. DoneIsThere'
  BY <1>2, CloudRowsKeep DEF CloudIInv, DoneIsThere
<1> QED
  BY <1>1, <1>2, <1>3, <1>4
  DEF CloudIInv, CloudHasId, CloudIsBehind, OneInFlight, InFlightAgrees, CloudTells,
      Overturned

LEMMA CloudNextIInv ==
    ASSUME CloudIInv, [CloudNext]_cloudVars
    PROVE  CloudIInv' /\ Stays
<1>0. cloud' = cloud => Stays
  BY DEF Stays
<1>1. CASE (PairedStep \/ LocalStep) /\ UNCHANGED daemon
  BY <1>0, <1>1, MachineStep DEF daemon
<1>2. CASE DaemonStep
  <2>1. ASSUME NEW job \in Job, BeginPush(job), UNCHANGED <<vars, unpaired>>
        PROVE  CloudIInv' /\ cloud' = cloud
    BY <2>1, BeginPushStep DEF BeginPush
  <2>2. ASSUME DaemonCrash, UNCHANGED <<vars, unpaired>> PROVE CloudIInv' /\ cloud' = cloud
    BY <2>2, DaemonCrashStep DEF DaemonCrash
  <2> QED
    BY <1>0, <1>2, <2>1, <2>2, FinishPushStep DEF DaemonStep
<1>3. CASE UNCHANGED cloudVars
  <2>1. UNCHANGED <<vars, sync, attempts, pushing, cloud, cloudRows, unpaired, runs, rows,
                    wiped, overruled>>
    BY <1>3 DEF cloudVars, vars, daemon, admin
  <2>2. IInv' /\ TypeOK'
    BY <2>1, NextIInv DEF CloudIInv, IInv
  <2>3. CloudTypeOK'
    BY <2>1, <2>2 DEF CloudIInv, CloudTypeOK
  <2>4. DoneIsThere'
    BY <2>1, CloudRowsKeep DEF CloudIInv, DoneIsThere
  <2> QED
    BY <1>0, <2>1, <2>2, <2>3, <2>4
    DEF CloudIInv, CloudHasId, CloudIsBehind, OneInFlight, InFlightAgrees, RunInFlight,
        CloudTells, Overturned
<1> QED
  BY <1>1, <1>2, <1>3 DEF CloudNext

-----------------------------------------------------------------------------
(* The theorems.                                                            *)

\* What holds of the tables, the daemon and the cloud together.
THEOREM CloudInvariant == CloudSpec => []CloudIInv
<1>1. CloudIInv /\ [CloudNext]_cloudVars => CloudIInv'
  BY CloudNextIInv
<1> QED
  BY CloudInitIInv, <1>1, PTL DEF CloudSpec

\* The cloud's tables and the daemon's memory keep their shapes.
THEOREM CloudTypeCorrect == CloudSpec => []CloudTypeOK
<1>1. CloudIInv => CloudTypeOK
  BY DEF CloudIInv
<1> QED
  BY <1>1, CloudInvariant, PTL

\* Until a reset of the machine, the cloud tells of no run, and links no event to a
\* run, the machine does not; and a row with the id of an event whose job is done is
\* there.
THEOREM CloudTellsTheSame == CloudSpec => []CloudAgrees
<1>1. CloudIInv => CloudAgrees
  BY DEF CloudIInv, CloudAgrees
<1> QED
  BY <1>1, CloudInvariant, PTL

\* No push of an older row reopens a run the cloud shows completed, unless an
\* operator cancelled it or reset its project.
THEOREM NoRunReopens == CloudSpec => CompletedStays
<1>1. CloudIInv /\ [CloudNext]_cloudVars
        => [\A s \in Sessions : cloud[s].status = "completed"
              => cloud'[s].status = "completed" \/ s \in Overturned]_cloudVars
  BY CloudNextIInv DEF Stays
<1> QED
  BY <1>1, CloudInvariant, PTL DEF CloudSpec, CompletedStays

=============================================================================
