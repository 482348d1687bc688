----------------------------- MODULE CloudSync -----------------------------
(***************************************************************************)
(* Team mode: the rows of SessionAudit on their way to the cloud.  Every    *)
(* audit job the bridge enqueues has a second one, in the sync_to_cloud     *)
(* queue, that only names the row; the sync daemon, another process, reads  *)
(* the row from the local tables when it comes to the job and inserts it in *)
(* Postgres.  The two queues are drained independently.                     *)
(*                                                                          *)
(* A sync job has the name of the audit job it was enqueued with.  The      *)
(* projects row is taken to be in the cloud already; policy decisions take  *)
(* the way of the events, by another key.                                   *)
(***************************************************************************)
EXTENDS SessionAudit, FiniteSets

CONSTANTS
    MaxAttempts,  \* OutboxWorker's maxAttempts, 6 in the code
    MaxFaults     \* bound: pairs that lost their sync job, refused inserts, crashes
                  \* of the daemon and lost settlings, after the bridge's troubles

ASSUME CloudAssumption ==
    /\ MaxAttempts \in Nat \ {0} /\ MaxFaults \in Nat
    /\ Resumed = {}  \* a session has one job of each kind

VARIABLES
    sync,      \* sync[j]: the sync_to_cloud row of job j
    attempts,  \* attempts[j]: its claims
    pushing,   \* the daemon: jobs in flight, with the row read for them
    cloud,     \* cloud[s]: id and status of the row of (project, s) in Postgres
    cloudRows, \* cloudRows[e]: run_id of the row there that holds e
    unpaired,  \* history: audit jobs without a sync job
    outages

daemon == <<attempts, pushing, cloud, cloudRows, outages>>
cloudVars == <<vars, sync, daemon, unpaired>>

CloudInit ==
    /\ Init
    /\ sync = [j \in Job |-> "none"]
    /\ attempts = [j \in Job |-> 0]
    /\ pushing = {}
    /\ cloud = [s \in Sessions |-> NoRun]
    /\ cloudRows = [e \in Events |-> Missing]
    /\ unpaired = {} /\ outages = 0

Faults == troubles + outages + Cardinality(unpaired)

Outage == Faults < MaxFaults /\ outages' = outages + 1

-----------------------------------------------------------------------------
(* The bridge's side: scheduleAuditWriteWithSync.                           *)

\* The sync job is enqueued after the audit job, in a statement of its own: a
\* crash or an error between the two leaves the audit job alone.
Paired(job) ==
    IF job \notin queue' THEN UNCHANGED <<sync, unpaired>>
    ELSE \/ sync' = [sync EXCEPT ![job] = "due"] /\ UNCHANGED unpaired
         \/ /\ Faults < MaxFaults
            /\ unpaired' = unpaired \cup {job} /\ UNCHANGED sync

PairedStep ==
    \/ \E s \in Sessions : \/ SessionStart(s) /\ Paired(OpenJob(s))
                           \/ SessionEnd(s) /\ Paired(CloseJob(s))
    \/ \E e \in Events : EnqueueEvent(e) /\ Paired(EventJob(e))

\* The implicit insert, the MCP server, the cleanups, the operator's commands and
\* the worker's own writes enqueue nothing for the cloud.
LocalStep ==
    /\ \/ \E s \in Sessions : \/ ImplicitInsert(s) \/ FlipAtEnd(s)
                              \/ GetRunId(s) \/ SaveContextPack(s)
                              \/ LookToCancel(s) \/ CancelRun(s)
       \/ \E e \in Events : ToolUse(e)
       \/ Dispatch \/ \E job \in queue : GiveUp(job)
       \/ (\E S \in SUBSET Sessions : Sweep(S)) \/ Crash
       \/ ResetTrail \/ DeleteRuns
    /\ UNCHANGED <<sync, unpaired>>

-----------------------------------------------------------------------------
(* The daemon's side: dispatchSyncJob.                                      *)

\* A mutant of Found: the row is not asked for.
FoundAlways(job) == TRUE

\* session_open names the row by the id the hook minted, session_close by
\* project and session.
Found(job) ==
    CASE job.kind = "open" -> runs[job.of].id = Explicit
      [] job.kind = "close" -> HasRun(job.of)
      [] job.kind = "event" -> Recorded(job.of)

\* The event whose row has the id of e's.
Holder(e) == CHOOSE f \in SameRow(e) : Recorded(e) => rows[f] # Missing

\* The local row; of an event, the one with its id: whom it holds, and its run_id.
Row(job) ==
    IF job.kind = "event" THEN [of |-> Holder(job.of), run |-> rows[Holder(job.of)]]
    ELSE runs[job.of]

\* A mutant of Failed: a failed job is settled.
FailedForGood(job) == "done"

\* transient_failure: retried on backoff, until the claims are used up.
Failed(job) == IF attempts'[job] >= MaxAttempts THEN "dead" ELSE "due"

\* A mutant of BeginPush: more than one dispatch in flight.
BeginPushAnytime(job) ==
    /\ sync[job] = "due"
    /\ attempts' = [attempts EXCEPT ![job] = @ + 1]
    /\ IF Found(job) THEN /\ pushing' = pushing \cup {[job |-> job, row |-> Row(job)]}
                          /\ UNCHANGED sync
       ELSE sync' = [sync EXCEPT ![job] = Failed(job)] /\ UNCHANGED pushing
    /\ UNCHANGED <<cloud, cloudRows, outages>>

\* The worker claims the job and selects its row; it claims no other before
\* this one is settled.
BeginPush(job) ==
    /\ pushing = {} /\ sync[job] = "due"
    /\ attempts' = [attempts EXCEPT ![job] = @ + 1]
    /\ IF Found(job) THEN pushing' = {[job |-> job, row |-> Row(job)]} /\ UNCHANGED sync
       ELSE sync' = [sync EXCEPT ![job] = Failed(job)] /\ UNCHANGED pushing
    /\ UNCHANGED <<cloud, cloudRows, outages>>

\* A mutant of Referenced: no foreign key.
ReferencedAlways(p) == TRUE

\* The foreign key of run_events.run_id.
Referenced(p) ==
    p.job.kind = "event" /\ p.row.run # NoId
      => cloud[SessionOf[p.job.of]].id = p.row.run

\* A mutant of PushedRun: ON CONFLICT DO NOTHING, as for the other tables.
PushedRunOnce(s, row) ==
    IF cloud[s].status = "none" THEN [cloud EXCEPT ![s] = row] ELSE cloud

\* INSERT ... ON CONFLICT (project_id, session_id) DO UPDATE SET status.
PushedRun(s, row) ==
    IF cloud[s].status = "none" THEN [cloud EXCEPT ![s] = row]
    ELSE [cloud EXCEPT ![s].status = row.status]

InCloud(e) == \E f \in SameRow(e) : cloudRows[f] # Missing

\* An event: INSERT ... ON CONFLICT (id) DO NOTHING.
Landed(p) ==
    IF p.job.kind = "event"
    THEN /\ cloudRows' = IF InCloud(p.job.of) THEN cloudRows
                         ELSE [cloudRows EXCEPT ![p.row.of] = p.row.run]
         /\ UNCHANGED cloud
    ELSE cloud' = PushedRun(p.job.of, p.row) /\ UNCHANGED cloudRows

\* The insert: done, or done and not settled, or refused.
FinishPush(p) ==
    /\ p \in pushing /\ pushing' = pushing \ {p}
    /\ \/ /\ Referenced(p) /\ Landed(p)
          /\ \/ /\ sync' = [sync EXCEPT ![p.job] = "done"]
                /\ attempts' = [attempts EXCEPT ![p.job] = 0]
                /\ UNCHANGED outages
             \/ Outage /\ UNCHANGED <<sync, attempts>>
       \/ /\ UNCHANGED attempts
          /\ IF Referenced(p) THEN Outage ELSE UNCHANGED outages
          /\ sync' = [sync EXCEPT ![p.job] = Failed(p.job)]
          /\ UNCHANGED <<cloud, cloudRows>>

\* The row stays picked and is claimed again when its lease has expired.
DaemonCrash ==
    /\ pushing # {} /\ Outage
    /\ pushing' = {}
    /\ UNCHANGED <<sync, attempts, cloud, cloudRows>>

DaemonStep ==
    /\ (\E job \in Job : BeginPush(job)) \/ (\E p \in pushing : FinishPush(p)) \/ DaemonCrash
    /\ UNCHANGED <<vars, unpaired>>

CloudNext == ((PairedStep \/ LocalStep) /\ UNCHANGED daemon) \/ DaemonStep

CloudSpec == CloudInit /\ [][CloudNext]_cloudVars

\* The daemon ticks while it runs: it claims some due job, or ends the one in flight.
DaemonFairness ==
    WF_cloudVars(/\ (\E job \in Job : BeginPush(job)) \/ (\E p \in pushing : FinishPush(p))
                 /\ UNCHANGED <<vars, unpaired>>)

Quiet == UNCHANGED <<sync, daemon, unpaired>>

\* ... and the bridge's worker comes to the closes.
DrainedSpec ==
    /\ CloudSpec /\ DaemonFairness
    /\ \A s \in Sessions : WF_cloudVars(DispatchClose(s) /\ Quiet)

\* The rest of the bridge's promises and its worker, as in SessionAudit.
BridgeFairness ==
    /\ \A s \in Sessions :
         /\ WF_cloudVars(ImplicitInsert(s) /\ Quiet) /\ WF_cloudVars(FlipAtEnd(s) /\ Quiet)
         /\ WF_cloudVars(DispatchOpen(s) /\ Quiet)
    /\ \A e \in Events :
         /\ WF_cloudVars(EnqueueEvent(e) /\ Paired(EventJob(e)) /\ UNCHANGED daemon)
         /\ WF_cloudVars(DispatchEvent(e) /\ Quiet)

FairCloudSpec == DrainedSpec /\ BridgeFairness

-----------------------------------------------------------------------------
(* Properties.                                                              *)

CloudTypeOK ==
    /\ TypeOK
    /\ sync \in [Job -> {"none", "due", "done", "dead"}]
    /\ attempts \in [Job -> Nat]
    /\ \A p \in pushing :
         /\ p.job \in Job
         /\ p.row \in IF p.job.kind = "event"
                      THEN [of : SameRow(p.job.of), run : Ids \cup {NoId}]
                      ELSE [id : Ids, status : Statuses \ {"none"}]
    /\ cloud \in [Sessions -> [id : Ids \cup {NoId}, status : Statuses]]
    /\ cloudRows \in [Events -> Ids \cup {Missing, NoId}]
    /\ unpaired \subseteq Job

\* The cloud never tells of another run than the machine, until a reset of the
\* machine: its runs carry the local ids, and an event's row has the run of the
\* local one, which is there; an event whose job is done has a row of its id.
CloudTells ==
    /\ \A s \in Sessions :
         cloud[s].id # NoId => cloud[s].id = runs[s].id \/ s \in wiped
    /\ \A e \in Events :
         cloudRows[e] # Missing =>
            /\ cloudRows[e] = rows[e] \/ SessionOf[e] \in wiped
            /\ cloudRows[e] \in Ids => cloudRows[e] = cloud[SessionOf[e]].id

DoneIsThere == \A e \in Events : sync[EventJob(e)] = "done" => InCloud(e)

CloudAgrees == CloudTells /\ DoneIsThere

\* Runs of which an operator made completed something else.
Overturned == wiped \cup overruled

\* A run shown completed is not reopened by a row that was read before: there
\* is one dispatch in flight, and completed is final on the machine for all but
\* the operator's commands.
CompletedStays ==
    [][\A s \in Sessions :
         cloud[s].status = "completed" => cloud'[s].status = "completed" \/ s \in Overturned]_cloudVars

\* A close whose push begins after the local update is seen by the team.
FreshClosesReachCloud ==
    \A s \in Sessions :
        (sync[CloseJob(s)] = "due" /\ runs[s].status = "completed"
           /\ \A p \in pushing : p.job # CloseJob(s))
        ~> \/ cloud[s].status = "completed" \/ sync[CloseJob(s)] = "dead"
           \/ s \in Overturned

\* For an accepted event a row of its id reaches the cloud (of a session's
\* prompts, which share one, that of the first), or one of its jobs is in front
\* of the operator, or the bridge lost the second enqueue of the pair.
EventsReachCloud ==
    \A e \in Events :
        (event[e] = "accepted")
        ~> \/ InCloud(e) \/ sync[EventJob(e)] = "dead"
           \/ EventJob(e) \in givenUp \cup unpaired

\* A run that ended is shown completed; said in run-recorder.ts: "the daemon
\* SELECTs the (now-updated) local runs row at dispatch time and pushes the fresh
\* state to cloud".
ClosedRunsShowClosed ==
    \A s \in Sessions :
        (session[s] = "ended" /\ HasRun(s))
        ~> (cloud[s].status = "completed" \/ sync[CloseJob(s)] = "dead")

=============================================================================
