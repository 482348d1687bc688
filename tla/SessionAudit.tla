---------------------------- MODULE SessionAudit ----------------------------
(***************************************************************************)
(* How the hooks bridge records the sessions of one project: the runs and   *)
(* run_events tables, the bridge's memory, and the audit jobs between them. *)
(* The agents' hooks come as SessionStart, ToolUse and SessionEnd; the      *)
(* recorder (run-recorder.ts) enqueues jobs, the outbox worker dispatches   *)
(* them (dispatcher.ts, destinations.ts); get_run_id and save_context_pack  *)
(* of the MCP server write the runs table directly, and so do the cleanups  *)
(* at SessionStart and of the sweeper, and two commands of an operator, from *)
(* the CLI or the web: run cancel and project reset.                        *)
(*                                                                          *)
(* The queue is the one DurableWrite promises: a job is dispatched at least *)
(* once, in any order (run_after has whole seconds and a retry moves it),   *)
(* unless it is given up.                                                   *)
(***************************************************************************)
EXTENDS Naturals

CONSTANTS
    Sessions,
    Resumed,      \* bound: the sessions that may be resumed
    Connected,    \* the sessions whose agent has the MCP server
    Events,       \* the tool uses and prompts that may happen
    SessionOf,    \* SessionOf[e]: the session of event e
    TurnOf,       \* TurnOf[e]: its turn and phase; a prompt has no turn
    NoId,         \* no run; the run_id of an unlinked row
    Missing,      \* no row
    MaxTroubles   \* bound: failed enqueues, inserts and lookups, jobs given up, crashes,
                  \* and the operator's cancellations and resets

ASSUME SessionAssumption ==
    /\ SessionOf \in [Events -> Sessions]
    /\ Resumed \subseteq Sessions /\ Connected \subseteq Sessions
    /\ MaxTroubles \in Nat

\* A run id is known by its minter -- session_open, the implicit insert,
\* get_run_id -- and by the resets before it was minted.
Ids == {"explicit", "implicit", "mcp"} \X Nat
ASSUME NoIdAssumption == NoId \notin Ids /\ Missing \notin Ids \cup {NoId}

\* A session is told of at SessionStart once, in a job that keeps its id.
Explicit == <<"explicit", 0>>

Statuses == {"none", "in_progress", "completed", "abandoned", "cancelled"}

VARIABLES
    session,   \* session[s]: what the agent has told of s
    runs,      \* runs[s]: id and status of the row of (project, s)
    handed,    \* handed[s]: the runId get_run_id returned
    opened,    \* bridge: sessionsOpened
    inflight,  \* bridge: sessionInflightInserts
    closing,   \* bridge: ended sessions whose run is about to be flipped
    event,     \* event[e]: how far the recorder has taken e
    queue,     \* the pending_jobs rows
    rows,      \* rows[e]: run_id of the row of run_events that holds e
    cancelling,  \* cancelling[s]: the id an operator's cancel found in progress
    resetting,   \* a reset of the project has deleted the trail, not yet the runs
    resets,      \* the resets that came to the end
    wiped,       \* history: sessions whose run a reset met
    overruled,   \* history: sessions whose completed run was cancelled
    started,   \* history: sessions with a recorded SessionStart
    failed,    \* history: sessions with a failed implicit insert or lookup
    givenUp,   \* history: jobs marked dead
    troubles

memory == <<opened, inflight, closing>>
admin == <<cancelling, resetting, resets, wiped, overruled>>
history == <<started, failed, givenUp>>
vars == <<session, runs, handed, memory, event, queue, rows, admin, history, troubles>>

Job == [kind : {"open", "close"}, of : Sessions] \cup [kind : {"event"}, of : Events]
OpenJob(s) == [kind |-> "open", of |-> s]
CloseJob(s) == [kind |-> "close", of |-> s]
EventJob(e) == [kind |-> "event", of |-> e]

NoRun == [id |-> NoId, status |-> "none"]

Init ==
    /\ session = [s \in Sessions |-> "new"]
    /\ runs = [s \in Sessions |-> NoRun]
    /\ handed = [s \in Sessions |-> NoId]
    /\ opened = {} /\ inflight = {} /\ closing = {}
    /\ event = [e \in Events |-> "unsent"]
    /\ queue = {}
    /\ rows = [e \in Events |-> Missing]
    /\ cancelling = [s \in Sessions |-> NoId]
    /\ resetting = FALSE /\ resets = 0
    /\ wiped = {} /\ overruled = {}
    /\ started = {} /\ failed = {} /\ givenUp = {}
    /\ troubles = 0

Trouble == troubles < MaxTroubles /\ troubles' = troubles + 1

-----------------------------------------------------------------------------
(* The statements on the runs table.                                        *)

HasRun(s) == runs[s].status # "none"

\* A mutant of Inserted: ON CONFLICT DO UPDATE SET id.
InsertedOver(s, i) ==
    [runs EXCEPT ![s] = [id |-> i, status |-> IF @.status = "none" THEN "in_progress"
                                              ELSE @.status]]

\* INSERT ... ON CONFLICT (project_id, session_id) DO NOTHING.
Inserted(s, i) ==
    IF HasRun(s) THEN runs
    ELSE [runs EXCEPT ![s] = [id |-> i, status |-> "in_progress"]]

\* A mutant of Completed: a run some cleanup took for an orphan stays so.
CompletedIfOpen(s) ==
    IF runs[s].status # "in_progress" THEN runs
    ELSE [runs EXCEPT ![s].status = "completed"]

\* UPDATE ... SET status = 'completed', whatever it was.
Completed(s) == IF HasRun(s) THEN [runs EXCEPT ![s].status = "completed"] ELSE runs

\* A mutant of Discarded: the status is not looked at.
DiscardedAll(S, how) ==
    [s \in Sessions |-> IF s \in S /\ HasRun(s) THEN [runs[s] EXCEPT !.status = how]
                        ELSE runs[s]]

\* UPDATE ... SET status = how WHERE status = 'in_progress' AND ...
Discarded(S, how) ==
    [s \in Sessions |-> IF s \in S /\ runs[s].status = "in_progress"
                        THEN [runs[s] EXCEPT !.status = how] ELSE runs[s]]

-----------------------------------------------------------------------------
(* The hooks.                                                               *)

Enqueued(job) == queue' = queue \cup {job} /\ UNCHANGED troubles
Dropped == Trouble /\ UNCHANGED queue

\* handleSessionStart, at the start of a session or when it is resumed:
\* recordSessionStart, then -- not awaited, a failure is swallowed -- the other
\* open runs of the project are abandoned.
SessionStart(s) ==
    /\ session[s] = "new" \/ (session[s] = "ended" /\ s \in Resumed)
    /\ session' = [session EXCEPT ![s] = "live"]
    /\ opened' = opened \cup {s}
    /\ started' = started \cup {s}
    /\ LET abandoned == Discarded(Sessions \ {s}, "abandoned") IN
       \/ Enqueued(OpenJob(s)) /\ runs' = abandoned
       \/ Dropped /\ runs' \in {abandoned, runs}
       \/ queue' = queue \cup {OpenJob(s)} /\ Trouble /\ UNCHANGED runs
    /\ UNCHANGED <<handed, inflight, closing, event, rows, admin, failed, givenUp>>

\* A mutant of Held: nothing waits for the implicit insert.
HeldNever(s, pending) == "ready"

\* enqueueRunEvent awaits sessionInflightInserts.get(sessionId).
Held(s, pending) == IF s \in pending THEN "waiting" ELSE "ready"

\* handlePostToolUse, handleUserPromptSubmit: ensureSessionOpenInflight, then
\* enqueueRunEvent, which waits for an insert in flight.
ToolUse(e) ==
    LET s == SessionOf[e] IN
    /\ session[s] # "ended" /\ event[e] = "unsent"
    /\ session' = [session EXCEPT ![s] = "live"]
    /\ opened' = opened \cup {s}
    /\ inflight' = IF s \in opened THEN inflight ELSE inflight \cup {s}
    /\ event' = [event EXCEPT ![e] = Held(s, inflight')]
    /\ UNCHANGED <<runs, handed, closing, queue, rows, admin, history, troubles>>

Released(s) ==
    [e \in Events |-> IF SessionOf[e] = s /\ event[e] = "waiting" THEN "ready"
                      ELSE event[e]]

ImplicitInsert(s) ==
    /\ s \in inflight
    /\ inflight' = inflight \ {s}
    /\ event' = Released(s)
    /\ \/ runs' = Inserted(s, <<"implicit", resets>>) /\ UNCHANGED <<opened, failed, troubles>>
       \/ /\ Trouble /\ failed' = failed \cup {s}
          /\ opened' = opened \ {s} /\ UNCHANGED runs
    /\ UNCHANGED <<session, handed, closing, queue, rows, admin, started, givenUp>>

\* scheduleAuditWriteWithSync of a run event.
EnqueueEvent(e) ==
    /\ event[e] = "ready"
    /\ \/ Enqueued(EventJob(e)) /\ event' = [event EXCEPT ![e] = "accepted"]
       \/ Dropped /\ event' = [event EXCEPT ![e] = "lost"]
    /\ UNCHANGED <<session, runs, handed, memory, rows, admin, history>>

\* handleSessionEnd: recordSessionEnd, which opens no run, and the start of
\* scheduleAutoContextPackSave.
SessionEnd(s) ==
    /\ session[s] # "ended"
    /\ session' = [session EXCEPT ![s] = "ended"]
    /\ closing' = closing \cup {s}
    /\ Enqueued(CloseJob(s)) \/ Dropped
    /\ UNCHANGED <<runs, handed, opened, inflight, event, rows, admin, history>>

\* lookupRunId, then markRunCompletedOnSessionEnd.
FlipAtEnd(s) ==
    /\ s \in closing
    /\ closing' = closing \ {s}
    /\ \/ runs' = Completed(s) /\ UNCHANGED troubles
       \/ Trouble /\ UNCHANGED runs
    /\ UNCHANGED <<session, handed, opened, inflight, event, queue, rows, admin, history>>

-----------------------------------------------------------------------------
(* The worker's dispatch of a job; delivered again when the settling of its *)
(* row failed.                                                              *)

Done(job) ==
    \/ queue' = queue \ {job} /\ UNCHANGED troubles
    \/ Trouble /\ UNCHANGED queue

DispatchOpen(s) ==
    /\ OpenJob(s) \in queue /\ Done(OpenJob(s))
    /\ runs' = Inserted(s, Explicit)
    /\ UNCHANGED <<session, handed, memory, event, rows, admin, history>>

DispatchClose(s) ==
    /\ CloseJob(s) \in queue /\ Done(CloseJob(s))
    /\ runs' = Completed(s)
    /\ UNCHANGED <<session, handed, memory, event, rows, admin, history>>

\* resolveRunId: null when the session has no run.
Link(s) == runs[s].id

\* buildRunEventId: the row's id is a hash of the session, the turn and the phase.
RowId(e) == <<SessionOf[e], TurnOf[e]>>

SameRow(e) == {f \in Events : RowId(f) = RowId(e)}

Recorded(e) == \E f \in SameRow(e) : rows[f] # Missing

\* insertRunEvent: ON CONFLICT (id) DO NOTHING.
RowWritten(e, i) == IF Recorded(e) THEN rows ELSE [rows EXCEPT ![e] = i]

\* A mutant of DispatchEvent: an event of no run is settled without a row.
DispatchEventOfRun(e) ==
    /\ EventJob(e) \in queue /\ Done(EventJob(e))
    /\ rows' = IF HasRun(SessionOf[e]) THEN RowWritten(e, Link(SessionOf[e])) ELSE rows
    /\ UNCHANGED <<session, runs, handed, memory, event, admin, history>>

\* lookupRunId answers null on a miss and on an error.
DispatchEvent(e) ==
    /\ EventJob(e) \in queue
    /\ \/ /\ rows' = RowWritten(e, Link(SessionOf[e]))
          /\ Done(EventJob(e)) /\ UNCHANGED failed
       \/ /\ rows' = RowWritten(e, NoId)
          /\ queue' = queue \ {EventJob(e)}
          /\ Trouble /\ failed' = failed \cup {SessionOf[e]}
    /\ UNCHANGED <<session, runs, handed, memory, event, admin, started, givenUp>>

GiveUp(job) ==
    /\ job \in queue /\ Trouble
    /\ queue' = queue \ {job}
    /\ givenUp' = givenUp \cup {job}
    /\ UNCHANGED <<session, runs, handed, memory, event, rows, admin, started, failed>>

-----------------------------------------------------------------------------
(* The MCP server, the sweeper, the bridge's end.                           *)

\* get_run_id: the row of the session, or a new one; the loser of a race
\* between two inserts selects again.
GetRunId(s) ==
    /\ s \in Connected /\ session[s] # "ended"
    /\ runs' = Inserted(s, <<"mcp", resets>>)
    /\ handed' = [handed EXCEPT ![s] = runs'[s].id]
    /\ UNCHANGED <<session, memory, event, queue, rows, admin, history, troubles>>

\* save_context_pack completes the run it is given, whatever its status, if it
\* is there; the pack itself is left out.
SaveContextPack(s) ==
    /\ handed[s] # NoId /\ handed[s] = runs[s].id
    /\ runs' = Completed(s)
    /\ UNCHANGED <<session, handed, memory, event, queue, rows, admin, history, troubles>>

\* sweepOnce, on the timer and on boot: S are the open runs that started more
\* than the threshold ago.
Sweep(S) ==
    /\ runs' = Discarded(S, "cancelled") /\ runs' # runs
    /\ UNCHANGED <<session, handed, memory, event, queue, rows, admin, history, troubles>>

-----------------------------------------------------------------------------
(* The operator's commands.                                                 *)

\* cancelRun asks for the status first ...
LookToCancel(s) ==
    /\ cancelling[s] = NoId /\ runs[s].status = "in_progress"
    /\ Trouble
    /\ cancelling' = [cancelling EXCEPT ![s] = runs[s].id]
    /\ UNCHANGED <<session, runs, handed, memory, event, queue, rows, resetting, resets,
                   wiped, overruled, history>>

\* A mutant of Cancelled: a status the schema does not list.
CancelledMisspelt(s, i) ==
    IF runs[s].id = i THEN [runs EXCEPT ![s].status = "canceled"] ELSE runs

\* UPDATE ... SET status = 'cancelled' WHERE id = i
Cancelled(s, i) ==
    IF runs[s].id = i THEN [runs EXCEPT ![s].status = "cancelled"] ELSE runs

\* ... and updates by the id alone, whatever the status is by then.
CancelRun(s) ==
    /\ cancelling[s] # NoId
    /\ runs' = Cancelled(s, cancelling[s])
    /\ overruled' = IF runs[s].status = "completed" /\ runs' # runs
                    THEN overruled \cup {s} ELSE overruled
    /\ cancelling' = [cancelling EXCEPT ![s] = NoId]
    /\ UNCHANGED <<session, handed, memory, event, queue, rows, resetting, resets, wiped,
                   history, troubles>>

WithRun == {s \in Sessions : HasRun(s)}

\* resetProject reads the ids of the project's runs and deletes the events linked
\* to them; an unlinked one stays.
ResetTrail ==
    /\ ~ resetting /\ Trouble
    /\ resetting' = TRUE
    /\ rows' = [e \in Events |-> IF rows[e] = NoId THEN NoId ELSE Missing]
    /\ wiped' = wiped \cup WithRun
    /\ UNCHANGED <<session, runs, handed, memory, event, queue, cancelling, resets,
                   overruled, history>>

\* Then it deletes the runs, also one opened meanwhile, whose events lose their
\* link (ON DELETE SET NULL); a pack or a verdict written meanwhile fails it.
DeleteRuns ==
    /\ resetting /\ resetting' = FALSE
    /\ \/ /\ runs' = [s \in Sessions |-> NoRun]
          /\ rows' = [e \in Events |-> IF rows[e] = Missing THEN Missing ELSE NoId]
          /\ wiped' = wiped \cup WithRun
          /\ resets' = resets + 1
       \/ UNCHANGED <<runs, rows, wiped, resets>>
    /\ UNCHANGED <<session, handed, memory, event, queue, cancelling, overruled, history,
                   troubles>>

-----------------------------------------------------------------------------

Crash ==
    /\ Trouble
    /\ opened' = {} /\ inflight' = {} /\ closing' = {}
    /\ event' = [e \in Events |-> IF event[e] \in {"waiting", "ready"} THEN "lost"
                                  ELSE event[e]]
    /\ UNCHANGED <<session, runs, handed, queue, rows, admin, history>>

Dispatch ==
    \/ \E s \in Sessions : DispatchOpen(s) \/ DispatchClose(s)
    \/ \E e \in Events : DispatchEvent(e)

Next ==
    \/ \E s \in Sessions :
         \/ SessionStart(s) \/ ImplicitInsert(s) \/ SessionEnd(s) \/ FlipAtEnd(s)
         \/ GetRunId(s) \/ SaveContextPack(s) \/ LookToCancel(s) \/ CancelRun(s)
    \/ \E e \in Events : ToolUse(e) \/ EnqueueEvent(e)
    \/ Dispatch \/ \E job \in queue : GiveUp(job)
    \/ (\E S \in SUBSET Sessions : Sweep(S)) \/ Crash
    \/ ResetTrail \/ DeleteRuns

Spec == Init /\ [][Next]_vars

\* Promises settle, and the worker comes to every job (Outbox, JobsSettle).
Fairness ==
    /\ \A s \in Sessions :
         /\ WF_vars(ImplicitInsert(s)) /\ WF_vars(FlipAtEnd(s))
         /\ WF_vars(DispatchOpen(s)) /\ WF_vars(DispatchClose(s))
    /\ \A e \in Events : WF_vars(EnqueueEvent(e)) /\ WF_vars(DispatchEvent(e))

FairSpec == Spec /\ Fairness

-----------------------------------------------------------------------------
(* Properties.                                                              *)

TypeOK ==
    /\ session \in [Sessions -> {"new", "live", "ended"}]
    /\ runs \in [Sessions -> [id : Ids \cup {NoId}, status : Statuses]]
    /\ handed \in [Sessions -> Ids \cup {NoId}]
    /\ opened \subseteq Sessions
    /\ inflight \subseteq Sessions /\ closing \subseteq Sessions
    /\ event \in [Events -> {"unsent", "waiting", "ready", "accepted", "lost"}]
    /\ queue \subseteq Job /\ givenUp \subseteq Job
    /\ rows \in [Events -> Ids \cup {Missing, NoId}]
    /\ cancelling \in [Sessions -> Ids \cup {NoId}]
    /\ resetting \in BOOLEAN /\ resets \in Nat
    /\ wiped \subseteq Sessions /\ overruled \subseteq Sessions
    /\ started \subseteq Sessions /\ failed \subseteq Sessions
    /\ troubles \in Nat

\* Whoever opened the run -- the hook's job, the implicit insert or the MCP
\* server -- every event row names the row there is, and so does every runId
\* handed out until a reset takes the run away.
RunIdsAgree ==
    /\ \A e \in Events : rows[e] \in Ids => rows[e] = runs[SessionOf[e]].id
    /\ \A s \in Sessions :
         handed[s] # NoId => handed[s] = runs[s].id \/ s \in wiped

\* run-recorder.ts, the "race-close": an event that came without a SessionStart
\* waits for the implicit run, so its row names it unless that insert or the
\* lookup failed or a reset met the run.
UnlinkedIsExplained ==
    \A e \in Events :
        rows[e] = NoId => SessionOf[e] \in started \cup failed \cup wiped

\* What is behind it: an accepted event of an implicit session has its run.
AcceptedHasRun ==
    \A e \in Events :
        event[e] \in {"ready", "accepted"}
          => \/ HasRun(SessionOf[e])
             \/ SessionOf[e] \in started \cup failed \cup wiped

\* An accepted event is in the queue, in front of the operator, deleted with its
\* session by a reset, or there is a row of its id: its own, where the turn tells
\* it from the others (a tool use); of a session's prompts, which have no turn,
\* the first one's.
EventsAccounted ==
    \A e \in Events :
        event[e] = "accepted"
          => \/ EventJob(e) \in queue \cup givenUp
             \/ Recorded(e) \/ SessionOf[e] \in wiped

\* Every accepted event has a row of its own; said of the prompts in
\* docs/feature-packs/03-hooks-bridge/implementation.md: "recorded as a
\* `run_events` row", under the key "${sessionId}-${promptId}-user_prompt".
EveryEventHasItsRow ==
    \A e \in Events :
        event[e] = "accepted"
          => \/ EventJob(e) \in queue \cup givenUp
             \/ rows[e] # Missing \/ SessionOf[e] \in wiped

\* A session that ends and has a run ends completed, though the run was
\* abandoned by another session's start or cancelled by the sweeper or an
\* operator, unless it is deleted.
OpenRunsComplete ==
    \A s \in Sessions :
        (CloseJob(s) \in queue /\ HasRun(s))
        ~> \/ runs[s].status = "completed" \/ ~ HasRun(s)
           \/ CloseJob(s) \in givenUp

\* A session whose SessionStart was missed ends completed all the same; said in
\* session-end.ts: "so the session_close UPDATE has a runs row to target
\* (defensive -- if SessionStart was somehow missed, this still closes the loop)".
MissedStartIsClosed ==
    \A s \in Sessions :
        (session[s] = "ended" /\ s \notin started) ~> runs[s].status = "completed"

\* The table keeps the promises of RunLifecycle.
runId == [s \in Sessions |-> runs[s].id]
runStatus == [s \in Sessions |-> runs[s].status]
RL == INSTANCE RunLifecycle
        WITH sessions <- Sessions, ids <- Ids, id <- runId, status <- runStatus,
             asked <- cancelling
ImplementsRunLifecycle == RL!Spec

=============================================================================
