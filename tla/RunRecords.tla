------------------------------ MODULE RunRecords ------------------------------
(***************************************************************************)
(* What is kept of a run beside its status: the context pack the agent saves *)
(* (save_context_pack) or the bridge writes at the end of the session        *)
(* (session-end.ts, auto-context-pack.ts), the decisions (record_decision),  *)
(* the events and policy decisions of the trail; and the operators who       *)
(* cancel runs, reset a project or delete it (runs-admin.ts, projects.ts).   *)
(* MCP server, bridge, CLI and web app are processes of their own on one     *)
(* SQLite file: a statement is atomic, a handler is not.                     *)
(*                                                                          *)
(* There is one project.  A run row that was deleted comes back only under a *)
(* new id.  A pack's file is named after the run and the day; the day is the *)
(* same throughout.                                                          *)
(***************************************************************************)
EXTENDS Integers, FiniteSets

CONSTANTS
    Runs,
    Saves, Decides,  \* calls of save_context_pack and of record_decision
    Ends,            \* SessionEnd hooks
    Cancels,         \* cancellations of one run, or of all in progress
    Events,          \* events the hooks of the bridge enqueue
    Verdicts,        \* policy decisions
    DescOf,          \* DescOf[d]: the description of a decision
    Scenarios        \* bound: who acts in a behaviour (live), how often something fails (faults)

ASSUME DescAssumption == \A d \in Decides : DescOf[d] \in STRING

\* Ids are random and tell the kinds of rows, and of calls, apart; none of them is a word
\* that an answer or a column without an id holds.
Words == {"none", "null", "global", "deleted", "created", "hit", "upgraded", "run_not_found",
          "handler_threw", "invalid_input", "policy_denied"}
ASSUME IdsAssumption ==
    /\ (Runs \cup Saves \cup Decides \cup Ends) \cap Words = {}
    /\ Saves \cap (Decides \cup Ends) = {} /\ Events \cap (Saves \cup Decides) = {}

VARIABLES
    run,      \* run[r]: the status of the row
    pack,     \* pack[r]: the context_packs row of r
    file,     \* file[r]: who wrote the pack's file last
    dec,      \* dec[d]: run_id of the decisions row whose id call d minted
    evt,      \* evt[e]: run_id of the run_events row of event, or MCP call, e
    queued,   \* queued[e]: the run of e's job in the outbox
    verdict,  \* verdict[v]: run_id of the policy_decisions row v; "global": of __global__
    cites,    \* the policy_decisions rows that name a rule of the project
    rules,    \* the policies and rules of the project: "there" or "gone"
    project,  \* the projects row: "there" or "gone"
    call, end, cancel, reset,
    live, faults

trail == <<evt, queued, verdict, cites, rules, project>>
bounds == <<live, faults>>
vars == <<run, pack, file, dec, trail, call, end, cancel, reset, bounds>>

Calls == Saves \cup Decides
NoPack == [id |-> "none", src |-> "none", text |-> "none", lists |-> {}]
NoRun == "none"

Init ==
    /\ run = [r \in Runs |-> "none"]
    /\ pack = [r \in Runs |-> NoPack] /\ file = [r \in Runs |-> "none"]
    /\ dec = [d \in Decides |-> "none"]
    /\ evt = [e \in Events \cup Calls |-> "none"]
    /\ queued = [e \in Events \cup Calls |-> NoRun]
    /\ verdict = [v \in Verdicts |-> "none"] /\ cites = {}
    /\ rules = "there" /\ project = "there"
    /\ call = [c \in Calls |-> [pc |-> "idle", run |-> NoRun, seen |-> "none", answer |-> "none"]]
    /\ end = [e \in Ends |-> [pc |-> "idle", run |-> NoRun, told |-> {}, lists |-> {}, ok |-> TRUE]]
    /\ cancel = [k \in Cancels |-> [pc |-> "idle", run |-> NoRun, todo |-> {}]]
    /\ reset = [pc |-> "idle", keep |-> TRUE, del |-> FALSE, ids |-> {}, had |-> {}, answer |-> "none"]
    /\ \E s \in Scenarios : live = s.live /\ faults = s.faults

Live(a) == a \in live /\ UNCHANGED live
Fault == faults > 0 /\ faults' = faults - 1 /\ UNCHANGED live

Present(r) == r \in Runs /\ run[r] \in {"in_progress", "completed", "cancelled"}

\* UPDATE runs SET status = 'completed' WHERE id = r AND status <> 'completed'.
MarkCompleted(r) ==
    run' = IF Present(r) THEN [run EXCEPT ![r] = "completed"] ELSE run

\* get_run_id or the first event of the session (SessionAudit): an insert.
OpenRun(r) ==
    /\ run[r] = "none" /\ project = "there"
    /\ run' = [run EXCEPT ![r] = "in_progress"]
    /\ UNCHANGED <<pack, file, dec, trail, call, end, cancel, reset, bounds>>

-----------------------------------------------------------------------------
(* The tool calls: the pipeline of the registry around the two handlers.    *)

\* handleCall: an input the schema refuses or a pre-policy deny ends the call;
\* a policy that throws lets it go on.
Call(c, r) ==
    /\ call[c].pc = "idle" /\ Live(c)
    /\ \/ call' = [call EXCEPT ![c].pc = "run", ![c].run = r]
       \/ \E a \in {"invalid_input", "policy_denied"} :
            call' = [call EXCEPT ![c].pc = "done", ![c].run = r, ![c].answer = a]
    /\ UNCHANGED <<run, pack, file, dec, trail, end, cancel, reset, faults>>

\* The handler returned: the mcp_call event is enqueued for the run of the
\* input, whether or not there is such a run.
Answer(c, a) ==
    /\ call' = [call EXCEPT ![c].pc = "done", ![c].answer = a]
    /\ queued' = [queued EXCEPT ![c] = call[c].run]

\* The handler threw: handler_threw, and no event.
Threw(c) ==
    /\ call' = [call EXCEPT ![c].pc = "done", ![c].answer = "handler_threw"]
    /\ UNCHANGED queued

Goes(c, pc) ==
    /\ call' = [call EXCEPT ![c].pc = pc]
    /\ UNCHANGED queued

\* selectRunProjectId, runExists.
FindRun(c) ==
    /\ call[c].pc = "run"
    /\ IF Present(call[c].run)
       THEN Goes(c, IF c \in Saves THEN "look" ELSE "insert")
       ELSE Answer(c, "run_not_found")
    /\ UNCHANGED <<run, pack, file, dec, evt, verdict, cites, rules, project, end, cancel, reset, bounds>>

\* context-pack.write: no row, a row of the bridge, a row of the agent.
LookForPack(c) ==
    LET row == pack[call[c].run] IN
    /\ c \in Saves /\ call[c].pc = "look"
    /\ call' = [call EXCEPT
                  ![c].pc = CASE row.src = "none" -> "insert"
                              [] row.src = "auto" -> "upgrade"
                              [] OTHER -> "complete",
                  ![c].seen = row.id,
                  ![c].answer = CASE row.src = "none" -> "created"
                                  [] row.src = "auto" -> "upgraded"
                                  [] OTHER -> "hit"]
    /\ UNCHANGED <<run, pack, file, dec, trail, end, cancel, reset, bounds>>

\* upgradeBridgeAutoToAgent: by the id of the row that was seen.
UpgradePack(c) ==
    LET r == call[c].run IN
    /\ c \in Saves /\ call[c].pc = "upgrade"
    /\ pack' = IF pack[r].id = call[c].seen
               THEN [pack EXCEPT ![r].src = "agent", ![r].text = c, ![r].lists = {}]
               ELSE pack
    /\ Goes(c, "file")
    /\ UNCHANGED <<run, file, dec, evt, verdict, cites, rules, project, end, cancel, reset, bounds>>

\* A pack may be inserted: UNIQUE(run_id), and the run and the project exist.
PackFits(r) == pack[r] = NoPack /\ Present(r)

InsertPack(c) ==
    LET r == call[c].run IN
    /\ c \in Saves /\ call[c].pc = "insert"
    /\ IF PackFits(r)
       THEN /\ pack' = [pack EXCEPT ![r] = [id |-> c, src |-> "agent", text |-> c, lists |-> {}]]
            /\ Goes(c, "file")
       ELSE Threw(c) /\ UNCHANGED pack
    /\ UNCHANGED <<run, file, dec, evt, verdict, cites, rules, project, end, cancel, reset, bounds>>

\* The row is durable; a file that cannot be written is only logged.
WritePackFile(c) ==
    /\ c \in Saves /\ call[c].pc = "file"
    /\ \/ file' = [file EXCEPT ![call[c].run] = c] /\ UNCHANGED bounds
       \/ Fault /\ UNCHANGED file
    /\ Goes(c, "complete")
    /\ UNCHANGED <<run, pack, dec, evt, verdict, cites, rules, project, end, cancel, reset>>

CompleteSaved(c) ==
    /\ c \in Saves /\ call[c].pc = "complete"
    /\ MarkCompleted(call[c].run)
    /\ Answer(c, call[c].answer)
    /\ UNCHANGED <<pack, file, dec, evt, verdict, cites, rules, project, end, cancel, reset, bounds>>

\* The rows with the idempotency key of d: dec:<run>:<hash of the description>.
SameKey(d) ==
    {e \in Decides : dec[e] # "none" /\ call[e].run = call[d].run /\ DescOf[e] = DescOf[d]}

\* Mutant of InsertDecision: without ON CONFLICT, the key is not unique.
InsertDecisionTwice(d) ==
    /\ d \in Decides /\ call[d].pc = "insert"
    /\ dec' = [dec EXCEPT ![d] = call[d].run]
    /\ Answer(d, d)
    /\ UNCHANGED <<run, pack, file, evt, verdict, cites, rules, project, end, cancel, reset, bounds>>

\* INSERT ... ON CONFLICT (idempotency_key) DO NOTHING RETURNING id.
InsertDecision(d) ==
    /\ d \in Decides /\ call[d].pc = "insert"
    /\ CASE ~Present(call[d].run) /\ SameKey(d) = {} -> Threw(d) /\ UNCHANGED dec
         [] SameKey(d) # {} -> Goes(d, "select") /\ UNCHANGED dec
         [] OTHER -> /\ dec' = [dec EXCEPT ![d] = call[d].run]
                     /\ Answer(d, d)
    /\ UNCHANGED <<run, pack, file, evt, verdict, cites, rules, project, end, cancel, reset, bounds>>

\* selectByIdempotencyKey after a conflict: the id of the first row.
SelectDecision(d) ==
    /\ d \in Decides /\ call[d].pc = "select"
    /\ IF SameKey(d) = {} THEN Threw(d) ELSE \E e \in SameKey(d) : Answer(d, e)
    /\ UNCHANGED <<run, pack, file, dec, evt, verdict, cites, rules, project, end, cancel, reset, bounds>>

\* A statement of the handler fails (the file is locked), or the server dies.
CallFails(c) ==
    /\ call[c].pc \notin {"idle", "file", "done"} /\ Fault
    /\ Threw(c)
    /\ UNCHANGED <<run, pack, file, dec, evt, verdict, cites, rules, project, end, cancel, reset>>

-----------------------------------------------------------------------------
(* The end of a session, in the background of the SessionEnd hook.          *)

Told(r) == {d \in Decides : call[d].run = r /\ call[d].pc = "done" /\ call[d].answer \in Decides}

\* scheduleAutoContextPackSave: without a run row nothing happens.
EndSession(e, r) ==
    /\ end[e].pc = "idle" /\ Live(e) /\ Present(r)
    /\ end' = [end EXCEPT ![e].pc = "flip", ![e].run = r,
                          ![e].told = {call[d].answer : d \in Told(r)}]
    /\ UNCHANGED <<run, pack, file, dec, trail, call, cancel, reset, faults>>

\* markRunCompletedOnSessionEnd; its failure is logged and the pack still written.
FlipRun(e) ==
    /\ end[e].pc = "flip"
    /\ \/ /\ MarkCompleted(end[e].run) /\ UNCHANGED bounds
          /\ end' = [end EXCEPT ![e].pc = "look"]
       \/ /\ Fault /\ UNCHANGED run
          /\ end' = [end EXCEPT ![e].pc = "look", ![e].ok = FALSE]
    /\ UNCHANGED <<pack, file, dec, trail, call, cancel, reset>>

\* saveAutoContextPack: is there a pack already?
LookForAuto(e) ==
    /\ end[e].pc = "look"
    /\ end' = [end EXCEPT ![e].pc = IF pack[end[e].run] = NoPack THEN "read" ELSE "done"]
    /\ UNCHANGED <<run, pack, file, dec, trail, call, cancel, reset, bounds>>

\* Mutant of ReadTrail: the decisions of the run are not read.
ReadTrailWithoutDecisions(e) ==
    /\ end[e].pc = "read"
    /\ end' = [end EXCEPT ![e].pc = "insert"]
    /\ UNCHANGED <<run, pack, file, dec, trail, call, cancel, reset, bounds>>

\* The events and the decisions of the run; buildAutoSummary lists each decision.
ReadTrail(e) ==
    /\ end[e].pc = "read"
    /\ end' = [end EXCEPT ![e].pc = "insert",
                          ![e].lists = {d \in Decides : dec[d] = end[e].run}]
    /\ UNCHANGED <<run, pack, file, dec, trail, call, cancel, reset, bounds>>

\* Mutant of InsertAuto: ON CONFLICT (run_id) DO UPDATE.
InsertAutoUpserts(e) ==
    LET r == end[e].run IN
    /\ end[e].pc = "insert"
    /\ pack' = [pack EXCEPT ![r] = [id |-> IF @.id = "none" THEN e ELSE @.id, src |-> "auto",
                                    text |-> e, lists |-> end[e].lists]]
    /\ end' = [end EXCEPT ![e].pc = "file"]
    /\ UNCHANGED <<run, file, dec, trail, call, cancel, reset, bounds>>

\* A plain INSERT: it throws where the agent's save came between, and is logged.
InsertAuto(e) ==
    LET r == end[e].run IN
    /\ end[e].pc = "insert"
    /\ IF PackFits(r)
       THEN /\ pack' = [pack EXCEPT ![r] = [id |-> e, src |-> "auto", text |-> e,
                                            lists |-> end[e].lists]]
            /\ end' = [end EXCEPT ![e].pc = "file"]
       ELSE /\ end' = [end EXCEPT ![e].pc = "done"]
            /\ UNCHANGED pack
    /\ UNCHANGED <<run, file, dec, trail, call, cancel, reset, bounds>>

WriteAutoFile(e) ==
    /\ end[e].pc = "file"
    /\ \/ file' = [file EXCEPT ![end[e].run] = e] /\ UNCHANGED bounds
       \/ Fault /\ UNCHANGED file
    /\ end' = [end EXCEPT ![e].pc = "done"]
    /\ UNCHANGED <<run, pack, dec, trail, call, cancel, reset>>

\* A statement throws and the save is given up, or the bridge dies.
EndFails(e) ==
    /\ end[e].pc \in {"look", "read", "insert"} /\ Fault
    /\ end' = [end EXCEPT ![e].pc = "done", ![e].ok = FALSE]
    /\ UNCHANGED <<run, pack, file, dec, trail, call, cancel, reset>>

-----------------------------------------------------------------------------
(* The trail: jobs of the outbox land, on a run that still exists.          *)

HookEvent(e, r) ==
    /\ e \in Events /\ queued[e] = NoRun /\ evt[e] = "none" /\ Live(e)
    /\ Present(r)
    /\ queued' = [queued EXCEPT ![e] = r]
    /\ UNCHANGED <<run, pack, file, dec, evt, verdict, cites, rules, project,
                   call, end, cancel, reset, faults>>

\* INSERT INTO run_events: the foreign key refuses a run that is gone, and the
\* job ends up dead.
LandEvent(e) ==
    /\ queued[e] # NoRun
    /\ evt' = IF Present(queued[e]) THEN [evt EXCEPT ![e] = queued[e]] ELSE evt
    /\ queued' = [queued EXCEPT ![e] = NoRun]
    /\ UNCHANGED <<run, pack, file, dec, verdict, cites, rules, project,
                   call, end, cancel, reset, bounds>>

\* A policy decision of the project lands, or one of __global__; it may name a rule.
LandVerdict(v) ==
    /\ verdict[v] = "none" /\ Live(v)
    /\ \E r \in {x \in Runs : Present(x)} \cup {"global"} : verdict' = [verdict EXCEPT ![v] = r]
    /\ cites' \in {cites, cites \cup {v}} /\ (rules = "gone" => cites' = cites)
    /\ UNCHANGED <<run, pack, file, dec, evt, queued, rules, project,
                   call, end, cancel, reset, faults>>

-----------------------------------------------------------------------------
(* Cancellation: `contextos run cancel`, and the web app's two actions.     *)

Cancelling(k, todo) ==
    /\ cancel[k].pc = "idle" /\ Live(k)
    /\ cancel' = [cancel EXCEPT ![k].pc = "look", ![k].todo = todo]
    /\ UNCHANGED <<run, pack, file, dec, trail, call, end, reset, faults>>

CancelCommand(k) == \E r \in Runs : Cancelling(k, {r})

\* listRunsForProject with status 'in_progress'.
InProgress == {r \in Runs : run[r] = "in_progress"}

CancelAllAction(k) == Cancelling(k, InProgress)

\* cancelRun: SELECT, and a run that is not in progress is left alone ...
LookToCancel(k) ==
    /\ cancel[k].pc = "look"
    /\ IF cancel[k].todo = {} THEN cancel' = [cancel EXCEPT ![k].pc = "done"]
       ELSE \E r \in cancel[k].todo :
              cancel' = [cancel EXCEPT ![k].todo = @ \ {r},
                                       ![k].run = r,
                                       ![k].pc = IF run[r] = "in_progress" THEN "write" ELSE "look"]
    /\ UNCHANGED <<run, pack, file, dec, trail, call, end, reset, bounds>>

\* ... then UPDATE ... WHERE id: whatever its status is by now.
WriteCancelled(k) ==
    /\ cancel[k].pc = "write"
    /\ run' = IF Present(cancel[k].run) THEN [run EXCEPT ![cancel[k].run] = "cancelled"] ELSE run
    /\ cancel' = [cancel EXCEPT ![k].pc = "look"]
    /\ UNCHANGED <<pack, file, dec, trail, call, end, reset, bounds>>

-----------------------------------------------------------------------------
(* resetProject and deleteProject: one statement after the other, in no      *)
(* transaction.                                                              *)

\* readProjectExport: every row that hangs on the project, by its id.
Export ==
    {<<"run", r>> : r \in {x \in Runs : Present(x)}}
    \cup {<<"run_event", e>> : e \in {x \in DOMAIN evt : evt[x] \in Runs}}
    \cup {<<"decision", d>> : d \in {x \in Decides : dec[x] \in Runs}}
    \cup {<<"policy_decision", v>> : v \in {x \in Verdicts : verdict[x] \in Runs}}
    \cup {<<"context_pack", pack[r].id>> : r \in {x \in Runs : pack[x] # NoPack}}

\* listAllDecisions without a project: the LEFT JOIN also shows rows without a run.
AllDecisions == {d \in Decides : dec[d] \in Runs \cup {"null"}}

\* Rows whose run_id was set to NULL when their run was deleted.
Orphans ==
    {<<"run_event", e>> : e \in {x \in DOMAIN evt : evt[x] = "null"}}
    \cup {<<"decision", d>> : d \in {x \in AllDecisions : dec[x] = "null"}}

StartReset(keep, del) ==
    /\ reset.pc = "idle" /\ Live("reset") /\ project = "there"
    /\ reset' = [pc |-> "verdicts", keep |-> keep, del |-> del, ids |-> {},
                 had |-> Export, answer |-> "none"]
    /\ UNCHANGED <<run, pack, file, dec, trail, call, end, cancel, faults>>

\* `contextos project reset --force`, the web app's reset (the slug typed again) and
\* its deletion, which drops the policies too.
ResetCommand == \E keep \in BOOLEAN : StartReset(keep, FALSE)
DeleteAction == StartReset(FALSE, TRUE)

Then(pc) == reset' = [reset EXCEPT !.pc = pc]

\* resetProject throws; deleteProject answers 'not_found' to any error of it.
Fails == reset' = [reset EXCEPT !.pc = "done",
                               !.answer = IF reset.del THEN "not_found" ELSE "error"]

DeleteVerdicts ==
    /\ reset.pc = "verdicts"
    /\ verdict' = [v \in Verdicts |-> IF verdict[v] \in Runs THEN "deleted" ELSE verdict[v]]
    /\ cites' = {v \in cites : verdict[v] \notin Runs}
    /\ Then("ids")
    /\ UNCHANGED <<run, pack, file, dec, evt, queued, rules, project, call, end, cancel, bounds>>

ReadRunIds ==
    /\ reset.pc = "ids"
    /\ reset' = [reset EXCEPT !.pc = "trail", !.ids = {r \in Runs : Present(r)}]
    /\ UNCHANGED <<run, pack, file, dec, trail, call, end, cancel, bounds>>

\* Mutant of DeleteTrail: the decisions are forgotten.
DeleteTrailButDecisions ==
    /\ reset.pc = "trail"
    /\ evt' = [e \in DOMAIN evt |-> IF evt[e] \in reset.ids THEN "deleted" ELSE evt[e]]
    /\ Then("packs")
    /\ UNCHANGED <<run, pack, file, dec, queued, verdict, cites, rules, project, call, end, cancel, bounds>>

\* DELETE FROM run_events, then FROM decisions, in one synchronous stretch.
DeleteTrail ==
    /\ reset.pc = "trail"
    /\ evt' = [e \in DOMAIN evt |-> IF evt[e] \in reset.ids THEN "deleted" ELSE evt[e]]
    /\ dec' = [d \in Decides |-> IF dec[d] \in reset.ids THEN "none" ELSE dec[d]]
    /\ Then("packs")
    /\ UNCHANGED <<run, pack, file, queued, verdict, cites, rules, project, call, end, cancel, bounds>>

DeletePacks ==
    /\ reset.pc = "packs"
    /\ pack' = [r \in Runs |-> NoPack]
    /\ Then("runs")
    /\ UNCHANGED <<run, file, dec, trail, call, end, cancel, bounds>>

\* DELETE FROM runs: refused while a pack or a policy decision names a run;
\* events and decisions that came since lose their run_id.
DeleteRuns ==
    /\ reset.pc = "runs"
    /\ IF \E r \in Runs : Present(r) /\ (pack[r] # NoPack \/ \E v \in Verdicts : verdict[v] = r)
       THEN Fails /\ UNCHANGED <<run, evt, dec>>
       ELSE /\ run' = [r \in Runs |-> IF Present(r) THEN "gone" ELSE run[r]]
            /\ evt' = [e \in DOMAIN evt |-> IF evt[e] \in Runs THEN "null" ELSE evt[e]]
            /\ dec' = [d \in Decides |-> IF dec[d] \in Runs THEN "null" ELSE dec[d]]
            /\ IF reset.keep THEN reset' = [reset EXCEPT !.pc = "done", !.answer = "reset"]
               ELSE Then("rules")
    /\ UNCHANGED <<pack, file, queued, verdict, cites, rules, project, call, end, cancel, bounds>>

\* The project's switches, rules and policies; a policy decision that names a
\* rule -- also one of __global__ -- keeps it.
DeleteRules ==
    /\ reset.pc = "rules"
    /\ IF cites # {} THEN Fails /\ UNCHANGED rules
       ELSE /\ rules' = "gone"
            /\ IF reset.del THEN Then("project")
               ELSE reset' = [reset EXCEPT !.pc = "done", !.answer = "reset"]
    /\ UNCHANGED <<run, pack, file, dec, evt, queued, verdict, cites, project,
                   call, end, cancel, bounds>>

\* DELETE FROM projects: not in the try; what came since keeps the row.
DeleteProject ==
    /\ reset.pc = "project"
    /\ IF \E x \in Export : x[1] \in {"run", "context_pack", "policy_decision"}
       THEN reset' = [reset EXCEPT !.pc = "done", !.answer = "error"] /\ UNCHANGED project
       ELSE /\ project' = "gone"
            /\ reset' = [reset EXCEPT !.pc = "done", !.answer = "deleted"]
    /\ UNCHANGED <<run, pack, file, dec, evt, queued, verdict, cites, rules,
                   call, end, cancel, bounds>>

ResetFails ==
    /\ reset.pc \notin {"idle", "done"} /\ Fault
    /\ Fails
    /\ UNCHANGED <<run, pack, file, dec, trail, call, end, cancel>>

-----------------------------------------------------------------------------
CallSteps(c) ==
    \/ \E r \in Runs : Call(c, r)
    \/ FindRun(c) \/ CallFails(c)
    \/ LookForPack(c) \/ UpgradePack(c) \/ InsertPack(c) \/ WritePackFile(c) \/ CompleteSaved(c)
    \/ InsertDecision(c) \/ SelectDecision(c)

EndSteps(e) ==
    \/ \E r \in Runs : EndSession(e, r)
    \/ FlipRun(e) \/ LookForAuto(e) \/ ReadTrail(e) \/ InsertAuto(e) \/ WriteAutoFile(e)
    \/ EndFails(e)

ResetSteps ==
    \/ ResetCommand \/ DeleteAction
    \/ DeleteVerdicts \/ ReadRunIds \/ DeleteTrail \/ DeletePacks \/ DeleteRuns
    \/ DeleteRules \/ DeleteProject \/ ResetFails

Next ==
    \/ \E r \in Runs : OpenRun(r)
    \/ \E c \in Calls : CallSteps(c)
    \/ \E e \in Ends : EndSteps(e)
    \/ \E k \in Cancels : CancelCommand(k) \/ CancelAllAction(k) \/ LookToCancel(k) \/ WriteCancelled(k)
    \/ \E e \in Events \cup Calls : LandEvent(e) \/ \E r \in Runs : HookEvent(e, r)
    \/ \E v \in Verdicts : LandVerdict(v)
    \/ ResetSteps

Spec == Init /\ [][Next]_vars

-----------------------------------------------------------------------------
(* Properties.                                                              *)

RecordsTypeOK ==
    /\ run \in [Runs -> {"none", "in_progress", "completed", "cancelled", "gone"}]
    /\ pack \in [Runs -> [id : {"none"} \cup Saves \cup Ends, src : {"none", "auto", "agent"},
                          text : {"none"} \cup Saves \cup Ends, lists : SUBSET Decides]]
    /\ file \in [Runs -> {"none"} \cup Saves \cup Ends]
    /\ dec \in [Decides -> {"none", "null"} \cup Runs]
    /\ evt \in [Events \cup Calls -> {"none", "null", "deleted"} \cup Runs]
    /\ queued \in [Events \cup Calls -> {NoRun} \cup Runs]
    /\ verdict \in [Verdicts -> {"none", "global", "deleted"} \cup Runs] /\ cites \subseteq Verdicts
    /\ {rules, project} \subseteq {"there", "gone"}
    /\ \A r \in Runs : pack[r] # NoPack => Present(r)   \* the foreign keys
    /\ \A d \in Decides : dec[d] \in Runs => Present(dec[d])
    /\ \A e \in DOMAIN evt : evt[e] \in Runs => Present(evt[e])

\* getRunWithEverything: a run as the run page and `contextos run show` show it.
RunWithEverything(r) ==
    [status |-> run[r],
     events |-> {e \in DOMAIN evt : evt[e] = r},
     verdicts |-> {v \in Verdicts : verdict[v] = r},
     decisions |-> {d \in Decides : dec[d] = r},
     pack |-> pack[r]]

Untouched == reset.pc = "idle"
Finished(c) == call[c].pc = "done"

\* context-pack.ts, the upgrade rule: once a save was answered the run's pack is
\* an agent's, and no SessionEnd makes it an automatic one again.
SavedMeansAgent ==
    \A c \in Saves :
        /\ Untouched /\ Finished(c)
        /\ call[c].answer \in {"created", "hit", "upgraded"}
        => LET row == pack[call[c].run] IN row.src = "agent" /\ row.text \in Saves

\* record-decision/handler.ts: a retry of the same decision is answered with the
\* id of the first, and that row is there, on its run.
SameDecisionSameId ==
    \A d, e \in Decides :
        /\ Untouched /\ Finished(d) /\ Finished(e)
        /\ {call[d].answer, call[e].answer} \subseteq Decides
        /\ call[d].run = call[e].run /\ DescOf[d] = DescOf[e]
        => /\ call[d].answer = call[e].answer
           /\ call[d].answer \in RunWithEverything(call[d].run).decisions

\* session-end.ts, "the auto-pack is the digest the agent did not write": the end
\* of a session in which no statement failed leaves the run with a pack and out of
\* progress, and an automatic pack lists every decision the agent had been told of.
EndSettlesRun ==
    \A e \in Ends :
        LET shown == RunWithEverything(end[e].run) IN
        /\ Untouched /\ end[e].pc = "done" /\ end[e].ok
        => /\ shown.pack # NoPack /\ shown.status # "in_progress"
           /\ shown.pack.src = "auto" /\ shown.pack.id = e
                => end[e].told \subseteq shown.pack.lists

\* projects.ts: a reset or deletion that was answered as done leaves nothing of what
\* the project had when it began, not even as a row without a run.
ResetWipes ==
    reset.answer \in {"reset", "deleted"} => reset.had \cap (Export \cup Orphans) = {}

=============================================================================
