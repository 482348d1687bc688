# A verification of ContextOS in TLA+

TLA+ modules for the parts of ContextOS (`src/`) that coordinate processes,
with TLC configurations that check them on small instances and TLAPS proofs
that hold for every size. `PROJECT.json` lists components, runs, mutants, the
lines each definition stands for, findings, hazards and theorems.

1. [The system](#1-the-system) · 2. [Modules](#2-modules-and-the-code) ·
3. [Runs](#3-runs) · 4. [Proofs](#4-proofs) ·
5. [Where code and comments disagree](#5-where-code-and-comments-disagree) ·
6. [Not modelled](#6-not-modelled) · 7. [Plan](#7-plan)

## 1. The system

ContextOS records what coding agents do and holds them to a team's policy.
On a developer's machine several processes share one SQLite file; in team mode
a daemon exchanges some of it with a Postgres database, which the web app uses.

```
agent --hooks--> hooks-bridge --+                      +--> Postgres <-- web-v2
agent --MCP----> mcp-server ----+--> SQLite <--> sync-daemon
operator ------> CLI -----------+
```

| Component | State | Operations | Talks to | Hard part | Correct when |
|---|---|---|---|---|---|
| Durable outbox (`packages/cli/src/lib/outbox`, `schedule-durable-write.ts`) | `pending_jobs`; a worker per process, with one job in flight | enqueue; claim under a lease; dispatch; delete / retry on backoff / mark dead; operator's retry | every recorder and destination | crashes anywhere, leases that expire under a running dispatch, updates not fenced by the claim | no accepted write is lost; every job settles; giving up is earned |
| Audit recorder of the bridge (`run-recorder.ts`, handlers) | memory: `sessionsOpened`, `sessionInflightInserts` | SessionStart, PostToolUse, UserPromptSubmit, SessionEnd, implicit open | outbox, `runs` | hooks in any order, jobs in any order, memory lost at a restart | events name the one run of their session; what is accepted is accounted for; ended runs are completed |
| Audit dispatcher (`dispatcher.ts`, `destinations.ts`) | `runs`, `run_events`, `policy_decisions` | insert run, close run, insert event | outbox worker | at least once, out of order | idempotent; a run is opened once |
| Cleanups (`abandon-stale-runs.ts`, `stale-runs-sweeper.ts`) | `runs` | abandon at SessionStart, cancel on a timer | `runs` | take live sessions for orphans | never touch a completed run; a close still wins (an operator's cancel may) |
| MCP tools (`get_run_id`, `save_context_pack`, `record_decision`, `check_policy`, queries) | `runs`, `context_packs`, `decisions` | open or find a run, complete it, save a pack | the same tables, without the queue | race the bridge on the unique indexes | the run handed out exists and stays |
| Cloud sync (`apps/sync-daemon/src/lib/dispatch.ts`, `schedule-audit-write-with-sync.ts`) | `sync_to_cloud` rows, Postgres copies | paired enqueue; read locally, insert in the cloud | outbox, both databases | two queues drained independently, two databases, foreign keys | the cloud shows what the machine has, and ends up showing it |
| Kill-switch exchange (`kill-switch-puller.ts`, `pause.ts`, `resume.ts`, web actions) | `kill_switches` on every machine and in the cloud | pause, resume, push, pull newer than the newest known | CLI, web app, daemon | a watermark over unsynchronised writers, rounding, failures | a pause reaches everyone; `--no-sync` does not |
| Kill-switch gate (`kill-switch-evaluator.ts`) | list cache with an expiry | check before a tool use | PreToolUse, `kill_switches` | overlapping checks, slow lookups | a pause or resume binds after one TTL |
| Policy engine (`packages/policy`) | rule cache, circuit breaker | evaluate, fail open | PreToolUse, MCP tools, check_policy | overlapping loads, timeouts with late answers | a rule binds after one TTL; the breaker recovers |
| Records of a run (`auto-context-pack.ts`, `lib/context-pack.ts`, `record-decision`, `runs-admin.ts`, `projects.ts`) | `context_packs`, `decisions`, files | automatic and agent's save, decisions, cancellation, reset and deletion | SessionEnd, MCP tools, CLI, web app | check-then-insert from several processes, resets without a transaction | the agent's text wins; a reset leaves nothing |
| Life of a daemon (`index.ts` of the three, `worker.ts`, `stale-runs-sweeper.ts`) | timer chains, requests in flight | boot, tick, serve, shut down on a signal | everything | a shutdown meets what is under way | rows are picked up; a closed database is left alone |
| Session context and reminder (`session-start.ts`, `recent-decisions.ts`, `post-tool-use.ts`, `session-state.ts`) | memory of the bridge | compose the context, count and remind | agents, `decisions`, `context_packs` | reads in steps beside writers, cut-offs, memory lost | what is told is right, due, and told once |
| Feature packs and features index (`lib/feature-pack.ts`, `features/*.ts`, web and CLI editors) | files, `feature_packs`, a cache of a minute | edit, link, load with ancestors, generate the index | agents, editors | files and rows written by several processes | an edit is seen after the TTL; index and disk agree in the end |
| Marked sections (`auto-marker`) | files | regenerate, save | CLI, web editor | replacement by line numbers | the user's text survives |
| init and uninstall (`lib/init`) | the user's settings, `.mcp.json`, `.env` | merge, take out | the operator | crashes between and inside files, foreign entries | others' entries stay; twice is once |
| Services (`start`, `stop`, `db backup`, `db restore`) | processes, PID files, `data.db` and its log | spawn, kill, copy, replace | daemons | processes that drain, die, come back; stale PID files | restores happen offline; nothing acknowledged is lost |
| Projects and policies (`resolve-project-slug.ts`, `ensure-*.ts`) | `projects`, `policies`, `policy_rules`, two caches | resolve, ensure, rename, remove | every process | inserts that race, deaths between statements | a slug has one row, a seeded policy its whole baseline |
| Migrations (`migrate.ts`, `db-migrate`, `cloud-migrate`, the lock of hand-written blocks) | schema, log of migrations, lock file | migrate at every boot, on demand, in the cloud | every process | two migrators that read the same last migration | the log tells the schema; losers recover |
| Readers (`list_context_packs`, live page, `logs --follow`) | a cursor, a date, a position | read what is newer | `context_packs`, run tables, log files | whole seconds, files that are truncated | nothing is left out, or not for ever |
| Doctor (`doctor`, `status`, `upgrade`) | none of its own | thirty-five checks at once, remediations | the whole machine | checks that change what others look at | green means enforced; advice leads to green |
| Adapters, HTTP plumbing, text search, code graph, exports, web pages | | see `components` | | text and queries | |

## 2. Modules and the code

```
DurableWrite  <== Outbox   <-- MCOutbox, OutboxProofs
RunLifecycle  <== SessionAudit <-- MCSessionAudit, SessionAuditProofs
                      ^ extended by CloudSync <-- MCCloudSync, CloudSyncProofs
KillSwitchGate + PolicyClient = PreToolUse <-- MCPreToolUse, PreToolUseProofs
RunRecords     <-- MCRunRecords, RunRecordsProofs
KillSwitchSync <-- MCKillSwitchSync
      MCBackground = MCKillSwitchSync + Daemons, FeatureFiles, Readers  <-- BackgroundProofs
Workstation    = Services + Registry + Migrations + SessionContext + Reminder
                 + MigrationLock + FeaturePacks + Setup
      MCWorkstation = Workstation + AutoMarkers, Doctor
      WorkstationProofs, MachineFilesProofs --> Workstation
```
(`<==` is implemented by, checked as a PROPERTY and proved; `<--` is extended by;
`+` and `=` are INSTANCEs.) MCWorkstation and MCBackground check several modules
in one run: the variable `part`, chosen at the start, says which of them moves,
and the others stand still. Their states are a sum, not a product: they show
each module by itself, and no interplay of two of them. Workstation holds the
parts of MCWorkstation that are proved about; its constants are theirs, and so
the theorems are about any values of them. PreToolUse is a true
composition, on one clock.

**DurableWrite**: what the outbox promises its callers: an accepted write
stays open until it is delivered or, in front of an operator, dead, and leaves
the table only when delivered.

**Outbox**: `row` is the table, `worker` the processes. `Claim` is the one
UPDATE of `#claim`; `DispatchSucceeds`, `DispatchFails`, `DispatchRefuses` are
the handler's outcomes; `Settle` is `#deleteJob`, `#markDead` or
`#scheduleRetry`, addressed by id alone as in the code; `SettleFails` is the
logged failure after which the row stays picked. `Crash` may happen in every
state of a process. Times are relative and saturate, so the clock is unbounded.

**RunLifecycle**: a row of `runs` is opened once and keeps its id; completed is
final but for an operator, whose cancellation found the run open (`AskCancel`,
`Cancel`) or whose reset deletes the project's runs.

**SessionAudit**: one project's sessions. `SessionStart`, `ToolUse`,
`SessionEnd` are the handlers, each with all it calls; `ImplicitInsert`,
`EnqueueEvent`, `FlipAtEnd` are the promises they leave behind; `DispatchOpen`,
`DispatchClose`, `DispatchEvent` the worker's jobs on the queue DurableWrite
promises (at least once, in any order, or given up); `GetRunId`,
`SaveContextPack`, `Sweep` the other writers of `runs`; `LookToCancel` and
`CancelRun` the SELECT and the UPDATE of `cancelRun`; `ResetTrail` and
`DeleteRuns` what `resetProject` deletes, in two of its statements; `Crash` loses
the bridge's memory. A run id is represented by who minted it and how many
resets there were before. `TurnOf` gives an event its turn: the id of its row is
the session and the turn (`RowId`, the hash of buildRunEventId), a prompt has no
turn, and `RowWritten` is the ON CONFLICT DO NOTHING that keeps the first row of
an id.

**CloudSync** extends SessionAudit with the sync daemon: `Paired` is the second,
separate insert of `scheduleAuditWriteWithSync`; `BeginPush` claims a job and
reads its row; `FinishPush` is the insert in Postgres with its foreign key and
its `ON CONFLICT`; events that share a row id share it there too (`Holder`,
`InCloud`). The operator's commands enqueue nothing for the cloud. The projects
row is taken to be in Postgres, and an insert in flight to die with the daemon.

**KillSwitchSync**: every machine's table and the cloud's, the push and the
pull as interruptible reads and writes. Stamps are half seconds, so that the
whole seconds of SQLite and the fractions of Postgres differ. `MAX(paused_at)`
comes through a raw `sql` fragment as SQLite's number, which the timestamp column
of the SELECT cannot encode: `SinceIsDate` lets that SELECT succeed only where the
machine knows no switch and since is `new Date(0)`. `MaxIsDate` is FALSE in every
run; TRUE would be a puller that maps the number, and the proofs hold for it too.

**KillSwitchGate**: concurrent checks over one cached list. `Begin` serves the
cache or starts a lookup, `Fetch` answers it at any later time or throws (fail
open), `Store` caches and answers.

**PolicyClient**: rules are loaded in steps (`policies`, then `policy_rules`)
behind a timeout, and inside it a breaker; a load that was given up goes on, and
its answer counts for the breaker only. The cache is dated when a load ends.
**PreToolUse** puts KillSwitchGate in front of it: a hook in flight is first a
check and then, where no switch fits, an evaluation.

**RunRecords**: every handler that keeps something of a run is a list of steps
(`CallSteps`, `EndSteps`, `ResetSteps`), one per statement, and each may fail.
Scenarios pick who takes part, so that the interleavings of a few actors are
complete.

**Daemons**: one process of a `kind`; an action is what runs between two
awaits. `chain` is the second timer chain (sweeper or puller), `Steps` the
shutdown of that daemon in its order, and the signal handlers may run it twice.

**SessionContext**: `question` says what is looked at: the files or the
decisions of a SessionStart, or a tool that reads back. The first two share
nothing before `Composes`, and steps of others that commute with those of the
SessionStart are taken at its beginning. **Reminder**: the counter of one run,
with overlapping events.

**FeaturePacks**: `disk` and `rows` are written by `op`, the command under way,
in its steps; `get` is the MCP server's load. **FeatureFiles**: a generation
lists, reads one feature after the other, and writes two files. **AutoMarkers**:
a file is a sequence of marker, fence and text lines; parser and replacement are
functions on it.

**Setup**: `Own(f, ...)` is what the user has in a file; a command merges one
file after the other, and may be torn inside those written in place. The hook
entries of an event are a set, in the order of their places; `Changed` is what
an editor may do to them, earlier versions of init included (`Earlier`).
**Services**: processes, PID files, and a database of a file and its log, which
a restore takes apart. **Registry**: statements of several callers on
`projects`, `policies`, `policy_rules`, with `slugOf` and `idOf` the resolver's
caches. **Migrations**: a migrator reads the log and then applies what is newer
in one transaction, which fails where a migration cannot be run twice.
**MigrationLock**: --write and the check against any edits.

**Readers**: stamps are whole seconds; a page has a cursor, the live page a
Last-Modified, the log a position. **Doctor**: `machine` is a record of what the
checks tell apart, the three workers with their PID files among them; a check
reads and perhaps writes it, in any order with the others, and `Follow` does
what a remediation says.

## 3. Runs

| Run | Instance and bounds | Shows |
|---|---|---|
| `outbox` | 2 workers, a good and a malformed job, 3 attempts, 2 faults, 2 failures | no write lost, claims numbered, giving up earned, jobs settle (liveness), implements DurableWrite; also the inductive invariant of the proof |
| `outbox_lease` | the same, 1 job | violation: a stale worker's retry lets a row be claimed inside a running lease |
| `session_audit` | 2 sessions, 2 prompts of one that share a row id, 1 trouble (a failure, a crash, a cancellation or a reset) | one run for all writers, links, every accepted event is accounted for, implements RunLifecycle |
| `session_prompts` | 1 session, 2 prompts, no trouble | violation: the second prompt of a session gets no row |
| `session_ended` | the same, no trouble, one session may be resumed | violation: a session whose start was missed is not closed |
| `cloud_sync` | 1 session, 1 event, 2 attempts, 1 trouble of the bridge, 1 fault in all for the cloud | the cloud agrees, completed runs stay but for an operator, ended runs complete, fresh closes and events arrive (liveness) |
| `cloud_close` | the same, no fault at all | violation: a close pushed before its local update is never repeated |
| `pre_tool_use` | 2 switches, one expiring, 2 hooks (symmetric), 2 policies, clock 3, TTLs of 1, in 4 scenarios that divide calls, operator's steps and faults | pauses, resumes, expiries and rules bind after one TTL; the breaker refuses only after failures and always tests again; the answer is the one that is due |
| `run_records` | 2 runs, in 6 scenarios: saves with ends, decisions told twice, cancellations, resets, each with at most one failure | the agent's pack stays, a decision has one id, an end settles its run, a reset leaves nothing |
| `workstation` | see below; about 901,000 states | the ten parts of MCWorkstation |
| `background` | 2 machines and 3 switches: a `--no-sync` and a synced one of the machines with one failure, or two from the web with none; the three daemons with two signals and two rows; two generations over three features; four packs in pages of one, one live run, one log with two reads | what nobody waits for happens in the end (liveness), nothing touches a closed database, sessions are told what is on the disk, readers miss nothing |
| `ks_local_hides` | a local and a web switch | violation: a machine that knows a pause never pulls another |

*Bounds of `workstation`.* Marked files: four starting files with two names, one
that is nested, one with an invalid name, up to 6 lines. Packs: two slugs, a TTL
of one, one write while one load is under way. Setup: three events of which two
are ours, one user entry, at most three entries of an event after an edit, one
edit and three commands, from nothing or from the entries of an earlier version.
Services: two daemons, one with a port, three PIDs, two transactions, three
commands, one death. Registry: two callers, two slugs, one rename or removal.
Doctor: five rounds, with every field of the machine that a second problem may
be in. Migrations: three processes, of which one is an old daemon, databases
that are empty or at 9, the heads 9 and 10 and the migrations 2, 5 and 8 that
may run twice. MigrationLock: three edits of a file of at most seven lines with
two markers. SessionContext: two runs, three decisions of high or no stated
confidence, a block of one for which two are loaded, two days, one trouble (a
failed query, a reset or a changed file). Reminder: four events, a threshold of
two, one restart.

*Why the bounds are enough to be interesting.* Two workers and a lease of one
second let a dispatch outlast its lease, be reclaimed, and settle late; three
attempts separate first, middle and last. Two sessions are what abandoning
needs, and two prompts of one of them are what may meet in a row. `cloud_sync`
has one event, as two do not fit beside its faults; that events which share a
row id agree in the cloud too is proved (`CloudTellsTheSame`) for any number of
them. Its one trouble may be a cancellation or a reset. No session is resumed in
the passing runs: a resumed one may be reopened and closed without end, and
`OpenRunsComplete` would be about the last close only; the proofs of
SessionAudit cover any resumption. With two machines and two switches every
order of pause, commit, pull and push occurs, two stamps share a second, and one
second separates others. Two hooks are enough for an old list to be stored over
a young one, and for a late answer to meet a test call. In SessionContext a
cut-off of two before the sort and one after it is enough for a decision to be
lost to either.

*Deadlock* is checked where the system never stops (outbox, kill-switch
exchange); the other modules are finite scripts of hooks, commands and edits and
may end.

*Fairness.* Weak fairness only. A worker that runs claims again and again (the
timer chain re-arms itself in a `finally`); awaited statements settle; a dead
bridge is restarted by its supervisor (Outbox); the daemon's two chains tick.
`cloud_sync` assumes no more than the ticks of the daemon and that the bridge's
worker comes to a close (`DrainedSpec`); only its violation run assumes all the
bridge's promises too. In
`background`, armed timers fire and what they started settles, a generation of
the index goes on and sessions go on starting, the page polls while it is shown
and is answered. That a worker ticks again, which Outbox assumes, is what
`RowsArePickedUp` shows of Daemons. PolicyClient assumes prompt timers: a
timeout that is due fires before the clock moves on, which the event loop gives
up to its own lag.
Nothing is assumed of agents, operators, failures or the network beyond the
bounded number of failures; a job may always fail until it is dead, and the
liveness properties say so.

Every property of a passing run has a mutant: the definition of the code it
watches, changed the way a bug would change it (`mutants` in `PROJECT.json`;
the mutated forms stand next to the originals).

## 4. Proofs

TLAPS checks the proofs for any number of jobs, workers, sessions, events,
switches, checks, runs, machines, processes and callers, any bounds, under the
modules' named ASSUMEs.

- `OutboxProofs`: the invariant `IInv` adds to the properties what a busy
  worker knows of its row (`ClaimsOK`: its attempt is positive and not beyond
  the row's, a success has landed) and `RowsOK`. Without them `NoWriteLost` is not inductive: a settling
  worker could delete a row whose write it never made. `AttemptsAccounted`
  needs the cardinality of the workers still trying, hence the lemmas on finite
  sets. Results: `TypeCorrect`, `WritesAreNeverLost`, `ClaimNumbering`,
  `GivingUpIsEarned`, `Refinement` (of DurableWrite).
- `SessionAuditProofs`: all writes of `runs` are one of four changes
  (`RunsChange`) or an operator's, which have lemmas of their own; all but the
  reset keep rows and ids, and `wiped` says whom a reset met. `IInv` adds that an opened session
  has its run, is getting it or is exempt, and that only accepted events are
  queued: that is what makes waiting for the insert enough. Results:
  `OneRunForAll`, `WaitingLinks`, `EventsAreAccountedFor`, `Refinement` (of
  RunLifecycle). The third is for any sharing of row ids: a tool use, alone with
  its id, has its own row; of a session's prompts only the first has.
- `CloudSyncProofs`: `Composition` shows that CloudSync implements
  SessionAudit, so its invariant comes for free. What is added is about the row
  in flight: its id is its run's, and it is neither ahead of the local row nor
  behind what the cloud shows; the latter needs that one dispatch is in flight and
  that completed is final on the machine for all but an operator, whose runs are
  exempt (`Overturned`). Results: `CloudTellsTheSame`,
  `NoRunReopens`.
- `PreToolUseProofs`: of KillSwitchGate by itself, the invariant is that a list,
  cached or in a check's hands, was the table's answer at some moment of its
  window (`TypeCorrect`, `WindowIsBounded` for pauses, `ResumesAreSeen` for
  resumes and expiries). Then `HooksImplementGate` maps every step of a hook to one of
  KillSwitchGate or to a stutter, so the windows hold of the composition
  (`SwitchesBind`). For the engine, `HInv` says what each list of rules, cached,
  in an evaluation's hands or still being loaded by one that has timed out, was
  read after; that is more than `RulesBind` says, because the list is dated when its
  load ends. The breaker needs the evaluation that holds the test call, which
  may have timed out long ago. Results: `RulesBindCalls`, `BreakerRecovers`,
  `HookDecides`, `PolicyIsTyped`.
- `RunRecordsProofs`: `IInv` = types and foreign keys (`TypeInv`), and what a save
  knows of its row between its statements (`SavesOK`), a decision of its twin
  (`DecisionsOK`), a SessionEnd of its run and pack (`EndsOK`), and which tables
  a reset has emptied of the project's old rows at each of its statements
  (`WipeOK`). The last is the longest: a reset is not a transaction, the other
  processes write between its DELETEs, and each table is empty of old rows only
  from its own statement on. Results: `SavesWin`, `RetriesAgree`, `EndsSettle`,
  `ResetsWipe`, `RecordsAreTyped`.
- `BackgroundProofs`: of KillSwitchSync, that a local pause is in no queue, push
  or pull (`LocalOnly`), and, where all comes from the web, that a row a machine
  lacks is newer than the cursor, the select under way and all it knows (`WebInv`).
  `CursorHidesNothing` assumes PromptCommits, as the code needs it (section 5).
  Of Daemons, `DaemonInv` is the order of each shutdown: what is stopped has no
  timer, and the database is closed by the last step only.
  Of Readers, `ListInv`: what an agent has seen lies before its cursor, what
  there was and is lies behind it or was seen, page by page (`PagesAre`: a page
  is a first part of the rows in their order, with an oldest row); and
  `FollowInv`: all is printed up to the position, and what was heard of is
  printed or in the hands of a read that knows the size of the file. Of
  FeatureFiles, `WalksInv`: during a walk, what is steady was read or will be, and
  the rows of a list have a slug each, so that they are finitely many and have a
  sum of sizes; the injected block is the first of them that fit, and the next
  does not (`FeaturesHold`).
  Results: `NoSyncPausesStay`, `CursorHidesNothing`, `ShutdownsKeepOrder`,
  `ClosedDbStaysQuiet`, `SyncIsTyped`, `SwitchesRun`, `ReadersHold`,
  `FeaturesHold`.
- `WorkstationProofs`: six invariants, one per part.
  *Registry*: what a call has learned of a slug or an id stays true while it
  waits, though the row may go to `lost`; and a filled policy has every rule of
  the baseline or the history says who took it (`RegistryHolds`).
  *Services*: processes are reachable through the PID file or the command that
  is about to write it (`ProcessesInv`), a restore past its guard is alone or
  its risk is excused (`RestoreInv`), and every log belongs to the file beside it
  (`FilesInv`); the three are proved together (`ServicesHold`).
  *Migrations*: what a migrator has read last is the newest migration, or the
  newest has become the head of a package in the meantime (`MigratorOK`). A
  head cannot be run twice, so a transaction that commits began at the
  newest one, and the log grows by an interval. This rests on
  MigrationsAssumption: the newest migration of either package adds columns
  (0009, 0010) and is not Replayable (`MigrationsHold`).
  *MigrationLock*: the lock has the blocks of the last --write, with a date for
  each, and both sides are looked up by marker. So a check that is ok has compared
  every block whose marker is its own, and a --write over an unchanged file keeps
  its dates (`LockHolds`, part of `MigrationsHold`).
  *Reminder*: a fired reminder is on its way, sent, or needless, and one event
  at most asks for it (`RemindersHold`).
  *SessionContext*: ids number the decisions, and a selected run is ours or
  gone for good (`Selected`); so query_decisions finds every decision that a
  start selects. What was cut off rests on `FirstsAre`: the first n of a finite set in a
  strict order are n, and before all others. Until a reset, a pack names decisions its run
  still has (`Cited`). Result, with the reminder: `SessionsHold`.
- `MachineFilesProofs`: two more parts of Workstation.
  *FeaturePacks*: how old what a call, a cache entry or a path of parents carries
  can be, counted from when the disk was last changed (`EntryOK`, `PathOK`,
  `ReadOK`). A path is compared with the chain of parents on the disk link by
  link, which needs no induction over its length (`PacksHold`).
  *Setup*: a file is what its kind may be and the user's part of it as the user
  last wrote it (`FilesAreOwn`); the steps a command has done stay done unless
  somebody edits (`CmdIsSound`); what it is about to write is right for the file
  as it read it (`NextIsSound`); a repeated command finds every file as it would
  write it (`RepeatIsSound`). The properties follow from what the last command said
  (`SetupHolds`).

The assumptions are those a configuration of the code meets: positive bounds and
timeouts, ids that are not the null value, the two named above, and in
SetupAssumption that a hook of the user's is not one of ours under another name.
Induction over numbers, where a proof needs it (the least free PID), is by the
least counterexample (`WFMin` on Nat), which needs no operator as a parameter.

Only model-checked: the liveness properties (`JobsSettle`, `OpenRunsComplete`,
`FreshClosesReachCloud`, `EventsReachCloud`, `PausesReachEveryone`, those of
`background`), as liveness under fairness, like ENABLED, is out of the prover's
reach; and two invariants:

- `OwnTextSurvives` is about AutoMarkers' parser and replacement, folds over the
  lines of a file: what a fold computes for every input is induction over data;
- `DoctorIsSound` is about thirty-five concrete checks of one concrete machine;
  there is nothing to generalise over.

## 5. Where code and comments disagree

Each *violation* run is a finding in `PROJECT.json`, with both lines quoted:
the lease (`outbox_lease`), the missed start (`session_ended`), the dropped
prompts (`session_prompts`), the stale close (`cloud_close`), the pause that is
never pulled (`ks_local_hides`). Also met, without a run of their own:

- `types.ts:47` speaks of failed attempts; `attempts` counts claims, crashes
  included (`AttemptsAccounted` says what is true).
- `kill-switch-puller.ts:69` reads `MAX(paused_at)` through a raw `sql`
  fragment that nothing maps to a Date, so the SELECT at 75 gets a number as soon
  as the machine knows a switch, throws, and "will retry next tick" is all that
  happens. What the puller still promises is `FirstPullBringsAll`.
- Were it a Date (`MaxIsDate = TRUE`), a pulled row whose upsert fails would not
  be tried again once a newer one raised the watermark, against "Next tick
  re-tries" (puller, 28); nor would a web pause committed later than one stamped
  after it (`PromptCommits = FALSE`), or one older than a pause of the machine.
- A web resume is not pulled and a CLI resume is not pushed, so the two sides
  stay different (`dispatch.ts:180-182`); a push repeated after a web resume
  takes it back, and an upsert of rows selected before a resume on the machine
  takes that back.
- The pair of `scheduleAuditWriteWithSync` is two statements: a SIGTERM between
  them leaves one row, not "BOTH" (18-25).
- `session_open` looks its cloud row up by the id it minted; if get_run_id or
  the implicit insert opened the run, that job finds nothing until it is dead,
  and the run, with its events behind the foreign key, reaches the cloud at its
  close, by which time the events may be dead (`dispatch.ts:42-47` expects 30 s).
  Abandoned and cancelled runs are not pushed.
- `destinations.ts:14` promises a status guard `closeRun` does not have; it is
  needed neither for idempotence of the status nor by any property here.
- session_close dispatched before a retried session_open leaves a run that
  opens after its end; the sweeper cancels it.
- `recordSessionStart` remembers the session as opened even if its enqueue
  fails, so no later event opens the run; `UnlinkedIsExplained` exempts it.
- `recordPolicyDecision` starts the implicit insert and does not wait for it.
- The policy client wraps the timeout around the breaker: a timed-out call is
  not by itself a failure the breaker counts. A database that stays slow fails
  open for ever, and a test call that hangs keeps the breaker half open.
- `policy.ts:210` compiles `ask` to allow, where
  `ensure-default-policy.ts:72-74` means the agent's own prompt; rules with an
  agent type never apply (`policy.ts:260`).

Records: `cancelRun` looks and then updates by id, so a run that completed in
between is shown as cancelled (`runs-admin.ts:289`, against the
`already_terminal` its comment promises at 275-277; `overruled` in SessionAudit,
and `RunLifecycle` allows it); a reset deletes the events of the runs it has read
and then all runs, so the events of a run opened meanwhile stay, without a link
(`projects.ts:284`); `markRunCompletedOnSessionEnd`
excludes completed runs only, where its comment says `status='in_progress'`, so
an end completes an abandoned or cancelled run, as SessionAudit needs it to;
`deleteProject` may answer not_found after part of its deletions; the automatic
pack's file may replace the agent's file though its row does not; two saves over
one automatic row both answer upgraded; a save whose insert meets the unique
index throws and leaves its run open.

Daemons: `puller.stop()` does not wait for its pull, whose database may then be
closed under it; the MCP server takes SIGINT and SIGTERM once each, so two
shutdowns may overlap, and it does not wait for stdio calls; an open event stream
keeps `server.close` from resolving.

Packs and features: a regeneration may overwrite a save between its read and its
write; `pack new` without --force may overwrite a pack created while its
template loads; a load during `pack delete` may set `is_active` again; only
cycles of two are refused when packs are linked. The serializer promises
`serialize(parse(x)) === x`, but the parser drops opening tags with an invalid
name (`parser.ts:67-74`). `editFeatureMeta` drops owners and tags; overlapping
generations, or a crash, leave INDEX.md and INDEX.json apart until the next one.
The loader drops "the OLDEST first so the most-recently-touched features survive",
but one entry may exceed the 12 KB by itself (`schema.ts:41-52` bounds characters,
of up to three bytes each); if the latest does, none is shown.

Machine: shared hook entries are dropped whole although "existing user hooks
preserved"; `.mcp.json`, `.env` and `.contextos.json` are written in place, so a
crash truncates them. `contextos upgrade` prints "Migrations: applied
(idempotent)" without having migrated (`upgrade.ts:130-179`). `db-restore.ts:17`
refuses "if any of the three daemons are alive", but sees PID files only, and
`stop` unlinks them without waiting; the automatic backup copies data.db without
its log; `start` may take the answer of an old, draining process for the new
one's health. drizzle reads the last migration before BEGIN, so the loser of two
boots fails, and is cured by starting again; `cloud-migrate` lacks
`kill_switches` in its list (63-75) and refuses a second run although "Safe to
re-run". Of two blocks of one name in a migration file only the last is locked.
A renamed project is created again from the slug in `.contextos.json`; nothing
makes `(project, name)` of policies unique; the NULL glob of Bash rules escapes
their unique index; `policy enable` without --project takes any project's.

Readers: `query_run_history` reports cancelled runs as in progress
(`handler.ts:118-122`); a Last-Modified of whole seconds hides the later rows of
a second; `logs --follow` does not serialise its reads, so a truncation may
repeat lines, and loses what is written between the first print and its stat.
A confident decision that is older than the newest forty is never told at a
SessionStart; `read_context_pack` keeps the oldest decisions of its limit. A
restart or an end forgets the reminder's counter, so the agent may be reminded
again (`session-state.ts:12-15` says so), and tool uses before the runs row has
landed are not counted; `session-state.ts:10` clears the counter on Stop, which
no handler does.

Doctor: `--full` spawns the real MCP server, which migrates and seeds; two
checks create a missing data.db with default modes, which another reports and
init does not repair; a soft pause turns the probe of check 29 red and a hard
one green; no check looks whether the sync-daemon runs, which `status` counts in
team mode, so `doctor --full` may answer 0 where `status` answers 1; `start`
looks for its script beside the home directory (`services.ts:119`), where only a
source tree may have it; broken JSON of the settings is repaired by no
remediation; check 20 never reads the `.env` that init writes. These are in
`Unaided`, the failures that following the advice does not cure.

## 6. Not modelled

Adapters and key building, templates, exports, the text of units and prompts,
the text search, the code graph and the rendering of pages: pure functions of
text, or queries without a second step. HTTP and MCP protocol plumbing is the
libraries'. `components` gives the reason for each part, and what is left out of
those marked partly. What is abstracted in the modules present: payload
contents, timestamps that no property compares, malformed payloads beyond
"refused", the postgres branches of statements that exist twice (they are the
same statements), a second machine writing the same session, and, in SessionAudit,
the deletion of the project and the cancellation of all its runs (RunRecords has
both). The parts of
MCWorkstation and MCBackground meet in files and rows (init with the daemons it
starts, doctor with everything) that their models keep apart.

## 7. Plan

Modelled, in the order of their weight: outbox, sessions' audit, cloud sync,
kill switches and the gate; then the policy engine and the PreToolUse hook, the
records of a run, the daemons, and the files, processes and registry of a
machine. Proved, in the order of section 4, of every module but AutoMarkers and
Doctor.

What is left: to state the parser of AutoMarkers as a function on the lines, for
a prover that has induction over sequences; and the components that section 6
leaves out, should they come to keep state.
