--------------------------------- MODULE Doctor ---------------------------------
(***************************************************************************)
(* contextos doctor: thirty-five checks that look at a machine at the same  *)
(* time, some of which change it while they look, and an operator who does  *)
(* what their remediations say and asks again.  A machine is what the       *)
(* checks tell apart; the commands named by the remediations are here what  *)
(* they change of it (Setup, Services and Registry have their steps).       *)
(* The daemons are those of the fallback manager, which keeps PID files.     *)
(***************************************************************************)
EXTENDS Naturals, FiniteSets, TLC

CONSTANTS
    Hooks,         \* what the caller gives contextos upgrade; the command line, nothing
    Second,        \* fields in which a second thing may be wrong at first
    MaxRounds      \* bound: reports

VARIABLES
    machine,
    todo,      \* what the remediations of the last report still ask for
    failing,   \* the checks of the last report that were not green or skipped
    full,      \* the operator asks with --full
    seen,      \* history: the machine it looked at
    round

vars == <<machine, todo, failing, full, seen, round>>

-----------------------------------------------------------------------------
(* Machines.                                                                *)

Well == [
    node |-> "ok", home |-> "private", data |-> "head", rows |-> "seeded",
    cfg |-> "ok", mcp |-> "ok", hooks |-> "ok", port |-> "default",
    secret |-> {"env", "file"},     \* process.env, .env of the project, config.json
    bridge |-> "up", server |-> "up", stranger |-> "none", bin |-> "ok",
    logs |-> "resolved", keys |-> "new", orphans |-> 0, stale |-> 0, pause |-> "none",
    ide |-> TRUE, manager |-> TRUE, pnpm |-> TRUE, update |-> "off", backups |-> 0,
    templates |-> "ok",
    pending |-> 0, oldest |-> 0, dead |-> 0, deadFor |-> 0, queue |-> "audit",
    team |-> FALSE, url |-> TRUE, cloud |-> "up", since |-> 0, lag |-> 0,
    daemon |-> "none",              \* the sync-daemon, of its PID file: no file, up, dead
    entry |-> FALSE,                \* its script is where contextos start looks for it
    slow |-> 0]                     \* a check that does not answer in time

\* A machine of a team that runs from the source tree.
Team == [team |-> TRUE, daemon |-> "up", entry |-> TRUE]

\* What can be wrong with it, as the fields that differ; numbers at the thresholds.
Ailments ==
    {[node |-> "old"],
     [home |-> "none", data |-> "none", rows |-> "none", cfg |-> "none", mcp |-> "none",
      hooks |-> "none", secret |-> {}, bridge |-> "down", server |-> "down", logs |-> "none"],
     [home |-> "none", data |-> "none", rows |-> "none", bridge |-> "down", server |-> "down",
      logs |-> "none"],
     [home |-> "file", data |-> "none", rows |-> "none", bridge |-> "down", server |-> "down",
      logs |-> "none"],
     [home |-> "locked", bridge |-> "down", server |-> "down"], [home |-> "wide"],
     [data |-> "none", rows |-> "none"], [data |-> "empty", rows |-> "none"],
     [data |-> "corrupt"], [data |-> "behind"], [data |-> "ahead"],
     [port |-> "other"], [secret |-> {"file"}], [secret |-> {}], [secret |-> {"config"}],
     [bin |-> "gone"], [bin |-> "broken"], [keys |-> "old"], [orphans |-> 1], [stale |-> 1],
     [ide |-> FALSE], [manager |-> FALSE], [pnpm |-> FALSE], [backups |-> 1],
     [url |-> FALSE, daemon |-> "dead"] @@ Team, [bridge |-> "other"] @@ Team,
     [cloud |-> "unreachable"] @@ Team,
     [pending |-> 11, oldest |-> 31], [pending |-> 101, oldest |-> 301],
     [pending |-> 10, oldest |-> 30], [pending |-> 100, oldest |-> 300],
     [queue |-> "sync", pending |-> 101, oldest |-> 301] @@ Team,
     [dead |-> 1, deadFor |-> 3600], [dead |-> 1, deadFor |-> 3601],
     [queue |-> "sync", dead |-> 11] @@ Team}
    \cup {[daemon |-> x, entry |-> e] @@ Team : x \in {"none", "dead"}, e \in BOOLEAN}
    \cup {[daemon |-> "dead", entry |-> e, queue |-> "sync", pending |-> 11, oldest |-> 31]
             @@ Team : e \in BOOLEAN}
    \cup {[daemon |-> "none", entry |-> e, lag |-> x] @@ Team : x \in {30, 300}, e \in BOOLEAN}
    \cup {[rows |-> x] : x \in {"noglobal", "noproject", "nopolicy", "norules", "overruled"}}
    \cup {[cfg |-> x] : x \in {"none", "invalid"}}
    \cup {[mcp |-> x] : x \in {"none", "invalid", "noentry", "npx", "moved"}}
    \cup {[hooks |-> x] : x \in {"none", "invalid", "missing", "legacy", "drifted"}}
    \cup {[bridge |-> x] : x \in {"down", "dead", "failing"}}
    \cup {[server |-> x] : x \in {"down", "dead", "failing"}}
    \cup {[stranger |-> x, bridge |-> IF x = "bridge" THEN "dead" ELSE "up",
           server |-> IF x = "mcp" THEN "dead" ELSE "up"] : x \in {"mcp", "bridge"}}
    \cup {[logs |-> x] : x \in {"none", "unresolved", "old"}}
    \cup {[pause |-> x] : x \in {"soft", "hard"}}
    \cup {[update |-> x] : x \in {"latest", "newer", "offline", "odd"}}
    \cup {[templates |-> x] : x \in {"gone", "missing", "bad", "markers"}}
    \cup {[lag |-> x] @@ Team : x \in {29, 30, 299, 300}}
    \cup {[slow |-> x] : x \in {9, 24, 29}}

Exists(m) == m.data # "none"
Opens(m) == m.data \notin {"none", "corrupt"} /\ m.home # "locked"
Tables(m) == Opens(m) /\ m.data # "empty"
Alive == {"up", "other"}            \* "other" was started with another secret

\* What the bridge answers to a write of .env: a pause first, then the rules of the
\* project; without a database or a rule it allows.
Decision(m) ==
    CASE m.pause = "hard" -> "deny"
      [] m.pause = "soft" -> "allow"
      [] OTHER -> IF Tables(m) /\ m.cfg = "ok" /\ m.rows \in {"seeded", "noglobal"}
                  THEN "deny" ELSE "allow"

-----------------------------------------------------------------------------
(* The checks.                                                              *)

\* A check that asks the database is skipped where check 3 has already said no.
Asked(m, verdict) == IF Opens(m) THEN verdict ELSE "skipped"
AskedTable(m, verdict) == IF Tables(m) THEN verdict ELSE "skipped"
Yellow(bad) == IF bad THEN "yellow" ELSE "green"
Red(bad) == IF bad THEN "red" ELSE "green"
Graded(n, some, many) == IF n > many THEN "red" ELSE Yellow(n > some)

NodeVersion(m) == Red(m.node = "old")

ContextosDir(m) ==
    CASE m.home \in {"none", "file", "locked"} -> "red"
      [] OTHER -> Yellow(m.home = "wide")

DataDbOpens(m) == Red(~Opens(m))

MigrationsAtHead(m) ==
    CASE ~Exists(m) -> "skipped"
      [] Exists(m) /\ (~Opens(m) \/ m.data \in {"empty", "behind"}) -> "red"
      [] OTHER -> Yellow(m.data = "ahead")

GlobalProject(m) == Asked(m, Red(~Tables(m) \/ m.rows = "noglobal"))

PolicyKeyShape(m) == AskedTable(m, Yellow(m.keys = "old"))

RunEventsRunId(m) == AskedTable(m, Red(m.orphans > 0))

BridgeRunIdLogs(m) ==
    CASE m.logs = "none" -> "skipped"
      [] OTHER -> Yellow(m.logs \in {"unresolved", "old"})

McpStdio(m) == Red(m.bin # "ok" \/ m.home \in {"file", "locked"} \/ m.data = "corrupt")

\* probeHealthz of a daemon; something else may have its port.
Healthz(state, taken) ==
    CASE state \in Alive -> "green"
      [] taken \/ state \in {"failing", "down"} -> "yellow"
      [] OTHER -> "red"

McpHealthz(m) == Healthz(m.server, m.stranger = "mcp")
BridgeHealthz(m) == Healthz(m.bridge, m.stranger = "bridge")

ProjectRegistered(m) ==
    CASE m.cfg # "ok" -> "yellow"
      [] OTHER -> AskedTable(m, Yellow(m.rows \in {"none", "noproject"}))

McpConfigValidity(m) == Yellow(m.mcp # "ok")

IdeDetection(m) == Yellow(~m.ide)
DaemonManager(m) == Yellow(~m.manager)
PnpmPath(m) == Yellow(~m.pnpm)

\* probePort: something listens on the daemon's port.
Bound(state, taken) == taken \/ state \in Alive \cup {"failing"}
Mcp3100(m) == Yellow(Bound(m.server, m.stranger = "mcp") /\ m.server \notin Alive)
Bridge3101(m) == Yellow(Bound(m.bridge, m.stranger = "bridge") /\ m.bridge \notin Alive)

\* The environment and config.json; the .env of the project is not read.
LocalHookSecret(m) == Yellow(m.secret \cap {"env", "config"} = {})

PendingDepth(m) == AskedTable(m, Graded(m.pending, 10, 100))
PendingOldest(m) == AskedTable(m, Graded(m.oldest, 30, 300))

DeadLetters(n, age) == IF n > 10 \/ age > 3600 THEN "red" ELSE Yellow(n > 0)
PendingDead(m) == AskedTable(m, DeadLetters(m.dead, m.deadFor))

InTeam(m, verdict) == IF m.team THEN verdict ELSE "skipped"

\* The state file says since when, in minutes; 0 stands for no file.
CloudReachability(m) ==
    InTeam(m, IF ~m.url \/ (m.cloud # "up" /\ m.since > 60) THEN "red"
              ELSE Yellow(m.cloud # "up"))

OfQueue(m, n) == IF m.queue = "sync" THEN n ELSE 0
SyncDepth(m) == InTeam(m, AskedTable(m, Graded(OfQueue(m, m.pending), 10, 100)))
SyncDead(m) == InTeam(m, AskedTable(m, DeadLetters(OfQueue(m, m.dead), OfQueue(m, m.deadFor))))

\* Without tables the query throws, and the check with it.
SyncLag(m) ==
    InTeam(m, IF ~m.url \/ ~Opens(m) THEN "skipped"
              ELSE IF ~Tables(m) THEN "red"
              ELSE IF m.cloud # "up" THEN "skipped"
              ELSE Graded(m.lag, 29, 299))

\* Mutant of HookRegistration: an entry with the URL is enough.
RegisteredAnyhow(m) == Yellow(m.hooks \notin {"ok", "drifted", "legacy"} \/ m.port = "other")

HookRegistration(m) == Yellow(m.hooks # "ok" \/ m.port = "other")

\* A POST to the bridge, if the project has a .contextos.json and a secret is found; the
\* secret counts in team mode.
PreToolUseLoop(m) ==
    CASE m.cfg = "none" \/ m.secret \cap {"env", "file"} = {} -> "yellow"
      [] m.bridge \notin Alive \/ (m.bridge = "other" /\ m.team) -> "red"
      [] OTHER -> Red(Decision(m) # "deny")

\* Opens data.db without asking whether it is there.
StaleRuns(m) == Yellow(~Tables(m) \/ m.stale > 0)

ActiveKillSwitches(m) ==
    CASE ~Exists(m) -> "skipped"
      [] Exists(m) /\ ~Opens(m) -> "red"
      [] OTHER -> AskedTable(m, Yellow(m.pause # "none"))

\* npm view: a version, which may be no version at all, or an error.
Published(m) ==
    CASE m.update = "offline" -> "error"
      [] m.update = "odd" -> "odd"
      [] OTHER -> IF m.update = "newer" THEN "newer" ELSE "same"

UpgradeAvailable(m) ==
    CASE m.update = "off" -> "skipped"
      [] m.update # "off" /\ Published(m) \in {"error", "odd"} -> "red"
      [] OTHER -> Yellow(Published(m) = "newer")

StaleBackups(m) == Yellow(m.backups > 0)
BundledTemplates(m) == Red(m.templates \in {"gone", "missing", "bad"})
AutoMarkerSmoke(m) ==
    IF m.templates = "gone" THEN "skipped" ELSE Yellow(m.templates = "markers")

Essential == {1, 2, 3, 4, 5, 11, 12, 14, 20, 28, 29}
Checks(all) == IF all THEN 1..35 ELSE Essential

Verdict(id, m) ==
    CASE id = m.slow -> "timeout"
      [] id = 1 -> NodeVersion(m)         [] id = 2 -> ContextosDir(m)
      [] id = 3 -> DataDbOpens(m)         [] id = 4 -> MigrationsAtHead(m)
      [] id = 5 -> GlobalProject(m)       [] id = 6 -> PolicyKeyShape(m)
      [] id = 7 -> RunEventsRunId(m)      [] id = 8 -> BridgeRunIdLogs(m)
      [] id = 9 -> McpStdio(m)            [] id = 10 -> McpHealthz(m)
      [] id = 11 -> BridgeHealthz(m)      [] id = 12 -> ProjectRegistered(m)
      [] id = 13 -> "green"               [] id = 14 -> McpConfigValidity(m)
      [] id = 15 -> IdeDetection(m)       [] id = 16 -> DaemonManager(m)
      [] id = 17 -> Mcp3100(m)            [] id = 18 -> Bridge3101(m)
      [] id = 19 -> PnpmPath(m)           [] id = 20 -> LocalHookSecret(m)
      [] id = 21 -> PendingDepth(m)       [] id = 22 -> PendingOldest(m)
      [] id = 23 -> PendingDead(m)        [] id = 24 -> CloudReachability(m)
      [] id = 25 -> SyncDepth(m)          [] id = 26 -> SyncLag(m)
      [] id = 27 -> SyncDead(m)           [] id = 28 -> HookRegistration(m)
      [] id = 29 -> PreToolUseLoop(m)     [] id = 30 -> StaleRuns(m)
      [] id = 31 -> ActiveKillSwitches(m) [] id = 32 -> UpgradeAvailable(m)
      [] id = 33 -> StaleBackups(m)       [] id = 34 -> BundledTemplates(m)
      [] id = 35 -> AutoMarkerSmoke(m)

-----------------------------------------------------------------------------
(* What the checks do to the machine while they look.                       *)

Opened(m) ==
    IF m.data = "none" /\ m.home \in {"none", "wide", "private"}
    THEN [m EXCEPT !.data = "empty", !.rows = "none", !.home = IF @ = "none" THEN "wide" ELSE @]
    ELSE m

\* A server that boots migrates the database and seeds the sentinel.
Booted(m) ==
    LET o == Opened(m)
    IN IF ~Opens(o) THEN o
       ELSE [o EXCEPT !.data = IF @ \in {"empty", "behind"} THEN "head" ELSE @,
                      !.rows = IF @ = "none" THEN "noproject" ELSE IF @ = "noglobal" THEN "seeded" ELSE @]

\* Check 29's POST has the bridge register a project it does not know; its sweep opens
\* data.db.
Probed(m) ==
    IF m.cfg = "none" \/ m.secret \cap {"env", "file"} = {} THEN m
    ELSE LET answered == m.bridge \in Alive /\ ~(m.bridge = "other" /\ m.team)
         IN Opened(IF answered /\ m.cfg = "ok" /\ Tables(m) /\ m.rows = "noproject"
                   THEN [m EXCEPT !.rows = "nopolicy"] ELSE m)

\* Check 24's file.
Noted(m) ==
    IF ~m.team \/ ~m.url THEN m
    ELSE [m EXCEPT !.since = IF m.cloud = "up" THEN 0 ELSE IF @ = 0 THEN 1 ELSE @]

\* Check 9 spawns the MCP server, check 30 opens data.db.
Touched(m, all) ==
    IF all THEN Probed(Opened(Noted(IF m.bin = "ok" THEN Booted(m) ELSE m))) ELSE Probed(m)

-----------------------------------------------------------------------------
(* The commands the remediations name.                                      *)

\* contextos init, without --force, in the project; each step may be where it stops.
Initialised(m) ==
    LET homed == [m EXCEPT !.home = IF @ = "none" THEN "private" ELSE @]
        based == [homed EXCEPT !.data = IF @ = "ahead" THEN @ ELSE "head",
                               !.rows = IF @ = "overruled" THEN @ ELSE "seeded"]
        named == [based EXCEPT !.cfg = IF @ = "none" THEN "ok" ELSE @]
    IN CASE m.home \in {"file", "locked"} -> m
         [] m.home \notin {"file", "locked"} /\ m.data = "corrupt" -> homed
         [] OTHER ->
              IF m.bin = "gone" THEN based
              ELSE IF m.mcp = "invalid" THEN named
              ELSE [named EXCEPT !.mcp = IF @ \in {"none", "noentry"} THEN "ok" ELSE @,
                                 !.secret = @ \cup {"file"},
                                 !.hooks = IF @ = "invalid" THEN @ ELSE "ok"]

\* One daemon: what runs is left alone, a stale PID file is removed, and a new one dies
\* at once where its port, its binary or its database does not serve it.
Launched(m, state, port) ==
    CASE state \in Alive \cup {"failing"} -> state
      [] OTHER -> IF m.bin = "broken" \/ m.data = "corrupt" \/ m.stranger = port
                  THEN "dead" ELSE "up"

\* The sync-daemon, which is started in team mode only, wants its script, the URL of the
\* cloud and a database.
LaunchedSync(m) ==
    CASE ~m.team \/ m.daemon = "up" -> m.daemon
      [] OTHER -> IF m.entry /\ m.url /\ m.data # "corrupt" THEN "up" ELSE "dead"

\* contextos start.  The fallback manager makes its directories with the umask's mode.
Started(m) ==
    IF m.bin = "gone" \/ m.home \in {"file", "locked"} THEN m
    ELSE LET homed == [m EXCEPT !.home = IF @ = "none" THEN "wide" ELSE @]
             boots == m.bin = "ok" /\ {m.bridge, m.server} \cap {"down", "dead"} # {}
         IN [(IF boots THEN Booted(homed) ELSE homed) EXCEPT
                !.bridge = Launched(m, @, "bridge"), !.server = Launched(m, @, "mcp"),
                !.daemon = LaunchedSync(m)]

\* contextos stop: a signal, and the PID files go.
Stopped(m) == [m EXCEPT !.bridge = "down", !.server = "down", !.daemon = "none"]

\* Time passes, an hour at least: the workers drain the queue,
\* an outage and a dead job get older.
Later(m) ==
    LET synced == Tables(m) /\ m.cloud = "up" /\ m.daemon = "up"
        drains == IF m.queue = "sync" THEN synced
                  ELSE Tables(m) /\ {m.bridge, m.server} \cap Alive # {}
    IN [m EXCEPT !.pending = IF drains THEN 0 ELSE @,
                 !.oldest = IF drains THEN 0 ELSE IF @ > 0 THEN 301 ELSE 0,
                 !.lag = IF synced THEN 0 ELSE @,
                 !.since = IF @ > 0 THEN 61 ELSE 0,
                 !.deadFor = IF m.dead > 0 THEN 3601 ELSE 0]

\* npm i -g: the newest package, which may bring migrations, if npm is there.
Installed(m) ==
    IF Published(m) = "error" THEN m
    ELSE [m EXCEPT !.bin = "ok", !.templates = "ok",
                   !.data = CASE @ = "ahead" -> "head"
                              [] @ = "head" /\ m.update = "newer" -> "behind"
                              [] OTHER -> @,
                   !.update = IF @ = "newer" THEN "latest" ELSE @]

\* contextos upgrade, which installs nothing itself.
UpgradeStatus(m) ==
    CASE Published(m) = "newer" -> "newer_available"
      [] Published(m) = "same" -> "up_to_date"
      [] OTHER -> "check_failed"

Upgraded(m) ==
    LET migrated == IF "runMigrate" \in Hooks THEN Booted(m) ELSE m
    IN CASE UpgradeStatus(m) # "up_to_date" -> m
         [] OTHER -> IF "restartDaemons" \in Hooks THEN Started(Stopped(migrated)) ELSE migrated

After(remedy, m) ==
    CASE remedy = "node" -> [m EXCEPT !.node = "ok"]
      [] remedy = "init" -> Initialised(m)
      [] remedy = "move, init" -> Initialised([m EXCEPT !.home = "none"])
      [] remedy = "chmod" -> [m EXCEPT !.home = "private"]
      [] remedy = "back up, init" -> Initialised(m)
      [] remedy = "reinstall" -> Installed(m)
      [] remedy = "start" -> Started(m)
      [] remedy = "stop, start" -> Started(Stopped(m))
      [] remedy = "free the port" -> [m EXCEPT !.stranger = "none"]
      [] remedy = "IDE" -> [m EXCEPT !.ide = TRUE]
      [] remedy = "pnpm" -> [m EXCEPT !.pnpm = TRUE]
      [] remedy = "export the secret" -> [m EXCEPT !.secret = @ \cup {"env"}]
      [] remedy = "delete the dead" -> [m EXCEPT !.dead = 0, !.deadFor = 0]
      [] remedy = "set the URL" -> [m EXCEPT !.url = TRUE]
      [] remedy = "wait" -> Later(m)
      [] remedy = "repair the cloud" -> [m EXCEPT !.cloud = "up"]
      [] remedy = "open a session" -> [m EXCEPT !.stale = IF m.bridge \in Alive THEN 0 ELSE @]
      [] remedy = "resume" -> IF Tables(m) THEN [m EXCEPT !.pause = "none"] ELSE m
      [] remedy = "upgrade" -> Upgraded(Installed(m))
      [] remedy = "reach npm" -> [m EXCEPT !.update = "latest"]
      [] remedy = "rm" -> [m EXCEPT !.backups = 0]
      [] remedy = "fix the templates" -> [m EXCEPT !.templates = "ok"]
      [] remedy = "raise the timeout" -> [m EXCEPT !.slow = 0]

\* What each check tells the operator to do, where that is something to do.
Advice(id, m) ==
    LET verdict == Verdict(id, m)
        bad == verdict = "red"
        Health(state, taken) ==
            CASE taken \/ state = "failing" -> {}
              [] OTHER -> IF state = "dead" THEN {"stop, start"} ELSE {"start"}
    IN CASE verdict \in {"green", "skipped"} -> {}
         [] verdict = "timeout" -> {"raise the timeout"}
         [] id = 1 -> {"node"}
         [] id = 2 -> CASE m.home = "none" -> {"init"}
                        [] m.home = "file" -> {"move, init"}
                        [] OTHER -> {"chmod"}
         [] id = 3 -> IF Exists(m) THEN {"back up, init"} ELSE {"init"}
         [] id = 4 -> IF bad THEN (IF Opens(m) THEN {"init"} ELSE {}) ELSE {"reinstall"}
         [] id \in {5, 12, 14, 28} -> {"init"}
         [] id \in {6, 7, 8, 16} -> {}
         [] id = 9 -> IF m.bin = "gone" THEN {"reinstall"} ELSE {}
         [] id = 10 -> Health(m.server, m.stranger = "mcp")
         [] id = 11 -> Health(m.bridge, m.stranger = "bridge")
         [] id \in {17, 18} -> IF m.stranger = "none" THEN {} ELSE {"free the port"}
         [] id = 15 -> {"IDE"}
         [] id = 19 -> {"pnpm"}
         [] id = 20 -> {"export the secret"}
         [] id = 21 -> {"stop, start", "wait"}
         [] id = 22 -> IF bad THEN {"stop, start", "wait"} ELSE {"wait"}
         [] id = 25 -> IF bad /\ m.cloud = "up" THEN {"stop, start", "wait"} ELSE {"wait"}
         [] id \in {23, 27} -> IF bad THEN {"delete the dead"} ELSE {}
         [] id = 24 -> CASE ~m.url -> {"set the URL"}
                         [] m.url /\ bad -> {"repair the cloud"}
                         [] OTHER -> {"wait"}
         [] id = 26 -> IF bad THEN {"stop, start", "wait"} ELSE {"wait"}
         [] id = 29 -> IF \/ m.cfg = "none" \/ m.secret \cap {"env", "file"} = {}
                          \/ m.bridge \in Alive
                       THEN {"init"} ELSE {"start"}
         [] id = 30 -> IF Tables(m) THEN {"open a session"} ELSE {"init"}
         [] id = 31 -> IF bad THEN {"start"} ELSE {"resume"}
         [] id = 32 -> CASE Published(m) = "error" -> {"reach npm"}
                         [] OTHER -> IF bad THEN {} ELSE {"upgrade"}
         [] id = 33 -> {"rm"}
         [] id = 34 -> {"reinstall"}
         [] id = 35 -> {"fix the templates"}

-----------------------------------------------------------------------------
(* The operator.                                                            *)

\* The home holds the database, the PID files and the logs; no home, none of them.
Sane(m) ==
    /\ m.home \in {"none", "file"} => m.data = "none" /\ m.logs = "none"
    /\ m.home \in {"none", "file", "locked"} =>
          {m.bridge, m.server, m.daemon} \cap {"dead", "failing", "up", "other"} = {}
    /\ ~Tables(m) => m.keys = "new" /\ m.orphans = 0 /\ m.stale = 0 /\ m.pause = "none"
                     /\ m.pending = 0 /\ m.dead = 0
    /\ (m.data = "none") = (m.rows = "none" /\ m.data # "empty")
    /\ m.stranger = "bridge" => m.bridge \in {"down", "dead"}
    /\ m.stranger = "mcp" => m.server \in {"down", "dead"}
    /\ m.daemon = "up" => m.team /\ m.url /\ m.entry

Machines ==
    LET one == {a @@ Well : a \in Ailments}
        two == {a @@ (b @@ Well) : a \in Ailments,
                                   b \in {x \in Ailments : DOMAIN x \subseteq Second}}
    IN {Well} \cup {m \in one \cup two : Sane(m)}

Init(on) ==
    /\ machine \in IF on THEN Machines ELSE {Well}
    /\ round = IF on THEN 0 ELSE MaxRounds
    /\ todo = {} /\ failing = {} /\ seen = Well
    /\ full \in IF on THEN BOOLEAN ELSE {FALSE}

Report(m) == [id \in Checks(full) |-> Verdict(id, m)]

\* contextos doctor [--full].  The checks start together: each may look before or after
\* those that touch the machine.
Doctor ==
    LET after == Touched(machine, full)
        early == Report(machine)
        late == Report(after)
    IN /\ round < MaxRounds /\ todo = {}
       /\ \E found \in SUBSET {id \in Checks(full) : early[id] # late[id]} :
             LET verdict == [id \in Checks(full) |-> IF id \in found THEN late[id] ELSE early[id]]
             IN /\ failing' = {<<id, verdict[id]>> : id \in
                       {i \in Checks(full) : verdict[i] \notin {"green", "skipped"}}}
                /\ todo' = UNION {Advice(id, IF id \in found THEN after ELSE machine) :
                                      id \in Checks(full)}
       /\ machine' = after /\ seen' = machine
       /\ round' = round + 1 /\ UNCHANGED full

Follow(remedy) ==
    /\ remedy \in todo
    /\ todo' = todo \ {remedy}
    /\ machine' = After(remedy, machine)
    /\ UNCHANGED <<failing, full, seen, round>>

Next == Doctor \/ (\E remedy \in todo : Follow(remedy))

ExitCode ==
    CASE \E f \in failing : f[2] \in {"red", "timeout"} -> 2
      [] OTHER -> IF failing = {} THEN 0 ELSE 1

\* contextos status, on the same machine.
Shows(state, taken) ==
    CASE state \in Alive -> "running"
      [] OTHER -> IF Bound(state, taken) THEN "unknown" ELSE "stopped"
ShowsWorker(state) ==
    CASE state = "up" -> "running"
      [] state = "dead" -> "unknown"
      [] OTHER -> "stopped"
States(m) ==
    {Shows(m.bridge, m.stranger = "bridge"), Shows(m.server, m.stranger = "mcp")}
    \cup (IF m.team THEN {ShowsWorker(m.daemon)} ELSE {})
Named(m) == m.cfg = "ok"
StatusExit(m) ==
    CASE States(m) = {"stopped"} -> 2
      [] OTHER -> IF States(m) = {"running"} /\ Named(m) THEN 0 ELSE 1

-----------------------------------------------------------------------------
(* Properties.                                                              *)

\* doctor's exit code 0 is about a machine where a write of .env asks the bridge
\* and is denied.
CleanMeansEnforced ==
    round > 0 /\ ExitCode = 0 =>
        /\ seen.hooks = "ok" /\ seen.port = "default" /\ seen.bridge \in Alive
        /\ seen.cfg = "ok" /\ Decision(seen) = "deny"

\* What no remediation repairs: what is only reported or left to the operator's eye, files
\* and pauses that init leaves as they are, what init does not come to because a step
\* before stops it, and what waits for a sync-daemon that cannot be started or that no
\* remediation starts.
Unserved(m) == m.data = "corrupt" \/ m.bin = "broken"
HalfWay(m) == m.data = "corrupt" \/ m.mcp = "invalid" \/ (m.bin = "gone" /\ ~full)
Unaided(id, m) ==
    \/ id \in {6, 7, 8, 16}
    \/ id \in {3, 4, 30, 31} /\ m.data = "corrupt"
    \/ id = 9 /\ Unserved(m)
    \/ id \in {10, 11, 21, 22} /\ (Unserved(m) \/ (m.bin = "gone" /\ ~full))
    \/ id \in {10, 17} /\ m.server = "failing"
    \/ id \in {11, 18, 30} /\ m.bridge = "failing"
    \/ id = 11 /\ m.stranger = "bridge" /\ ~full
    \/ id = 4 /\ m.update = "offline" /\ ~full
    \/ id = 32 /\ m.update = "odd"
    \/ id = 12 /\ (m.cfg = "invalid" \/ HalfWay(m))
    \/ id = 14 /\ (m.mcp \in {"npx", "moved"} \/ HalfWay(m))
    \/ id \in {21, 22, 25} /\ m.queue = "sync" /\ ~m.entry
    \/ id = 26 /\ m.daemon # "up" /\ (~m.entry \/ m.lag < 300)
    \/ id \in {23, 27} /\ m.dead \in 1..10 /\ m.deadFor <= 3600
    \/ id = 28 /\ (m.hooks = "invalid" \/ m.port = "other" \/ HalfWay(m))
    \/ id = 29 /\ \/ m.cfg = "invalid" \/ m.rows = "overruled"
                  \/ m.bridge = "failing" \/ (m.bridge = "other" /\ m.team)
                  \/ ~full /\ (m.pause = "soft" \/ m.stranger = "bridge")
                  \/ Unserved(m) \/ HalfWay(m)

\* Who follows the remediations, report after report, is left only with these.
AdviceCures == round = MaxRounds => \A f \in failing : Unaided(f[1], seen)

\* Exit code 0 of doctor --full means exit code 0 of status on the same machine, but in
\* team mode without a running sync-daemon: no check of doctor looks whether it runs.
StatusAgrees ==
    round > 0 /\ full /\ ExitCode = 0 =>
        StatusExit(seen) = IF seen.team /\ seen.daemon # "up" THEN 1 ELSE 0

\* check 28, check 29, the remediations of all checks and status.ts, together.
DoctorIsSound == CleanMeansEnforced /\ AdviceCures /\ StatusAgrees

=============================================================================
