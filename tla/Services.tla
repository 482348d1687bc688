-------------------------------- MODULE Services -------------------------------
(***************************************************************************)
(* contextos start, stop, db backup and db restore around the daemons and   *)
(* the database file they have open: the fallback manager's PID files, a    *)
(* supervisor (systemd, launchd) that has none, processes that are still    *)
(* draining after a stop, die or come back, and a restore that replaces the *)
(* file by rename.  One command runs at a time and may die at any step.     *)
(***************************************************************************)
EXTENDS Naturals, FiniteSets, FiniteSetsExt

CONSTANTS
    Units,       \* the services
    Ported,      \* those with a port: the MCP server and the bridge
    Pids,        \* 1..n: processes, in the order they are spawned
    Txns,        \* 1..n: transactions, likewise
    MaxCommands, MaxDeaths   \* bounds: commands, deaths of processes and commands

VARIABLES
    manager,     \* "fallback" or "supervisor"
    proc,        \* proc[p]: its unit, its state, the database file it has open
    pidfile,     \* pidfile[u]: a pid or 0
    cmd,         \* the command under way
    db,          \* data.db, its write-ahead log, and whether a foreign log got in
    copies,      \* backups: sets of transactions
    acked,       \* history: the transactions that were committed
    orphans,     \* history: processes whose start died before it wrote the PID file
    excused,     \* history: why transactions may be lost
    told,        \* history: what the last command said, until a process changes
    commands, deaths

vars == <<manager, proc, pidfile, cmd, db, copies, acked, orphans, excused, told, commands, deaths>>

Nobody == [unit |-> "none", st |-> "none", file |-> 0]
NoCmd == [do |-> "none", unit |-> "none", at |-> "none", pid |-> 0, copy |-> {}, auto |-> FALSE,
          risky |-> FALSE]
NoTale == [say |-> "nothing", unit |-> "none", copy |-> {}]
Tale(what) == [say |-> what, unit |-> cmd.unit, copy |-> cmd.copy]

Alive(p) == p \in Pids /\ proc[p].st \in {"booting", "up", "draining"}
Of(u) == {p \in Pids : Alive(p) /\ proc[p].unit = u}
Listening(u) == {p \in Of(u) : proc[p].st # "booting"}
Readers(file) == {p \in Pids : Alive(p) /\ proc[p].file = file}

\* What a connection sees: a log counts whose file it is beside, whatever file it was
\* written for.
Visible(d) == d.main \cup d.wal
NoLog(d) == [d EXCEPT !.wal = {}, !.of = d.ino]
Checkpointed(d) == [NoLog(d) EXCEPT !.main = Visible(d)]
\* Opening the database recovers the log; one of another file corrupts it.
Opened(d) == [d EXCEPT !.torn = @ \/ (d.wal # {} /\ d.of # d.ino), !.of = d.ino]

\* A daemon that is up, with an older backup; or none yet.
Init(on) ==
    /\ manager \in {"fallback"} \cup IF on THEN {"supervisor"} ELSE {}
    /\ proc \in {[p \in Pids |-> Nobody]} \cup
          IF ~on THEN {}
          ELSE {[p \in Pids |-> IF p = 1 THEN [unit |-> u, st |-> "up", file |-> 1] ELSE Nobody] :
                  u \in Units}
    /\ pidfile = [u \in Units |-> IF manager = "fallback" /\ proc[1].unit = u THEN 1 ELSE 0]
    /\ cmd = NoCmd /\ told = NoTale
    /\ db = [main |-> {}, wal |-> {}, of |-> 1, ino |-> 1, torn |-> FALSE]
    /\ copies = {{}} /\ acked = {} /\ orphans = {} /\ excused = FALSE
    /\ commands = (IF on THEN 0 ELSE MaxCommands) /\ deaths = IF on THEN 0 ELSE MaxDeaths

Keeps == UNCHANGED <<manager, commands, deaths>>
Data == <<db, copies, acked, excused>>

-----------------------------------------------------------------------------
(* Commands.                                                                *)

Begin(c) ==
    /\ cmd = NoCmd /\ commands < MaxCommands /\ commands' = commands + 1
    /\ cmd' = c /\ told' = NoTale
    /\ UNCHANGED <<manager, proc, pidfile, db, copies, acked, orphans, excused, deaths>>

At(do, pc) == cmd.do = do /\ cmd.at = pc
Goes(pc) == cmd' = [cmd EXCEPT !.at = pc] /\ told' = NoTale
Ends(what) == cmd' = NoCmd /\ told' = Tale(what)

Booting(u) == [unit |-> u, st |-> "booting", file |-> 0]
Fresh == {p \in Pids : proc[p] = Nobody}

\* install() writes the unit; then status(): a live process is left alone, the PID
\* file of a dead one removed.
StartChecks ==
    /\ At("start", "check") /\ Keeps /\ UNCHANGED <<proc, orphans, Data>>
    /\ IF manager = "supervisor" THEN Goes("spawn") /\ UNCHANGED pidfile
       ELSE IF Alive(pidfile[cmd.unit]) THEN Goes("health") /\ UNCHANGED pidfile
       ELSE Goes("spawn") /\ pidfile' = [pidfile EXCEPT ![cmd.unit] = 0]

\* Mutant of Spawns: the supervisor's start and the fallback's are the same.
SpawnsAnyhow(u) == TRUE

\* systemctl start and launchctl bootstrap do nothing for a unit that runs; while it
\* stops they wait for its end.
Spawns(u) == manager = "fallback" \/ Of(u) = {}

StartSpawns ==
    /\ At("start", "spawn") /\ Keeps /\ UNCHANGED <<pidfile, orphans, Data>>
    /\ IF Spawns(cmd.unit)
       THEN /\ Fresh # {}
            /\ proc' = [proc EXCEPT ![Min(Fresh)] = Booting(cmd.unit)]
            /\ cmd' = [cmd EXCEPT !.at = IF manager = "fallback" THEN "pid" ELSE "health",
                                  !.pid = Min(Fresh)]
            /\ told' = NoTale
       ELSE Goes("health") /\ UNCHANGED proc

StartWritesPid ==
    /\ At("start", "pid") /\ Keeps /\ UNCHANGED <<proc, orphans, Data>>
    /\ pidfile' = [pidfile EXCEPT ![cmd.unit] = cmd.pid]
    /\ Goes("health")

\* waitForHealth: whoever answers on the port will do; without a port nothing is asked.
StartAsks ==
    /\ At("start", "health") /\ Keeps /\ UNCHANGED <<proc, pidfile, orphans, Data>>
    /\ \/ cmd.unit \in Ported /\ Listening(cmd.unit) # {} /\ Ends("healthy")
       \/ cmd.unit \in Ported /\ Ends("unhealthy")
       \/ cmd.unit \notin Ported /\ Ends("started")

\* SIGTERM: shutdown() of a process that is up, the end of one that boots.
Signalled(p) ==
    [proc EXCEPT ![p] = IF @.st = "booting" THEN [@ EXCEPT !.st = "gone"]
                        ELSE [@ EXCEPT !.st = "draining"]]

\* stop(): the signal, and the PID file away; nobody waits for the process.  A
\* supervisor signals what it runs, and the command gives up on it after 5 s.
StopSignals ==
    /\ At("stop", "kill") /\ Keeps /\ UNCHANGED <<pidfile, orphans, Data>>
    /\ LET ps == IF manager = "supervisor" THEN Of(cmd.unit)
                 ELSE {p \in {pidfile[cmd.unit]} : Alive(p)}
       IN proc' = IF ps = {} THEN proc ELSE Signalled(CHOOSE p \in ps : TRUE)
    /\ Goes("unlink")

StopUnlinks ==
    /\ At("stop", "unlink") /\ Keeps /\ UNCHANGED <<proc, orphans, Data>>
    /\ pidfile' = [pidfile EXCEPT ![cmd.unit] = 0]
    /\ Ends("stopped")

\* db backup: a connection of its own.  VACUUM INTO takes a
\* snapshot, or gives up after four busy attempts; the last connection to close
\* checkpoints the log.
Backup ==
    /\ At("backup", "vacuum") /\ Keeps /\ UNCHANGED <<proc, pidfile, acked, orphans, excused>>
    /\ db' = IF Readers(db.ino) = {} THEN Checkpointed(Opened(db)) ELSE Opened(db)
    /\ \/ copies' = copies \cup {Visible(db)} /\ Ends("saved")
       \/ UNCHANGED copies /\ Ends("failed")

\* Mutant of Offline: nobody asks the PID files.
OfflineAnyhow == TRUE

\* db restore looks for a PID file that names a live process.
Offline == \A u \in Units : ~Alive(pidfile[u])

RestoreGuards ==
    /\ At("restore", "guard") /\ Keeps /\ UNCHANGED <<proc, pidfile, orphans, Data>>
    /\ IF Offline THEN Goes("copy") ELSE Ends("refused")

\* The processes the guard does not see: on their way out, run by a supervisor, or
\* without a PID file.
Unseen == {p \in Pids : Alive(p) /\ (proc[p].st = "draining" \/ manager = "supervisor"
                                     \/ p \in orphans)}
Risky == ~cmd.auto \/ db.wal # {} \/ Unseen # {}

\* The auto-backup copies data.db, not its log.
RestoreCopies ==
    /\ At("restore", "copy") /\ Keeps /\ UNCHANGED <<proc, pidfile, db, acked, orphans, excused>>
    /\ copies' = IF cmd.auto THEN copies \cup {db.main} ELSE copies
    /\ cmd' = [cmd EXCEPT !.at = "replace", !.risky = Risky] /\ told' = NoTale

\* The rename: the log of the old file stays beside the new one.
RestoreReplaces ==
    /\ At("restore", "replace") /\ Keeps /\ UNCHANGED <<proc, pidfile, acked, orphans, copies>>
    /\ db' = [db EXCEPT !.main = cmd.copy, !.ino = @ + 1]
    /\ excused' = (excused \/ cmd.risky \/ Risky)
    /\ Goes("sidecars")

\* Mutant of RestoreSweeps: the log is left where it is.
RestoreLeavesLog ==
    /\ At("restore", "sidecars") /\ Keeps
    /\ UNCHANGED <<proc, pidfile, acked, orphans, copies, excused, db>>
    /\ Ends("restored")

RestoreSweeps ==
    /\ At("restore", "sidecars") /\ Keeps
    /\ UNCHANGED <<proc, pidfile, acked, orphans, copies, excused>>
    /\ db' = NoLog(db)
    /\ Ends("restored")

\* The command dies.
Killed ==
    /\ cmd # NoCmd /\ deaths < MaxDeaths /\ deaths' = deaths + 1
    /\ cmd' = NoCmd /\ told' = NoTale
    /\ orphans' = orphans \cup IF At("start", "pid") THEN {cmd.pid} ELSE {}
    /\ excused' = (excused \/ At("restore", "sidecars"))
    /\ UNCHANGED <<manager, proc, pidfile, db, copies, acked, commands>>

-----------------------------------------------------------------------------
(* Processes (Daemons has their insides).                                   *)

Process(p, x) == proc' = [proc EXCEPT ![p] = x] /\ told' = NoTale
Life == UNCHANGED <<manager, pidfile, cmd, copies, acked, orphans, excused, commands>>

\* main(): the database first, then the port, which may be taken.
Boots(p) ==
    /\ proc[p].st = "booting" /\ Life /\ UNCHANGED deaths
    /\ db' = Opened(db)
    /\ Process(p, IF proc[p].unit \in Ported /\ Listening(proc[p].unit) # {}
                  THEN [proc[p] EXCEPT !.st = "gone"]
                  ELSE [proc[p] EXCEPT !.st = "up", !.file = db.ino])

\* A transaction commits into the log of the file the process has open.
Commits(p) ==
    /\ proc[p].st \in {"up", "draining"}
    /\ \E t \in Txns :
        /\ t = Cardinality(acked) + 1
        /\ acked' = acked \cup {t}
        /\ db' = IF proc[p].file = db.ino THEN [db EXCEPT !.wal = @ \cup {t}] ELSE db
    /\ told' = NoTale
    /\ UNCHANGED <<manager, proc, pidfile, cmd, copies, orphans, excused, commands, deaths>>

\* shutdown() ends; the last connection to close checkpoints.
Exits(p) ==
    /\ proc[p].st = "draining" /\ Life /\ UNCHANGED deaths
    /\ db' = IF Readers(db.ino) = {p} THEN Checkpointed(db) ELSE db
    /\ Process(p, [proc[p] EXCEPT !.st = "gone", !.file = 0])

\* kill -9: the log stays; a supervisor starts the unit again.
Dies(p) ==
    /\ Alive(p) /\ deaths < MaxDeaths /\ deaths' = deaths + 1
    /\ Life /\ UNCHANGED db
    /\ Process(p, IF manager = "supervisor" /\ proc[p].st # "draining" THEN Booting(proc[p].unit)
                  ELSE [proc[p] EXCEPT !.st = "gone", !.file = 0])

Next ==
    \/ \E u \in Units : \/ Begin([NoCmd EXCEPT !.do = "start", !.unit = u, !.at = "check"])
                        \/ Begin([NoCmd EXCEPT !.do = "stop", !.unit = u, !.at = "kill"])
    \/ Begin([NoCmd EXCEPT !.do = "backup", !.at = "vacuum"])
    \/ \E c \in copies, auto \in BOOLEAN :
          Begin([NoCmd EXCEPT !.do = "restore", !.at = "guard", !.copy = c, !.auto = auto])
    \/ StartChecks \/ StartSpawns \/ StartWritesPid \/ StartAsks
    \/ StopSignals \/ StopUnlinks \/ Backup \/ Killed
    \/ RestoreGuards \/ RestoreCopies \/ RestoreReplaces \/ RestoreSweeps
    \/ \E p \in Pids : Boots(p) \/ Commits(p) \/ Exits(p) \/ Dies(p)

-----------------------------------------------------------------------------
(* Properties.                                                              *)

\* fallback.ts: stop can reach what start has spawned.  Every process that is not on
\* its way out is in the PID file of its unit or about to be, so that no unit has two
\* -- but for one whose start died before it wrote the file.
StopReaches ==
    \A p \in Pids :
        /\ Alive(p) /\ proc[p].st # "draining" /\ p \notin orphans
        => IF manager = "supervisor"
           THEN \A q \in Of(proc[p].unit) : q = p \/ proc[q].st = "draining"
           ELSE pidfile[proc[p].unit] = p \/ (At("start", "pid") /\ cmd.pid = p)

\* db-restore.ts, "Refuses if any of the three daemons are alive": a process with
\* another file open than data.db is one the PID files do not show.
RestoresOffline ==
    \A p \in Pids : proc[p].st = "up" => proc[p].file = db.ino \/ excused

\* "use db restore to roll back": every transaction is in the database or in a
\* backup, unless a process was at work unseen, the log of a process that had died
\* was there, or the user wanted no auto-backup.
NothingIsLost == excused \/ acked \subseteq Visible(db) \cup UNION copies

\* "Remove them so a fresh open creates new WAL files": after a restore the database
\* is the backup, and no connection ever takes the old log for its own, unless the
\* restore was killed or a process was at work unseen.
RestoredIsBackup ==
    /\ told.say = "restored" => Visible(db) = told.copy
    /\ db.torn => excused

ServicesAreSound == StopReaches /\ RestoresOffline /\ NothingIsLost /\ RestoredIsBackup

=============================================================================
