------------------------------ MODULE Workstation ------------------------------
(***************************************************************************)
(* A developer's machine: the daemons and the database file they have open, *)
(* the registry of projects and policies, the migrators and the lock of     *)
(* hand-written migrations, the files of init, the feature packs, what      *)
(* sessions are told, the bridge's reminder.  One of them goes on at a      *)
(* time, `part' says which; they meet in rows that the models keep apart.   *)
(***************************************************************************)
EXTENDS Integers, Sequences, FiniteSets

CONSTANTS
    Cwds, Slugs, Basename, Baseline, Custom, Callers, MaxCalls, MaxIds, MaxMoves, \* of Registry
    Latest, Former, Replayable, NeedsVector, KillSwitches, AtFirst, Procs,          \* of Migrations
    Units, Ported, Pids, Txns, MaxCommands, MaxDeaths,                            \* of Services
    Sessions, Limit, Fan, Confidences, PackLimit, MaxAge, MaxDecisions, MaxDays,
    MaxTrouble,                                                                   \* of SessionContext
    Posts, Threshold,                                                             \* of Reminder
    Markers, Bodies, LockLines, LockEdits,                                        \* of MigrationLock
    Primary, PackTexts, Gets, TTL, MaxGetTicks, MaxWrites,                        \* of FeaturePacks
    Events, HookEvents, Users, Servers, EnvKeys, MaxEntries, MaxEdits, SetupCommands \* of Setup

\* The directory's name makes a slug, or none.
ASSUME RegistryAssumption ==
    /\ Basename \in [Cwds -> Slugs \cup {"none"}]
    /\ MaxCalls \in Nat /\ MaxIds \in Nat /\ MaxMoves \in Nat

\* The newest migration of either package (0009_m05_agent_driven, 0010_projects_cwd) adds
\* columns, and so fails on a schema that has them.
ASSUME MigrationsAssumption ==
    /\ Latest \in Nat /\ Former \in Nat /\ {Latest, Former} \cap Replayable = {}
    /\ AtFirst \subseteq Nat \cup {-1} /\ KillSwitches \in Nat

ASSUME ServicesAssumption ==
    /\ Pids \subseteq Nat \ {0} /\ IsFiniteSet(Pids) /\ Ported \subseteq Units
    /\ MaxCommands \in Nat /\ MaxDeaths \in Nat

ASSUME ContextAssumption ==
    /\ Sessions \subseteq Nat \ {0}
    /\ {Limit, Fan, PackLimit, MaxAge, MaxDecisions, MaxDays, MaxTrouble} \subseteq Nat

ASSUME ReminderAssumption == IsFiniteSet(Posts) /\ Threshold \in Nat \ {0}

\* Those of the migration at first.
ASSUME LockAssumption == 1 \in Markers /\ {"x", "y"} \subseteq Bodies /\ {LockLines, LockEdits} \subseteq Nat

ASSUME PacksAssumption == Primary \in Slugs /\ TTL \in Nat \ {0} /\ MaxGetTicks \in Nat

\* No hook of the user's is one of ours, or an old one of ours.
ASSUME SetupAssumption ==
    /\ Users \cap {"baseline", "stale", "shared", "legacy"} = {} /\ HookEvents \subseteq Events
    /\ {MaxEntries, MaxEdits, SetupCommands} \subseteq Nat

VARIABLES
    part,      \* the part that runs
    manager, proc, pidfile, cmd, db, copies, acked, orphans, excused,
    serviceTold, commands, deaths,
    projects, policies, rules, sidecar, slugOf, idOf, backfilled, call, used, answers,
    lost, seeded, removed,
    log, schema, vector, rowsIn, migrator, intruded,
    question, day, runs, decisions, packs, files, start, reader, wiped, trouble,
    opened, pack, memory, post, reminded, counted, nagged, ending, restarted,
    sqlFile, lock, locked, lockTold, changed, sqlEdits,
    disk, rows, op, cache, get, told, quiet, writes,
    file, setupCmd, user, setupTold, edits, setupCommands

servicesVars == <<manager, proc, pidfile, cmd, db, copies, acked, orphans, excused,
                 serviceTold, commands, deaths>>
registryVars == <<projects, policies, rules, sidecar, slugOf, idOf, backfilled, call,
                 used, answers, lost, seeded, removed>>
migrationsVars == <<log, schema, vector, rowsIn, migrator, intruded>>
contextVars == <<question, day, runs, decisions, packs, files, start, reader, wiped, trouble>>
reminderVars == <<opened, pack, memory, post, reminded, counted, nagged, ending, restarted>>
lockVars == <<sqlFile, lock, locked, lockTold, changed, sqlEdits>>

packsVars == <<disk, rows, op, cache, get, told, quiet, writes>>
setupVars == <<file, setupCmd, user, setupTold, edits, setupCommands>>

workVars == <<part, servicesVars, registryVars, migrationsVars, contextVars, reminderVars,
              lockVars, packsVars, setupVars>>

V == INSTANCE Services WITH told <- serviceTold
R == INSTANCE Registry
M == INSTANCE Migrations WITH proc <- migrator
C == INSTANCE SessionContext WITH Runs <- Sessions, disk <- files
N == INSTANCE Reminder
L == INSTANCE MigrationLock WITH
        MaxLines <- LockLines, MaxEdits <- LockEdits,
        file <- sqlFile, told <- lockTold, edits <- sqlEdits
P == INSTANCE FeaturePacks WITH Texts <- PackTexts
I == INSTANCE Setup WITH
        MaxCommands <- SetupCommands,
        cmd <- setupCmd, told <- setupTold, commands <- setupCommands

-----------------------------------------------------------------------------
(* The specification.                                                       *)

\* The parts that do not run have done all they may.
WorkInit ==
    /\ V!Init(part = "services")
    /\ R!Init(part = "registry")
    /\ M!Init(part = "migrations")
    /\ \E q \in {"files", "decisions", "tool", "none"} : (part = "context") = (q # "none") /\ C!Init(q)
    /\ N!Init(part = "reminder")
    /\ L!Init(part = "lock")
    /\ P!Init(part = "packs")
    /\ I!Init(part = "setup")

\* The parts other than p stand still.
Among(p) ==
    /\ part = p /\ UNCHANGED part
    /\ p # "services" => UNCHANGED servicesVars
    /\ p # "registry" => UNCHANGED registryVars
    /\ p # "migrations" => UNCHANGED migrationsVars
    /\ p # "context" => UNCHANGED contextVars
    /\ p # "reminder" => UNCHANGED reminderVars
    /\ p # "lock" => UNCHANGED lockVars
    /\ p # "packs" => UNCHANGED packsVars
    /\ p # "setup" => UNCHANGED setupVars

WorkNext ==
    \/ Among("services") /\ V!Next
    \/ Among("registry") /\ R!Next
    \/ Among("migrations") /\ M!Next
    \/ Among("context") /\ C!Next
    \/ Among("reminder") /\ N!Next
    \/ Among("lock") /\ L!Next
    \/ Among("packs") /\ P!Next
    \/ Among("setup") /\ I!Next

WorkSpec == WorkInit /\ [][WorkNext]_workVars

-----------------------------------------------------------------------------
(* Properties: those of the modules, which say what each is about.           *)

\* start, stop, backup and restore: what they say they did is so.
ServicesAreSound == V!ServicesAreSound

\* ensure-project.ts, ensure-default-policy.ts: one row per slug, the whole baseline.
RegistryIsSound == R!RegistryIsSound

\* migrate.ts, db-migrate.ts, cloud-migrate.ts: the migrators of a database; and
\* check-migration-lock.mjs: what was written into migrations by hand is not lost unseen.
MigrationsAreSound == M!MigrationsAreSound /\ L!LockHolds

\* session-start.ts, post-tool-use.ts and the tools that read: what sessions are told.
SessionsAreInformed == C!SessionsAreInformed /\ N!ReminderIsFair

\* feature-pack.ts: an answer is as fresh as its cache allows.
EditsAreSeen == P!EditsAreSeen

\* The files of init and uninstall: what is the user's survives, a second run changes nothing.
SetupIsClean == I!SetupIsClean

=============================================================================
