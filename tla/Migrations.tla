------------------------------ MODULE Migrations ------------------------------
(***************************************************************************)
(* Who brings a database to the newest schema: every boot of the bridge and *)
(* of an MCP server (those an IDE spawns leave no PID file), contextos init,*)
(* contextos db migrate, and contextos cloud-migrate for the team's         *)
(* Postgres.  They all call drizzle's migrator, which reads the last        *)
(* migration of the log, and then runs what is newer in one transaction;    *)
(* nothing keeps two of them from reading the same last one.                *)
(***************************************************************************)
EXTENDS Integers, FiniteSets, Sequences, SequencesExt, FiniteSetsExt

CONSTANTS
    Latest,        \* migrations are numbered 0..Latest, as their dates order them
    Former,        \* what the package before this one brought
    Replayable,    \* those that go through on a schema that has them already
    NeedsVector,   \* NeedsVector[d]: those of d that need the vector extension
    KillSwitches,  \* the one that makes the table of that name
    AtFirst,       \* the newest in a database at first, -1 for an empty one
    Procs          \* 1..n: processes, each used once

VARIABLES
    log,           \* log[d]: __drizzle_migrations of d, in the order of insertion
    schema,        \* schema[d]: the migrations that took effect
    vector,        \* the team's database has the extension, or its user may create it
    rowsIn,        \* tables of the team's database that are not expected and have rows
    proc,
    intruded       \* history: a migration ran where it was promised not to

vars == <<log, schema, vector, rowsIn, proc, intruded>>

Local == {"home", "elsewhere"}      \* <CONTEXTOS_HOME>/data.db, or another file
Databases == Local \cup {"cloud"}
Nobody == [do |-> "none", db |-> "home", head |-> 0, at |-> "none", last |-> -1, total |-> 0,
           pid |-> FALSE, forced |-> FALSE, dry |-> FALSE, vec |-> "ok", why |-> "none"]

\* resolveSqlitePath: an argument, CONTEXTOS_SQLITE_PATH, CONTEXTOS_HOME, the user's home.
FirstSet(s) == s[Min({i \in 1..Len(s) : s[i] # "unset"})]
SqlitePath(arg, env) == FirstSet(<<arg, env.path, env.home, "elsewhere">>)

\* What start gives a daemon, and what else its environment may hold.
Environments == [path : {"unset", "elsewhere"}, home : {"unset", "home"}]

\* What is left of a process that is over, or was never there.
Gone == [Nobody EXCEPT !.at = "over"]

Upto(k) == [i \in 1..(k + 1) |-> i - 1]
Old(k) == [Nobody EXCEPT !.do = "daemon", !.head = k, !.at = "serving", !.pid = TRUE]

Init(on) ==
    /\ \E k \in [Databases -> IF on THEN AtFirst ELSE {-1}] :
          /\ k["elsewhere"] = Min(AtFirst \cup {-1})
          /\ log = [d \in Databases |-> Upto(k[d])]
          /\ schema = [d \in Databases |-> 0..k[d]]
          /\ vector \in IF k["cloud"] >= 0 THEN {"installed"}
                        ELSE IF on THEN {"available", "denied"} ELSE {"denied"}
    /\ rowsIn \in IF on THEN {{}, {"foreign"}} ELSE {{}}
    /\ \E old \in BOOLEAN :
          /\ old => on /\ log["home"] = Upto(Former)
          /\ proc = [p \in Procs |-> IF p > 1 /\ on THEN Nobody
                                    ELSE IF old THEN Old(Former) ELSE Gone]
    /\ intruded = FALSE

Keeps == UNCHANGED <<vector, rowsIn>>
Goes(p, at) == proc' = [proc EXCEPT ![p].at = at]
\* A process ends; whether it lost a race is remembered.
Fails(p, why) ==
    proc' = [proc EXCEPT ![p] = IF why = "replayed" THEN [@ EXCEPT !.at = "failed", !.why = why]
                                ELSE Gone]

-----------------------------------------------------------------------------
(* Processes.                                                               *)

\* The lowest slot that is free; the others are the same.
Next1(p) == proc[p] = Nobody /\ \A q \in Procs : q < p => proc[q] # Nobody

Runs(p, r) ==
    /\ Next1(p) /\ proc' = [proc EXCEPT ![p] = r]
    /\ UNCHANGED <<log, schema, vector, rowsIn, intruded>>

\* A daemon, by start (which leaves a PID file), by a supervisor or by an IDE.
Boots(p) ==
    /\ Next1(p)
    /\ \E pid \in BOOLEAN, env \in Environments, vec \in {"ok", "missing", "required"} :
       /\ pid => env.home = "home"
       /\ Runs(p, [Nobody EXCEPT !.do = "daemon", !.head = Latest, !.at = "open", !.pid = pid,
                                 !.vec = vec, !.db = SqlitePath("unset", env)])

\* A server of the older package, cached by npx.
BootsOld(p) ==
    Runs(p, [Nobody EXCEPT !.do = "daemon", !.head = Former, !.at = "open"])

Inits(p) == Runs(p, [Nobody EXCEPT !.do = "init", !.head = Latest, !.at = "open"])

Migrates(p) ==
    \E forced, dry \in BOOLEAN :
       Runs(p, [Nobody EXCEPT !.do = "migrate", !.head = Latest, !.forced = forced, !.dry = dry,
                              !.at = IF forced \/ dry THEN "open" ELSE "guard"])

MigratesCloud(p) ==
    \E dry \in BOOLEAN :
       Runs(p, [Nobody EXCEPT !.do = "cloud", !.db = "cloud", !.head = Latest, !.dry = dry,
                              !.at = "preflight"])

-----------------------------------------------------------------------------
(* What is asked before.                                                    *)

Tracked == {q \in Procs : proc[q].do = "daemon" /\ proc[q].pid /\ proc[q].at \in
                {"open", "read", "begin", "txn", "serving"}}

\* Mutant of MayMigrate: the PID files are not looked at.
MayMigrateAnyhow(alive) == TRUE

\* db migrate: no PID file of a live process.
MayMigrate(alive) == alive = {}

Guard(p) ==
    /\ proc[p].at = "guard"
    /\ IF MayMigrate(Tracked) THEN Goes(p, "open") ELSE Fails(p, "refused")
    /\ Keeps /\ UNCHANGED <<log, schema, intruded>>

\* The tables cloud-migrate knows; kill_switches is not one of them.
Unexpected(rows) == rows \cap {"foreign", "kill_switches"}

Preflight(p) ==
    /\ proc[p].at = "preflight"
    /\ IF Unexpected(rowsIn) # {} THEN Fails(p, "refused")
       ELSE IF proc[p].dry THEN Fails(p, "dry") ELSE Goes(p, "extend")
    /\ Keeps /\ UNCHANGED <<log, schema, intruded>>

\* CREATE EXTENSION IF NOT EXISTS vector.
EnsurePgVector(p) ==
    /\ proc[p].at = "extend"
    /\ IF vector = "denied" THEN Fails(p, "vector") /\ UNCHANGED vector
       ELSE Goes(p, "read") /\ vector' = "installed"
    /\ UNCHANGED <<log, schema, rowsIn, intruded>>

\* A file that is not there is created; the extension must load where it is required.
Open(p) ==
    /\ proc[p].at = "open"
    /\ IF proc[p].vec = "required" THEN Fails(p, "vector")
       ELSE IF proc[p].dry THEN Fails(p, "dry") ELSE Goes(p, "read")
    /\ Keeps /\ UNCHANGED <<log, schema, intruded>>

-----------------------------------------------------------------------------
(* drizzle's migrator.                                                      *)

Newest(l) == Max(Range(l) \cup {-1})

ReadLast(p) ==
    /\ proc[p].at = "read"
    /\ proc' = [proc EXCEPT ![p].at = "begin", ![p].last = Newest(log[proc[p].db])]
    /\ Keeps /\ UNCHANGED <<log, schema, intruded>>

Pending(p) == (proc[p].last + 1)..proc[p].head
Writing(d) == {q \in Procs : proc[q].db = d /\ proc[q].at = "txn"}
Ends(p, total) ==
    proc' = [proc EXCEPT ![p] = [Nobody EXCEPT
                !.do = proc[p].do, !.db = proc[p].db, !.head = proc[p].head,
                !.pid = proc[p].pid, !.total = total,
                !.at = IF proc[p].do = "daemon" THEN "serving" ELSE "done"]]

\* BEGIN and the first write: behind another transaction it waits, at most five seconds.
Begin(p) ==
    /\ proc[p].at = "begin"
    /\ IF Pending(p) = {}
       THEN Ends(p, Len(log[proc[p].db]))
       ELSE IF Writing(proc[p].db) = {} THEN Goes(p, "txn") ELSE Fails(p, "busy")
    /\ Keeps /\ UNCHANGED <<log, schema, intruded>>

\* Mutant of Collides: a migration is skipped where its tables are there.
CollidesNever(m, d) == FALSE

\* The statements of m fail on a schema that has them.
Collides(m, d) == m \in schema[d] \ Replayable

Vectorless(p) ==
    CASE proc[p].db = "cloud" -> vector # "installed"
      [] OTHER -> proc[p].vec # "ok"

Rollback(p) ==
    /\ proc[p].at = "txn"
    /\ \/ (\E m \in Pending(p) : Collides(m, proc[p].db)) /\ Fails(p, "replayed")
       \/ /\ Pending(p) \cap NeedsVector[proc[p].db] # {} /\ Vectorless(p)
          /\ Fails(p, "vector")
    /\ Keeps /\ UNCHANGED <<log, schema, intruded>>

Commit(p) ==
    LET d == proc[p].db
    IN /\ proc[p].at = "txn"
       /\ \A m \in Pending(p) : ~Collides(m, d) /\ ~(m \in NeedsVector[d] /\ Vectorless(p))
       /\ log' = [log EXCEPT ![d] = @ \o [i \in 1..Cardinality(Pending(p)) |-> proc[p].last + i]]
       /\ schema' = [schema EXCEPT ![d] = @ \cup Pending(p)]
       /\ Ends(p, Len(log'[d]))
       /\ intruded' = \/ intruded
                      \/ proc[p].do = "cloud" /\ "foreign" \in rowsIn
                      \/ /\ proc[p].do = "migrate" /\ ~proc[p].forced
                         /\ \E q \in Tracked : proc[q].db = d /\ proc[q].at = "serving"
       /\ Keeps

-----------------------------------------------------------------------------
(* Crashes, and what others do meanwhile.                                   *)

\* A transaction that is open goes with its process.
Crash(p) ==
    /\ proc[p].at \in {"open", "read", "begin", "txn", "serving"}
    /\ Fails(p, "killed")
    /\ Keeps /\ UNCHANGED <<log, schema, intruded>>

\* The team pauses something.
TeamPauses ==
    /\ KillSwitches \in schema["cloud"] /\ rowsIn = {} /\ Nobody \in Range(proc)
    /\ rowsIn' = {"kill_switches"}
    /\ UNCHANGED <<log, schema, vector, proc, intruded>>

Next ==
    \/ \E p \in Procs :
          \/ Boots(p) \/ BootsOld(p) \/ Inits(p) \/ Migrates(p) \/ MigratesCloud(p)
          \/ Guard(p) \/ Preflight(p) \/ EnsurePgVector(p) \/ Open(p)
          \/ ReadLast(p) \/ Begin(p) \/ Rollback(p) \/ Commit(p) \/ Crash(p)
    \/ TeamPauses

-----------------------------------------------------------------------------
(* Properties.                                                              *)

\* Whoever migrates at the same time, the log is 0..k, each once, and k is what the
\* schema has.
LogIsSchema ==
    \A d \in Databases : log[d] = Upto(Len(log[d]) - 1) /\ Range(log[d]) = schema[d]

\* A daemon serves only on a schema that has all it needs.
ServesOnItsSchema ==
    \A p \in Procs : proc[p].at = "serving" => 0..proc[p].head \subseteq schema[proc[p].db]

\* Who loses the race is stopped, but has only to be started again.
LosersAreCured ==
    \A p \in Procs : proc[p].why = "replayed" =>
        Pending(p) \cap 0..Newest(log[proc[p].db]) # {}

\* db migrate that ends well says the number of migrations of its package, or more.
TotalIsHead ==
    \A p \in Procs : proc[p].do = "migrate" /\ proc[p].at = "done" => proc[p].total > proc[p].head

\* migrate.ts, db-migrate.ts, cloud-migrate.ts together; db migrate changes nothing under
\* a daemon with a PID file, although one may start after it looked, and cloud-migrate
\* nothing beside rows of strangers.
MigrationsAreSound ==
    LogIsSchema /\ ServesOnItsSchema /\ LosersAreCured /\ TotalIsHead /\ ~intruded

=============================================================================
