----------------------------- MODULE MigrationLock -----------------------------
(***************************************************************************)
(* check-migration-lock.mjs: the hand-written blocks of a migration file,   *)
(* between @preserve-begin and @preserve-end, are locked by a hash; a       *)
(* contributor edits the file, drizzle-kit regenerates it, --write locks    *)
(* what is there, and the check (CI, the pre-commit hook) compares.         *)
(***************************************************************************)
EXTENDS Naturals, Sequences, SequencesExt

CONSTANTS
    Markers,       \* ordered as numbers
    Bodies,        \* lines of SQL; a hash is the body
    MaxLines, MaxEdits

VARIABLES
    file,          \* a migration: its lines
    lock,          \* the entries of migrations.lock.json, or that there is none
    locked,        \* history: the blocks at the last --write
    told, changed, \* what the last check said; edited since the last --write
    edits

vars == <<file, lock, locked, told, changed, edits>>

Begins(m) == [k |-> "begin", m |-> m]
Ends(m) == [k |-> "end", m |-> m]
Sql(b) == [k |-> "sql", body |-> b]
LinesOf == {Begins(m) : m \in Markers} \cup {Ends(m) : m \in Markers} \cup {Sql(b) : b \in Bodies}

-----------------------------------------------------------------------------
(* extractEntries.                                                          *)

Marks(f) == {i \in 1..Len(f) : f[i].k # "sql"}

\* Lines i to j are a block: no other marker in it, and the end has the name of the begin.
Encloses(f, i, j) ==
    /\ f[i].k = "begin" /\ f[j].k = "end" /\ f[i].m = f[j].m
    /\ i < j /\ \A n \in Marks(f) : n <= i \/ j <= n

\* It throws at a nested begin, an end without a begin or of another name, and a block
\* that is not ended.
Parses(f) == \A i \in Marks(f) : \E j \in Marks(f) : Encloses(f, i, j) \/ Encloses(f, j, i)

Blocks(f) ==
    LET Block(i, j) == [m |-> f[i].m, sha |-> SubSeq(f, i + 1, j - 1), line |-> i]
    IN {Block(p[1], p[2]) : p \in {q \in Marks(f) \X Marks(f) : Encloses(f, q[1], q[2])}}

\* new Map(entries by their marker): of two with one marker the later counts.
ByKey(entries) ==
    [m \in {e.m : e \in entries} |->
        CHOOSE e \in entries : e.m = m /\ \A g \in entries : g.m = m => g.line <= e.line]

-----------------------------------------------------------------------------
(* The contributor.                                                         *)

NoLock == {[m |-> 0, sha |-> <<>>, line |-> 0, at |-> 0]}
Tidy == <<Sql("x"), Begins(1), Sql("y"), Ends(1)>>

Init(on) ==
    /\ file \in IF on THEN {Tidy, <<Sql("x")>>, Tidy \o Tail(Tidy)} ELSE {<<>>}
    /\ lock = NoLock /\ locked = {} /\ told = "nothing" /\ changed = FALSE
    /\ edits = IF on THEN 0 ELSE MaxEdits

Edited(f) ==
    /\ edits < MaxEdits /\ edits' = edits + 1 /\ Len(f) <= MaxLines
    /\ file' = f /\ told' = "nothing" /\ changed' = TRUE /\ UNCHANGED <<lock, locked>>

Inserts == \E i \in 1..(Len(file) + 1), l \in LinesOf : Edited(InsertAt(file, i, l))
Removes == \E i \in 1..Len(file) : Edited(RemoveAt(file, i))

\* drizzle-kit writes the migration anew, without what was added by hand.
Regenerates == file # <<Sql("x")>> /\ Edited(<<Sql("x")>>)

-----------------------------------------------------------------------------
(* The script.                                                              *)

Dated(b, when) == [m |-> b.m, sha |-> b.sha, line |-> b.line, at |-> when]

\* An entry that is as it was keeps its date; the rest get today's.  The file has them in
\* the order of markers and lines.
Merged(f) ==
    LET previous == ByKey(IF lock = NoLock THEN {} ELSE lock)
        Date(b) == IF b.m \in DOMAIN previous /\ previous[b.m].sha = b.sha
                   THEN previous[b.m].at ELSE edits + 1
    IN {Dated(b, Date(b)) : b \in Blocks(f)}

Write ==
    /\ edits < MaxEdits /\ Parses(file)
    /\ lock' = Merged(file) /\ locked' = Blocks(file) /\ changed' = FALSE
    /\ told' = IF ~changed /\ lock # NoLock /\ lock' # lock THEN "churned" ELSE "nothing"
    /\ edits' = edits + 1 /\ UNCHANGED file

\* Mutant of Problems: what is gone from the file is not looked for.
ProblemsOfFile(live, old) ==
    {m \in DOMAIN live : m \notin DOMAIN old} \cup
    {m \in DOMAIN live \cap DOMAIN old : live[m].sha # old[m].sha}

\* MISSING_IN_FILE, MISSING_IN_LOCK, SHA256_MISMATCH.
Problems(live, old) ==
    {m \in DOMAIN old : m \notin DOMAIN live} \cup
    {m \in DOMAIN live : m \notin DOMAIN old} \cup
    {m \in DOMAIN live \cap DOMAIN old : live[m].sha # old[m].sha}

Check ==
    /\ told = "nothing"
    /\ told' = IF ~Parses(file) \/ lock = NoLock THEN "refused"
               ELSE IF Problems(ByKey(Blocks(file)), ByKey(lock)) = {} THEN "ok" ELSE "drift"
    /\ UNCHANGED <<file, lock, locked, changed, edits>>

Next == Inserts \/ Removes \/ Regenerates \/ Write \/ Check

-----------------------------------------------------------------------------
(* Properties.                                                              *)

Alone(bs) == {b \in bs : \A c \in bs : c.m = b.m => c = b}
Same(b, c) == b.m = c.m /\ b.sha = c.sha

\* A check that is ok: no block with a marker of its own was lost, edited or added since
\* --write; and --write on what it wrote before changes nothing.
LockHolds ==
    /\ told = "ok" =>
          /\ \A b \in Alone(locked) : \E c \in Blocks(file) : Same(b, c)
          /\ \A b \in Alone(Blocks(file)) : \E c \in locked : Same(b, c)
    /\ Alone(locked) = locked => told # "churned"

=============================================================================
