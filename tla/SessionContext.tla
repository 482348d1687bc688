----------------------------- MODULE SessionContext -----------------------------
(***************************************************************************)
(* What earlier sessions leave and later ones get to see: the context a     *)
(* SessionStart is answered with (the feature pack, the features index, the *)
(* session contract, the recent decisions), and the tools that read back -- *)
(* query_decisions, read_context_pack -- while other sessions record and    *)
(* save, and an operator deletes runs.  Nothing here looks at what state a  *)
(* run is in, only whether its row is there.                                *)
(***************************************************************************)
EXTENDS Naturals, Sequences, FiniteSets

CONSTANTS
    Runs,          \* ids of runs
    Limit,         \* decisions in the block (10)
    Fan,           \* what is loaded for each of them (4)
    Confidences,   \* of "high", "medium", "low", and "null" where it was left out
    PackLimit,     \* decisions read with a pack (50)
    MaxAge,        \* days (30)
    MaxDecisions, MaxDays, MaxTrouble   \* bounds; the last on failed queries, resets and
                                        \* files that come and go

VARIABLES
    question,      \* what is looked at: the "files" or the "decisions" of a SessionStart,
                   \* which share no state before they are composed, or a "tool"
    day,
    runs,          \* runs[r]: its project and status
    decisions,     \* [id, run, day, conf]; ids grow with time; run 0 where it was deleted
    packs,         \* packs[r]: its source and the decisions its meta names
    disk,          \* the files of the feature pack
    start,         \* the SessionStart under way
    reader,        \* the read_context_pack under way
    wiped,         \* a reset is under way
    trouble

vars == <<question, day, runs, decisions, packs, disk, start, reader, wiped, trouble>>

NoRun == [of |-> "none", status |-> "none"]
Gone == [of |-> "none", status |-> "gone"]
NoPack == [by |-> "none", cites |-> {}]
Files == {"spec.md", "implementation.md", "techstack.md"}
NoStart == [at |-> "idle", unread |-> {}, pack |-> {}, index |-> FALSE, since |-> 0, ids |-> {},
            told |-> {}, blocks |-> <<>>, could |-> {}, failed |-> FALSE, known |-> "no"]
NoReader == [at |-> "idle", run |-> 0, cites |-> {}, got |-> {}, all |-> {}]

Init(q) ==
    /\ question = q /\ day = 1
    /\ runs = [r \in Runs |-> NoRun] /\ decisions = {} /\ packs = [r \in Runs |-> NoPack]
    /\ disk \in IF q = "files" THEN SUBSET Files ELSE {{}}
    /\ start = NoStart /\ reader = NoReader
    /\ wiped = FALSE /\ trouble = 0

Told == <<question, start, reader>>
Trouble == trouble < MaxTrouble /\ trouble' = trouble + 1

-----------------------------------------------------------------------------
(* Other sessions, and the operator, until the answer is there.             *)

\* What a SessionStart does before it selects its runs commutes with their steps, and
\* after its decisions are selected they are not looked at.
Active ==
    \/ question = "decisions" /\ start.at \in {"idle", "decisions"}
    \/ question = "tool" /\ reader.at # "answered"
Ours == {r \in Runs : runs[r].of = "ours"}
Recorded(r) == {d \in decisions : d.run = r}

Opens(r) ==
    /\ Active /\ runs[r] = NoRun /\ \A q \in 1..(r - 1) : runs[q] # NoRun
    /\ \E p \in {"ours"} \cup (IF question = "tool" THEN {} ELSE {"theirs"}) :
          runs' = [runs EXCEPT ![r] = [of |-> p, status |-> "in_progress"]]
    /\ UNCHANGED <<day, decisions, packs, disk, wiped, Told, trouble>>

\* record_decision asks for the run, whatever its state.
Records(r) ==
    /\ Active /\ runs[r].of # "none" /\ Cardinality(decisions) < MaxDecisions
    /\ \E c \in IF question = "tool" THEN {"null"} ELSE Confidences :
          decisions' = decisions \cup
              {[id |-> Cardinality(decisions) + 1, run |-> r, day |-> day, conf |-> c]}
    /\ UNCHANGED <<day, runs, packs, disk, wiped, Told, trouble>>

\* The bridge's pack names all decisions of the run, an agent's those it wants.
Saves(r) ==
    /\ Active /\ question = "tool" /\ runs[r].of # "none" /\ packs[r].by # "agent"
    /\ \E by \in {"bridge_auto", "agent"}, cites \in SUBSET {d.id : d \in Recorded(r)} :
          /\ by = "bridge_auto" => cites = {d.id : d \in Recorded(r)} /\ packs[r] = NoPack
          /\ packs' = [packs EXCEPT ![r] = [by |-> by, cites |-> cites]]
    /\ UNCHANGED <<day, runs, decisions, disk, wiped, Told, trouble>>

\* A reset of the project deletes its decisions, and then its packs and runs; decisions
\* that were recorded in between stay without a run, and are not found either.
Orphaned == {[d EXCEPT !.run = IF @ \in Ours THEN 0 ELSE @] : d \in decisions}

WipesDecisions ==
    /\ Active /\ ~wiped /\ Ours # {} /\ Trouble /\ wiped' = TRUE
    /\ decisions' = Orphaned
    /\ UNCHANGED <<day, runs, packs, disk, Told>>

WipesRuns ==
    /\ Active /\ wiped /\ wiped' = FALSE
    /\ runs' = [r \in Runs |-> IF r \in Ours THEN Gone ELSE runs[r]]
    /\ packs' = [r \in Runs |-> IF r \in Ours THEN NoPack ELSE packs[r]]
    /\ decisions' = Orphaned
    /\ UNCHANGED <<day, disk, Told, trouble>>

Edits(f) ==
    /\ question = "files" /\ start.at # "answered" /\ Trouble
    /\ disk' = IF f \in disk THEN disk \ {f} ELSE disk \cup {f}
    /\ UNCHANGED <<day, runs, decisions, packs, wiped, Told>>

NextDay ==
    /\ Active /\ question = "decisions" /\ day < MaxDays /\ day' = day + 1
    /\ UNCHANGED <<runs, decisions, packs, disk, wiped, Told, trouble>>

-----------------------------------------------------------------------------
(* The tools that read.                                                     *)

\* The last n of a set of decisions, and the first.
LastOf(ds, n) == {d \in ds : Cardinality({e \in ds : e.id > d.id}) < n}
FirstOf(ds, n) == {d \in ds : Cardinality({e \in ds : e.id < d.id}) < n}

\* query_decisions: those of runs that are there, newest first.
QueryDecisions(n) == LastOf({d \in decisions : d.run \in Ours}, n)

\* read_context_pack: the pack, and then the decisions of its run, oldest first.
ReadsPack(r) ==
    /\ question = "tool" /\ reader.at = "idle" /\ packs[r] # NoPack
    /\ reader' = [NoReader EXCEPT !.at = "pack", !.run = r, !.cites = packs[r].cites]
    /\ UNCHANGED <<day, runs, decisions, packs, disk, wiped, question, start, trouble>>

ReadsDecisions ==
    /\ reader.at = "pack"
    /\ reader' = [reader EXCEPT !.at = "answered",
                     !.got = {d.id : d \in FirstOf(Recorded(reader.run), PackLimit)},
                     !.all = {d.id : d \in Recorded(reader.run)}]
    /\ UNCHANGED <<day, runs, decisions, packs, disk, wiped, question, start, trouble>>

-----------------------------------------------------------------------------
(* SessionStart.                                                            *)

Rank(d) == CASE d.conf = "high" -> 1 [] d.conf = "low" -> 3 [] OTHER -> 2
Before(d, e) == Rank(d) < Rank(e) \/ (Rank(d) = Rank(e) /\ d.id > e.id)

\* Mutant of Chosen: the newest are cut off before they are sorted.
ChosenEarly(ds) == LastOf(ds, Limit)

\* Of the newest, those with the most confidence, and of these the newest.
Chosen(ds) ==
    LET newest == LastOf(ds, Limit * Fan)
    IN {d \in newest : Cardinality({e \in newest : Before(e, d)}) < Limit}

\* The session's directory may have no slug, and its slug no project that could be ensured.
Starts ==
    /\ question \in {"files", "decisions"} /\ start.at = "idle"
    /\ \E known \in IF question = "files" THEN {"nothing", "slug", "project"} ELSE {"project"} :
          start' = [NoStart EXCEPT !.known = known,
                       !.unread = IF question = "files" THEN Files ELSE {},
                       !.at = IF known = "nothing" THEN "compose" ELSE "pack"]
    /\ UNCHANGED <<day, runs, decisions, packs, disk, wiped, question, reader, trouble>>

\* The files are read at the same time; one that cannot be read is left out.
ReadsFile(f) ==
    /\ start.at = "pack" /\ f \in start.unread
    /\ start' = [start EXCEPT !.unread = @ \ {f}, !.pack = @ \cup ({f} \cap disk)]
    /\ UNCHANGED <<day, runs, decisions, packs, disk, wiped, question, reader, trouble>>

\* The index, unless its loader throws.
ReadsIndex ==
    /\ start.at = "pack" /\ start.unread = {}
    /\ \E loaded \in IF question = "files" THEN BOOLEAN ELSE {FALSE} :
          start' = [start EXCEPT !.index = loaded,
                       !.at = IF start.known = "project" THEN "runs" ELSE "compose"]
    /\ UNCHANGED <<day, runs, decisions, packs, disk, wiped, question, reader, trouble>>

\* The age is reckoned when the load begins.
SelectsRuns ==
    /\ start.at = "runs"
    /\ start' = [start EXCEPT !.ids = Ours, !.since = day,
                     !.at = IF Ours = {} THEN "compose" ELSE "decisions"]
    /\ UNCHANGED <<day, runs, decisions, packs, disk, wiped, question, reader, trouble>>

Young(d) == start.since - d.day < MaxAge

\* could: history, what of these runs query_decisions would answer now.
SelectsDecisions ==
    /\ start.at = "decisions"
    /\ LET ds == {d \in decisions : d.run \in start.ids /\ Young(d)}
       IN start' = [start EXCEPT !.at = "compose", !.told = Chosen(ds),
                       !.could = {d \in QueryDecisions(MaxDecisions) : d.run \in start.ids}]
    /\ UNCHANGED <<day, runs, decisions, packs, disk, wiped, question, reader, trouble>>

\* A query that fails leaves the block out.
SelectFails ==
    /\ start.at \in {"runs", "decisions"} /\ Trouble
    /\ start' = [start EXCEPT !.at = "compose", !.failed = TRUE]
    /\ UNCHANGED <<day, runs, decisions, packs, disk, wiped, question, reader>>

Block(there, name) == IF there THEN <<name>> ELSE <<>>

\* A pack without spec.md is none.
Composes ==
    /\ start.at = "compose"
    /\ start' = [start EXCEPT !.at = "answered",
                    !.blocks = Block("spec.md" \in start.pack, "pack") \o
                               Block(start.index, "index") \o <<"contract">> \o
                               Block(start.told # {}, "decisions")]
    /\ UNCHANGED <<day, runs, decisions, packs, disk, wiped, question, reader, trouble>>

Next ==
    \/ \E r \in Runs : Opens(r) \/ Records(r) \/ Saves(r) \/ ReadsPack(r)
    \/ \E f \in Files : Edits(f) \/ ReadsFile(f)
    \/ WipesDecisions \/ WipesRuns \/ NextDay \/ ReadsDecisions \/ Starts \/ ReadsIndex \/ SelectsRuns \/ SelectsDecisions
    \/ SelectFails \/ Composes

-----------------------------------------------------------------------------
(* Properties.                                                              *)

\* What a session is told of decisions, the agent finds again with query_decisions; and
\* a young decision that was left out gave way to more confident or newer ones, as many as
\* fit, or to newer ones four times as many.
DecisionsAreDue ==
    start.at = "answered" /\ start.known = "project" /\ ~start.failed =>
        LET told == start.told
            young == {d \in start.could : Young(d)}
        IN /\ told \subseteq start.could
           /\ \A d \in young \ told :
                 \/ Cardinality({e \in told : Before(e, d)}) = Limit
                 \/ Cardinality({e \in start.could : e.id > d.id}) >= Limit * Fan

\* Whatever fails, the contract is told, and before the decisions.
ContractIsTold ==
    start.at = "answered" =>
        \E i \in 1..Len(start.blocks) :
           /\ start.blocks[i] = "contract"
           /\ \A j \in 1..Len(start.blocks) : start.blocks[j] = "decisions" => i < j

\* The decisions a pack names come with it, if all of the run's fit and no reset came near.
PacksBringDecisions ==
    reader.at = "answered" /\ Cardinality(reader.all) <= PackLimit /\ trouble = 0 =>
        reader.cites \subseteq reader.got

\* recent-decisions.ts, session-start.ts, read-context-pack, query-decisions, together.
SessionsAreInformed ==
    DecisionsAreDue /\ ContractIsTold /\ PacksBringDecisions

=============================================================================
