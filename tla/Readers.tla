-------------------------------- MODULE Readers --------------------------------
(***************************************************************************)
(* Those who look on while others write: the agent that pages through the   *)
(* context packs, the web page that polls a live run, contextos logs        *)
(* --follow.  Rows are dated to the second; each reader remembers how far   *)
(* it has got -- a cursor, a Last-Modified date, a position in the file --  *)
(* and asks for what comes after.                                           *)
(***************************************************************************)
EXTENDS Naturals, Sequences, FiniteSets, SequencesExt

CONSTANTS
    Ids,         \* 1..n: ids of packs (random: not in the order of their dates)
    Limit,       \* packs per page
    Reads,       \* the reads of the log that overlap
    MaxSecond, MaxEvents, MaxLines, MaxTrouble   \* bounds; the last on lost polls,
                                                 \* failed reads and tabs hidden

VARIABLES
    now,
    packs,       \* context_packs: [id, at]
    walk,        \* the agent's walk through the pages; had: the packs there were when it
                 \* began and that are there still
    run,         \* the live run: dates of its events, of its end (0: none)
    view,        \* the web page's snapshot and lastModified
    poll,        \* usePoll's request
    log,         \* the log file's length in lines
    follow,      \* followFile: position, its reads under way
    trouble

vars == <<now, packs, walk, run, view, poll, log, follow, trouble>>
Listing == <<packs, walk>>
Live == <<run, view, poll>>
Logging == <<log, follow>>

Started == 1
Idle == [at |-> "idle", size |-> 0, from |-> 0]    \* a readNew not started
Newest == [at |-> MaxSecond + 1, id |-> 0]

\* One of the three readers at a time ("pages", "live", "logs"), or none of them.
Init(k) ==
    /\ now = IF k \in {"pages", "live"} THEN Started ELSE MaxSecond
    /\ packs \in IF k = "pages" THEN {{[id |-> i, at |-> Started] : i \in S} : S \in SUBSET Ids}
               ELSE {{}}
    /\ walk = [at |-> IF k = "pages" THEN "idle" ELSE "done", cursor |-> Newest,
               seen |-> {}, again |-> FALSE, had |-> {}]
    /\ run = [events |-> <<>>, ended |-> IF k = "live" THEN 0 ELSE Started]
    /\ view = [shown |-> 0, ended |-> 0, modified |-> Started]
    /\ poll = [at |-> IF k = "live" THEN "waiting" ELSE "left", hidden |-> FALSE, reply |-> 0,
               snap |-> run]
    /\ log = IF k = "logs" THEN 0 ELSE MaxLines
    /\ follow = [at |-> IF k = "logs" THEN "opens" ELSE "off", from |-> 0, pos |-> 0,
                 printed |-> {}, heard |-> 0, news |-> FALSE, failed |-> FALSE,
                 reads |-> [r \in Reads |-> Idle]]
    /\ trouble = IF k = "none" THEN MaxTrouble ELSE 0

Tick == now < MaxSecond /\ now' = now + 1 /\ UNCHANGED <<Listing, Live, Logging, trouble>>
Trouble == trouble < MaxTrouble /\ trouble' = trouble + 1

-----------------------------------------------------------------------------
(* list_context_packs.                                                      *)

SavePack ==
    /\ walk.at # "done"
    /\ \E i \in Ids : /\ \A p \in packs : p.id # i
                      /\ packs' = packs \cup {[id |-> i, at |-> now]}
    /\ UNCHANGED <<now, walk, Live, Logging, trouble>>

\* The cascade of a deleted run or project.
DeletePack ==
    /\ walk.at # "done" /\ Trouble
    /\ \E p \in packs : /\ packs' = packs \ {p}
                        /\ walk' = [walk EXCEPT !.had = @ \ {p}]
    /\ UNCHANGED <<now, Live, Logging>>

Newer(p, q) == p.at > q.at \/ (p.at = q.at /\ p.id > q.id)

\* Mutant of After: the cursor is a date.
AfterTime(c) == {p \in packs : c = Newest \/ p.at < c.at}

\* Keyset on (created_at, id), both descending.
After(c) == {p \in packs : c = Newest \/ Newer(c, p)}

Page(rows) == {p \in rows : Cardinality({q \in rows : Newer(q, p)}) < Limit}
Oldest(page) == CHOOSE p \in page : \A q \in page : ~Newer(p, q)

\* limit + 1 rows tell whether there is a next page.
NextPage ==
    /\ walk.at \in {"idle", "walking"}
    /\ LET rows == After(walk.cursor)
           page == Page(rows)
           more == Cardinality(rows) > Limit
       IN walk' = [at |-> IF more THEN "walking" ELSE "done",
                   cursor |-> IF more THEN Oldest(page) ELSE walk.cursor,
                   seen |-> walk.seen \cup page,
                   again |-> walk.again \/ walk.seen \cap page # {},
                   had |-> IF walk.at = "idle" THEN packs ELSE walk.had]
    /\ UNCHANGED <<now, packs, Live, Logging, trouble>>

-----------------------------------------------------------------------------
(* /runs/[id]/live: usePoll and GET /api/runs/[id]/state.                   *)

RunEvent ==
    /\ run.ended = 0 /\ Len(run.events) < MaxEvents
    /\ run' = [run EXCEPT !.events = Append(@, now)]
    /\ UNCHANGED <<now, Listing, view, poll, Logging, trouble>>

RunEnds ==
    /\ run.ended = 0 /\ run' = [run EXCEPT !.ended = now]
    /\ UNCHANGED <<now, Listing, view, poll, Logging, trouble>>

Dates == {Started, run.ended} \cup ToSet(run.events)

\* Mutant of LastModified: the run's own dates.
OwnDates == IF run.ended > Started THEN run.ended ELSE Started

\* runStateLastModified: the latest date of the run or of anything in it.
LastModified == CHOOSE d \in Dates : \A e \in Dates : e <= d

Ask ==
    /\ poll.at = "waiting" /\ ~poll.hidden
    /\ poll' = [poll EXCEPT !.at = "asked"]
    /\ UNCHANGED <<now, Listing, run, view, Logging, trouble>>

\* 304 when nothing is dated after If-Modified-Since (reply 0), else the snapshot.
Serve ==
    /\ poll.at = "asked"
    /\ poll' = [poll EXCEPT !.at = "answered", !.snap = run,
                            !.reply = IF LastModified <= view.modified THEN 0 ELSE LastModified]
    /\ UNCHANGED <<now, Listing, run, view, Logging, trouble>>

\* The page leaves for the static one when it shows an end.
Take ==
    /\ poll.at = "answered"
    /\ view' = IF poll.reply = 0 THEN view
               ELSE [shown |-> Len(poll.snap.events), ended |-> poll.snap.ended,
                     modified |-> poll.reply]
    /\ poll' = [poll EXCEPT !.at = IF view'.ended # 0 THEN "left" ELSE "waiting"]
    /\ UNCHANGED <<now, Listing, run, Logging, trouble>>

\* A transport error, or the fetch aborted because the tab is hidden.
PollLost ==
    /\ poll.at \in {"asked", "answered"} /\ Trouble
    /\ \E hidden \in BOOLEAN : poll' = [poll EXCEPT !.at = "waiting", !.hidden = hidden]
    /\ UNCHANGED <<now, Listing, run, view, Logging>>

Shown ==
    /\ poll.hidden /\ poll' = [poll EXCEPT !.hidden = FALSE]
    /\ UNCHANGED <<now, Listing, run, view, Logging, trouble>>

-----------------------------------------------------------------------------
(* contextos logs --follow: every change starts a readNew of its own.       *)

AppendLine ==
    /\ log < MaxLines /\ log' = log + 1
    /\ follow' = IF follow.at = "watching" THEN [follow EXCEPT !.news = TRUE, !.heard = log + 1]
                 ELSE follow
    /\ UNCHANGED <<now, Listing, Live, trouble>>

\* followFile takes the file's size, then sets up the watcher.
OpenFollow ==
    /\ follow.at = "opens"
    /\ follow' = [follow EXCEPT !.at = "watches", !.from = log, !.pos = log]
    /\ UNCHANGED <<now, Listing, Live, log, trouble>>

Watch ==
    /\ follow.at = "watches" /\ follow' = [follow EXCEPT !.at = "watching"]
    /\ UNCHANGED <<now, Listing, Live, log, trouble>>

Read(r) == follow.reads[r]
ReadGoes(f, r, x) == follow' = [f EXCEPT !.reads[r] = x]
Reading == UNCHANGED <<now, Listing, Live, log, trouble>>

\* readNew: stat.
Changed(r) ==
    /\ follow.news /\ Read(r).at = "idle" /\ Reading
    /\ ReadGoes([follow EXCEPT !.news = FALSE], r, [Idle EXCEPT !.at = "stat", !.size = log])

\* The position another read has set since may lie beyond the size: then the file
\* passes for a truncated one.
Compare(r) ==
    /\ Read(r).at = "stat" /\ Reading
    /\ LET f == IF Read(r).size < follow.pos THEN [follow EXCEPT !.pos = 0] ELSE follow
       IN ReadGoes(f, r, IF Read(r).size = f.pos THEN Idle ELSE [Read(r) EXCEPT !.at = "open"])

\* open; the length comes from the position of this moment, and a negative one throws.
OpenRead(r) ==
    /\ Read(r).at = "open" /\ Reading
    /\ ReadGoes(follow, r, IF Read(r).size < follow.pos THEN Idle
                           ELSE [Read(r) EXCEPT !.at = "read", !.from = follow.pos])

\* The position follows the read, and what was read is printed.
ReadDone(r) ==
    /\ Read(r).at = "read" /\ Reading
    /\ ReadGoes([follow EXCEPT !.pos = Read(r).size,
                               !.printed = @ \cup (Read(r).from + 1)..Read(r).size,
                               !.failed = @ /\ Read(r).size # log], r, Idle)

\* stat, open or read throws: a warning.
ReadFails(r) ==
    /\ Read(r).at \in {"stat", "open", "read"} /\ Trouble
    /\ ReadGoes([follow EXCEPT !.failed = TRUE], r, Idle)
    /\ UNCHANGED <<now, Listing, Live, log>>

Next ==
    \/ Tick \/ SavePack \/ DeletePack \/ NextPage
    \/ RunEvent \/ RunEnds \/ Ask \/ Serve \/ Take \/ PollLost \/ Shown
    \/ AppendLine \/ OpenFollow \/ Watch
    \/ \E r \in Reads : Changed(r) \/ Compare(r) \/ OpenRead(r) \/ ReadDone(r) \/ ReadFails(r)

-----------------------------------------------------------------------------
(* Properties.                                                              *)

\* list-context-packs/schema.ts, "keeps the scan stable across same-second ties": an
\* agent that follows nextCursor to the end has seen every pack there was when it
\* began and still is, once, whatever was saved or deleted between the pages.
PagesAreWhole ==
    walk.at = "done" => ~walk.again /\ walk.had \subseteq walk.seen

\* logs.ts, --follow: when the last change has been read, every line written since the
\* follower opened is printed, although its reads overlap and move one position.
FollowLosesNothing ==
    /\ follow.at = "watching" /\ follow.heard = log /\ ~follow.news /\ ~follow.failed
    /\ \A r \in Reads : Read(r).at = "idle"
    => (follow.from + 1)..log \subseteq follow.printed

ReadersMissNothing == PagesAreWhole /\ FollowLosesNothing

\* poll.ts: when something in the run is dated after what the page shows and no answer
\* is under way, the page comes to show it and all before it, whatever polls are lost.
\* (What shares its second with the newest thing an answer has told of waits for a
\* later second: run-state.ts dates to the second.)
LiveCatchesUp ==
    \A n \in 1..MaxEvents :
        (Len(run.events) >= n /\ (\E d \in Dates : d > view.modified) /\ poll.at # "answered")
            ~> (view.shown >= n \/ poll.at = "left")

=============================================================================
