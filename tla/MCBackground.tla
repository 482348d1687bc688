----------------------------- MODULE MCBackground -----------------------------
(***************************************************************************)
(* What goes on in the background of a developer's machine and has to       *)
(* happen in the end, although nobody waits for it: the pulls of switches   *)
(* (KillSwitchSync), the timers of the daemons, the index of the features,  *)
(* the readers that poll.  One of them runs at a time, `part'.              *)
(***************************************************************************)
EXTENDS MCKillSwitchSync

CONSTANTS
    Requests, Stdio, Signals, MaxRows,                                     \* of Daemons
    NFeatures, Texts, Size, Header, Footer, Reservation, MaxIndexBytes,
    Tasks, MaxClock,                                                       \* of FeatureFiles
    Ids, Limit, Reads, LastSecond, MaxEvents, MaxLines, MaxTrouble         \* of Readers

\* A line for the header and two for the footer, of 12 KB; FOOTER_RESERVATION_BYTES is
\* more than the footer needs.
ASSUME FeaturesAssumption ==
    /\ {NFeatures, MaxClock, Header, Footer, Reservation, MaxIndexBytes} \subseteq Nat
    /\ {"small", "bad"} \subseteq Texts /\ \A t \in Texts : Size[t] \in Nat
    /\ Header + Footer <= MaxIndexBytes
    /\ Footer <= Reservation /\ 2 * Reservation <= MaxIndexBytes

\* list-context-packs takes a limit of at least 1.
ASSUME ReadersAssumption ==
    /\ Ids \subseteq Nat \ {0} /\ IsFiniteSet(Ids)
    /\ Limit \in Nat \ {0} /\ LastSecond \in Nat \ {0} /\ MaxLines \in Nat /\ MaxTrouble \in Nat

VARIABLES
    part,      \* the one that runs
    kind, phase, worker, chain, server, reqs, rows, db, down,
    root, disk, md, json, task, told, clock,
    now, packs, walk, run, view, poll, log, follow, trouble

daemonsVars == <<kind, phase, worker, chain, server, reqs, rows, db, down>>
featuresVars == <<root, disk, md, json, task, told, clock>>
readersVars == <<now, packs, walk, run, view, poll, log, follow, trouble>>

allVars == <<part, vars, daemonsVars, featuresVars, readersVars>>

EntrySize == [t \in {"small", "big", "bad"} |-> IF t = "big" THEN 7 ELSE 3]

D == INSTANCE Daemons
F == INSTANCE FeatureFiles
W == INSTANCE Readers WITH MaxSecond <- LastSecond

-----------------------------------------------------------------------------
(* The specification.                                                       *)

BackgroundInit ==
    /\ part \in {"switches", "daemons", "features", "readers"}
    /\ Init /\ (part = "switches") = (origin # NoSwitches)
    /\ \E k \in {"bridge", "mcp", "sync", "none"} : (part = "daemons") = (k # "none") /\ D!Init(k)
    /\ F!Init(part = "features")
    /\ \E k \in {"pages", "live", "logs", "none"} : (part = "readers") = (k # "none") /\ W!Init(k)

\* The parts other than p stand still.
Only(p) ==
    /\ part = p /\ UNCHANGED part
    /\ p # "switches" => UNCHANGED vars
    /\ p # "daemons" => UNCHANGED daemonsVars
    /\ p # "features" => UNCHANGED featuresVars
    /\ p # "readers" => UNCHANGED readersVars

BackgroundNext ==
    \/ Only("switches") /\ Next
    \/ Only("daemons") /\ D!Next
    \/ Only("features") /\ F!Next
    \/ Only("readers") /\ W!Next

\* The chains of the sync daemon keep running; the timers of the daemons fire, their
\* handlers and ticks settle; a generation goes on, and sessions go on starting; the
\* page polls and is answered.
Fairness ==
    /\ \A m \in Machines : WF_vars(part = "switches" /\ Push(m)) /\ WF_vars(part = "switches" /\ Pull(m))
    /\ WF_daemonsVars(D!Fire) /\ WF_daemonsVars(D!Settle) /\ WF_daemonsVars(D!Boot)
    /\ \A t \in Tasks : WF_featuresVars(F!Generate(t))
    /\ WF_featuresVars(\E t \in Tasks : F!Session(t))
    /\ WF_readersVars(W!Ask) /\ WF_readersVars(W!Serve)
    /\ WF_readersVars(W!Take) /\ WF_readersVars(W!Shown)

BackgroundSpec == BackgroundInit /\ [][BackgroundNext]_allVars /\ Fairness

-----------------------------------------------------------------------------
(* Properties: those of the modules, which say what each is about.           *)

\* index.ts of the daemons: nothing is under way on a database that is closed.
ClosedDbIsQuiet == D!ClosedDbIsQuiet

\* features-index-loader.ts: what a session is told of the features is right and fits.
FeaturesAreTold == F!SessionsAreTold

\* list-context-packs, logs.ts: pages of context packs and logs --follow leave nothing out.
ReadersMissNothing == W!ReadersMissNothing

\* worker.ts, dispatch.ts, kill-switch-puller.ts, index-gen.ts, poll.ts: a claimable row is
\* picked up as long as the daemon runs, a queued pause comes to the cloud and what is there
\* to a machine that knows nothing yet, both index files come to say what the disk says, and
\* the page of a live run comes to show what is newer.
NothingWaitsForEver ==
    D!RowsArePickedUp /\ PushesArrive /\ FirstPullBringsAll /\ F!IndexCatchesUp
    /\ W!LiveCatchesUp

=============================================================================
