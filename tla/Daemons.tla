-------------------------------- MODULE Daemons --------------------------------
(***************************************************************************)
(* The life of one process: the hooks bridge, the MCP server or the sync    *)
(* daemon.  Its boot, the timer chain of its OutboxWorker, its second chain *)
(* (the stale-run sweeper of the bridge, the kill-switch puller of the sync *)
(* daemon), the requests it serves, and its shutdown on a signal, whose     *)
(* steps wait for what is in flight.  Everything happens on one event loop: *)
(* an action is what runs between two awaits.  Outbox has the rows; here    *)
(* they are counted.                                                        *)
(***************************************************************************)
EXTENDS Naturals, Sequences

CONSTANTS
    Requests,    \* the requests that may arrive
    Stdio,       \* those that come over the stdio transport of the MCP server
    Signals,     \* SIGINT and SIGTERM
    MaxRows      \* bound: rows in the queue

VARIABLES
    kind,        \* "bridge", "mcp", "sync", or "none" for no process
    phase,       \* how far main() is; "up" once it serves, "dead" after its exit
    worker,      \* OutboxWorker: #timer is armed, #inFlight, #stopped
    chain,       \* the sweeper or the puller, likewise
    server,      \* the listener: "none", "listening", "closing"
    reqs,        \* the requests whose handler is under way
    rows,        \* the claimable rows of the queue
    db,          \* "none", "open", "closed"
    down         \* down[s]: the step of shutdown(s); 0 before the signal

vars == <<kind, phase, worker, chain, server, reqs, rows, db, down>>

Quiet == [timer |-> FALSE, flight |-> FALSE, stopped |-> FALSE]

Init(k) ==
    /\ kind = k /\ phase = (IF k = "none" THEN "dead" ELSE "start")
    /\ worker = Quiet /\ chain = Quiet
    /\ server = "none" /\ reqs = {} /\ rows = 1 /\ db = "none"
    /\ down = [s \in Signals |-> 0]

Alive == phase # "dead"

-----------------------------------------------------------------------------
(* Boot: main().  A step that throws ends the process.                      *)

\* scheduleNext(): only one timer, none once stopped.
Arm(w) == [w EXCEPT !.timer = ~w.stopped]

OpenDb ==
    /\ phase = "start"
    /\ \/ phase' = "opened" /\ db' = "open"
       \/ phase' = "dead" /\ UNCHANGED db
    /\ UNCHANGED <<kind, worker, chain, server, reqs, rows, down>>

\* migrateSqlite and ensureGlobalProject, then worker.start(): the sync daemon
\* opens the cloud instead.
StartWorker ==
    /\ phase = "opened"
    /\ \/ phase' = "working" /\ worker' = Arm(worker)
       \/ phase' = "dead" /\ UNCHANGED worker
    /\ UNCHANGED <<kind, chain, server, reqs, rows, db, down>>

\* startStaleRunsSweeper, createKillSwitchPuller: the first pass runs at once; the
\* sweeper's interval is armed from the start, the puller's timer after a pass.
StartChain ==
    /\ phase = "working"
    /\ phase' = "chained"
    /\ chain' = CASE kind = "bridge" -> [chain EXCEPT !.timer = TRUE, !.flight = TRUE]
                  [] kind = "sync" -> [chain EXCEPT !.flight = TRUE]
                  [] OTHER -> chain
    /\ UNCHANGED <<kind, worker, server, reqs, rows, db, down>>

\* serve(), startStdioTransport, startHttpTransport; the port may be taken.
Listen ==
    /\ phase = "chained"
    /\ \/ phase' = "up" /\ server' = IF kind = "sync" THEN "none" ELSE "listening"
       \/ kind # "sync" /\ phase' = "dead" /\ UNCHANGED server
    /\ UNCHANGED <<kind, worker, chain, reqs, rows, db, down>>

-----------------------------------------------------------------------------
(* The worker's timer chain.                                                *)

\* #tickFromTimer: while a tick is in flight the timer is armed again; a claim
\* that finds nothing ends its tick at once.
Fire ==
    /\ Alive /\ worker.timer
    /\ IF worker.flight \/ rows = 0
       THEN worker' = Arm(worker) /\ UNCHANGED rows
       ELSE /\ worker' = [worker EXCEPT !.timer = FALSE, !.flight = TRUE]
            /\ rows' = rows - 1
    /\ UNCHANGED <<kind, phase, chain, server, reqs, db, down>>

\* Mutant of Settle: the tick does not schedule the next.
SettleAndRest ==
    /\ Alive /\ worker.flight
    /\ rows' = rows /\ worker' = [worker EXCEPT !.flight = FALSE]
    /\ UNCHANGED <<kind, phase, chain, server, reqs, db, down>>

\* #runOne settles, its finally schedules the next tick; a transient failure
\* leaves the row in the queue.
Settle ==
    /\ Alive /\ worker.flight
    /\ rows' \in {rows, rows + 1} /\ rows' <= MaxRows
    /\ worker' = Arm([worker EXCEPT !.flight = FALSE])
    /\ UNCHANGED <<kind, phase, chain, server, reqs, db, down>>

\* The interval of the sweeper (a sweep of the last interval is done), the timer of
\* the puller.
FireChain ==
    /\ Alive /\ chain.timer /\ ~chain.flight
    /\ chain' = [chain EXCEPT !.timer = (kind = "bridge"), !.flight = TRUE]
    /\ UNCHANGED <<kind, phase, worker, server, reqs, rows, db, down>>

\* A sweep only clears inFlight, a pull schedules the next.
SettleChain ==
    /\ Alive /\ chain.flight
    /\ chain' = LET c == [chain EXCEPT !.flight = FALSE]
                IN IF kind = "sync" THEN Arm(c) ELSE c
    /\ UNCHANGED <<kind, phase, worker, server, reqs, rows, db, down>>

-----------------------------------------------------------------------------
(* Requests.                                                                *)

Open(q) == IF q \in Stdio THEN kind = "mcp" ELSE server = "listening"

\* A hook or an /mcp request that passes the authentication, a call over stdio.
Arrive(q) ==
    /\ phase = "up" /\ Open(q) /\ q \notin reqs
    /\ reqs' = reqs \cup {q}
    /\ UNCHANGED <<kind, phase, worker, chain, server, rows, db, down>>

\* The recorder enqueues a row and kicks the worker.
Enqueue(q) ==
    /\ Alive /\ q \in reqs /\ db = "open" /\ rows < MaxRows
    /\ rows' = rows + 1 /\ worker' = Arm(worker)
    /\ UNCHANGED <<kind, phase, chain, server, reqs, db, down>>

Respond(q) ==
    /\ Alive /\ q \in reqs
    /\ reqs' = reqs \ {q}
    /\ UNCHANGED <<kind, phase, worker, chain, server, rows, db, down>>

-----------------------------------------------------------------------------
(* Shutdown.                                                                *)

\* The awaits of shutdown(); process.exit(0) follows.
Steps ==
    CASE kind = "bridge" -> <<"server", "worker", "chain", "db">>
      [] kind = "mcp" -> <<"worker", "server", "db">>
      [] OTHER -> <<"worker", "chain", "db">>

Step(i) == IF i <= Len(Steps) THEN Steps[i] ELSE "exit"

\* What the step does before it waits.
Enter(s, i) ==
    /\ down' = [down EXCEPT ![s] = i]
    /\ worker' = IF Step(i) = "worker"
                 THEN [worker EXCEPT !.stopped = TRUE, !.timer = FALSE] ELSE worker
    /\ chain' = IF Step(i) = "chain"
                THEN [chain EXCEPT !.stopped = TRUE, !.timer = FALSE] ELSE chain
    /\ server' = IF Step(i) = "server" THEN "closing" ELSE server
    /\ db' = IF Step(i) = "db" THEN "closed" ELSE db
    /\ phase' = IF Step(i) = "exit" THEN "dead" ELSE phase

\* Mutant of Waited: stop() does not await #inFlight.
WaitedForServer(i) == Step(i) = "server" => reqs \subseteq Stdio

\* What the step waits for: the listener's connections, #inFlight, the sweep; the
\* puller's stop() waits for nothing.
Waited(i) ==
    /\ Step(i) = "server" => reqs \subseteq Stdio
    /\ Step(i) = "worker" => ~worker.flight
    /\ Step(i) = "chain" /\ kind = "bridge" => ~chain.flight

\* The handlers are installed at the end of main(); shuttingDown lets one through,
\* but the MCP server takes each signal once.
Signal(s) ==
    /\ phase = "up" /\ down[s] = 0
    /\ kind = "mcp" \/ \A t \in Signals : down[t] = 0
    /\ Enter(s, 1)
    /\ UNCHANGED <<kind, reqs, rows>>

Proceed(s) ==
    /\ Alive /\ down[s] > 0 /\ Waited(down[s])
    /\ Enter(s, down[s] + 1)
    /\ UNCHANGED <<kind, reqs, rows>>

\* kill -9, a power failure.
Crash ==
    /\ Alive /\ phase' = "dead"
    /\ UNCHANGED <<kind, worker, chain, server, reqs, rows, db, down>>

-----------------------------------------------------------------------------
Boot == OpenDb \/ StartWorker \/ StartChain \/ Listen
Timers == Fire \/ Settle \/ FireChain \/ SettleChain

Next ==
    \/ Boot \/ Timers \/ Crash
    \/ \E q \in Requests : Arrive(q) \/ Enqueue(q) \/ Respond(q)
    \/ \E s \in Signals : Signal(s) \/ Proceed(s)

-----------------------------------------------------------------------------
(* Properties.                                                              *)

\* run-recorder and worker.ts: no tick is lost to a kick, a tick in flight or a tick
\* that finds nothing.  A row in the queue of a running process is picked up,
\* unless the process is told to stop.
RowsArePickedUp ==
    (phase = "up" /\ rows > 0) ~> (worker.flight \/ worker.stopped \/ ~Alive)

\* index.ts, "closing listener + outbox + db": while the process lives, nothing uses
\* a closed database but a call over stdio and the puller, which the shutdown does
\* not wait for.
ClosedDbIsQuiet ==
    Alive /\ db = "closed" =>
        /\ ~worker.flight /\ ~worker.timer
        /\ reqs \subseteq Stdio
        /\ kind = "bridge" => ~chain.flight /\ ~chain.timer

=============================================================================
