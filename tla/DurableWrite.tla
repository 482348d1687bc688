---------------------------- MODULE DurableWrite ----------------------------
(***************************************************************************)
(* What the outbox promises the code that enqueues a write (worker.ts,      *)
(* "Crash safety"): an accepted write stays open until its destination has  *)
(* it, or is dead where the doctor and the web app show it; a dead write    *)
(* may be opened again; a write that is done has been delivered.            *)
(***************************************************************************)
CONSTANT writes
VARIABLES state, delivered

Init ==
    /\ state = [x \in writes |-> "new"]
    /\ delivered = {}

Becomes(x, from, to) ==
    /\ state[x] \in from
    /\ state' = [state EXCEPT ![x] = to]
    /\ UNCHANGED delivered

Accept(x) == Becomes(x, {"new"}, "open")
GiveUp(x) == Becomes(x, {"open"}, "dead")
Reopen(x) == Becomes(x, {"dead"}, "open")
Complete(x) == x \in delivered /\ Becomes(x, {"open", "dead"}, "done")

Deliver(x) ==
    /\ state[x] # "new"
    /\ delivered' = delivered \cup {x}
    /\ UNCHANGED state

Next ==
    \E x \in writes :
        Accept(x) \/ GiveUp(x) \/ Reopen(x) \/ Complete(x) \/ Deliver(x)

Spec == Init /\ [][Next]_<<state, delivered>>
=============================================================================
