---------------------------- MODULE RunLifecycle ----------------------------
(***************************************************************************)
(* What a row of the runs table promises those who read it: it is opened    *)
(* once and keeps the id it was opened with; it leaves in_progress when the *)
(* session is over or is thought to be; completed is final but for an       *)
(* operator, whose cancellation found the run open or whose reset deletes    *)
(* the project's runs.                                                      *)
(***************************************************************************)
CONSTANTS sessions, ids, NoId

VARIABLES
    id, status,
    asked    \* asked[s]: the run of s an operator asked to cancel

Init ==
    /\ id = [s \in sessions |-> NoId]
    /\ status = [s \in sessions |-> "none"]
    /\ asked = [s \in sessions |-> NoId]

Open(s, i) ==
    /\ status[s] = "none" /\ i \in ids
    /\ id' = [id EXCEPT ![s] = i]
    /\ status' = [status EXCEPT ![s] = "in_progress"]
    /\ UNCHANGED asked

Complete(s) ==
    /\ status[s] # "none"
    /\ status' = [status EXCEPT ![s] = "completed"]
    /\ UNCHANGED <<id, asked>>

\* The sweeper and a new session close every run they take for an orphan.
Discard(S, how) ==
    /\ \A s \in S : status[s] = "in_progress"
    /\ status' = [s \in sessions |-> IF s \in S THEN how ELSE status[s]]
    /\ UNCHANGED <<id, asked>>

\* An operator may ask for a run in progress only ...
AskCancel(s) ==
    /\ status[s] = "in_progress"
    /\ asked' = [asked EXCEPT ![s] = id[s]]
    /\ UNCHANGED <<id, status>>

\* ... and the run he asked for, and no other of the session, is cancelled.
Cancel(s) ==
    /\ asked[s] # NoId
    /\ asked' = [asked EXCEPT ![s] = NoId]
    /\ status' = IF id[s] = asked[s] THEN [status EXCEPT ![s] = "cancelled"] ELSE status
    /\ UNCHANGED id

Reset ==
    /\ id' = [s \in sessions |-> NoId]
    /\ status' = [s \in sessions |-> "none"]
    /\ UNCHANGED asked

Next ==
    \/ \E s \in sessions : Complete(s) \/ Open(s, id'[s]) \/ AskCancel(s) \/ Cancel(s)
    \/ \E S \in SUBSET sessions, how \in {"abandoned", "cancelled"} : Discard(S, how)
    \/ Reset

Spec == Init /\ [][Next]_<<id, status, asked>>
=============================================================================
