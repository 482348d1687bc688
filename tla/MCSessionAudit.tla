--------------------------- MODULE MCSessionAudit ---------------------------
(* Two sessions of a project and two prompts of the first.                  *)
EXTENDS SessionAudit

CONSTANTS a, b, e1, e2

EventOfA == [e \in Events |-> a]
NoTurn == [e \in Events |-> "no-turn"]
=============================================================================
