------------------------------ MODULE MCOutbox ------------------------------
(* Small instances of Outbox: two processes over one audit queue.           *)
EXTENDS Outbox, TLC

CONSTANTS j1, j2, w1, w2

\* Two workers that both serve every job, as the bridge and an MCP server do.
ServesAll == [w \in Workers |-> Jobs]

\* One backoff shorter than the lease, one longer, as 1s and 5min are.
Delay3 == <<1, 2>>
=============================================================================
