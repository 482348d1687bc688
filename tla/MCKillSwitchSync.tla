-------------------------- MODULE MCKillSwitchSync --------------------------
(* Small instances of KillSwitchSync: two machines and the web app.         *)
EXTENDS KillSwitchSync

CONSTANTS a, b, s1, s2, s3

\* Two switches are paused in the web app.
FromWeb == [s \in Switches |-> IF s = s1 THEN Nobody ELSE Web]

\* s1 is paused by machine a (with --no-sync, if it is in NoSync), s2 by b; any
\* other by nobody, or in the web app.
FromMachines(other) ==
    [s \in Switches |-> CASE s = s1 -> a [] s = s2 -> b [] OTHER -> other]

\* No switch is paused at all.
NoSwitches == [s \in Switches |-> Nobody]

MachinesOrWeb == {FromMachines(Nobody), FromWeb, NoSwitches}
Mixed == {FromMachines(Web)}

\* Failures only where the machines pause.
OneIfMachines ==
    [o \in MachinesOrWeb |-> IF o = FromMachines(Nobody) THEN 1 ELSE 0]
NoFailures == [o \in Mixed |-> 0]
=============================================================================
