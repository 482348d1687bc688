---------------------------- MODULE MCWorkstation ----------------------------
(***************************************************************************)
(* The parts of a developer's machine, one at a time: those of Workstation, *)
(* the files with marked sections, and the doctor.  `part' says which one   *)
(* runs, the others are switched off, and the states are the sum of theirs. *)
(***************************************************************************)
EXTENDS Workstation, TLC

VARIABLES
    doc, own, names,
    machine, todo, failing, full, seen, round

markersVars == <<doc, own, names>>
doctorVars == <<machine, todo, failing, full, seen, round>>

fileVars == <<markersVars, doctorVars>>
vars == <<workVars, fileVars>>

-----------------------------------------------------------------------------
(* Values of the constants.                                                 *)

\* Rules by their identity; the glob of a Bash rule is NULL.
Rule(p, t, g) == [prio |-> p, tool |-> t, glob |-> g]
BaselineRules == {Rule(10, "Write", ".env"), Rule(70, "Bash", "null")}
OperatorRules == {Rule(80, "Bash", "null")}

TheBasename == [c \in {"w"} |-> "a"]

\* The migrations that use vectors: sqlite-vec in a file, pgvector in the cloud.
VectorMigrations == "home" :> {1} @@ "elsewhere" :> {1} @@ "cloud" :> {0, 1}
Packaged == {-1, 9}

-----------------------------------------------------------------------------
(* Instances.                                                               *)

\* Lines of marked files, and what a generator may put into a section.
Text(n) == [k |-> "text", n |-> n]
Open(n) == [k |-> "open", n |-> n]
Close == [k |-> "close", n |-> ""]
Fence == [k |-> "fence", n |-> ""]
Generators == {<<Text("g")>>, <<Fence, Text("g"), Fence>>}
MarkedFiles ==
    {<<Text("x"), Open("a"), Text("g"), Close, Open("b"), Close>>,
     <<Open("a"), Open("b"), Close, Fence, Open("b"), Fence>>,
     <<Open("b"), Open("-bad"), Close, Open("a"), Close, Text("x")>>,
     <<Close, Open("a"), Close, Open("a"), Text("x"), Open("b")>>}

A == INSTANCE AutoMarkers WITH
        Names <- {"a", "b"}, Texts <- {"x"}, Template <- {"a"},
        Generated <- Generators, MaxLines <- 6
D == INSTANCE Doctor WITH
        Hooks <- {}, Second <- {"data", "bin", "mcp", "bridge", "pause"}, MaxRounds <- 5

-----------------------------------------------------------------------------
(* The specification.                                                       *)

Parts == {"markers", "packs", "setup", "services", "registry", "doctor", "migrations", "lock",
          "context", "reminder"}

Init ==
    /\ part \in Parts
    /\ WorkInit
    /\ A!Init(IF part = "markers" THEN MarkedFiles ELSE {<<>>})
    /\ D!Init(part = "doctor")

\* The parts other than p stand still.
Only(p) ==
    /\ part = p /\ UNCHANGED workVars
    /\ p # "markers" => UNCHANGED markersVars
    /\ p # "doctor" => UNCHANGED doctorVars

Next ==
    \/ WorkNext /\ UNCHANGED fileVars
    \/ Only("markers") /\ A!Next
    \/ Only("doctor") /\ D!Next

Spec == Init /\ [][Next]_vars

-----------------------------------------------------------------------------
(* Properties: those of the modules, which say what each is about.           *)

\* Files with marked sections: what was written by hand survives.  (Where another part
\* runs, these two are at their first state, and not evaluated again.)
OwnTextSurvives == part = "markers" => A!OwnTextSurvives

\* doctor and its remediations: clean means enforced, advice leads there.
DoctorIsSound == part = "doctor" => D!DoctorIsSound

=============================================================================
