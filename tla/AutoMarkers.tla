------------------------------ MODULE AutoMarkers ------------------------------
(***************************************************************************)
(* A feature-pack file with generated sections between @auto markers: the   *)
(* parser, the replacement of the sections, `pack regenerate`, and the web  *)
(* editor's save, which refuses to change the set of markers.  A file is a  *)
(* sequence of lines; a line is a marker, a code fence or some text.        *)
(***************************************************************************)
EXTENDS Naturals, Sequences, SequencesExt

CONSTANTS
    Names,       \* section names of the grammar
    Texts,       \* lines a user may write
    Template,    \* the sections the template populates
    Generated,   \* the texts a generator may produce: sequences of lines
    MaxLines     \* bound: lines of a file a user saves

Line(k, n) == [k |-> k, n |-> n]
Fence == Line("fence", "")
Close == Line("close", "")
BadOpen == Line("open", "-bad")        \* matches OPEN_PATTERN, not VALID_SECTION_NAME
Lines == [k : {"open"}, n : Names] \cup [k : {"text"}, n : Texts]
         \cup {Fence, Close, BadOpen}

VARIABLES
    doc,         \* the file on disk
    own,         \* history: what the user wrote, last
    names        \* history: the sections of the first file, in order

vars == <<doc, own, names>>

-----------------------------------------------------------------------------
(* parseAutoSections.                                                       *)

NoSection == [name |-> "", open |-> 0, close |-> 0, inner |-> <<>>]
Start == [sections |-> <<>>, errors |-> {}, seen |-> {}, active |-> NoSection, fenced |-> FALSE]

Active(p) == p.active # NoSection
Inner(p, l) == IF Active(p) THEN [p EXCEPT !.active.inner = Append(@, l)] ELSE p
Wrong(p, e) == [p EXCEPT !.errors = @ \cup {e}]

OpenTag(p, i, l) ==
    CASE l.n \notin Names -> Wrong(p, "invalid_section_name")
      [] l.n \in Names /\ Active(p) -> Inner(Wrong(p, "nested_open_tag"), l)
      [] l.n \in p.seen /\ ~Active(p) -> Wrong(p, "duplicate_section_name")
      [] OTHER -> [p EXCEPT !.active = [NoSection EXCEPT !.name = l.n, !.open = i],
                            !.seen = @ \cup {l.n}]

CloseTag(p, i) ==
    IF Active(p)
    THEN [p EXCEPT !.sections = Append(@, [p.active EXCEPT !.close = i]), !.active = NoSection]
    ELSE Wrong(p, "unmatched_close_tag")

Read(d, p, i) ==
    LET l == d[i] IN
    CASE l = Fence -> [Inner(p, l) EXCEPT !.fenced = ~@]
      [] l # Fence /\ p.fenced -> Inner(p, l)
      [] l.k = "open" /\ ~p.fenced -> OpenTag(p, i, l)
      [] l = Close /\ ~p.fenced -> CloseTag(p, i)
      [] OTHER -> Inner(p, l)

Parse(d) ==
    LET p == FoldLeftDomain(LAMBDA q, i : Read(d, q, i), Start, d)
    IN IF Active(p) THEN Wrong(p, "missing_close_tag") ELSE p

SectionNames(d) == [i \in DOMAIN Parse(d).sections |-> Parse(d).sections[i].name]

-----------------------------------------------------------------------------
(* replaceAutoSections: gen is a function from the populated sections.      *)

\* What the file has for line i: an open tag brings its section's new inner lines.
Emit(d, secs, gen, i) ==
    LET here == {s \in secs : s.open = i}
        body(s) == IF s.name \in DOMAIN gen THEN gen[s.name] ELSE s.inner
    IN CASE here # {} -> <<d[i]>> \o body(CHOOSE s \in here : TRUE)
         [] \E s \in secs : s.open < i /\ i < s.close -> <<>>
         [] OTHER -> <<d[i]>>

\* Mutant of Replace: the line after a section is taken for its close tag.
ReplaceTooFar(d, gen) ==
    LET secs == {[s EXCEPT !.close = @ + 1] : s \in ToSet(Parse(d).sections)}
    IN FlattenSeq([i \in DOMAIN d |-> Emit(d, secs, gen, i)])

Replace(d, gen) ==
    LET secs == ToSet(Parse(d).sections)
    IN FlattenSeq([i \in DOMAIN d |-> Emit(d, secs, gen, i)])

-----------------------------------------------------------------------------
(* compareMarkerSets: the names added, removed or in another order.         *)

DeltaIsEmpty(before, after) ==
    LET common == SelectSeq(before, LAMBDA n : n \in ToSet(after))
    IN /\ ToSet(before) = ToSet(after)
       /\ \A i \in DOMAIN common : common[i] = SelectSeq(after, LAMBDA n : n \in ToSet(before))[i]

-----------------------------------------------------------------------------
\* What belongs to the user: the lines outside the populated sections.  In another
\* section an open tag with an invalid name does not count: the parser drops it.
Own(d) ==
    LET p == Parse(d)
        lost(i) == \E s \in ToSet(p.sections) :
                      s.open < i /\ i < s.close /\ (s.name \in Template \/ d[i] = BadOpen)
    IN SelectSeq([i \in DOMAIN d |-> <<d[i], lost(i)>>], LAMBDA x : ~x[2])

Init(files) ==
    /\ doc \in files
    /\ own = Own(doc) /\ names = SectionNames(doc)

\* populateAutoSections: a text for each section of the template, made from the
\* project's manifests and directories.
Populated == [Template -> Generated]

\* pack regenerate, pack new and init with a template: every populated section gets
\* its text.
Regenerate ==
    /\ \E gen \in Populated : doc' = Replace(doc, gen)
    /\ UNCHANGED <<own, names>>

\* A user adds, drops or changes one line in the editor.
Edits(d) ==
    {InsertAt(d, i, l) : i \in 1..Len(d) + 1, l \in Lines}
    \cup {RemoveAt(d, i) : i \in DOMAIN d}
    \cup {ReplaceAt(d, i, l) : i \in DOMAIN d, l \in Lines}

\* Mutant of MaySave: the file has to parse, its sections are not compared.
MaySaveWhatParses(content) == Parse(content).errors = {}

MaySave(content) ==
    /\ Parse(content).errors = {}
    /\ DeltaIsEmpty(SectionNames(doc), SectionNames(content))

\* saveFeaturePackAction.
Save ==
    \E content \in Edits(doc) :
        /\ Len(content) <= MaxLines
        /\ MaySave(content)
        /\ doc' = content /\ own' = Own(content) /\ UNCHANGED names

Next == Regenerate \/ Save

-----------------------------------------------------------------------------
(* Properties.                                                              *)

\* serializer.ts, "Open-tag and close-tag are never modified; only the inner content
\* between them is replaced": along any saves and regenerations, what is outside the
\* populated sections is what the user wrote last, and the sections are those the
\* file began with.
OwnTextSurvives == Own(doc) = own /\ SectionNames(doc) = names

=============================================================================
