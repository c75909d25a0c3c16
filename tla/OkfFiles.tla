-------------------------------- MODULE OkfFiles --------------------------------
(* The files of a bundle and the three rules they must follow: the validator       *)
(* (validate.py), the loader (okf/), and what an ingest writes: concepts with      *)
(* their frontmatter (okf/serialize.py), indexes (indexlog/index.py) and the dated *)
(* change log (indexlog/log.py).  The bundle has one concept and the root's index: *)
(* a frontmatter is one of the kinds the loader, the writer and the validator tell *)
(* apart, and the log is its lines.                                                *)
EXTENDS Integers, Sequences, FiniteSets

LOCAL INSTANCE SequencesExt

CONSTANTS
    Days,       \* dates of log entries
    Notes,      \* log entries an ingest writes
    BadDay,     \* a date heading that names no day of the calendar
    Heading,    \* a heading that is not a date
    Text,       \* a line of prose
    MaxLines    \* bound: lines of a log an author leaves

ASSUME FilesAssumption ==
    /\ Days \subseteq Nat
    /\ {BadDay, Heading, Text} \cap (Days \cup Notes) = {} /\ Days \cap Notes = {}

VARIABLES
    front,      \* the concept's frontmatter
    index,      \* the frontmatter of index.md
    log         \* the lines of log.md after its title

fileVars == <<front, index, log>>

\* ill_typed: a type is there, and it or another field is not of its type; wikilink:
\* all is well but the body holds a [[wikilink]].
Fronts == {"none", "unparseable", "untyped", "blank", "ill_typed", "wikilink", "good"}
IndexFronts == {"none", "version", "other"}
Lines == Days \cup Notes \cup {BadDay, Heading, Text}
--------------------------------------------------------------------------------
\* The validator reads raw frontmatter, the loader a typed one.
CheckConcept(f) == f \in {"ill_typed", "wikilink", "good"}
Parses(f) == f \in {"blank", "wikilink", "good"}
CheckIndex(f) == f \in {"none", "version"}
\* Only real dates are compared, but a heading that names no day is an error itself.
CheckLog(lines) ==
    /\ BadDay \notin Range(lines)
    /\ \A i, j \in DOMAIN lines :
         i < j /\ {lines[i], lines[j]} \subseteq Days => lines[i] >= lines[j]
\* Broken links and over-long concepts are warnings, which fail nothing.
validate_bundle == CheckConcept(front) /\ CheckIndex(index) /\ CheckLog(log)
--------------------------------------------------------------------------------
\* The lines under the last date heading: a heading of another kind ends its group,
\* and what no date heads is lost.
GroupAt(lines, i) ==
    LET heads == {h \in 1..i : lines[h] \in Days \cup {Heading}}
    IN IF heads = {} THEN Heading
       ELSE lines[CHOOSE h \in heads : \A g \in heads : g <= h]
Group(lines, day) ==
    LET at == [i \in DOMAIN lines |-> <<GroupAt(lines, i), lines[i]>>]
        under == SelectSeq(at, LAMBDA l : l[1] = day /\ l[2] \notin Days)
    IN [i \in DOMAIN under |-> under[i][2]]

\* Fault: the dates stay in the order they came in.
DatesAsFound(days) == SetToSortSeq(days, LAMBDA a, b : a < b)
Dates(days) == SetToSortSeq(days, LAMBDA a, b : a > b)

append_entries(lines, day, notes) ==
    LET days == Dates((Range(lines) \cap Days) \cup {day})
    IN FlattenSeq([i \in DOMAIN days |->
         <<days[i]>> \o Group(lines, days[i]) \o (IF days[i] = day THEN notes ELSE <<>>)])
--------------------------------------------------------------------------------
FilesInit == front \in Fronts /\ index \in IndexFronts /\ log = <<>>

EditConcept == front' \in Fronts /\ UNCHANGED <<index, log>>
EditIndex == index' \in IndexFronts /\ UNCHANGED <<front, log>>
EditLog ==
    /\ \/ Len(log) < MaxLines /\ \E i \in 1..(Len(log) + 1), line \in Lines : log' = InsertAt(log, i, line)
       \/ \E i \in DOMAIN log : log' = RemoveAt(log, i)
    /\ UNCHANGED <<front, index>>

\* An ingest that changes the concept, of which all files or some are approved.  It
\* fails before it writes anything if the bundle does not load, the body cannot be
\* serialised, or the log has a heading that names no day.
Approvals == (SUBSET {"concept", "index", "log"}) \ {{}}
WriteIngest(day, approved) ==
    /\ Parses(front) /\ front # "wikilink"
    /\ BadDay \notin Range(log)
    /\ Len(log) <= MaxLines
    /\ IF "log" \in approved
       THEN \E note \in Notes : log' = append_entries(log, day, <<note>>)
       ELSE UNCHANGED log
    /\ index' = IF "index" \in approved THEN "version" ELSE index
    /\ UNCHANGED front

FilesNext ==
    \/ EditConcept \/ EditIndex \/ EditLog
    \/ \E day \in Days, approved \in Approvals : WriteIngest(day, approved)

FilesSpec == FilesInit /\ [][FilesNext]_fileVars
--------------------------------------------------------------------------------
\* Every file an ingest writes conforms, whatever its index and its log looked like
\* before (indexlog/log.py:3-8), unless the concept the ingest read had a blank type,
\* which loads: a bundle whose files are all approved is conformant, and approving
\* some never spoils one that was.  The ingest adds at most one entry and keeps every
\* dated one, under its date and in its order.
WritesConform ==
    [][\A day \in Days, approved \in Approvals :
         fileVars' # fileVars /\ WriteIngest(day, approved) =>
           /\ \/ validate_bundle
              \/ front = "good" /\ {"index", "log"} \subseteq approved
              => validate_bundle'
           /\ "log" \in approved =>
                /\ CheckLog(log')
                /\ \A d \in Days : IsPrefix(Group(log, d), Group(log', d))
                /\ \A i \in DOMAIN log' : log'[i] \notin Days => GroupAt(log', i) \in Days]_fileVars

\* A bundle the validator passes is one the loader reads, and one it fails is not
\* (README: validate before serving).  A type that is a number passes, and every
\* other command refuses the bundle.
ValidMeansLoadable == validate_bundle => Parses(front)
================================================================================
