------------------------------- MODULE AuditTrail -------------------------------
(* The audit record of a bundle is its git history.  commit_plan (pipeline/run.py) *)
(* writes what a plan changed, who reviewed it and what evidence it rests on into  *)
(* the commit's message; people commit too, and squash or merge what ingests have  *)
(* committed, messages and all; `kosha export` and `kosha gap scan` (audit/export.py,*)
(* gaps/produce.py) read every reachable message back.  Of a change the path and   *)
(* the coverage of its evidence are kept; lane, impact, confidence and             *)
(* contradiction are written and read the same way.                                *)
EXTENDS Integers, Sequences, FiniteSets

CONSTANTS
    ChangedPaths,   \* paths of a bundle that plans change
    Spaced,         \* those of them with a blank in the name
    Reviewers,      \* who may approve a plan
    NoReviewer,     \* nobody was named
    Blank,          \* a name that is only blanks
    Multiline,      \* a name with a line break in it
    Unclassified,   \* the coverage of a change whose evidence carries none
    MaxTrail        \* bound: commits an ingest may add to; people may add one more

ASSUME TrailAssumption ==
    /\ IsFiniteSet(ChangedPaths) /\ Spaced \subseteq ChangedPaths
    /\ {NoReviewer, Blank, Multiline} \cap Reviewers = {} /\ MaxTrail \in Nat
    /\ Cardinality({NoReviewer, Blank, Multiline}) = 3
    /\ Unclassified \notin {"complete", "sampled"}

VARIABLE trail      \* the commits reachable from the ref, oldest first

Elements(s) == {s[i] : i \in DOMAIN s}

\* Coverage is complete or falls short in one of five ways: sampled stands for them.
Coverages == {"complete", "sampled", Unclassified}

\* A file a plan changes, and whether its claims point at evidence.
FileChange == [path : ChangedPaths, bound : BOOLEAN]
ChangeLists ==
    {s \in UNION {[1..n -> FileChange] : n \in 1..Cardinality(ChangedPaths)} :
        \A i, j \in DOMAIN s : s[i].path = s[j].path => i = j}

\* The name the operator gives: blanks are nobody, and a line break is refused, since
\* the name becomes a line of the message.
normalize_reviewer(raw) == IF raw = Blank THEN NoReviewer ELSE raw
Named == {normalize_reviewer(raw) : raw \in (Reviewers \cup {NoReviewer, Blank, Multiline}) \ {Multiline}}

Bound(plan) == \E i \in DOMAIN plan.changes : plan.changes[i].bound

\* An approved plan, with the coverage of the run that bound its evidence.
Plan == {plan \in [changes : ChangeLists, coverage : Coverages, reviewer : Named] :
            Bound(plan) \/ plan.coverage = Unclassified}
coverage(plan, change) == IF change.bound THEN plan.coverage ELSE Unclassified
--------------------------------------------------------------------------------
\* _change_line: what is not there to say leaves its attribute out.
change_line(path, covered) ==
    [tag |-> "change", path |-> path,
     attrs |-> IF covered = Unclassified THEN <<>> ELSE [coverage |-> covered]]
change_lines(plan) ==
    [i \in DOMAIN plan.changes |-> change_line(plan.changes[i].path, coverage(plan, plan.changes[i]))]

\* The trailers of an evidence run that bound some approved claim, and of a reviewer.
\* The digests of the evidence are one line here.
source_run == [tag |-> "source_run"]
evidence_sha256 == [tag |-> "evidence"]
evidence_lines(plan) == IF Bound(plan) THEN <<source_run, evidence_sha256>> ELSE <<>>
reviewed_by(name) == [tag |-> "reviewed", by |-> name]
reviewer_lines(plan) ==
    IF plan.reviewer = NoReviewer THEN <<>> ELSE <<reviewed_by(plan.reviewer)>>

message(plan) == change_lines(plan) \o evidence_lines(plan) \o reviewer_lines(plan)

\* A commit: who made it, the plans its message tells of and the last of their
\* reviewers, whether its subject is an ingest's, and the lines below that.
ingest_commit(plan) ==
    [by |-> "ingest", plans |-> {plan}, reviewer |-> plan.reviewer,
     subject |-> "ingest", lines |-> message(plan)]
Nothing == [by |-> "hand", plans |-> {}, reviewer |-> NoReviewer, subject |-> "other", lines |-> <<>>]

\* A message that holds two others, as those of squashes and merges do.
Quoting(first, second, subject) ==
    [by |-> "hand", plans |-> first.plans \cup second.plans,
     reviewer |-> IF second.reviewer = NoReviewer THEN first.reviewer ELSE second.reviewer,
     subject |-> subject, lines |-> first.lines \o second.lines]

TrailInit == trail = <<>>

CommitIngest ==
    /\ Len(trail) < MaxTrail
    /\ \E plan \in Plan : trail' = Append(trail, ingest_commit(plan))

\* A commit somebody makes.  It may quote two messages, or one, or none, of commits
\* that may quote others; its subject is the first one's or another.
CommitByHand ==
    /\ Len(trail) <= MaxTrail
    /\ \E first, second \in Elements(trail) \cup {Nothing} :
         \E subject \in {first.subject, "other"} :
           trail' = Append(trail, Quoting(first, second, subject))

\* The last two commits become one, which keeps both messages; more by repeating it.
Squash ==
    LET last == Len(trail) IN
    /\ last > 1
    /\ \E subject \in {trail[last - 1].subject, "other"} :
         trail' = Append(SubSeq(trail, 1, last - 2), Quoting(trail[last - 1], trail[last], subject))

TrailNext == CommitIngest \/ CommitByHand \/ Squash
TrailSpec == TrailInit /\ [][TrailNext]_trail
--------------------------------------------------------------------------------
\* A change line is matched as words: a path with a blank in it is not one.
Matches(line) == line.tag = "change" /\ line.path \notin Spaced
attr(line, a, absent) == IF a \in DOMAIN line.attrs THEN line.attrs[a] ELSE absent

\* Fault: an attribute that is missing is read as the best value.
parse_change_lineHopeful(line) ==
    [path |-> line.path, coverage |-> attr(line, "coverage", "complete")]

parse_change_line(line) ==
    [path |-> line.path, coverage |-> attr(line, "coverage", Unclassified)]

\* Of several names the last one is kept.
NamedAt(lines) == {i \in DOMAIN lines : lines[i].tag = "reviewed"}
LastAt(lines) == CHOOSE i \in NamedAt(lines) : \A j \in NamedAt(lines) : j <= i
reviewer_of(lines) == IF NamedAt(lines) = {} THEN NoReviewer ELSE lines[LastAt(lines)].by

\* The changes are a list; a change has the number of its line.
parse_commit_message(commit) ==
    [is_ingest |-> commit.subject = "ingest",
     changes |-> [i \in {n \in DOMAIN commit.lines : Matches(commit.lines[n])} |->
                    parse_change_line(commit.lines[i])],
     reviewer |-> reviewer_of(commit.lines),
     source_run |-> source_run \in Elements(commit.lines),
     evidence |-> evidence_sha256 \in Elements(commit.lines)]

evidence_status(record) ==
    IF ~record.is_ingest THEN "n/a"
    ELSE IF record.source_run /\ record.evidence THEN "verified" ELSE "legacy"

build_report == [k \in DOMAIN trail |-> parse_commit_message(trail[k])]

Incomplete(change) == change.coverage \notin {"complete", Unclassified}

\* A gap is the kind and the commit, or the commit and path, it stands for; commits
\* are named by their place.  Two signals with one key are one gap in the ledger.
dedup_key(kind, parts) == <<kind>> \o parts
NoEvidence(k) == dedup_key("legacy_evidence", <<k>>)
NotCovered(k, path) == dedup_key("incomplete_coverage", <<k, path>>)

WithStatus(report, status) == {k \in DOMAIN report : evidence_status(report[k]) = status}

\* The places of the changes of any commit whose evidence did not cover its source.
Uncovered(report) ==
    UNION {{<<k, i>> : i \in {n \in DOMAIN report[k].changes : Incomplete(report[k].changes[n])}} :
             k \in DOMAIN report}

\* One gap for an ingest without evidence, one for a path of a commit with such a change.
gaps_from_compliance_report(report) ==
    {NoEvidence(k) : k \in WithStatus(report, "legacy")}
      \cup {NotCovered(u[1], report[u[1]].changes[u[2]].path) : u \in Uncovered(report)}

\* The totals of a report, which count the changes one by one.
Summary(report) ==
    [ingests |-> Cardinality({k \in DOMAIN report : report[k].is_ingest}),
     verified |-> Cardinality(WithStatus(report, "verified")),
     legacy |-> Cardinality(WithStatus(report, "legacy")),
     incomplete |-> Cardinality(Uncovered(report))]

\* `kosha export`, as a JSON object or a Markdown page.  The page leaves out what is
\* not there to say: the evidence of a commit that is no ingest, a coverage nobody
\* classified.
to_json(report) ==
    [k \in DOMAIN report |->
        [evidence |-> evidence_status(report[k]), reviewer |-> report[k].reviewer,
         changes |-> report[k].changes]]
to_markdown(report) ==
    [k \in DOMAIN report |->
        [evidence |-> IF report[k].is_ingest THEN {evidence_status(report[k])} ELSE {},
         changes |-> [i \in DOMAIN report[k].changes |->
                        [path |-> report[k].changes[i].path,
                         details |-> {report[k].changes[i].coverage} \ {Unclassified}]]]]
--------------------------------------------------------------------------------
\* What a reader is to learn of a commit: the changes of the plans it tells of, except
\* to a path with a blank.
Told(plan, change) == [path |-> change.path, coverage |-> coverage(plan, change)]
Readable(plan) == {c \in Elements(plan.changes) : c.path \notin Spaced}
History(commit) == UNION {{Told(p, c) : c \in Readable(p)} : p \in commit.plans}

\* The report says of a commit exactly what the plans in its message changed, with the
\* coverage of their evidence and the last of their reviewers; of an ingest's own
\* commit it says each of them once.  A commit with an ingest's subject is verified
\* exactly when some plan it tells of was bound to evidence, and a gap is raised for
\* exactly the others and for the paths of any commit that its evidence did not cover.
\* The totals split the ingests in two, and never count fewer than the gaps; they count
\* more only when some message names a path twice (audit/export.py:1-32,
\* gaps/produce.py:37-56).
AuditTellsHistory ==
    LET report == build_report
        gaps_found == gaps_from_compliance_report(report)
        json == to_json(report)
        page == to_markdown(report)
        totals == Summary(report)
        Twice(k) == \E i, j \in DOMAIN report[k].changes :
                      i # j /\ report[k].changes[i].path = report[k].changes[j].path
    IN /\ \A k \in DOMAIN trail :
            LET commit == trail[k]
                bound == \E p \in commit.plans : Bound(p)
            IN /\ Elements(json[k].changes) = History(commit)
               /\ commit.by = "ingest" => ~Twice(k)
               /\ json[k].reviewer = commit.reviewer
               /\ IF commit.subject = "ingest"
                  THEN /\ json[k].evidence = IF bound THEN "verified" ELSE "legacy"
                       /\ page[k].evidence = {json[k].evidence}
                  ELSE page[k].evidence = {}
               /\ NoEvidence(k) \in gaps_found <=> commit.subject = "ingest" /\ ~bound
               /\ \A path \in ChangedPaths :
                    NotCovered(k, path) \in gaps_found
                      <=> \E c \in History(commit) : c.path = path /\ Incomplete(c)
       /\ totals.verified + totals.legacy = totals.ingests
       /\ Cardinality(gaps_found) <= totals.legacy + totals.incomplete
       /\ (\A k \in DOMAIN trail : ~Twice(k)) =>
            Cardinality(gaps_found) = totals.legacy + totals.incomplete

\* Every file an ingest committed is in the report (audit/export.py:13: the message
\* stamps each changed file).  A path with a blank is not.
EveryFileReported ==
    \A k \in DOMAIN trail :
        trail[k].by = "ingest" =>
            \A p \in trail[k].plans : {c.path : c \in Elements(p.changes)}
                                        = {c.path : c \in Elements(build_report[k].changes)}

\* audit/export.py:263-265: a non-ingest commit is still reported, unstructured
\* (is_ingest=False, changes=()).  One that quotes an ingest's message is not.
OthersUnstructured ==
    \A k \in DOMAIN trail : ~build_report[k].is_ingest => DOMAIN build_report[k].changes = {}
================================================================================
