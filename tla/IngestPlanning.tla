---------------------------- MODULE IngestPlanning ----------------------------
(* What one ingest decides (pipeline/run.py): each section of each document is a  *)
(* draft, the deduplicator says which concept it is about, its paragraphs are     *)
(* merged into that concept's claims, and the concepts that changed become a plan *)
(* that is routed, approved whole or item by item, and committed.  IngestCommit   *)
(* models how the commit reaches git, ClaimLayer the claims of one concept with   *)
(* their windows and links, LinkGraph the sections crosslink writes.              *)
(* Here a claim is a paragraph and who stated it; windows, titles, descriptions,  *)
(* timestamps and coverage are left out.                                          *)
EXTENDS Integers, FiniteSets

CONSTANTS
    Concepts,     \* concept ids: of the bundle, and what drafts' titles slug to
    Statements,   \* paragraphs
    Docs,         \* source documents, each with its digest and its citation
    Bundle,       \* who states what a file held before: bundle:<id>
    Conflicts,    \* <<old, new>>: the judge finds them contradictory
    Revises,      \* <<old, new>>: similar enough for the targeter
    Secrets,      \* paragraphs the secret scanner matches
    Ranks,        \* the authority an ingest may give its documents
    BlockBelow, SkimBelow,  \* confidence thresholds, in hundredths
    Index, Log,   \* the paths index.md and log.md
    MaxMerges,    \* bound: paragraphs an ingest merges
    MaxIngests    \* bound: ingests that end

ASSUME PlanningAssumption ==
    /\ Bundle \notin Docs
    /\ Conflicts \subseteq Statements \X Statements
    /\ Revises \subseteq Statements \X Statements
    /\ Secrets \subseteq Statements
    /\ Ranks \subseteq Nat
    /\ BlockBelow \in 0..SkimBelow /\ SkimBelow \in 0..100
    /\ Index \notin Concepts /\ Log \notin Concepts /\ Index # Log
    /\ MaxMerges \in Nat /\ MaxIngests \in Nat

VARIABLES
    disk,       \* concept -> the paragraphs and the citations in its file
    listed,     \* the concepts index.md lists
    run,        \* the ingest under way: see NoRun
    commit,     \* the last commit: paths with their lanes, digests, who said yes
    ingests     \* ingests that ended

planVars == <<disk, listed, run, commit, ingests>>

File == [says : SUBSET Statements, cites : SUBSET Docs]
NoDraft == [doc |-> Bundle, into |-> Bundle, creates |-> FALSE]
\* body and meta are _Accumulator's concepts and meta; merged is what the drafts
\* said so far and where it went.
NoRun == [at |-> "idle", rank |-> 0, stamped |-> {}, body |-> <<>>, meta |-> <<>>,
          flags |-> {}, draft |-> NoDraft, merged |-> {}, merges |-> 0]
NoCommit == [lines |-> {}, evidence |-> {}, yes |-> {}, whole |-> FALSE]
--------------------------------------------------------------------------------
PlanInit ==
    /\ disk \in UNION {[cs -> {f \in File : f.says # {} /\ f.cites = Docs}] : cs \in SUBSET Concepts}
    /\ listed = DOMAIN disk
    /\ run = NoRun
    /\ commit = NoCommit
    /\ ingests = 0

\* A file's claims are its bundle's; the citations are a block of text in it.
Loaded(file) == [says |-> [s \in file.says |-> Bundle], cites |-> file.cites]

\* bind_evidence stamps the documents the scanner does not match with a digest.
BeginIngest(rank, stamped) ==
    /\ run.at = "idle" /\ ingests < MaxIngests
    /\ run' = [NoRun EXCEPT !.at = "reading", !.rank = rank, !.stamped = stamped,
                            !.body = [c \in DOMAIN disk |-> Loaded(disk[c])]]
    /\ UNCHANGED <<disk, listed, commit, ingests>>

\* The index is built once, from the bundle as it was loaded; any of its concepts
\* may be the nearest to a draft, and the adjudicator is shown the nearest ones.
nearest_candidates == DOMAIN disk

\* The nearest concept decides, by how near it is.
route_candidates ==
    {[route |-> "create", top |-> Bundle]}
      \cup [route : {"create", "update", "adjudicate"}, top : nearest_candidates]

\* Between the thresholds the adjudicator picks one of the near concepts, none, or
\* asks for a split.
Verdicts == [verdict : {"same"}, concept : nearest_candidates]
              \cup [verdict : {"different", "split"}, concept : {Bundle}]

Update(c, adjudicated) == [action |-> "update", concept |-> c, adjudicated |-> adjudicated]
Create(adjudicated) == [action |-> "create", concept |-> Bundle, adjudicated |-> adjudicated]

\* Drafts are resolved against the bundle as it was loaded, not as merged so far.
resolve_draft ==
    {Create(FALSE)}
      \cup {Update(r.top, FALSE) : r \in {q \in route_candidates : q.route = "update"}}
      \cup {IF v.verdict = "same" THEN Update(v.concept, TRUE) ELSE Create(TRUE) :
              v \in {w \in Verdicts : w.verdict # "split" /\ nearest_candidates # {}}}

\* Fault: a new concept may take the place of one that is there.
TakenIgnored(id) == FALSE
Taken(id) == id \in DOMAIN run.body

With(f, k, v) == [x \in DOMAIN f \cup {k} |-> IF x = k THEN v ELSE f[x]]

\* What a change is routed by.  A second draft of the run that goes into the same
\* concept starts it afresh.
FreshMeta(doc, adjudicated) ==
    [confidence |-> IF adjudicated THEN 50 ELSE 100, impact |-> "low",
     contradiction |-> "none", evidence |-> {doc} \cap run.stamped]

\* The next section, with the concept its title would create.
StartDraft(doc, id) ==
    /\ run.at = "reading" /\ run.merges < MaxMerges
    /\ \E d \in resolve_draft :
         LET c == IF d.action = "update" THEN d.concept ELSE id IN
         /\ d.action = "create" => ~Taken(id)
         /\ run' = [run EXCEPT
              !.at = "merging",
              !.draft = [doc |-> doc, into |-> c, creates |-> d.action = "create"],
              !.meta = With(@, c, FreshMeta(doc, d.adjudicated)),
              !.body = IF d.action = "create" THEN With(@, c, [says |-> <<>>, cites |-> {}]) ELSE @]
    /\ UNCHANGED <<disk, listed, commit, ingests>>

\* The ingest raises and nothing is written: a title whose concept exists already,
\* in the bundle or since an earlier section; a section too broad to be one concept,
\* which split_draft returns as it was; a section called Index or Log, whose path
\* the plan has already.
Raise ==
    /\ run.at = "reading"
    /\ run' = NoRun /\ ingests' = ingests + 1
    /\ UNCHANGED <<disk, listed, commit>>
--------------------------------------------------------------------------------
Authority(by) == IF by = Bundle THEN 0 ELSE run.rank
Without(f, k) == [x \in DOMAIN f \ {k} |-> f[x]]

\* The judge is asked about two different paragraphs: a restatement is no conflict.
judge(old, new) == old # new /\ <<old, new>> \in Conflicts
Opposing(says, s) == {t \in DOMAIN says : judge(t, s)}

Outcome(says, result) == [says |-> says, result |-> result]
Supersede(says, t, s) == With(Without(says, t), s, run.draft.doc)

\* The claim a paragraph is about, by overlap or by asking a model, or none.
Targets(says, s) == {t \in DOMAIN says : <<t, s>> \in Revises}

\* What merging paragraph s may make of a concept's claims: it is there already;
\* it supersedes one it revises; it contradicts nothing, and is added; it outranks
\* one it contradicts; or it is held and the conflict flagged.
Merges(says, s) ==
    IF s \in DOMAIN says THEN {Outcome(says, "same")}
    ELSE LET targets == Targets(says, s)
             opposing == Opposing(says, s)
             reconciled ==
               IF opposing = {} THEN {Outcome(With(says, s, run.draft.doc), "added")}
               ELSE {IF run.rank > Authority(says[t])
                     THEN Outcome(Supersede(says, t, s), "resolved")
                     ELSE Outcome(says, "escalated") : t \in opposing}
         IN  {Outcome(Supersede(says, t, s), "revised") : t \in targets \ opposing}
               \cup (IF targets = {} \/ targets \cap opposing # {} THEN reconciled ELSE {})

MetaAfter(meta, result) ==
    [meta EXCEPT !.impact = IF result \in {"revised", "resolved"} THEN "medium" ELSE @,
                 !.contradiction = IF result = "escalated" \/ (result = "resolved" /\ @ = "none")
                                   THEN result ELSE @]

\* The citations of a merged body are those of its claims: hydrated claims have none.
Rendered(says) == [says |-> says, cites |-> {says[s] : s \in DOMAIN says} \ {Bundle}]

MergeStatement(s) ==
    LET c == run.draft.into IN
    /\ run.at \in {"merging", "merged"} /\ run.merges < MaxMerges
    /\ s \in Secrets => run.draft.doc \notin run.stamped
    /\ \E o \in (IF run.draft.creates
                 THEN {Outcome(With(run.body[c].says, s, run.draft.doc), "added")}
                 ELSE Merges(run.body[c].says, s)) :
         run' = [run EXCEPT
            !.at = "merged",
            !.body[c] = Rendered(o.says),
            !.meta[c] = MetaAfter(@, o.result),
            !.flags = IF o.result = "escalated" THEN @ \cup {<<c, s>>} ELSE @,
            !.merged = @ \cup {<<c, s, run.draft.doc>>},
            !.merges = @ + 1]
    /\ UNCHANGED <<disk, listed, commit, ingests>>

EndDraft ==
    /\ run.at = "merged"
    /\ run' = [run EXCEPT !.at = "reading", !.draft = NoDraft]
    /\ UNCHANGED <<disk, listed, commit, ingests>>
--------------------------------------------------------------------------------
AUTO == 0
SKIM == 1
BLOCK == 2

Steady == [confidence |-> 100, impact |-> "low", contradiction |-> "none", evidence |-> {}]
Change(path, meta, secret) == [path |-> path, meta |-> meta, secret |-> secret]

\* The scanner reads the whole new content of a file.
scan_secrets(c) == DOMAIN run.body[c].says \cap Secrets # {}

\* A change for every concept a draft went into or the cross-linker rewrote.
ConceptChanges(relinked) ==
    {Change(c, IF c \in DOMAIN run.meta THEN run.meta[c] ELSE Steady, scan_secrets(c)) :
        c \in DOMAIN run.meta \cup relinked}
\* One for an index that lists other concepts now, and one for the log; either may
\* quote a paragraph.
IndexChange(quoting) ==
    IF listed # DOMAIN run.body THEN {Change(Index, Steady, Index \in quoting)} ELSE {}
LogChange(quoting) ==
    IF DOMAIN run.meta # {} THEN {Change(Log, Steady, Log \in quoting)} ELSE {}
Changes(relinked, quoting) ==
    ConceptChanges(relinked) \cup IndexChange(quoting) \cup LogChange(quoting)

\* The lane of one change.  Two more reasons to block are never given: nothing rates an
\* impact high, and nothing sets force_block.
route_change(change) ==
    IF change.secret \/ change.meta.contradiction = "escalated"
         \/ change.meta.confidence < BlockBelow THEN BLOCK
    ELSE IF change.meta.contradiction = "resolved" \/ change.meta.impact = "medium"
              \/ change.meta.confidence < SkimBelow THEN SKIM
    ELSE AUTO

\* Fault: only the changes are looked at.
ApprovalByLanes(changes) == \E ch \in changes : route_change(ch) = BLOCK
\* The strictest lane of the changes, and BLOCK if an escalated conflict was flagged
\* on the way.
lane(changes) ==
    IF run.flags # {} THEN BLOCK
    ELSE CHOOSE l \in {AUTO, SKIM, BLOCK} :
           /\ l = AUTO \/ \E ch \in changes : route_change(ch) = l
           /\ \A ch \in changes : route_change(ch) <= l
requires_approval(changes) == lane(changes) = BLOCK

Written(changes) == {ch.path : ch \in changes}

\* Fault: the digests of every draft of the run are cited, committed or not.
EvidenceOfRun(changes) == UNION {run.meta[c].evidence : c \in DOMAIN run.meta}
Evidence(changes) == UNION {ch.meta.evidence : ch \in changes}

\* Writes the approved changes and commits them with a line each.
commit_plan(changes, yes, whole) ==
    /\ disk' = [c \in DOMAIN disk \cup (Written(changes) \cap Concepts) |->
                  IF c \in Written(changes)
                  THEN [says |-> DOMAIN run.body[c].says, cites |-> run.body[c].cites]
                  ELSE disk[c]]
    /\ listed' = IF Index \in Written(changes) THEN DOMAIN run.body ELSE listed
    /\ commit' = [lines |-> {<<ch.path, route_change(ch)>> : ch \in changes},
                  evidence |-> Evidence(changes), yes |-> yes, whole |-> whole]

EndIngest == run' = NoRun /\ ingests' = ingests + 1
Plans ==
    {Changes(relinked, quoting) :
       relinked \in SUBSET (DOMAIN run.body \ DOMAIN run.meta),
       quoting \in SUBSET (IF \E c \in DOMAIN run.body : DOMAIN run.body[c].says \cap Secrets # {}
                           THEN {Index, Log} ELSE {})}

\* Asked up to three times while the answer is unclear: only a clear yes is one, and
\* a closed input is a no.
request_decision(answers) ==
    \E n \in DOMAIN answers : answers[n] = "yes" /\ \A k \in 1..(n - 1) : answers[k] = "unclear"
Said == {request_decision(answers) : answers \in [1..3 -> {"yes", "no", "unclear", "closed"}]}

\* What the gate may decide: yes without asking when no approval is needed, and
\* with --yes; else what the reader says, or no when there is none.
decide_plan(changes) ==
    {[approved |-> said \/ ~requires_approval(changes), said |-> said] : said \in {TRUE, FALSE} \cup Said}

DecideWhole ==
    /\ run.at = "reading"
    /\ \E changes \in Plans : \E d \in decide_plan(changes) :
         IF changes # {} /\ d.approved
         THEN commit_plan(changes, IF d.said THEN Written(changes) ELSE {}, TRUE)
         ELSE UNCHANGED <<disk, listed, commit>>
    /\ EndIngest

\* --review asks about every flag and then about every change.
request_item_decisions(changes) ==
    [acknowledged : IF run.flags = {} THEN {TRUE} ELSE BOOLEAN, approved : SUBSET changes]
\* A flag nobody acknowledges withholds the whole plan.
approved_changes(review) == IF review.acknowledged THEN review.approved ELSE {}

DecideItems ==
    /\ run.at = "reading"
    /\ \E changes \in Plans : \E review \in request_item_decisions(changes) :
         LET approved == approved_changes(review) IN
         IF approved # {} THEN commit_plan(approved, Written(approved), FALSE)
         ELSE UNCHANGED <<disk, listed, commit>>
    /\ EndIngest

PlanNext ==
    \/ \E rank \in Ranks, stamped \in SUBSET Docs : BeginIngest(rank, stamped)
    \/ \E doc \in Docs, id \in Concepts : StartDraft(doc, id)
    \/ \E s \in Statements : MergeStatement(s)
    \/ EndDraft \/ Raise \/ DecideWhole \/ DecideItems

PlanSpec == PlanInit /\ [][PlanNext]_planVars
--------------------------------------------------------------------------------
SaysOf(c) == IF c \in DOMAIN disk THEN disk[c].says ELSE {}
Gained(c) == disk'[c].says \ SaysOf(c)

\* Nothing a person should have seen goes in unseen: a file that gains a paragraph
\* with a secret, or any file of an ingest in which a conflict was escalated, is
\* changed only when somebody said yes to it - though the second draft of a run that
\* goes into a concept makes the pipeline forget what the first one met there
\* (approve/autonomy.py:67-93).
Reviewed ==
    \A c \in DOMAIN disk' :
        /\ c \notin DOMAIN disk \/ disk'[c] # disk[c]
        /\ Gained(c) \cap Secrets # {} \/ run.flags # {}
        => c \in commit'.yes
NothingUnreviewed == [][Reviewed]_planVars

\* A later paragraph of the run explains that s is not in concept c.
Explained(s, c) == \E m \in run.merged : m[1] = c /\ <<s, m[2]>> \in Revises \cup Conflicts

\* README.md:12: knowledge is never silently overwritten.  When a whole plan is
\* committed, every paragraph of every draft is in the file of the concept it went
\* into, or is flagged, or a later one replaced it; and a paragraph a file held
\* before is gone only if one of the run's replaced it there.
KeptOrExplained ==
    disk' # disk /\ commit'.whole =>
        /\ \A m \in run.merged :
             \/ m[2] \in disk'[m[1]].says \/ <<m[1], m[2]>> \in run.flags
             \/ Explained(m[2], m[1])
        /\ \A c \in DOMAIN disk : \A s \in disk[c].says \ disk'[c].says : Explained(s, c)
NothingDropped == [][KeptOrExplained]_planVars

PathsOf(lines) == {l[1] : l \in lines}

\* The audit trail of a commit: it has a line for every file that changed; every
\* digest it cites is of a document that went into a file it wrote; and a paragraph
\* a file gained is backed by the digest of its document if that has one, unless
\* another document went into the same concept.
Accounted ==
    disk' # disk =>
        /\ \A c \in DOMAIN disk' : disk'[c].says # SaysOf(c) => c \in PathsOf(commit'.lines)
        /\ \A d \in commit'.evidence :
             \E m \in run.merged : m[3] = d /\ m[1] \in PathsOf(commit'.lines)
        /\ \A c \in DOMAIN disk' : \A s \in Gained(c) :
             \E m \in run.merged :
               /\ m[1] = c /\ m[2] = s
               /\ \/ m[3] \in run.stamped => m[3] \in commit'.evidence
                  \/ \E other \in run.merged : other[1] = c /\ other[3] # m[3]
CommitAccounts == [][Accounted]_planVars

\* docs/system_design.md:172: a concept can be reconstructed from its sources; its
\* body ends in a citations section.  A file that keeps a paragraph keeps what it
\* cites.
CitationsKept ==
    [][\A c \in DOMAIN disk : disk[c].says \subseteq disk'[c].says
         => disk[c].cites \subseteq disk'[c].cites]_planVars

\* approve/autonomy.py:8-9: the AUTO lane is for an isolated create, an additive claim
\* or a regenerated link, index or log.  A file that loses a paragraph is not committed
\* in it.
ReplacementsAreSkimmed ==
    [][\A c \in DOMAIN disk : disk[c].says \ disk'[c].says # {}
         => <<c, AUTO>> \notin commit'.lines]_planVars
================================================================================
