------------------------------- MODULE LinkGraph -------------------------------
(* The graph a bundle's files draw: links in the prose, the managed "# Related"   *)
(* and "# Backlinks" sections the cross-linker keeps at the end of each concept   *)
(* (link/), and the index.md of each directory (indexlog/index.py).  An ingest    *)
(* merges a paragraph, relinks the whole bundle in memory and plans to write the  *)
(* files it finds changed (pipeline/run.py); what a reviewer approves of the plan *)
(* is written, later and over whatever is there by then; authors edit files by    *)
(* hand; `kosha recover reindex` (recovery.py) first describes the index.md files *)
(* that drifted and then writes those; a server loads the files and answers       *)
(* follow_links and list_index from what it parsed.                               *)
(* A concept id is its path, a sequence of names; a body is its paragraphs, its   *)
(* two sections, and what was written after them.                                 *)
(* Bound: one plan waits for its review while other ingests come and go.          *)
EXTENDS Integers, Sequences, FiniteSets

CONSTANTS
    ConceptIds, \* the paths concepts can have
    Prose,      \* paragraphs
    Mentions,   \* paragraph -> the concepts it links to
    Overlap     \* <<p, q>>: a concept with p is related to one with q

ASSUME LinkAssumption ==
    /\ ConceptIds \subseteq Seq(STRING) \ {<<>>}
    /\ Mentions \in [Prose -> SUBSET ConceptIds]
    /\ Overlap \subseteq Prose \X Prose

VARIABLES
    files,      \* concept -> the body in its file
    indexes,    \* directory -> what its index.md lists
    settled,    \* what nothing has overtaken: "ingest", "reindex", or neither: "edit"
    reindex,    \* the reindex under way: see NoReindex
    pending     \* the plan that waits for its review: see NoPending

graphVars == <<files, indexes, settled, reindex, pending>>

\* The directories whose index.md drifted, and whether files were edited since.
NoReindex == [at |-> "idle", planned |-> {}, stale |-> FALSE]

\* The bodies and the index.md files an ingest plans to write, and whether the
\* bundle has changed since it read it.
NoPending == [at |-> "idle", bodies |-> <<>>, lists |-> <<>>, stale |-> FALSE]
ingested == settled = "ingest"

Body == [prose : SUBSET Prose, related : SUBSET ConceptIds,
         backlinks : SUBSET ConceptIds, tail : SUBSET Prose]
Plain(paragraphs) == [prose |-> paragraphs, related |-> {}, backlinks |-> {}, tail |-> {}]
MentionedIn(paragraphs) == UNION {Mentions[p] : p \in paragraphs}
--------------------------------------------------------------------------------
\* The sections sit at the end: what follows the first of them is cut with them.
strip_managed_sections(body) == Plain(body.prose)

\* Prose and Related; the Backlinks section and what follows it do not count.
forward_targets(body) ==
    MentionedIn(body.prose) \cup body.related
      \cup (IF body.backlinks = {} THEN MentionedIn(body.tail) ELSE {})

\* The parser, which knows no sections, takes every link in the file.
extract_out_links(body) ==
    MentionedIn(body.prose \cup body.tail) \cup body.related \cup body.backlinks

compute_backlinks(bundle, c) == {s \in DOMAIN bundle : c \in forward_targets(bundle[s])}

\* Relations are looked for in the stripped bodies: the relator proposes the concepts
\* whose terms overlap, and one the prose links to already is not proposed again.
\* The cap of five proposals is above the number of concepts here.
term_overlap(body, other) == \E p \in body.prose, q \in other.prose : <<p, q>> \in Overlap
relate(bundle, c) == {d \in DOMAIN bundle \ {c} : term_overlap(bundle[c], bundle[d])}
discover_relations(bundle, c) == relate(bundle, c) \ MentionedIn(bundle[c].prose)

\* Fault: relations are looked for in the bodies as they are, sections included.
apply_linksUnstripped(bundle) ==
    LET found(c) == discover_relations(bundle, c) \ forward_targets(bundle[c])
        staged == [c \in DOMAIN bundle |->
                     [strip_managed_sections(bundle[c]) EXCEPT !.related = found(c)]]
    IN  [c \in DOMAIN bundle |-> [staged[c] EXCEPT !.backlinks = compute_backlinks(staged, c)]]

apply_links(bundle) ==
    LET staged == [c \in DOMAIN bundle |-> [strip_managed_sections(bundle[c]) EXCEPT
                                              !.related = discover_relations(bundle, c)]]
    IN  [c \in DOMAIN bundle |-> [staged[c] EXCEPT !.backlinks = compute_backlinks(staged, c)]]

crosslink(bundle) == apply_links(bundle)
--------------------------------------------------------------------------------
directory_of(id) == SubSeq(id, 1, Len(id) - 1)
\* Fault: only the directories that hold a concept themselves.
directories_with_concepts(bundle) == {<<>>} \cup {directory_of(id) : id \in DOMAIN bundle}

bundle_directories(bundle) ==
    {<<>>} \cup UNION {{SubSeq(id, 1, n) : n \in 1..(Len(id) - 1)} : id \in DOMAIN bundle}

\* The directory's own concepts, and the directories one level down that hold any.
regenerate_index(bundle, dir) ==
    [concepts |-> {id \in DOMAIN bundle : directory_of(id) = dir},
     subdirs |-> {d \in bundle_directories(bundle) : d # <<>> /\ directory_of(d) = dir}]

regenerate_indexes(bundle) ==
    [d \in bundle_directories(bundle) |-> regenerate_index(bundle, d)]
--------------------------------------------------------------------------------
GraphInit ==
    /\ files = <<>> /\ indexes = <<>>
    /\ settled = "ingest" /\ reindex = NoReindex /\ pending = NoPending

Put(bundle, c, body) == [d \in DOMAIN bundle \cup {c} |-> IF d = c THEN body ELSE bundle[d]]

\* old, with those of the new files that are named.
Overwrite(old, new, named) ==
    [d \in DOMAIN old \cup named |-> IF d \in named THEN new[d] ELSE old[d]]

\* Whether a concept's change is emitted: new, merged into, or its links changed -
\* the links of the new body against every link the parser found in the old file,
\* as lists, so that with two or more the order counts too.
MustWrite(old, linked, merged) ==
    {c \in DOMAIN linked :
        \/ c \notin DOMAIN old
        \/ c = merged
        \/ forward_targets(linked[c]) # extract_out_links(old[c])
        \/ compute_backlinks(linked, c) # compute_backlinks(old, c)}
MayWrite(old, linked) ==
    {c \in DOMAIN linked \cap DOMAIN old : Cardinality(extract_out_links(old[c])) > 1}

\* An ingest with one draft: the paragraph joins a concept, replaces one of its
\* paragraphs, or becomes a concept.  The merged body is the claims', which come
\* from the stripped file.
MergedBody(c, p, gone) ==
    IF c \in DOMAIN files THEN Plain((files[c].prose \ gone) \cup {p}) ELSE Plain({p})

\* The changes of a plan that merged into c.  An index.md is planned for every
\* directory with a concept whose list moves; one whose directory is gone is left alone.
Changed(linked, c) ==
    LET must == MustWrite(files, linked, c)
        moved == {d \in bundle_directories(linked) :
                    d \notin DOMAIN indexes \/ indexes[d] # regenerate_index(linked, d)} IN
    {[bodies |-> [d \in must \cup may |-> linked[d]],
      lists |-> [d \in moved |-> regenerate_index(linked, d)]] :
        may \in SUBSET (MayWrite(files, linked) \ must)}

\* What ingest may plan for one draft.
Replaceable(c) == {{}} \cup (IF c \in DOMAIN files THEN {{p} : p \in files[c].prose} ELSE {})
LinkPlans(c, p) ==
    UNION {Changed(crosslink(Put(files, c, MergedBody(c, p, gone))), c) : gone \in Replaceable(c)}

\* commit_plan, and commit_reviewed_plan with the items a reviewer approved: bodies
\* and lists are those of the plan, over whatever the bundle holds by now.
Write(plan, bodies, lists) ==
    /\ bodies \subseteq DOMAIN plan.bodies /\ lists \subseteq DOMAIN plan.lists
    /\ bodies \cup lists # {}
    /\ files' = Overwrite(files, plan.bodies, bodies)
    /\ indexes' = Overwrite(indexes, plan.lists, lists)

WritesAll(plan, bodies, lists) == bodies = DOMAIN plan.bodies /\ lists = DOMAIN plan.lists

\* A plan made before the bundle changed no longer tells what there is to write.
Overtake(plan) == plan' = [plan EXCEPT !.stale = plan.at # "idle"]

\* ingest: the bundle is read and the plan built, without the ingest lock.
PlanDraft(c, p) ==
    /\ pending.at = "idle"
    /\ \E plan \in LinkPlans(c, p) :
         pending' = [at |-> "planned", bodies |-> plan.bodies, lists |-> plan.lists, stale |-> FALSE]
    /\ UNCHANGED <<files, indexes, settled, reindex>>

\* The approved items of the plan that waited are written.
CommitDraft ==
    /\ pending.at = "planned"
    /\ \E bodies \in SUBSET DOMAIN pending.bodies, lists \in SUBSET DOMAIN pending.lists :
         /\ Write(pending, bodies, lists)
         /\ settled' = IF WritesAll(pending, bodies, lists) /\ ~pending.stale THEN "ingest" ELSE "edit"
    /\ Overtake(reindex)
    /\ pending' = NoPending

\* An ingest that is approved whole and at once, while another waits or none does.
IngestDraft(c, p) ==
    /\ \E plan \in LinkPlans(c, p) : Write(plan, DOMAIN plan.bodies, DOMAIN plan.lists)
    /\ settled' = "ingest"
    /\ Overtake(pending)
    /\ UNCHANGED reindex

EditedFiles == settled' = "edit" /\ Overtake(reindex) /\ Overtake(pending)

\* An author adds a paragraph at the end of a file, or a file.
Author(c, p) ==
    /\ files' = Put(files, c,
                     IF c \notin DOMAIN files THEN Plain({p})
                     ELSE IF files[c].related \cup files[c].backlinks = {}
                          THEN [files[c] EXCEPT !.prose = @ \cup {p}]
                          ELSE [files[c] EXCEPT !.tail = @ \cup {p}])
    /\ EditedFiles
    /\ UNCHANGED indexes

Delete(c) ==
    /\ c \in DOMAIN files
    /\ files' = [d \in DOMAIN files \ {c} |-> files[d]]
    /\ EditedFiles
    /\ UNCHANGED indexes

\* The plan is made without the ingest lock, and applied under it; an empty one is
\* not applied at all.  Drift is told by the concepts an index lists: what it says of
\* their titles and descriptions is left out.
describe_reindex ==
    /\ reindex.at = "idle"
    /\ LET desired == regenerate_indexes(files) IN
       /\ reindex' = [at |-> "described", stale |-> FALSE,
                      planned |-> {d \in DOMAIN desired :
                                     d \notin DOMAIN indexes \/ indexes[d] # desired[d]}]
       /\ reindex'.planned # {}
    /\ UNCHANGED <<files, indexes, settled, pending>>

Rewritten(dirs) == Overwrite(indexes, regenerate_indexes(files), dirs)

\* The bundle is read again, and of its indexes those the plan names are written.
apply_reindex ==
    /\ reindex.at = "described"
    /\ reindex.planned \subseteq bundle_directories(files)
    /\ indexes' = Rewritten(reindex.planned)
    /\ settled' = IF settled = "edit" /\ ~reindex.stale THEN "reindex" ELSE settled
    /\ reindex' = NoReindex /\ Overtake(pending)
    /\ UNCHANGED files

\* A directory of the plan is gone: the look-up raises, after some were written.
ReindexRaises ==
    /\ reindex.at = "described"
    /\ ~(reindex.planned \subseteq bundle_directories(files))
    /\ \E dirs \in SUBSET (reindex.planned \cap bundle_directories(files)) :
         indexes' = Rewritten(dirs)
    /\ reindex' = NoReindex /\ Overtake(pending)
    /\ UNCHANGED <<files, settled>>

GraphNext ==
    \/ \E c \in ConceptIds :
         Delete(c) \/ \E p \in Prose : PlanDraft(c, p) \/ IngestDraft(c, p) \/ Author(c, p)
    \/ CommitDraft
    \/ describe_reindex \/ apply_reindex \/ ReindexRaises

GraphSpec == GraphInit /\ [][GraphNext]_graphVars
--------------------------------------------------------------------------------
\* What a server answers from the files it loaded.
follow_links(c) ==
    [out_links |-> extract_out_links(files[c]),
     backlinks |-> {d \in DOMAIN files : c \in extract_out_links(files[d])}]
list_index(dir) == regenerate_index(files, dir)

dangling_links(c) == extract_out_links(files[c]) \ DOMAIN files
--------------------------------------------------------------------------------
\* Linking a bundle that is linked changes nothing; every concept's backlinks are
\* then the concepts that link to it, a relation is never one the prose states, and
\* no relation dangles (link/edits.py:65-71, link/relate.py:153-158).
Settled(bundle) ==
    LET linked == crosslink(bundle) IN
    /\ crosslink(linked) = linked
    /\ \A c \in DOMAIN linked :
         /\ linked[c].backlinks = compute_backlinks(linked, c)
         /\ linked[c].related \subseteq DOMAIN linked \ ({c} \cup MentionedIn(linked[c].prose))

\* The indexes an agent reaches from the root's: those no set of directories leaves
\* out that holds the root and is closed under following an index.md down.
ClosedDown(dirs) ==
    <<>> \in dirs /\ \A d \in dirs : indexes[d].subdirs \cap DOMAIN indexes \subseteq dirs
walk_indexes ==
    {d \in DOMAIN indexes : \A dirs \in SUBSET DOMAIN indexes : ClosedDown(dirs) => d \in dirs}

\* Linking settles in one pass whatever the files are, hand-made ones and those of a
\* plan approved in part included.
LinkingSettles == files # <<>> => Settled(files)

\* After an ingest whose whole plan was written as it was made, and after a reindex
\* whose plan nothing overtook, an agent that walks down from the root index.md finds
\* every concept of the bundle and nothing that is not there, whatever edits, partly
\* approved and overtaken plans came before (indexlog/index.py:1-8).
WalkFindsAll ==
    settled # "edit" => UNION {indexes[d].concepts : d \in walk_indexes} = DOMAIN files

\* docs/system_design.md:178: backlinks are the reverse of the links.  A concept's
\* Backlinks section names exactly the concepts whose prose or Related section
\* links to it, once an ingest is over.
SectionsAgree ==
    ingested => \A c \in DOMAIN files : files[c].backlinks = compute_backlinks(files, c)

\* link/edits.py:40-46: reverse edges are not counted as forward edges.
ServedBacklinksTrue ==
    ingested => \A c \in DOMAIN files : follow_links(c).backlinks = compute_backlinks(files, c)

\* README.md:12: knowledge is never silently overwritten.  A paragraph an author
\* wrote goes only when an ingest replaces it by one about the same concept.
AuthoredTextKept ==
    [][\A c \in DOMAIN files \cap DOMAIN files' :
         files[c].tail \subseteq files'[c].prose \cup files'[c].tail]_graphVars
================================================================================
