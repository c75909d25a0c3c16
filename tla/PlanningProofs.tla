---------------------------- MODULE PlanningProofs ----------------------------
(* Proofs about what an ingest plans and leaves behind: the plan and its review    *)
(* (IngestPlanning), the links and indexes of the bundle (LinkGraph), the record   *)
(* of it that the history keeps (AuditTrail), and the thresholds that drafts are   *)
(* routed by (Calibration).                                                        *)
EXTENDS IngestPlanning, LinkGraph, AuditTrail, Calibration, FiniteSetTheorems,
        SequenceTheorems, WellFoundedInduction, TLAPS

--------------------------------------------------------------------------------
(* The plan of an ingest.                                                         *)

Says == UNION {[S -> Docs \cup {Bundle}] : S \in SUBSET Statements}
Claimed == [says : Says, cites : SUBSET Docs]
Bodies == UNION {[D -> Claimed] : D \in SUBSET Concepts}
Metas == UNION {[D -> [confidence : {50, 100}, impact : {"low", "medium"},
                       contradiction : {"none", "resolved", "escalated"}, evidence : SUBSET Docs]] :
                  D \in SUBSET Concepts}
Drafts == [doc : Docs \cup {Bundle}, into : Concepts \cup {Bundle}, creates : BOOLEAN]
Runs == [at : {"idle", "reading", "merging", "merged"}, rank : Ranks \cup {0}, stamped : SUBSET Docs,
         body : Bodies, meta : Metas, flags : SUBSET (Concepts \X Statements), draft : Drafts,
         merged : SUBSET (Concepts \X Statements \X Docs), merges : Int]

PlanShape ==
    /\ disk \in UNION {[D -> File] : D \in SUBSET Concepts}
    /\ run \in Runs
    /\ run.at \in {"merging", "merged"} => run.draft.into \in DOMAIN run.meta /\ run.draft.doc \in Docs
    /\ DOMAIN run.meta \subseteq DOMAIN run.body
    /\ run.at # "idle" => DOMAIN disk \subseteq DOMAIN run.body

\* A draft that went into a concept is on its way to it, or has given it a paragraph.
Reached(c, d) ==
    \/ \E m \in run.merged : m[1] = c /\ m[3] = d
    \/ run.at = "merging" /\ run.draft.into = c /\ run.draft.doc = d

\* The digest of a concept is that of the last document that went into it.
LastIsCited ==
    \A c \in DOMAIN run.meta :
        \E d \in Docs : run.meta[c].evidence = {d} \cap run.stamped /\ Reached(c, d)

\* What a body says was there or was merged; what it no longer says is explained.
BodiesExplained ==
    /\ \A c \in DOMAIN run.body : \A s \in DOMAIN run.body[c].says :
          s \in SaysOf(c) \/ \E m \in run.merged : m[1] = c /\ m[2] = s
    /\ run.at # "idle" =>
          \A c \in DOMAIN disk : \A s \in disk[c].says \ DOMAIN run.body[c].says : Explained(s, c)
    /\ \A m \in run.merged :
          /\ m[1] \in DOMAIN run.meta
          /\ \/ m[2] \in DOMAIN run.body[m[1]].says
             \/ <<m[1], m[2]>> \in run.flags
             \/ Explained(m[2], m[1])

PlanInv == PlanShape /\ LastIsCited /\ BodiesExplained
--------------------------------------------------------------------------------
\* What is empty is of every shape.
LEMMA NothingYet == <<>> \in Bodies /\ <<>> \in Metas /\ <<>> \in Says /\ DOMAIN <<>> = {}
<1>1. DOMAIN <<>> = {}
  OBVIOUS
<1>2. \A T : <<>> \in [{} -> T]
  BY <1>1
<1> QED BY <1>1, <1>2 DEF Bodies, Metas, Says

LEMMA BodiesShape ==
  ASSUME NEW body \in Bodies
  PROVE  /\ DOMAIN body \subseteq Concepts
         /\ \A c \in DOMAIN body : /\ body[c] \in Claimed /\ body[c].says \in Says
                                   /\ DOMAIN body[c].says \subseteq Statements
<1>1. DOMAIN body \subseteq Concepts /\ \A c \in DOMAIN body : body[c] \in Claimed
  BY DEF Bodies
<1>2. \A x \in Claimed : x.says \in Says
  BY DEF Claimed
<1>3. \A x \in Says : DOMAIN x \subseteq Statements
  BY DEF Says
<1> QED BY <1>1, <1>2, <1>3

LEMMA BodiesUpdate ==
  ASSUME NEW body \in Bodies, NEW c \in Concepts, NEW x \in Claimed
  PROVE  /\ With(body, c, x) \in Bodies
         /\ c \in DOMAIN body => [body EXCEPT ![c] = x] \in Bodies
<1>1. PICK D \in SUBSET Concepts : body \in [D -> Claimed]
  BY DEF Bodies
<1>2. With(body, c, x) \in [D \cup {c} -> Claimed]
  BY <1>1 DEF With
<1>3. [body EXCEPT ![c] = x] \in [D -> Claimed]
  BY <1>1
<1> QED BY <1>1, <1>2, <1>3 DEF Bodies

LEMMA MetasUpdate ==
  ASSUME NEW meta \in Metas, NEW c \in Concepts,
         NEW x \in [confidence : {50, 100}, impact : {"low", "medium"},
                    contradiction : {"none", "resolved", "escalated"}, evidence : SUBSET Docs]
  PROVE  /\ DOMAIN meta \subseteq Concepts
         /\ With(meta, c, x) \in Metas
         /\ c \in DOMAIN meta => [meta EXCEPT ![c] = x] \in Metas
<1> DEFINE M == [confidence : {50, 100}, impact : {"low", "medium"},
                 contradiction : {"none", "resolved", "escalated"}, evidence : SUBSET Docs]
<1>1. PICK D \in SUBSET Concepts : meta \in [D -> M]
  BY DEF Metas
<1> HIDE DEF M
<1>2. x \in M
  BY DEF M
<1>3. With(meta, c, x) \in [D \cup {c} -> M]
  BY <1>1, <1>2 DEF With
<1>4. [meta EXCEPT ![c] = x] \in [D -> M]
  BY <1>1, <1>2
<1>5. Metas = UNION {[E -> M] : E \in SUBSET Concepts}
  BY DEF Metas, M
<1> QED BY <1>1, <1>3, <1>4, <1>5

\* A paragraph joins the claims of a concept, in the place of another or not.
LEMMA ClaimsUpdate ==
  ASSUME NEW says \in Says, NEW s \in Statements, NEW d \in Docs
  PROVE  With(says, s, d) \in Says /\ DOMAIN With(says, s, d) = DOMAIN says \cup {s}
<1>1. PICK S \in SUBSET Statements : says \in [S -> Docs \cup {Bundle}]
  BY DEF Says
<1>2. With(says, s, d) \in [S \cup {s} -> Docs \cup {Bundle}]
  BY <1>1 DEF With
<1> QED BY <1>1, <1>2 DEF Says

LEMMA SupersedeShape ==
  ASSUME NEW says \in Says, NEW s \in Statements, NEW t, run.draft.doc \in Docs
  PROVE  /\ Supersede(says, t, s) \in Says
         /\ DOMAIN Supersede(says, t, s) = (DOMAIN says \ {t}) \cup {s}
<1>1. PICK S \in SUBSET Statements : says \in [S -> Docs \cup {Bundle}]
  BY DEF Says
<1>2. Without(says, t) \in [S \ {t} -> Docs \cup {Bundle}]
  BY <1>1 DEF Without
<1>3. Supersede(says, t, s) \in [(S \ {t}) \cup {s} -> Docs \cup {Bundle}]
  BY <1>2 DEF With, Supersede
<1>4. (S \ {t}) \cup {s} \in SUBSET Statements
  OBVIOUS
<1> QED BY <1>1, <1>3, <1>4 DEF Says

\* What merging a paragraph makes of a concept's claims: the paragraph is in them, or
\* it was escalated; and what is gone is what it revises or contradicts.
LEMMA MergeExplains ==
  ASSUME NEW says \in Says, NEW s \in Statements, run.draft.doc \in Docs,
         NEW o \in Merges(says, s) \cup {Outcome(With(says, s, run.draft.doc), "added")}
  PROVE  /\ o.says \in Says /\ DOMAIN o.says \subseteq DOMAIN says \cup {s}
         /\ o.result \in {"same", "added", "revised", "resolved", "escalated"}
         /\ s \in DOMAIN o.says \/ o.result = "escalated"
         /\ \A t \in DOMAIN says \ DOMAIN o.says : <<t, s>> \in Revises \cup Conflicts
<1> DEFINE d == run.draft.doc
           targets == Targets(says, s)
           opposing == Opposing(says, s)
<1>1. \/ o = Outcome(With(says, s, d), "added")
      \/ s \in DOMAIN says /\ o = Outcome(says, "same")
      \/ o = Outcome(says, "escalated")
      \/ \E t \in targets \cup opposing :
           o = Outcome(Supersede(says, t, s), "revised") \/ o = Outcome(Supersede(says, t, s), "resolved")
  BY DEF Merges
<1>2. \A t \in targets \cup opposing : <<t, s>> \in Revises \cup Conflicts
  BY DEF Targets, Opposing, judge
<1>3. \A x, y : Outcome(x, y).says = x /\ Outcome(x, y).result = y
  BY DEF Outcome
<1>4. CASE o = Outcome(With(says, s, d), "added")
  <2>1. With(says, s, d) \in Says /\ DOMAIN With(says, s, d) = DOMAIN says \cup {s}
    BY ClaimsUpdate
  <2>2. o.says = With(says, s, d) /\ o.result = "added"
    BY <1>3, <1>4
  <2> QED BY <2>1, <2>2
<1>5. CASE s \in DOMAIN says /\ o = Outcome(says, "same")
  BY <1>3, <1>5
<1>6. CASE o = Outcome(says, "escalated")
  BY <1>3, <1>6
<1>7. ASSUME NEW t \in targets \cup opposing,
             o = Outcome(Supersede(says, t, s), "revised") \/ o = Outcome(Supersede(says, t, s), "resolved")
      PROVE  /\ o.says \in Says /\ DOMAIN o.says = (DOMAIN says \ {t}) \cup {s}
             /\ o.result \in {"revised", "resolved"}
  <2>1. /\ Supersede(says, t, s) \in Says
        /\ DOMAIN Supersede(says, t, s) = (DOMAIN says \ {t}) \cup {s}
    BY SupersedeShape
  <2>2. o.says = Supersede(says, t, s) /\ o.result \in {"revised", "resolved"}
    BY <1>3, <1>7
  <2> QED BY <2>1, <2>2
<1>8. CASE \E t \in targets \cup opposing :
             o = Outcome(Supersede(says, t, s), "revised") \/ o = Outcome(Supersede(says, t, s), "resolved")
  <2>1. PICK t \in targets \cup opposing :
          o = Outcome(Supersede(says, t, s), "revised") \/ o = Outcome(Supersede(says, t, s), "resolved")
    BY <1>8
  <2> HIDE DEF targets, opposing
  <2>2. /\ o.says \in Says /\ DOMAIN o.says = (DOMAIN says \ {t}) \cup {s}
        /\ o.result \in {"revised", "resolved"}
    BY <1>7, <2>1
  <2> QED BY <1>2, <2>1, <2>2
<1> QED BY <1>1, <1>4, <1>5, <1>6, <1>8

\* A claim's citations are documents.
LEMMA RenderedShape ==
  ASSUME NEW says \in Says
  PROVE  Rendered(says) \in Claimed /\ Rendered(says).says = says
BY DEF Rendered, Claimed, Says

\* Metadata of a concept that a draft goes into.
LEMMA FreshShape ==
  ASSUME NEW doc \in Docs, NEW adjudicated \in BOOLEAN
  PROVE  /\ FreshMeta(doc, adjudicated) \in [confidence : {50, 100}, impact : {"low", "medium"},
                contradiction : {"none", "resolved", "escalated"}, evidence : SUBSET Docs]
         /\ FreshMeta(doc, adjudicated).evidence = {doc} \cap run.stamped
BY DEF FreshMeta

\* A draft goes into a concept of the bundle, or makes one.
LEMMA ResolvedShape ==
  ASSUME NEW d \in resolve_draft
  PROVE  /\ d.action \in {"create", "update"} /\ d.adjudicated \in BOOLEAN
         /\ d.action = "update" => d.concept \in DOMAIN disk
<1>1. CASE d = Create(FALSE)
  BY <1>1 DEF Create
<1>2. ASSUME NEW r \in route_candidates, r.route = "update", d = Update(r.top, FALSE)
      PROVE  d.action = "update" /\ d.adjudicated = FALSE /\ d.concept \in DOMAIN disk
  <2>1. r.top \in DOMAIN disk
    BY <1>2 DEF route_candidates, nearest_candidates
  <2> QED BY <1>2, <2>1 DEF Update
<1>3. ASSUME NEW v \in Verdicts, v.verdict # "split",
             d = IF v.verdict = "same" THEN Update(v.concept, TRUE) ELSE Create(TRUE)
      PROVE  /\ d.action \in {"create", "update"} /\ d.adjudicated = TRUE
             /\ d.action = "update" => d.concept \in DOMAIN disk
  <2>1. CASE v.verdict = "same"
    <3>1. v.concept \in DOMAIN disk
      BY <2>1 DEF Verdicts, nearest_candidates
    <3> QED BY <1>3, <2>1, <3>1 DEF Update
  <2>2. CASE v.verdict # "same"
    BY <1>3, <2>2 DEF Create
  <2> QED BY <2>1, <2>2
<1>4. \/ d = Create(FALSE)
      \/ \E r \in route_candidates : r.route = "update" /\ d = Update(r.top, FALSE)
      \/ \E v \in Verdicts : /\ v.verdict # "split"
                             /\ d = IF v.verdict = "same" THEN Update(v.concept, TRUE) ELSE Create(TRUE)
  BY DEF resolve_draft
<1> QED BY <1>1, <1>2, <1>3, <1>4
--------------------------------------------------------------------------------
\* An ingest that is over leaves nothing to explain.
LEMMA NoRunExplains ==
  ASSUME disk' \in UNION {[D -> File] : D \in SUBSET Concepts}, run' = NoRun
  PROVE  PlanInv'
<1>1. /\ run'.at = "idle" /\ run'.body = <<>> /\ run'.meta = <<>> /\ run'.merged = {}
  BY DEF NoRun
<1>2. NoDraft \in Drafts
  BY DEF NoDraft, Drafts
<1>3. run' \in Runs
  BY <1>2, NothingYet DEF NoRun, Runs
<1>4. PlanShape'
  BY <1>1, <1>3, NothingYet DEF PlanShape
<1>5. LastIsCited' /\ BodiesExplained'
  BY <1>1, NothingYet DEF LastIsCited, BodiesExplained
<1> QED BY <1>4, <1>5 DEF PlanInv

\* An ingest begins with the claims of the bundle.
LEMMA BeginKeeps ==
  ASSUME PlanInv, NEW rank \in Ranks, NEW stamped \in SUBSET Docs, BeginIngest(rank, stamped)
  PROVE  PlanInv'
<1>1. /\ run' = [NoRun EXCEPT !.at = "reading", !.rank = rank, !.stamped = stamped,
                              !.body = [c \in DOMAIN disk |-> Loaded(disk[c])]]
      /\ disk' = disk
  BY DEF BeginIngest
<1>2. PICK D \in SUBSET Concepts : disk \in [D -> File]
  BY DEF PlanInv, PlanShape
<1>3. \A c \in D : /\ Loaded(disk[c]) \in Claimed
                   /\ DOMAIN Loaded(disk[c]).says = disk[c].says
  <2> SUFFICES ASSUME NEW c \in D
               PROVE  Loaded(disk[c]) \in Claimed /\ DOMAIN Loaded(disk[c]).says = disk[c].says
    OBVIOUS
  <2>1. disk[c].says \subseteq Statements /\ disk[c].cites \subseteq Docs
    BY <1>2 DEF File
  <2>2. [s \in disk[c].says |-> Bundle] \in [disk[c].says -> Docs \cup {Bundle}]
    OBVIOUS
  <2> QED BY <2>1, <2>2 DEF Loaded, Claimed, Says
<1>4. [c \in DOMAIN disk |-> Loaded(disk[c])] \in Bodies
  BY <1>2, <1>3 DEF Bodies
<1>5. NoDraft \in Drafts
  BY DEF NoDraft, Drafts
<1>6. run' \in Runs
  <2> DEFINE loaded == [c \in DOMAIN disk |-> Loaded(disk[c])]
  <2> HIDE DEF loaded
  <2>1. run' = [at |-> "reading", rank |-> rank, stamped |-> stamped, body |-> loaded, meta |-> <<>>,
                flags |-> {}, draft |-> NoDraft, merged |-> {}, merges |-> 0]
    BY <1>1 DEF NoRun, loaded
  <2>2. loaded \in Bodies
    BY <1>4 DEF loaded
  <2> QED BY <1>5, <2>1, <2>2, NothingYet DEF Runs
<1>7. /\ run'.at = "reading" /\ run'.meta = <<>> /\ run'.merged = {}
      /\ run'.body = [c \in DOMAIN disk |-> Loaded(disk[c])]
  BY <1>1 DEF NoRun
<1>8. PlanShape'
  BY <1>1, <1>6, <1>7, NothingYet DEF PlanInv, PlanShape
<1>9. LastIsCited'
  BY <1>7, NothingYet DEF LastIsCited
<1>10. BodiesExplained'
  BY <1>1, <1>2, <1>3, <1>7 DEF BodiesExplained, SaysOf
<1> QED BY <1>8, <1>9, <1>10 DEF PlanInv

\* A draft that starts cites its document, and explains nothing yet.
LEMMA DraftKeeps ==
  ASSUME PlanInv, NEW doc \in Docs, NEW id \in Concepts, StartDraft(doc, id)
  PROVE  PlanInv'
<1>1. PICK d \in resolve_draft :
        LET c == IF d.action = "update" THEN d.concept ELSE id IN
        /\ d.action = "create" => ~Taken(id)
        /\ run' = [run EXCEPT
             !.at = "merging",
             !.draft = [doc |-> doc, into |-> c, creates |-> d.action = "create"],
             !.meta = With(run.meta, c, FreshMeta(doc, d.adjudicated)),
             !.body = IF d.action = "create" THEN With(run.body, c, [says |-> <<>>, cites |-> {}])
                      ELSE run.body]
  BY DEF StartDraft
<1> DEFINE c == IF d.action = "update" THEN d.concept ELSE id
           fresh == FreshMeta(doc, d.adjudicated)
           none == [says |-> <<>>, cites |-> {}]
           body == IF d.action = "create" THEN With(run.body, c, none) ELSE run.body
           draft == [doc |-> doc, into |-> c, creates |-> d.action = "create"]
           meta == With(run.meta, c, fresh)
<1>2. /\ d.action \in {"create", "update"} /\ d.adjudicated \in BOOLEAN
      /\ d.action = "update" => d.concept \in DOMAIN disk
  BY ResolvedShape
<1>3. /\ run \in Runs /\ run.at = "reading" /\ disk' = disk /\ run.body \in Bodies /\ run.meta \in Metas
      /\ DOMAIN disk \subseteq DOMAIN run.body /\ DOMAIN run.meta \subseteq DOMAIN run.body
      /\ disk \in UNION {[D -> File] : D \in SUBSET Concepts}
  BY DEF PlanInv, PlanShape, StartDraft, Runs
<1>4. c \in Concepts /\ c \in DOMAIN body
  <2>1. CASE d.action = "update"
    <3>1. d.concept \in DOMAIN run.body /\ DOMAIN run.body \subseteq Concepts
      BY <1>2, <1>3, <2>1, BodiesShape
    <3> QED BY <2>1, <3>1
  <2>2. CASE d.action = "create"
    BY <2>2 DEF With
  <2> QED BY <1>2, <2>1, <2>2
<1>5. none \in Claimed /\ none.says = <<>>
  BY NothingYet DEF Claimed
<1>6. body \in Bodies
  BY <1>3, <1>4, <1>5, BodiesUpdate
<1>7. /\ DOMAIN body = DOMAIN run.body \cup {c}
      /\ \A k \in DOMAIN run.body : body[k] = run.body[k]
      /\ \A k \in DOMAIN body \ DOMAIN run.body : body[k] = none
  <2>1. CASE d.action = "create"
    <3>1. c = id /\ c \notin DOMAIN run.body
      BY <1>1, <2>1 DEF Taken
    <3> QED BY <2>1, <3>1 DEF With
  <2>2. CASE d.action = "update"
    BY <1>2, <1>3, <2>2
  <2> QED BY <1>2, <2>1, <2>2
<1>8. fresh.evidence = {doc} \cap run.stamped /\ meta \in Metas
  BY <1>2, <1>3, <1>4, FreshShape, MetasUpdate
<1>9. /\ DOMAIN meta = DOMAIN run.meta \cup {c} /\ meta[c] = fresh
      /\ \A k \in DOMAIN run.meta \ {c} : meta[k] = run.meta[k]
  BY DEF With
<1>10. draft \in Drafts /\ draft.doc = doc /\ draft.into = c
  <2>1. (d.action = "create") \in BOOLEAN
    OBVIOUS
  <2> HIDE DEF c
  <2> QED BY <1>4, <2>1 DEF Drafts
<1>11. run' = [run EXCEPT !.at = "merging", !.draft = draft, !.meta = meta, !.body = body]
  BY <1>1
<1> HIDE DEF c, fresh, none, body, draft, meta
<1>12. run' \in Runs
  BY <1>3, <1>6, <1>8, <1>10, <1>11 DEF Runs
<1>13. /\ run'.at = "merging" /\ run'.draft = draft /\ run'.meta = meta /\ run'.body = body
       /\ run'.merged = run.merged /\ run'.flags = run.flags /\ run'.stamped = run.stamped
  BY <1>3, <1>11 DEF Runs
<1>14. PlanShape'
  BY <1>3, <1>4, <1>7, <1>9, <1>10, <1>12, <1>13 DEF PlanShape
<1>15. LastIsCited'
  <2> SUFFICES ASSUME NEW k \in DOMAIN meta
               PROVE  \E e \in Docs : meta[k].evidence = {e} \cap run.stamped /\ Reached(k, e)'
    BY <1>13 DEF LastIsCited
  <2>1. CASE k = c
    <3>1. Reached(c, doc)'
      BY <1>10, <1>13 DEF Reached
    <3> QED BY <1>8, <1>9, <2>1, <3>1
  <2>2. CASE k # c
    <3>1. k \in DOMAIN run.meta /\ meta[k] = run.meta[k]
      BY <1>9, <2>2
    <3>2. PICK e \in Docs : run.meta[k].evidence = {e} \cap run.stamped /\ Reached(k, e)
      BY <3>1 DEF PlanInv, LastIsCited
    <3>3. Reached(k, e)'
      BY <1>3, <1>13, <3>2 DEF Reached
    <3> QED BY <3>1, <3>2, <3>3
  <2> QED BY <2>1, <2>2
<1>16. BodiesExplained'
  <2>1. \A k \in DOMAIN run.body : body[k].says = run.body[k].says
    BY <1>7
  <2>2. \A k \in DOMAIN body \ DOMAIN run.body : body[k].says = <<>>
    BY <1>5, <1>7
  <2>3. \A k : SaysOf(k)' = SaysOf(k)
    BY <1>3 DEF SaysOf
  <2>4. \A s, k : Explained(s, k)' <=> Explained(s, k)
    BY <1>13 DEF Explained
  <2>5. \A k \in DOMAIN body : \A s \in DOMAIN body[k].says :
          s \in SaysOf(k) \/ \E m \in run.merged : m[1] = k /\ m[2] = s
    BY <1>7, <2>1, <2>2, NothingYet DEF PlanInv, BodiesExplained
  <2>6. \A k \in DOMAIN disk : \A s \in disk[k].says \ DOMAIN body[k].says : Explained(s, k)
    BY <1>3, <2>1 DEF PlanInv, BodiesExplained
  <2>7. \A m \in run.merged :
          /\ m[1] \in DOMAIN run.meta /\ m[1] \in DOMAIN run.body
          /\ \/ m[2] \in DOMAIN run.body[m[1]].says
             \/ <<m[1], m[2]>> \in run.flags
             \/ Explained(m[2], m[1])
    BY <1>3 DEF PlanInv, BodiesExplained
  <2>8. \A m \in run.merged :
          /\ m[1] \in DOMAIN meta
          /\ m[2] \in DOMAIN body[m[1]].says \/ <<m[1], m[2]>> \in run.flags \/ Explained(m[2], m[1])
    BY <1>9, <2>1, <2>7
  <2> QED BY <1>3, <1>13, <2>3, <2>4, <2>5, <2>6, <2>8 DEF BodiesExplained
<1> QED BY <1>14, <1>15, <1>16 DEF PlanInv

\* A paragraph that is merged is in the body, or flagged, and explains what goes.
LEMMA MergeKeeps ==
  ASSUME PlanInv, NEW s \in Statements, MergeStatement(s)
  PROVE  PlanInv'
<1> DEFINE c == run.draft.into
           old == run.body[c].says
           d == run.draft.doc
<1>1. /\ run \in Runs /\ run.at \in {"merging", "merged"} /\ disk' = disk
      /\ run.body \in Bodies /\ run.meta \in Metas
      /\ DOMAIN disk \subseteq DOMAIN run.body /\ DOMAIN run.meta \subseteq DOMAIN run.body
      /\ disk \in UNION {[D -> File] : D \in SUBSET Concepts}
      /\ c \in DOMAIN run.meta /\ d \in Docs
  BY DEF PlanInv, PlanShape, MergeStatement, Runs
<1>2. c \in Concepts /\ c \in DOMAIN run.body /\ old \in Says /\ DOMAIN old \subseteq Statements
  BY <1>1, BodiesShape
<1>3. PICK o \in Merges(old, s) \cup {Outcome(With(old, s, d), "added")} :
        run' = [run EXCEPT
           !.at = "merged",
           !.body = [run.body EXCEPT ![c] = Rendered(o.says)],
           !.meta = [run.meta EXCEPT ![c] = MetaAfter(run.meta[c], o.result)],
           !.flags = IF o.result = "escalated" THEN run.flags \cup {<<c, s>>} ELSE run.flags,
           !.merged = run.merged \cup {<<c, s, d>>},
           !.merges = run.merges + 1]
  <2>1. PICK o \in (IF run.draft.creates THEN {Outcome(With(old, s, d), "added")} ELSE Merges(old, s)) :
        run' = [run EXCEPT
           !.at = "merged",
           !.body[c] = Rendered(o.says),
           !.meta[c] = MetaAfter(@, o.result),
           !.flags = IF o.result = "escalated" THEN @ \cup {<<c, s>>} ELSE @,
           !.merged = @ \cup {<<c, s, d>>},
           !.merges = @ + 1]
    BY DEF MergeStatement
  <2>2. o \in Merges(old, s) \cup {Outcome(With(old, s, d), "added")}
    BY <2>1
  <2> HIDE DEF c, d, old
  <2> QED BY <2>1, <2>2
<1>4. /\ o.says \in Says /\ DOMAIN o.says \subseteq DOMAIN old \cup {s}
      /\ o.result \in {"same", "added", "revised", "resolved", "escalated"}
      /\ s \in DOMAIN o.says \/ o.result = "escalated"
      /\ \A t \in DOMAIN old \ DOMAIN o.says : <<t, s>> \in Revises \cup Conflicts
  BY <1>1, <1>2, MergeExplains
<1> DEFINE body == [run.body EXCEPT ![c] = Rendered(o.says)]
           meta == [run.meta EXCEPT ![c] = MetaAfter(run.meta[c], o.result)]
           flags == IF o.result = "escalated" THEN run.flags \cup {<<c, s>>} ELSE run.flags
           merged == run.merged \cup {<<c, s, d>>}
<1>5. /\ body \in Bodies /\ DOMAIN body = DOMAIN run.body /\ body[c].says = o.says
      /\ \A k \in DOMAIN run.body \ {c} : body[k] = run.body[k]
  BY <1>1, <1>2, <1>4, RenderedShape, BodiesUpdate
<1>6. /\ meta \in Metas /\ DOMAIN meta = DOMAIN run.meta
      /\ \A k \in DOMAIN run.meta : meta[k].evidence = run.meta[k].evidence
  <2>1. PICK D \in SUBSET Concepts :
          run.meta \in [D -> [confidence : {50, 100}, impact : {"low", "medium"},
                       contradiction : {"none", "resolved", "escalated"}, evidence : SUBSET Docs]]
    BY <1>1 DEF Metas
  <2>2. /\ MetaAfter(run.meta[c], o.result) \in [confidence : {50, 100}, impact : {"low", "medium"},
                       contradiction : {"none", "resolved", "escalated"}, evidence : SUBSET Docs]
        /\ MetaAfter(run.meta[c], o.result).evidence = run.meta[c].evidence
    <3> DEFINE m == run.meta[c]
               impact == IF o.result \in {"revised", "resolved"} THEN "medium" ELSE m.impact
               contradiction == IF o.result = "escalated" \/ (o.result = "resolved" /\ m.contradiction = "none")
                                THEN o.result ELSE m.contradiction
    <3>1. MetaAfter(m, o.result) = [m EXCEPT !.impact = impact, !.contradiction = contradiction]
      BY DEF MetaAfter
    <3>2. m \in [confidence : {50, 100}, impact : {"low", "medium"},
                 contradiction : {"none", "resolved", "escalated"}, evidence : SUBSET Docs]
      BY <1>1, <2>1
    <3>3. impact \in {"low", "medium"} /\ contradiction \in {"none", "resolved", "escalated"}
      BY <3>2
    <3> HIDE DEF m, impact, contradiction
    <3>4. /\ MetaAfter(m, o.result) \in [confidence : {50, 100}, impact : {"low", "medium"},
                 contradiction : {"none", "resolved", "escalated"}, evidence : SUBSET Docs]
          /\ MetaAfter(m, o.result).evidence = m.evidence
      BY <3>1, <3>2, <3>3
    <3> QED BY <3>4 DEF m
  <2>3. meta \in Metas
    BY <1>1, <1>2, <2>2, MetasUpdate
  <2> QED BY <1>1, <2>2, <2>3
<1>7. run' = [run EXCEPT !.at = "merged", !.body = body, !.meta = meta, !.flags = flags,
                         !.merged = merged, !.merges = run.merges + 1]
  BY <1>3
<1>8. /\ flags \in SUBSET (Concepts \X Statements) /\ run.flags \subseteq flags
      /\ merged \in SUBSET (Concepts \X Statements \X Docs) /\ run.merges + 1 \in Int
      /\ o.result = "escalated" => <<c, s>> \in flags
  BY <1>1, <1>2 DEF Runs
<1> HIDE DEF c, old, d, body, meta, flags, merged
<1>9. run' \in Runs
  BY <1>1, <1>5, <1>6, <1>7, <1>8 DEF Runs
<1>10. /\ run'.at = "merged" /\ run'.draft = run.draft /\ run'.meta = meta /\ run'.body = body
       /\ run'.merged = merged /\ run'.flags = flags /\ run'.stamped = run.stamped
  BY <1>1, <1>7 DEF Runs
<1>11. PlanShape'
  BY <1>1, <1>5, <1>6, <1>9, <1>10 DEF PlanShape, c, d
<1>12. \A k, e : Reached(k, e) => Reached(k, e)'
  <2> SUFFICES ASSUME NEW k, NEW e, Reached(k, e) PROVE Reached(k, e)'
    OBVIOUS
  <2>1. CASE \E m \in run.merged : m[1] = k /\ m[3] = e
    BY <1>10, <2>1 DEF Reached, merged
  <2>2. CASE run.draft.into = k /\ run.draft.doc = e
    <3>1. <<c, s, d>> \in merged /\ <<c, s, d>>[1] = k /\ <<c, s, d>>[3] = e
      BY <2>2 DEF merged, c, d
    <3> QED BY <1>10, <3>1 DEF Reached
  <2> QED BY <2>1, <2>2 DEF Reached
<1>13. LastIsCited'
  BY <1>6, <1>10, <1>12 DEF PlanInv, LastIsCited
<1>14. BodiesExplained'
  <2>1. (\A k : SaysOf(k)' = SaysOf(k)) /\ c' = c
    BY <1>1, <1>10 DEF SaysOf, c
  <2>2. \A t, k : Explained(t, k) => Explained(t, k)'
    BY <1>10 DEF Explained, merged
  <2>3. \A t \in DOMAIN old \ DOMAIN o.says : Explained(t, c)'
    <3> SUFFICES ASSUME NEW t \in DOMAIN old \ DOMAIN o.says PROVE Explained(t, c)'
      OBVIOUS
    <3>1. /\ <<c, s, d>> \in run'.merged /\ <<c, s, d>>[1] = c /\ <<c, s, d>>[2] = s
          /\ <<t, s>> \in Revises \cup Conflicts
      BY <1>4, <1>10 DEF merged
    <3> QED BY <2>1, <3>1 DEF Explained
  <2>4. ASSUME NEW k \in DOMAIN body, NEW t \in DOMAIN body[k].says
        PROVE  t \in SaysOf(k) \/ \E m \in merged : m[1] = k /\ m[2] = t
    <3>1. CASE k = c /\ t = s
      <4>1. <<c, s, d>> \in merged /\ <<c, s, d>>[1] = c /\ <<c, s, d>>[2] = s
        BY DEF merged
      <4> QED BY <3>1, <4>1
    <3>2. CASE ~(k = c /\ t = s)
      <4>1. k \in DOMAIN run.body /\ t \in DOMAIN run.body[k].says
        BY <1>4, <1>5, <2>4, <3>2 DEF old
      <4>2. t \in SaysOf(k) \/ \E m \in run.merged : m[1] = k /\ m[2] = t
        BY <4>1 DEF PlanInv, BodiesExplained
      <4> QED BY <4>2 DEF merged
    <3> QED BY <3>1, <3>2
  <2>5. ASSUME NEW k \in DOMAIN disk, NEW t \in disk[k].says \ DOMAIN body[k].says
        PROVE  Explained(t, k)'
    <3>1. k \in DOMAIN run.body
      BY <1>1
    <3>2. CASE t \notin DOMAIN run.body[k].says
      <4>1. Explained(t, k)
        BY <1>1, <2>5, <3>2 DEF PlanInv, BodiesExplained
      <4> QED BY <2>2, <4>1
    <3>3. CASE t \in DOMAIN run.body[k].says
      <4>1. k = c /\ t \in DOMAIN old \ DOMAIN o.says
        BY <1>5, <2>5, <3>1, <3>3 DEF old
      <4> QED BY <2>1, <2>3, <4>1
    <3> QED BY <3>2, <3>3
  <2>6. ASSUME NEW m \in merged
        PROVE  /\ m[1] \in DOMAIN meta
               /\ m[2] \in DOMAIN body[m[1]].says \/ <<m[1], m[2]>> \in flags \/ Explained(m[2], m[1])'
    <3>1. CASE m = <<c, s, d>>
      BY <1>1, <1>4, <1>5, <1>6, <1>8, <3>1 DEF c
    <3>2. CASE m \in run.merged
      <4>1. /\ m[1] \in DOMAIN run.meta /\ m[1] \in DOMAIN run.body
            /\ \/ m[2] \in DOMAIN run.body[m[1]].says
               \/ <<m[1], m[2]>> \in run.flags
               \/ Explained(m[2], m[1])
        BY <1>1, <3>2 DEF PlanInv, BodiesExplained
      <4>2. CASE m[2] \in DOMAIN run.body[m[1]].says
        <5>1. m[2] \in DOMAIN body[m[1]].says \/ (m[1] = c /\ m[2] \in DOMAIN old \ DOMAIN o.says)
          BY <1>5, <4>1, <4>2 DEF old
        <5> QED BY <1>6, <2>1, <2>3, <4>1, <5>1
      <4> QED BY <1>6, <1>8, <2>2, <4>1, <4>2
    <3> QED BY <3>1, <3>2 DEF merged
  <2> QED BY <1>1, <1>10, <2>1, <2>4, <2>5, <2>6 DEF BodiesExplained
<1> QED BY <1>11, <1>13, <1>14 DEF PlanInv

\* A section that ends has given the concept a paragraph.
LEMMA EndDraftKeeps == ASSUME PlanInv, EndDraft PROVE PlanInv'
<1>1. /\ run \in Runs /\ run.at = "merged" /\ disk' = disk
      /\ run' = [run EXCEPT !.at = "reading", !.draft = NoDraft] /\ NoDraft \in Drafts
  BY DEF PlanInv, PlanShape, EndDraft, NoDraft, Drafts
<1>2. run' \in Runs
  BY <1>1 DEF Runs
<1>3. /\ run'.at = "reading" /\ run'.meta = run.meta /\ run'.body = run.body
      /\ run'.merged = run.merged /\ run'.flags = run.flags /\ run'.stamped = run.stamped
  BY <1>1 DEF Runs
<1>4. PlanShape'
  BY <1>1, <1>2, <1>3 DEF PlanInv, PlanShape
<1>5. \A k, e : Reached(k, e)' <=> Reached(k, e)
  BY <1>1, <1>3 DEF Reached
<1>6. LastIsCited'
  BY <1>3, <1>5 DEF PlanInv, LastIsCited
<1>7. /\ \A k : SaysOf(k)' = SaysOf(k)
      /\ \A t, k : Explained(t, k)' <=> Explained(t, k)
  BY <1>1, <1>3 DEF SaysOf, Explained
<1>8. BodiesExplained'
  BY <1>1, <1>3, <1>7 DEF PlanInv, BodiesExplained
<1> QED BY <1>4, <1>6, <1>8 DEF PlanInv
--------------------------------------------------------------------------------
\* A change a plan may hold: of a concept, with what is known of it, or of another path.
LEMMA PlansShape ==
  ASSUME PlanInv, NEW changes \in Plans
  PROVE  /\ \A ch \in changes :
              \/ /\ ch.path \in DOMAIN run.body /\ ch.path \in Concepts
                 /\ ch = Change(ch.path, IF ch.path \in DOMAIN run.meta THEN run.meta[ch.path] ELSE Steady,
                                scan_secrets(ch.path))
              \/ ch.path \notin Concepts /\ ch.meta = Steady
         /\ DOMAIN run.meta \subseteq Written(changes)
<1>0. PICK relinked \in SUBSET (DOMAIN run.body \ DOMAIN run.meta) :
        \E quoting : changes = Changes(relinked, quoting)
  BY DEF Plans
<1>1. PICK quoting : changes = Changes(relinked, quoting)
  BY <1>0
<1>2. /\ run.body \in Bodies /\ DOMAIN run.meta \subseteq DOMAIN run.body /\ DOMAIN run.body \subseteq Concepts
  BY BodiesShape DEF PlanInv, PlanShape, Runs
<1>3. \A p, meta, secret : /\ Change(p, meta, secret).path = p
                           /\ Change(p, meta, secret).meta = meta
                           /\ Change(p, meta, secret).secret = secret
  BY DEF Change
<1>4. ASSUME NEW ch \in ConceptChanges(relinked)
      PROVE  /\ ch.path \in DOMAIN run.body /\ ch.path \in Concepts
             /\ ch = Change(ch.path, IF ch.path \in DOMAIN run.meta THEN run.meta[ch.path] ELSE Steady,
                            scan_secrets(ch.path))
  <2>1. PICK c \in DOMAIN run.meta \cup relinked :
          ch = Change(c, IF c \in DOMAIN run.meta THEN run.meta[c] ELSE Steady, scan_secrets(c))
    BY DEF ConceptChanges
  <2>2. ch.path = c
    BY <1>3, <2>1
  <2>3. c \in DOMAIN run.body
    BY <1>2
  <2> QED BY <1>2, <2>1, <2>2, <2>3
<1>5. \A ch \in IndexChange(quoting) \cup LogChange(quoting) : ch.path \notin Concepts /\ ch.meta = Steady
  BY <1>3, PlanningAssumption DEF IndexChange, LogChange
<1>6. ASSUME NEW c \in DOMAIN run.meta PROVE c \in Written(changes)
  <2> DEFINE ch == Change(c, IF c \in DOMAIN run.meta THEN run.meta[c] ELSE Steady, scan_secrets(c))
  <2>1. ch \in changes
    BY <1>1 DEF Changes, ConceptChanges
  <2>2. ch.path = c
    BY <1>3
  <2> QED BY <2>1, <2>2 DEF Written
<1> QED BY <1>1, <1>4, <1>5, <1>6 DEF Changes

\* What a commit of some of a plan's changes leaves.
LEMMA CommitShape ==
  ASSUME PlanInv, run.at = "reading", NEW plan \in Plans, NEW changes \in SUBSET plan,
         NEW yes, NEW whole, commit_plan(changes, yes, whole)
  PROVE  /\ disk' \in UNION {[D -> File] : D \in SUBSET Concepts}
         /\ DOMAIN disk' = DOMAIN disk \cup (Written(changes) \cap Concepts)
         /\ \A c \in Written(changes) \cap Concepts :
               c \in DOMAIN run.body /\ disk'[c].says = DOMAIN run.body[c].says
         /\ \A c \in DOMAIN disk \ Written(changes) : disk'[c] = disk[c]
         /\ commit'.yes = yes /\ commit'.whole = whole /\ commit'.evidence = Evidence(changes)
         /\ PathsOf(commit'.lines) = Written(changes)
<1> DEFINE file(c) == [says |-> DOMAIN run.body[c].says, cites |-> run.body[c].cites]
<1>1. /\ run.body \in Bodies /\ DOMAIN disk \subseteq DOMAIN run.body
  BY DEF PlanInv, PlanShape, Runs
<1>2. PICK D \in SUBSET Concepts : disk \in [D -> File]
  BY DEF PlanInv, PlanShape
<1>3. \A c \in DOMAIN run.body : file(c) \in File
  BY <1>1, BodiesShape DEF File, Claimed
<1>4. \A c \in Written(changes) \cap Concepts : c \in DOMAIN run.body
  BY PlansShape DEF Written
<1>5. disk' = [c \in DOMAIN disk \cup (Written(changes) \cap Concepts) |->
                  IF c \in Written(changes) THEN file(c) ELSE disk[c]]
  BY DEF commit_plan
<1> HIDE DEF file
<1>6. disk' \in [D \cup (Written(changes) \cap Concepts) -> File]
  BY <1>2, <1>3, <1>4, <1>5
<1>7. commit' = [lines |-> {<<ch.path, route_change(ch)>> : ch \in changes},
                 evidence |-> Evidence(changes), yes |-> yes, whole |-> whole]
  BY DEF commit_plan
<1>8. PathsOf(commit'.lines) = Written(changes)
  <2> DEFINE line(ch) == <<ch.path, route_change(ch)>>
  <2>1. commit'.lines = {line(ch) : ch \in changes}
    BY <1>7
  <2>2. \A ch : line(ch)[1] = ch.path
    OBVIOUS
  <2> HIDE DEF line
  <2> QED BY <2>1, <2>2 DEF PathsOf, Written
<1>9. \A c : file(c).says = DOMAIN run.body[c].says
  BY DEF file
<1> QED BY <1>2, <1>4, <1>5, <1>6, <1>7, <1>8, <1>9

\* A decision commits a plan whole or in part, or nothing; nothing else touches the files.
LEMMA OnlyDecisionsCommit ==
  ASSUME PlanInv, [PlanNext]_planVars
  PROVE  \/ UNCHANGED disk
         \/ /\ run.at = "reading"
            /\ \E plan \in Plans : \E changes \in SUBSET plan :
                 \/ /\ changes = plan
                    /\ \E d \in decide_plan(changes) :
                         /\ d.approved
                         /\ commit_plan(changes, IF d.said THEN Written(changes) ELSE {}, TRUE)
                 \/ commit_plan(changes, Written(changes), FALSE)
<1>1. CASE DecideWhole
  <2>1. run.at = "reading"
    BY <1>1 DEF DecideWhole
  <2>2. PICK changes \in Plans : \E d \in decide_plan(changes) :
          IF changes # {} /\ d.approved
          THEN commit_plan(changes, IF d.said THEN Written(changes) ELSE {}, TRUE)
          ELSE UNCHANGED <<disk, listed, commit>>
    BY <1>1 DEF DecideWhole
  <2>3. changes \in SUBSET changes
    OBVIOUS
  <2> QED BY <2>1, <2>2, <2>3
<1>2. CASE DecideItems
  <2>1. run.at = "reading"
    BY <1>2 DEF DecideItems
  <2>2. PICK plan \in Plans : \E review \in request_item_decisions(plan) :
          LET approved == approved_changes(review) IN
          IF approved # {} THEN commit_plan(approved, Written(approved), FALSE)
          ELSE UNCHANGED <<disk, listed, commit>>
    BY <1>2 DEF DecideItems
  <2>3. PICK review \in request_item_decisions(plan) :
          IF approved_changes(review) # {}
          THEN commit_plan(approved_changes(review), Written(approved_changes(review)), FALSE)
          ELSE UNCHANGED <<disk, listed, commit>>
    BY <2>2
  <2>4. approved_changes(review) \in SUBSET plan
    BY DEF request_item_decisions, approved_changes
  <2> QED BY <2>1, <2>3, <2>4
<1>3. ASSUME ~DecideWhole, ~DecideItems PROVE UNCHANGED disk
  BY <1>3 DEF PlanNext, BeginIngest, StartDraft, MergeStatement, EndDraft, Raise, planVars
<1> QED BY <1>1, <1>2, <1>3

LEMMA PlanStarts == ASSUME PlanInit PROVE PlanInv
<1>1. /\ disk \in UNION {[D -> File] : D \in SUBSET Concepts} /\ run = NoRun
  BY DEF PlanInit
<1>2. /\ run.at = "idle" /\ run.body = <<>> /\ run.meta = <<>> /\ run.merged = {}
  BY <1>1 DEF NoRun
<1>3. NoDraft \in Drafts
  BY DEF NoDraft, Drafts
<1>4. run \in Runs
  BY <1>1, <1>3, NothingYet DEF NoRun, Runs
<1>5. PlanShape
  BY <1>1, <1>2, <1>4, NothingYet DEF PlanShape
<1>6. LastIsCited /\ BodiesExplained
  BY <1>2, NothingYet DEF LastIsCited, BodiesExplained
<1> QED BY <1>5, <1>6 DEF PlanInv

\* Every step keeps the invariant.
LEMMA PlanStep == ASSUME PlanInv, [PlanNext]_planVars PROVE PlanInv'
<1>1. disk' \in UNION {[D -> File] : D \in SUBSET Concepts}
  <2>1. CASE UNCHANGED disk
    BY <2>1 DEF PlanInv, PlanShape
  <2>2. ASSUME run.at = "reading", NEW plan \in Plans, NEW changes \in SUBSET plan, NEW yes, NEW whole,
               commit_plan(changes, yes, whole)
        PROVE  disk' \in UNION {[D -> File] : D \in SUBSET Concepts}
    BY <2>2, CommitShape
  <2> QED BY <2>1, <2>2, OnlyDecisionsCommit
<1>2. CASE Raise \/ DecideWhole \/ DecideItems
  <2>1. run' = NoRun
    BY <1>2 DEF Raise, DecideWhole, DecideItems, EndIngest
  <2> QED BY <1>1, <2>1, NoRunExplains
<1>3. CASE UNCHANGED planVars
  <2>1. run' = run /\ disk' = disk
    BY <1>3 DEF planVars
  <2>2. /\ \A k, e : Reached(k, e)' <=> Reached(k, e)
        /\ \A k : SaysOf(k)' = SaysOf(k)
        /\ \A t, k : Explained(t, k)' <=> Explained(t, k)
    BY <2>1 DEF Reached, SaysOf, Explained
  <2>3. PlanShape' /\ LastIsCited'
    BY <2>1, <2>2 DEF PlanInv, PlanShape, LastIsCited
  <2>4. BodiesExplained'
    BY <2>1, <2>2 DEF PlanInv, BodiesExplained
  <2> QED BY <2>3, <2>4 DEF PlanInv
<1> QED BY <1>2, <1>3, BeginKeeps, DraftKeeps, MergeKeeps, EndDraftKeeps DEF PlanNext
--------------------------------------------------------------------------------
\* An escalated conflict on the way, or a change with a secret, needs approval.
LEMMA BlockedNeedsApproval ==
  ASSUME NEW changes, run.flags # {} \/ \E ch \in changes : ch.secret
  PROVE  requires_approval(changes)
<1>1. AUTO # BLOCK /\ SKIM # BLOCK /\ AUTO <= BLOCK /\ SKIM <= BLOCK /\ BLOCK <= BLOCK
      /\ ~(BLOCK <= AUTO) /\ ~(BLOCK <= SKIM)
  BY DEF AUTO, SKIM, BLOCK
<1>2. CASE run.flags # {}
  BY <1>2 DEF requires_approval, lane
<1>3. CASE run.flags = {}
  <2> DEFINE P(l) == /\ l = AUTO \/ \E ch \in changes : route_change(ch) = l
                     /\ \A ch \in changes : route_change(ch) <= l
  <2>1. PICK ch \in changes : ch.secret
    BY <1>3
  <2>2. route_change(ch) = BLOCK
    BY <2>1 DEF route_change
  <2>3. \A x : route_change(x) \in {AUTO, SKIM, BLOCK}
    BY DEF route_change
  <2>4. P(BLOCK)
    BY <1>1, <2>1, <2>2, <2>3
  <2>5. lane(changes) = CHOOSE l \in {AUTO, SKIM, BLOCK} : P(l)
    BY <1>3 DEF lane
  <2>6. lane(changes) \in {AUTO, SKIM, BLOCK} /\ P(lane(changes))
    <3> HIDE DEF P
    <3> QED BY <2>4, <2>5
  <2>7. BLOCK <= lane(changes)
    BY <2>1, <2>2, <2>6
  <2> QED BY <1>1, <2>6, <2>7 DEF requires_approval
<1> QED BY <1>2, <1>3

\* A plan that is committed unseen needs no approval; the files it leaves alone and
\* the files it writes are told apart by what the commit says.
LEMMA ReviewedStep == ASSUME PlanInv, [PlanNext]_planVars PROVE Reviewed
<1> SUFFICES ASSUME NEW c \in DOMAIN disk', c \notin DOMAIN disk \/ disk'[c] # disk[c],
                    Gained(c) \cap Secrets # {} \/ run.flags # {}
             PROVE  c \in commit'.yes
  BY DEF Reviewed
<1>0. PICK plan \in Plans : \E changes \in SUBSET plan :
        /\ run.at = "reading"
        /\ \/ /\ changes = plan
              /\ \E d \in decide_plan(changes) :
                   /\ d.approved
                   /\ commit_plan(changes, IF d.said THEN Written(changes) ELSE {}, TRUE)
           \/ commit_plan(changes, Written(changes), FALSE)
  BY OnlyDecisionsCommit
<1>1. PICK changes \in SUBSET plan :
        /\ run.at = "reading"
        /\ \/ /\ changes = plan
              /\ \E d \in decide_plan(changes) :
                   /\ d.approved
                   /\ commit_plan(changes, IF d.said THEN Written(changes) ELSE {}, TRUE)
           \/ commit_plan(changes, Written(changes), FALSE)
  BY <1>0
<1>2. ASSUME NEW yes, NEW whole, commit_plan(changes, yes, whole)
      PROVE  /\ c \in Written(changes) \cap Concepts /\ c \in DOMAIN run.body
             /\ disk'[c].says = DOMAIN run.body[c].says /\ commit'.yes = yes
  <2>1. /\ DOMAIN disk' = DOMAIN disk \cup (Written(changes) \cap Concepts)
        /\ \A k \in Written(changes) \cap Concepts :
              k \in DOMAIN run.body /\ disk'[k].says = DOMAIN run.body[k].says
        /\ \A k \in DOMAIN disk \ Written(changes) : disk'[k] = disk[k]
        /\ commit'.yes = yes
    BY <1>1, <1>2, CommitShape
  <2>2. DOMAIN disk \subseteq Concepts
    BY DEF PlanInv, PlanShape
  <2> QED BY <2>1, <2>2
<1>3. CASE commit_plan(changes, Written(changes), FALSE)
  BY <1>2, <1>3
<1>4. ASSUME NEW d \in decide_plan(changes), d.approved,
             commit_plan(changes, IF d.said THEN Written(changes) ELSE {}, TRUE)
      PROVE  c \in commit'.yes
  <2>1. /\ c \in Written(changes) \cap Concepts /\ c \in DOMAIN run.body
        /\ disk'[c].says = DOMAIN run.body[c].says
        /\ commit'.yes = IF d.said THEN Written(changes) ELSE {}
    BY <1>2, <1>4
  <2>2. CASE d.said
    BY <2>1, <2>2
  <2>3. CASE ~d.said
    <3>1. ~requires_approval(changes)
      <4>1. PICK said \in {TRUE, FALSE} \cup Said :
              d = [approved |-> said \/ ~requires_approval(changes), said |-> said]
        BY DEF decide_plan
      <4>2. (d.approved <=> said \/ ~requires_approval(changes)) /\ (d.said <=> said)
        BY <4>1
      <4> QED BY <1>4, <2>3, <4>2
    <3>2. run.flags = {} /\ \A ch \in changes : ~ch.secret
      BY <3>1, BlockedNeedsApproval
    <3>3. PICK ch \in changes : ch.path = c
      BY <2>1 DEF Written
    <3>4. ch = Change(c, IF c \in DOMAIN run.meta THEN run.meta[c] ELSE Steady, scan_secrets(c))
      BY <1>1, <2>1, <3>3, PlansShape
    <3>5. ~scan_secrets(c)
      BY <3>2, <3>4 DEF Change
    <3>6. DOMAIN run.body[c].says \cap Secrets = {}
      BY <3>5 DEF scan_secrets
    <3>7. Gained(c) \cap Secrets = {}
      BY <2>1, <3>6 DEF Gained
    <3> QED BY <3>2, <3>7
  <2> QED BY <2>2, <2>3
<1> QED BY <1>1, <1>3, <1>4

\* Nothing goes in unseen, whatever the concepts, documents, thresholds and secrets
\* are: a file that gains a paragraph with a secret, or any file of an ingest in which
\* a conflict was escalated, changes only when somebody said yes to it.
THEOREM NothingGoesUnreviewed == PlanSpec => NothingUnreviewed
<1>1. PlanInv /\ [PlanNext]_planVars => [Reviewed]_planVars
  BY ReviewedStep
<1> QED BY <1>1, PlanStarts, PlanStep, PTL DEF PlanSpec, NothingUnreviewed

\* Committing a whole plan drops no paragraph that is not accounted for.
LEMMA KeptStep == ASSUME PlanInv, [PlanNext]_planVars PROVE KeptOrExplained
<1> SUFFICES ASSUME disk' # disk, commit'.whole
             PROVE  /\ \A m \in run.merged :
                         \/ m[2] \in disk'[m[1]].says \/ <<m[1], m[2]>> \in run.flags
                         \/ Explained(m[2], m[1])
                    /\ \A c \in DOMAIN disk : \A s \in disk[c].says \ disk'[c].says : Explained(s, c)
  BY DEF KeptOrExplained
<1>0. PICK plan \in Plans : \E changes \in SUBSET plan :
        /\ run.at = "reading"
        /\ \/ changes = plan /\ \E yes : commit_plan(changes, yes, TRUE)
           \/ commit_plan(changes, Written(changes), FALSE)
  BY OnlyDecisionsCommit
<1>1. PICK changes \in SUBSET plan :
        /\ run.at = "reading"
        /\ \/ changes = plan /\ \E yes : commit_plan(changes, yes, TRUE)
           \/ commit_plan(changes, Written(changes), FALSE)
  BY <1>0
<1>2. changes = plan /\ \E yes : commit_plan(changes, yes, TRUE)
  <2>1. ASSUME commit_plan(changes, Written(changes), FALSE) PROVE FALSE
    BY <2>1 DEF commit_plan
  <2> QED BY <1>1, <2>1
<1>3. /\ \A c \in Written(changes) \cap Concepts :
            c \in DOMAIN run.body /\ disk'[c].says = DOMAIN run.body[c].says
      /\ \A c \in DOMAIN disk \ Written(changes) : disk'[c] = disk[c]
  BY <1>1, <1>2, CommitShape
<1>4. /\ DOMAIN run.meta \subseteq Written(changes) \cap Concepts
      /\ DOMAIN disk \subseteq Concepts
  <2>1. DOMAIN run.meta \subseteq Concepts
    BY DEF PlanInv, PlanShape, Runs, Metas
  <2> QED BY <1>2, <2>1, PlansShape DEF PlanInv, PlanShape
<1>5. ASSUME NEW m \in run.merged
      PROVE  m[2] \in disk'[m[1]].says \/ <<m[1], m[2]>> \in run.flags \/ Explained(m[2], m[1])
  BY <1>3, <1>4 DEF PlanInv, BodiesExplained
<1>6. ASSUME NEW c \in DOMAIN disk, NEW s \in disk[c].says \ disk'[c].says
      PROVE  Explained(s, c)
  <2>1. c \in Written(changes) \cap Concepts
    BY <1>3, <1>4, <1>6
  <2>2. s \notin DOMAIN run.body[c].says
    BY <1>3, <1>6, <2>1
  <2> QED BY <1>1, <2>2 DEF PlanInv, BodiesExplained
<1> QED BY <1>5, <1>6

\* Nothing is silently overwritten, whatever is ingested: when a whole plan is
\* committed, every paragraph of every draft is in its concept's file, flagged, or
\* replaced by a later one that conflicts with it or revises it; and so is every
\* paragraph a file held before.
THEOREM NothingIsDropped == PlanSpec => NothingDropped
<1>1. PlanInv /\ [PlanNext]_planVars => [KeptOrExplained]_planVars
  BY KeptStep
<1> QED BY <1>1, PlanStarts, PlanStep, PTL DEF PlanSpec, NothingDropped

\* A commit accounts for what it changes.
LEMMA AccountedStep == ASSUME PlanInv, [PlanNext]_planVars PROVE Accounted
<1> SUFFICES ASSUME disk' # disk
             PROVE  /\ \A c \in DOMAIN disk' : disk'[c].says # SaysOf(c) => c \in PathsOf(commit'.lines)
                    /\ \A d \in commit'.evidence :
                         \E m \in run.merged : m[3] = d /\ m[1] \in PathsOf(commit'.lines)
                    /\ \A c \in DOMAIN disk' : \A s \in Gained(c) :
                         \E m \in run.merged :
                           /\ m[1] = c /\ m[2] = s
                           /\ \/ m[3] \in run.stamped => m[3] \in commit'.evidence
                              \/ \E other \in run.merged : other[1] = c /\ other[3] # m[3]
  BY DEF Accounted
<1>0. PICK plan \in Plans : \E changes \in SUBSET plan :
        run.at = "reading" /\ \E yes, whole : commit_plan(changes, yes, whole)
  BY OnlyDecisionsCommit
<1>1. PICK changes \in SUBSET plan :
        run.at = "reading" /\ \E yes, whole : commit_plan(changes, yes, whole)
  BY <1>0
<1>2. /\ DOMAIN disk' = DOMAIN disk \cup (Written(changes) \cap Concepts)
      /\ \A c \in Written(changes) \cap Concepts :
            c \in DOMAIN run.body /\ disk'[c].says = DOMAIN run.body[c].says
      /\ \A c \in DOMAIN disk \ Written(changes) : disk'[c] = disk[c]
      /\ commit'.evidence = Evidence(changes) /\ PathsOf(commit'.lines) = Written(changes)
  BY <1>1, CommitShape
<1>3. DOMAIN disk \subseteq Concepts
  BY DEF PlanInv, PlanShape
<1>4. ASSUME NEW c \in DOMAIN disk', disk'[c].says # SaysOf(c) PROVE c \in Written(changes) \cap Concepts
  BY <1>2, <1>3, <1>4 DEF SaysOf
<1>5. \A ch \in changes : /\ ch.path \in DOMAIN run.meta => ch.meta = run.meta[ch.path]
                          /\ ch.path \notin DOMAIN run.meta => ch.meta = Steady
  <2>1. DOMAIN run.meta \subseteq Concepts
    BY DEF PlanInv, PlanShape, Runs, Metas
  <2> QED BY <1>1, <2>1, PlansShape DEF Change
<1>6. \A c \in DOMAIN run.meta :
        \E d \in Docs : /\ run.meta[c].evidence = {d} \cap run.stamped
                        /\ \E m \in run.merged : m[1] = c /\ m[3] = d
  BY <1>1 DEF PlanInv, LastIsCited, Reached
<1>7. ASSUME NEW d \in Evidence(changes)
      PROVE  \E m \in run.merged : m[3] = d /\ m[1] \in Written(changes)
  <2>1. PICK ch \in changes : d \in ch.meta.evidence
    BY DEF Evidence
  <2>2. ch.path \in DOMAIN run.meta /\ d \in run.meta[ch.path].evidence
    BY <1>5, <2>1 DEF Steady
  <2>3. ch.path \in Written(changes)
    BY DEF Written
  <2> QED BY <1>6, <2>2, <2>3
<1>8. ASSUME NEW c \in DOMAIN disk', NEW s \in Gained(c)
      PROVE  \E m \in run.merged :
               /\ m[1] = c /\ m[2] = s
               /\ \/ m[3] \in run.stamped => m[3] \in Evidence(changes)
                  \/ \E other \in run.merged : other[1] = c /\ other[3] # m[3]
  <2>1. s \in disk'[c].says /\ s \notin SaysOf(c)
    BY DEF Gained
  <2>2. c \in Written(changes) \cap Concepts /\ c \in DOMAIN run.body /\ s \in DOMAIN run.body[c].says
    BY <1>2, <1>4, <2>1
  <2>3. PICK m \in run.merged : m[1] = c /\ m[2] = s
    BY <2>1, <2>2 DEF PlanInv, BodiesExplained
  <2>4. c \in DOMAIN run.meta
    BY <2>3 DEF PlanInv, BodiesExplained
  <2>5. PICK d \in Docs, last \in run.merged :
          run.meta[c].evidence = {d} \cap run.stamped /\ last[1] = c /\ last[3] = d
    BY <1>6, <2>4
  <2>6. CASE m[3] # d
    BY <2>3, <2>5, <2>6
  <2>7. CASE m[3] = d
    <3>1. PICK ch \in changes : ch.path = c
      BY <2>2 DEF Written
    <3>2. ch.meta.evidence = {d} \cap run.stamped
      BY <1>5, <2>4, <2>5, <3>1
    <3>3. m[3] \in run.stamped => m[3] \in Evidence(changes)
      BY <2>7, <3>2 DEF Evidence
    <3> QED BY <2>3, <3>3
  <2> QED BY <2>6, <2>7
<1> QED BY <1>2, <1>4, <1>7, <1>8

\* A commit accounts for what it changes, whatever is ingested: it has a line for
\* every file it changed, cites only documents that went into a file it wrote, and
\* backs every paragraph a file gained, unless another document went into the same
\* concept.
THEOREM CommitsAlwaysAccount == PlanSpec => CommitAccounts
<1>1. PlanInv /\ [PlanNext]_planVars => [Accounted]_planVars
  BY AccountedStep
<1> QED BY <1>1, PlanStarts, PlanStep, PTL DEF PlanSpec, CommitAccounts
--------------------------------------------------------------------------------
(* The links and the indexes.                                                     *)

\* The strict order on the naturals, as pairs, has no infinite descent.
NatLess == OpToRel(<, Nat)

LEMMA NatLessWellFounded == IsWellFoundedOn(NatLess, Nat)
  BY NatLessThanWellFounded, Zenon DEF NatLess

LEMMA NatLessIsLess == \A m, n \in Nat : <<m, n>> \in NatLess <=> m < n
  BY DEF NatLess, OpToRel

\* A set of naturals that is not empty has a smallest element.
LEMMA SmallestElement ==
  ASSUME NEW T \in SUBSET Nat, T # {}
  PROVE  \E m \in T : \A n \in T : m <= n
<1>1. PICK m \in T : \A n \in T : ~ (<<n, m>> \in NatLess)
  BY NatLessWellFounded, WFMin, Zenon
<1>2. ASSUME NEW n \in T PROVE m <= n
  <2>1. ~ (n < m)
    BY <1>1, NatLessIsLess
  <2> QED BY <2>1
<1> QED BY <1>2

\* Numbers that are bounded above have a greatest.
LEMMA GreatestOf ==
  ASSUME NEW S \in SUBSET Int, S # {}, NEW b \in Int, \A x \in S : x <= b
  PROVE  Sets!Max(S) \in S /\ \A x \in S : x <= Sets!Max(S)
<1> DEFINE T == {b - x : x \in S}
<1>1. T \in SUBSET Nat /\ T # {}
  <2>1. \A x \in S : b - x \in Nat
    OBVIOUS
  <2>2. T # {}
    OBVIOUS
  <2> QED BY <2>1, <2>2
<1>2. PICK m \in T : \A n \in T : m <= n
  BY <1>1, SmallestElement
<1>3. b - m \in S /\ \A x \in S : x <= b - m
  BY <1>2
<1> QED BY <1>3 DEF Sets!Max

\* A body that nothing follows links to what its prose and its relations name.
LEMMA BodyLinks ==
  ASSUME NEW p, NEW r, NEW b, NEW body,
         body = [prose |-> p, related |-> r, backlinks |-> b, tail |-> {}]
  PROVE  /\ forward_targets(body) = MentionedIn(p) \cup r
         /\ \A new : [body EXCEPT !.backlinks = new] =
                     [prose |-> p, related |-> r, backlinks |-> new, tail |-> {}]
<1>1. body.prose = p /\ body.related = r /\ body.backlinks = b /\ body.tail = {}
  OBVIOUS
<1>2. MentionedIn({}) = {}
  BY DEF MentionedIn
<1>3. forward_targets(body) = MentionedIn(p) \cup r
  BY <1>1, <1>2 DEF forward_targets
<1> QED BY <1>3

\* A linked body is the prose with the sections linking found for it.
LEMMA LinkedBody ==
  ASSUME NEW bundle
  PROVE  /\ DOMAIN crosslink(bundle) = DOMAIN bundle
         /\ \A c \in DOMAIN bundle :
              /\ crosslink(bundle)[c].prose = bundle[c].prose
              /\ crosslink(bundle)[c].related = discover_relations(bundle, c)
              /\ crosslink(bundle)[c].tail = {}
              /\ crosslink(bundle)[c].backlinks = compute_backlinks(crosslink(bundle), c)
              /\ crosslink(bundle)[c] = [prose |-> bundle[c].prose, related |-> discover_relations(bundle, c),
                                         backlinks |-> compute_backlinks(crosslink(bundle), c), tail |-> {}]
<1> DEFINE staged == [c \in DOMAIN bundle |-> [strip_managed_sections(bundle[c]) EXCEPT
                                                 !.related = discover_relations(bundle, c)]]
           linked == crosslink(bundle)
<1>1. \A c \in DOMAIN bundle :
        staged[c] = [prose |-> bundle[c].prose, related |-> discover_relations(bundle, c),
                     backlinks |-> {}, tail |-> {}]
  BY DEF strip_managed_sections, Plain
<1>2. linked = [c \in DOMAIN bundle |-> [staged[c] EXCEPT !.backlinks = compute_backlinks(staged, c)]]
  BY DEF crosslink, apply_links
<1>3. DOMAIN staged = DOMAIN bundle
  OBVIOUS
<1> HIDE DEF staged, linked
<1>4. \A c \in DOMAIN bundle :
        linked[c] = [prose |-> bundle[c].prose, related |-> discover_relations(bundle, c),
                     backlinks |-> compute_backlinks(staged, c), tail |-> {}]
  <2> TAKE c \in DOMAIN bundle
  <2>1. linked[c] = [staged[c] EXCEPT !.backlinks = compute_backlinks(staged, c)]
    BY <1>2
  <2>2. staged[c] = [prose |-> bundle[c].prose, related |-> discover_relations(bundle, c),
                     backlinks |-> {}, tail |-> {}]
    BY <1>1
  <2> QED BY ONLY <2>1, <2>2, BodyLinks
<1>5. DOMAIN linked = DOMAIN bundle
  BY <1>2
<1>7. \A c \in DOMAIN bundle :
        forward_targets(linked[c]) = MentionedIn(bundle[c].prose) \cup discover_relations(bundle, c)
  BY <1>4, BodyLinks
<1>8. \A c \in DOMAIN bundle :
        forward_targets(staged[c]) = MentionedIn(bundle[c].prose) \cup discover_relations(bundle, c)
  BY <1>1, BodyLinks
<1>9. \A c : compute_backlinks(linked, c) = compute_backlinks(staged, c)
  BY <1>3, <1>5, <1>7, <1>8 DEF compute_backlinks
<1> QED BY <1>4, <1>5, <1>9 DEF linked

\* Linking settles in one pass: it looks at the prose alone, and leaves it as it is.
LEMMA EverythingSettles == ASSUME NEW bundle PROVE Settled(bundle)
<1> DEFINE linked == crosslink(bundle)
           twice == crosslink(linked)
<1>1. /\ DOMAIN linked = DOMAIN bundle
      /\ \A c \in DOMAIN bundle :
           /\ linked[c].prose = bundle[c].prose
           /\ linked[c].related = discover_relations(bundle, c)
           /\ linked[c].backlinks = compute_backlinks(linked, c)
           /\ linked[c] = [prose |-> bundle[c].prose, related |-> discover_relations(bundle, c),
                           backlinks |-> compute_backlinks(linked, c), tail |-> {}]
  BY LinkedBody
<1>2. /\ DOMAIN twice = DOMAIN linked
      /\ \A c \in DOMAIN linked :
           twice[c] = [prose |-> linked[c].prose, related |-> discover_relations(linked, c),
                       backlinks |-> compute_backlinks(twice, c), tail |-> {}]
  BY LinkedBody
<1>3. twice = [c \in DOMAIN twice |-> twice[c]] /\ linked = [c \in DOMAIN linked |-> linked[c]]
  BY DEF crosslink, apply_links
<1> HIDE DEF linked, twice
<1>4. \A c \in DOMAIN bundle : discover_relations(linked, c) = discover_relations(bundle, c)
  BY <1>1 DEF discover_relations, relate, term_overlap
<1>5. \A c \in DOMAIN bundle : forward_targets(twice[c]) = forward_targets(linked[c])
  <2> TAKE c \in DOMAIN bundle
  <2>1. forward_targets(twice[c]) = MentionedIn(linked[c].prose) \cup discover_relations(linked, c)
    BY <1>1, <1>2, BodyLinks
  <2>2. forward_targets(linked[c]) = MentionedIn(bundle[c].prose) \cup discover_relations(bundle, c)
    BY <1>1, BodyLinks
  <2> QED BY <1>1, <1>4, <2>1, <2>2
<1>6. \A c : compute_backlinks(twice, c) = compute_backlinks(linked, c)
  BY <1>1, <1>2, <1>5 DEF compute_backlinks
<1>7. \A c \in DOMAIN bundle : twice[c] = linked[c]
  BY <1>1, <1>2, <1>4, <1>6
<1>8. twice = linked
  BY <1>1, <1>2, <1>3, <1>7
<1>9. \A c \in DOMAIN linked :
        linked[c].related \subseteq DOMAIN linked \ ({c} \cup MentionedIn(linked[c].prose))
  BY <1>1 DEF discover_relations, relate
<1> QED BY <1>1, <1>8, <1>9 DEF Settled, linked, twice
--------------------------------------------------------------------------------
\* The index.md of every directory lists what is in it.
Lists(d) == d \in DOMAIN indexes /\ indexes[d] = regenerate_index(files, d)
Indexed ==
    \/ DOMAIN files = {} /\ DOMAIN indexes = {}
    \/ \A d \in bundle_directories(files) : Lists(d)

\* Writing the whole of a plan, over the bundle as it is, leaves every index listing
\* what is in its directory.
After(plan) == Overwrite(files, plan.bodies, DOMAIN plan.bodies)
ListsAfter(plan) == Overwrite(indexes, plan.lists, DOMAIN plan.lists)
Completes(plan) ==
    \A d \in bundle_directories(After(plan)) :
        d \in DOMAIN ListsAfter(plan) /\ ListsAfter(plan)[d] = regenerate_index(After(plan), d)

GraphInv ==
    /\ DOMAIN files \subseteq ConceptIds
    /\ settled # "edit" => Indexed
    /\ DOMAIN reindex = {"at", "planned", "stale"} /\ reindex.at \in {"idle", "described"}
    /\ reindex.at = "described" =>
         /\ reindex.planned # {}
         /\ settled = "edit" /\ ~reindex.stale =>
              \A d \in bundle_directories(files) \ reindex.planned : Lists(d)
    /\ DOMAIN pending = {"at", "bodies", "lists", "stale"} /\ pending.at \in {"idle", "planned"}
    /\ pending.at = "planned" =>
         /\ DOMAIN pending.bodies \subseteq ConceptIds
         /\ ~pending.stale => Completes(pending)
--------------------------------------------------------------------------------
\* What the indexes of a bundle are depends on its concepts alone.
LEMMA SameConcepts ==
  ASSUME NEW a, NEW b, DOMAIN a = DOMAIN b
  PROVE  /\ bundle_directories(a) = bundle_directories(b)
         /\ \A d : regenerate_index(a, d) = regenerate_index(b, d)
BY DEF bundle_directories, regenerate_index

\* What an index lists.
LEMMA IndexParts ==
  \A bundle, dir :
    /\ \A id : id \in regenerate_index(bundle, dir).concepts
               <=> id \in DOMAIN bundle /\ directory_of(id) = dir
    /\ \A d : d \in regenerate_index(bundle, dir).subdirs
              <=> d \in bundle_directories(bundle) /\ d # <<>> /\ directory_of(d) = dir
BY DEF regenerate_index

\* An empty bundle has its root.
LEMMA RootOnly ==
  /\ \A bundle : <<>> \in bundle_directories(bundle)
  /\ \A bundle : DOMAIN bundle = {} => bundle_directories(bundle) = {<<>>}
BY DEF bundle_directories

LEMMA DesiredIndexes ==
  \A bundle : /\ DOMAIN regenerate_indexes(bundle) = bundle_directories(bundle)
              /\ \A d \in bundle_directories(bundle) :
                   regenerate_indexes(bundle)[d] = regenerate_index(bundle, d)
BY DEF regenerate_indexes

\* Rewriting some directories of the bundle leaves those and the others listed.
LEMMA RewritingLists ==
  ASSUME NEW dirs \in SUBSET bundle_directories(files), indexes' = Rewritten(dirs), UNCHANGED files
  PROVE  /\ DOMAIN indexes' = DOMAIN indexes \cup dirs
         /\ \A d \in dirs : Lists(d)'
         /\ \A d : Lists(d) => Lists(d)'
<1> DEFINE desired == regenerate_indexes(files)
<1>1. indexes' = [d \in DOMAIN indexes \cup dirs |-> IF d \in dirs THEN desired[d] ELSE indexes[d]]
  BY DEF Rewritten, Overwrite
<1>2. \A d \in dirs : desired[d] = regenerate_index(files, d)
  BY DesiredIndexes
<1>3. \A d : regenerate_index(files, d)' = regenerate_index(files, d)
  BY DEF regenerate_index
<1> HIDE DEF desired
<1> QED BY <1>1, <1>2, <1>3 DEF Lists

\* What an ingest plans on the bundle as it is completes it.
LEMMA PlansComplete ==
  ASSUME GraphInv, NEW c \in ConceptIds, NEW p \in Prose, NEW plan \in LinkPlans(c, p)
  PROVE  DOMAIN plan.bodies \subseteq ConceptIds /\ Completes(plan)
<1>1. PICK gone : plan \in Changed(crosslink(Put(files, c, MergedBody(c, p, gone))), c)
  BY DEF LinkPlans
<1> DEFINE merged == Put(files, c, MergedBody(c, p, gone))
           linked == crosslink(merged)
           must == MustWrite(files, linked, c)
           moved == {d \in bundle_directories(linked) :
                       d \notin DOMAIN indexes \/ indexes[d] # regenerate_index(linked, d)}
<1>2. PICK may \in SUBSET (MayWrite(files, linked) \ must) :
         plan = [bodies |-> [d \in must \cup may |-> linked[d]],
                 lists |-> [d \in moved |-> regenerate_index(linked, d)]]
  <2> HIDE DEF linked, merged
  <2> QED BY <1>1 DEF Changed, linked, merged
<1>3. DOMAIN merged = DOMAIN files \cup {c}
  BY DEF Put
<1>4. DOMAIN linked = DOMAIN files \cup {c}
  <2> HIDE DEF merged
  <2> QED BY <1>3, LinkedBody
<1>5. must \cup may \subseteq DOMAIN linked /\ DOMAIN linked \ DOMAIN files \subseteq must
  BY DEF MustWrite, MayWrite
<1> HIDE DEF merged, linked, must
<1>6. DOMAIN plan.bodies = must \cup may /\ DOMAIN plan.lists = moved
      /\ \A d \in moved : plan.lists[d] = regenerate_index(linked, d)
  <2> HIDE DEF moved
  <2> QED BY <1>2
<1>7. DOMAIN After(plan) = DOMAIN linked
  BY <1>4, <1>5, <1>6 DEF After, Overwrite
<1>8. /\ bundle_directories(After(plan)) = bundle_directories(linked)
      /\ \A d : regenerate_index(After(plan), d) = regenerate_index(linked, d)
  BY <1>7, SameConcepts
<1>9. \A d \in bundle_directories(linked) :
         d \in DOMAIN ListsAfter(plan) /\ ListsAfter(plan)[d] = regenerate_index(linked, d)
  BY <1>6 DEF ListsAfter, Overwrite
<1> QED BY <1>4, <1>5, <1>6, <1>8, <1>9 DEF GraphInv, Completes

\* Writing such a plan whole does so.
LEMMA WholePlanIndexes ==
  ASSUME NEW plan, Completes(plan), Write(plan, DOMAIN plan.bodies, DOMAIN plan.lists)
  PROVE  Indexed'
<1>1. files' = After(plan) /\ indexes' = ListsAfter(plan)
  BY DEF Write, After, ListsAfter
<1>2. \A d \in bundle_directories(files') : d \in DOMAIN indexes' /\ indexes'[d] = regenerate_index(files', d)
  BY <1>1 DEF Completes
<1> QED BY <1>2 DEF Indexed, Lists

\* A plan that something has overtaken claims nothing any more.
LEMMA OvertakenPlan ==
  ASSUME GraphInv, Overtake(pending)
  PROVE  /\ DOMAIN pending' = {"at", "bodies", "lists", "stale"} /\ pending'.at \in {"idle", "planned"}
         /\ pending'.at = "planned" => DOMAIN pending'.bodies \subseteq ConceptIds /\ pending'.stale
BY DEF GraphInv, Overtake

LEMMA OvertakenReindex ==
  ASSUME GraphInv, Overtake(reindex)
  PROVE  /\ DOMAIN reindex' = {"at", "planned", "stale"} /\ reindex'.at \in {"idle", "described"}
         /\ reindex'.at = "described" => reindex'.planned # {} /\ reindex'.stale
BY DEF GraphInv, Overtake

\* The empty bundle has no index to list anything.
LEMMA GraphStarts == ASSUME GraphInit PROVE GraphInv
<1>1. DOMAIN <<>> = {}
  OBVIOUS
<1> QED BY <1>1 DEF GraphInit, GraphInv, Indexed, NoReindex, NoPending

\* Every step keeps the invariant.
LEMMA GraphStep == ASSUME GraphInv, [GraphNext]_graphVars PROVE GraphInv'
<1>ingested. ASSUME NEW c \in ConceptIds, NEW p \in Prose, IngestDraft(c, p) PROVE GraphInv'
  <2>1. PICK plan \in LinkPlans(c, p) : Write(plan, DOMAIN plan.bodies, DOMAIN plan.lists)
    BY <1>ingested DEF IngestDraft
  <2>2. settled' = "ingest" /\ Overtake(pending) /\ reindex' = reindex
    BY <1>ingested DEF IngestDraft
  <2>3. DOMAIN plan.bodies \subseteq ConceptIds /\ Completes(plan)
    BY PlansComplete
  <2>4. Indexed'
    BY <2>1, <2>3, WholePlanIndexes
  <2>5. DOMAIN files' = DOMAIN files \cup DOMAIN plan.bodies
    BY <2>1 DEF Write, Overwrite
  <2> QED BY <2>2, <2>3, <2>4, <2>5, OvertakenPlan DEF GraphInv
<1>planned. ASSUME NEW c \in ConceptIds, NEW p \in Prose, PlanDraft(c, p) PROVE GraphInv'
  <2>1. PICK plan \in LinkPlans(c, p) :
          pending' = [at |-> "planned", bodies |-> plan.bodies, lists |-> plan.lists, stale |-> FALSE]
    BY <1>planned DEF PlanDraft
  <2>2. files' = files /\ indexes' = indexes /\ settled' = settled /\ reindex' = reindex
    BY <1>planned DEF PlanDraft
  <2>3. DOMAIN plan.bodies \subseteq ConceptIds /\ Completes(plan)
    BY PlansComplete
  <2>4. pending'.bodies = plan.bodies /\ pending'.lists = plan.lists /\ pending'.at = "planned"
        /\ DOMAIN pending' = {"at", "bodies", "lists", "stale"}
    BY <2>1
  <2>5. Completes(pending)'
    BY <2>2, <2>3, <2>4 DEF Completes, After, ListsAfter
  <2>6. (\A d : Lists(d)' <=> Lists(d)) /\ bundle_directories(files)' = bundle_directories(files)
    BY <2>2 DEF Lists, regenerate_index, bundle_directories
  <2> QED BY <2>2, <2>3, <2>4, <2>5, <2>6 DEF GraphInv, Indexed
<1>committed. ASSUME CommitDraft PROVE GraphInv'
  <2>1. PICK bodies \in SUBSET DOMAIN pending.bodies, lists \in SUBSET DOMAIN pending.lists :
          /\ Write(pending, bodies, lists)
          /\ settled' = IF WritesAll(pending, bodies, lists) /\ ~pending.stale THEN "ingest" ELSE "edit"
    BY <1>committed DEF CommitDraft
  <2>2. pending.at = "planned" /\ Overtake(reindex) /\ pending' = NoPending
    BY <1>committed DEF CommitDraft
  <2>3. DOMAIN files' = DOMAIN files \cup bodies
    BY <2>1 DEF Write, Overwrite
  <2>4. settled' # "edit" => Indexed'
    BY <2>1, <2>2, WholePlanIndexes DEF WritesAll, GraphInv
  <2> QED BY <2>2, <2>3, <2>4, OvertakenReindex DEF GraphInv, NoPending
<1>2. ASSUME EditedFiles, UNCHANGED indexes, DOMAIN files' \subseteq ConceptIds PROVE GraphInv'
  BY <1>2, OvertakenPlan, OvertakenReindex DEF EditedFiles, GraphInv
<1>3. ASSUME NEW c \in ConceptIds, NEW p \in Prose, Author(c, p) PROVE GraphInv'
  <2>1. DOMAIN files' = DOMAIN files \cup {c}
    BY <1>3 DEF Author, Put
  <2> QED BY <1>2, <1>3, <2>1 DEF Author, GraphInv
<1>4. ASSUME NEW c \in ConceptIds, Delete(c) PROVE GraphInv'
  BY <1>2, <1>4 DEF Delete, GraphInv
<1>5. ASSUME describe_reindex PROVE GraphInv'
  <2> DEFINE desired == regenerate_indexes(files)
             planned == {d \in DOMAIN desired : d \notin DOMAIN indexes \/ indexes[d] # desired[d]}
  <2>described. /\ reindex' = [at |-> "described", stale |-> FALSE, planned |-> planned]
                /\ reindex'.planned # {}
                /\ files' = files /\ indexes' = indexes /\ settled' = settled
    BY <1>5 DEF describe_reindex
  <2>listed. \A d \in bundle_directories(files) \ planned : Lists(d)
    BY DesiredIndexes DEF Lists
  <2> HIDE DEF planned
  <2>record. reindex'.at = "described" /\ reindex'.planned = planned
             /\ DOMAIN reindex' = {"at", "planned", "stale"}
    BY <2>described
  <2>lists. /\ \A d : Lists(d)' <=> Lists(d)
            /\ bundle_directories(files)' = bundle_directories(files)
    BY <2>described DEF Lists, regenerate_index, bundle_directories
  <2>settled. settled' # "edit" => Indexed'
    BY <2>described, <2>lists DEF GraphInv, Indexed
  <2>pending. pending' = pending /\ (Completes(pending)' <=> Completes(pending))
    BY <1>5, <2>described DEF describe_reindex, Completes, After, ListsAfter
  <2> QED BY <2>described, <2>listed, <2>record, <2>lists, <2>settled, <2>pending DEF GraphInv
<1>6. ASSUME NEW dirs \in SUBSET bundle_directories(files), indexes' = Rewritten(dirs), UNCHANGED files,
             settled # "edit"
      PROVE  Indexed'
  <2>1. /\ DOMAIN indexes' = DOMAIN indexes \cup dirs
        /\ \A d \in dirs : Lists(d)'
        /\ \A d : Lists(d) => Lists(d)'
    BY <1>6, RewritingLists
  <2>2. bundle_directories(files)' = bundle_directories(files)
    BY <1>6 DEF bundle_directories
  <2>3. CASE \A d \in bundle_directories(files) : Lists(d)
    BY <2>1, <2>2, <2>3 DEF Indexed
  <2>4. CASE DOMAIN files = {} /\ DOMAIN indexes = {} /\ dirs = {}
    BY <1>6, <2>1, <2>4 DEF Indexed
  <2>5. CASE DOMAIN files = {} /\ DOMAIN indexes = {} /\ dirs # {}
    <3>1. bundle_directories(files) = dirs
      BY <2>5, RootOnly
    <3> QED BY <2>1, <2>2, <3>1 DEF Indexed
  <2> QED BY <1>6, <2>3, <2>4, <2>5 DEF GraphInv, Indexed
<1>7. ASSUME apply_reindex PROVE GraphInv'
  <2>pending. Overtake(pending)
    BY <1>7 DEF apply_reindex
  <2>1. /\ reindex.at = "described" /\ reindex.planned \subseteq bundle_directories(files)
        /\ indexes' = Rewritten(reindex.planned) /\ files' = files /\ reindex' = NoReindex
        /\ settled' = IF settled = "edit" /\ ~reindex.stale THEN "reindex" ELSE settled
    BY <1>7 DEF apply_reindex
  <2>2. CASE settled # "edit"
    <3>1. Indexed'
      BY <1>6, <2>1, <2>2
    <3> QED BY <2>1, <2>pending, <3>1, OvertakenPlan DEF GraphInv, NoReindex
  <2>3. CASE settled = "edit" /\ ~reindex.stale
    <3>1. /\ \A d \in reindex.planned : Lists(d)'
          /\ \A d : Lists(d) => Lists(d)'
      BY <2>1, RewritingLists
    <3>2. \A d \in bundle_directories(files) \ reindex.planned : Lists(d)
      BY <2>1, <2>3 DEF GraphInv
    <3>3. bundle_directories(files)' = bundle_directories(files)
      BY <2>1 DEF bundle_directories
    <3>4. Indexed'
      BY <3>1, <3>2, <3>3 DEF Indexed
    <3> QED BY <2>1, <2>pending, <3>4, OvertakenPlan DEF GraphInv, NoReindex
  <2>4. CASE settled = "edit" /\ reindex.stale
    BY <2>1, <2>pending, <2>4, OvertakenPlan DEF GraphInv, NoReindex
  <2> QED BY <2>2, <2>3, <2>4
<1>8. ASSUME ReindexRaises PROVE GraphInv'
  <2>1. PICK dirs \in SUBSET (reindex.planned \cap bundle_directories(files)) : indexes' = Rewritten(dirs)
    BY <1>8 DEF ReindexRaises
  <2>2. files' = files /\ settled' = settled /\ reindex' = NoReindex /\ Overtake(pending)
    BY <1>8 DEF ReindexRaises
  <2>3. settled # "edit" => Indexed'
    BY <1>6, <2>1, <2>2
  <2> QED BY <2>2, <2>3, OvertakenPlan DEF GraphInv, NoReindex
<1>9. CASE UNCHANGED graphVars
  <2>1. files' = files /\ indexes' = indexes /\ settled' = settled /\ reindex' = reindex
        /\ pending' = pending
    BY <1>9 DEF graphVars
  <2>2. (\A d : Lists(d)' <=> Lists(d)) /\ bundle_directories(files)' = bundle_directories(files)
    BY <2>1 DEF Lists, regenerate_index, bundle_directories
  <2>3. Completes(pending)' <=> Completes(pending)
    BY <2>1 DEF Completes, After, ListsAfter
  <2> QED BY <2>1, <2>2, <2>3 DEF GraphInv, Indexed
<1> QED BY <1>ingested, <1>planned, <1>committed, <1>3, <1>4, <1>5, <1>7, <1>8, <1>9 DEF GraphNext
--------------------------------------------------------------------------------
\* The directory of a concept is found by following the indexes down to it.
LEMMA WalkedDownTo ==
  ASSUME \A d \in bundle_directories(files) : Lists(d), NEW id \in DOMAIN files,
         DOMAIN files \subseteq ConceptIds, NEW dirs, ClosedDown(dirs)
  PROVE  directory_of(id) \in dirs
<1> DEFINE top == Len(id) - 1
           at(n) == SubSeq(id, 1, n)
<1>1. id \in Seq(STRING) /\ id # <<>> /\ Len(id) \in Nat /\ top \in Nat
  BY LinkAssumption, EmptySeq, LenProperties
<1>2. at(0) = <<>>
  BY <1>1, SubSeqEmpty
<1>3. ASSUME NEW n \in 1..top
      PROVE  /\ at(n) \in bundle_directories(files) /\ at(n) # <<>>
             /\ directory_of(at(n)) = at(n - 1) /\ at(n - 1) \in bundle_directories(files)
  <2>1. \A k \in 1..top : at(k) \in bundle_directories(files)
    BY DEF bundle_directories
  <2>2. at(n - 1) \in bundle_directories(files)
    <3>1. CASE n = 1
      <4>1. n - 1 = 0
        BY <3>1
      <4> QED BY <1>2, <4>1, RootOnly
    <3>2. CASE n # 1
      <4>1. n - 1 \in 1..top
        BY <1>1, <3>2
      <4> QED BY <2>1, <4>1
    <3> QED BY <3>1, <3>2
  <2>3. \A k \in 1..n : id[k] \in STRING
    BY <1>1
  <2>4. at(n) \in Seq(STRING) /\ Len(at(n)) = n
    BY <1>1, <2>3, SubSeqProperties
  <2>5. at(n) # <<>>
    BY <2>4
  <2>6. SubSeq(at(n), 1, n - 1) = at(n - 1)
    BY <1>1, <2>3, <2>4
  <2> QED BY <2>1, <2>2, <2>4, <2>5, <2>6 DEF directory_of
<1> SUFFICES ASSUME directory_of(id) \notin dirs PROVE FALSE
  OBVIOUS
<1> DEFINE T == {n \in 0..top : at(n) \notin dirs}
<1>4. top \in T /\ T \in SUBSET Nat
  BY <1>1 DEF directory_of
<1>5. PICK m \in T : \A n \in T : m <= n
  BY <1>4, SmallestElement
<1>6. m \in 1..top
  <2>1. at(0) \in dirs
    BY <1>2 DEF ClosedDown
  <2>2. m \in 0..top /\ m # 0
    BY <1>5, <2>1
  <2> QED BY <1>1, <2>2
<1>7. at(m - 1) \in dirs
  <2>1. m - 1 \in 0..top /\ m - 1 \in Nat /\ ~ (m <= m - 1)
    BY <1>1, <1>6
  <2>2. m - 1 \notin T
    BY <1>5, <2>1
  <2> QED BY <2>1, <2>2
<1>8. at(m) \in indexes[at(m - 1)].subdirs \cap DOMAIN indexes
  <2>1. /\ indexes[at(m - 1)] = regenerate_index(files, at(m - 1))
        /\ at(m) \in DOMAIN indexes
    BY <1>3, <1>6 DEF Lists
  <2>2. at(m) \in bundle_directories(files) /\ at(m) # <<>> /\ directory_of(at(m)) = at(m - 1)
    BY <1>3, <1>6
  <2> HIDE DEF at
  <2>3. at(m) \in indexes[at(m - 1)].subdirs
    BY ONLY <2>1, <2>2, IndexParts
  <2> QED BY <2>1, <2>3
<1> QED BY <1>5, <1>7, <1>8 DEF ClosedDown

\* Walking down from the root finds the concepts of the bundle, and nothing else.
LEMMA WalkedFiles ==
  ASSUME Indexed, DOMAIN files \subseteq ConceptIds
  PROVE  UNION {indexes[d].concepts : d \in walk_indexes} = DOMAIN files
<1>1. CASE DOMAIN files = {} /\ DOMAIN indexes = {}
  BY <1>1 DEF walk_indexes
<1>2. CASE \A d \in bundle_directories(files) : Lists(d)
  <2> DEFINE dirs == bundle_directories(files)
  <2>1. \A d \in dirs :
          /\ d \in DOMAIN indexes
          /\ \A id : id \in indexes[d].concepts <=> id \in DOMAIN files /\ directory_of(id) = d
          /\ indexes[d].subdirs \subseteq dirs
    BY <1>2, IndexParts DEF Lists
  <2>2. ClosedDown(dirs) /\ dirs \in SUBSET DOMAIN indexes
    BY <2>1, RootOnly DEF ClosedDown
  <2>3. walk_indexes \subseteq dirs
    BY <2>2 DEF walk_indexes
  <2>4. \A id \in DOMAIN files : directory_of(id) \in dirs
    BY <1>2, <2>2, WalkedDownTo
  <2>5. \A id \in DOMAIN files : directory_of(id) \in walk_indexes
    BY <1>2, <2>2, <2>4, WalkedDownTo DEF walk_indexes
  <2> HIDE DEF dirs
  <2>6. \A id \in DOMAIN files : id \in indexes[directory_of(id)].concepts
    BY <2>1, <2>4
  <2>7. \A d \in walk_indexes : indexes[d].concepts \subseteq DOMAIN files
    BY <2>1, <2>3
  <2> QED BY <2>5, <2>6, <2>7
<1> QED BY <1>1, <1>2 DEF Indexed

\* For any tree of concepts, any prose and relations: linking settles in one pass.
THEOREM LinkingAlwaysSettles == GraphSpec => []LinkingSettles
<1>1. LinkingSettles
  BY EverythingSettles DEF LinkingSettles
<1> QED BY <1>1, PTL

\* However deep the tree and whatever edits, partly approved and overtaken plans came
\* before: once an ingest has written its whole plan as it made it, or a reindex that
\* nothing overtook is over, the walk down from the root's index finds every concept
\* and nothing else.
THEOREM WalksFindAll == GraphSpec => []WalkFindsAll
<1>1. GraphInv => WalkFindsAll
  BY WalkedFiles DEF GraphInv, WalkFindsAll
<1> QED BY <1>1, GraphStarts, GraphStep, PTL DEF GraphSpec
--------------------------------------------------------------------------------
(* The audit record.                                                              *)

\* The lines that an ingest writes, and the change lines of one plan.
Lines ==
    {change_line(path, covered) : path \in ChangedPaths, covered \in Coverages}
      \cup {source_run, evidence_sha256} \cup {reviewed_by(name) : name \in Named \ {NoReviewer}}
ChangesIn(lines) == {l \in Elements(lines) : l.tag = "change"}
Writes(plan) == {change_line(c.path, coverage(plan, c)) : c \in Elements(plan.changes)}
WritesOf(plans) == UNION {Writes(p) : p \in plans}

\* A message holds the lines of the plans it tells of, the last name in it is the last
\* of their reviewers, and an ingest's own names no path twice.
Commits == [by : {"ingest", "hand"}, plans : SUBSET Plan, reviewer : Named,
            subject : {"ingest", "other"}, lines : Seq(Lines)]
Faithful(entry) ==
    /\ ChangesIn(entry.lines) = WritesOf(entry.plans)
    /\ source_run \in Elements(entry.lines) <=> \E p \in entry.plans : Bound(p)
    /\ evidence_sha256 \in Elements(entry.lines) <=> \E p \in entry.plans : Bound(p)
    /\ reviewer_of(entry.lines) = entry.reviewer
    /\ entry.by = "ingest" =>
         \A i, j \in DOMAIN entry.lines :
           /\ entry.lines[i].tag = "change" /\ entry.lines[j].tag = "change"
           /\ entry.lines[i].path = entry.lines[j].path
           => i = j

TrailInv == trail \in Seq({c \in Commits : Faithful(c)})
--------------------------------------------------------------------------------
\* What is read from a change line is what was written there.
LEMMA LineRead ==
  ASSUME NEW path \in ChangedPaths, NEW covered \in Coverages
  PROVE  /\ change_line(path, covered) \in Lines
         /\ change_line(path, covered).tag = "change" /\ change_line(path, covered).path = path
         /\ Matches(change_line(path, covered)) <=> path \notin Spaced
         /\ parse_change_line(change_line(path, covered)) = [path |-> path, coverage |-> covered]
<1> DEFINE line == change_line(path, covered)
<1>1. covered \in {"complete", "sampled", Unclassified}
  BY DEF Coverages
<1>2. /\ line.tag = "change" /\ line.path = path
      /\ line.attrs = IF covered = Unclassified THEN <<>> ELSE [coverage |-> covered]
  BY DEF change_line
<1>3. line \in Lines
  BY DEF Lines
<1> HIDE DEF line
<1>4. attr(line, "coverage", Unclassified) = covered
  <2>1. CASE covered = Unclassified
    <3>1. DOMAIN line.attrs = {}
      BY <1>2, <2>1
    <3> QED BY <2>1, <3>1 DEF attr
  <2>2. CASE covered # Unclassified
    <3>1. line.attrs = [coverage |-> covered]
      BY <1>2, <2>2
    <3> QED BY <3>1 DEF attr
  <2> QED BY <2>1, <2>2
<1>5. parse_change_line(line) = [path |-> path, coverage |-> covered]
  BY <1>2, <1>4 DEF parse_change_line
<1>6. Matches(line) <=> path \notin Spaced
  BY <1>2 DEF Matches
<1> QED BY <1>2, <1>3, <1>5, <1>6 DEF line

\* The other lines are told apart by their tags.
LEMMA TrailerLines ==
  /\ source_run.tag = "source_run" /\ evidence_sha256.tag = "evidence"
  /\ source_run \in Lines /\ evidence_sha256 \in Lines
  /\ \A name : reviewed_by(name).tag = "reviewed" /\ reviewed_by(name).by = name
  /\ \A name \in Named \ {NoReviewer} : reviewed_by(name) \in Lines
  /\ \A l \in Lines : l.tag = "reviewed" => l.by \in Named \ {NoReviewer}
  /\ \A l \in Lines : l.tag = "change" =>
       \E path \in ChangedPaths, covered \in Coverages : l = change_line(path, covered)
<1>1. source_run.tag = "source_run" /\ evidence_sha256.tag = "evidence"
  BY DEF source_run, evidence_sha256
<1>2. \A name : reviewed_by(name).tag = "reviewed" /\ reviewed_by(name).by = name
  BY DEF reviewed_by
<1>3. \A l \in Lines :
        \/ \E path \in ChangedPaths, covered \in Coverages : l = change_line(path, covered)
        \/ l = source_run \/ l = evidence_sha256
        \/ \E name \in Named \ {NoReviewer} : l = reviewed_by(name)
  BY DEF Lines
<1>4. /\ source_run \in Lines /\ evidence_sha256 \in Lines
      /\ \A name \in Named \ {NoReviewer} : reviewed_by(name) \in Lines
  BY DEF Lines
<1>5. \A path \in ChangedPaths, covered \in Coverages : change_line(path, covered).tag = "change"
  BY LineRead
<1> QED BY <1>1, <1>2, <1>3, <1>4, <1>5, Zenon

\* The last of the names is the one that is kept.
LEMMA LastIs ==
  ASSUME NEW lines \in Seq(Lines), NEW i \in NamedAt(lines), \A j \in NamedAt(lines) : j <= i
  PROVE  reviewer_of(lines) = lines[i].by
<1>1. NamedAt(lines) \subseteq Nat
  BY DEF NamedAt
<1>2. LastAt(lines) = i
  BY <1>1 DEF LastAt
<1> QED BY <1>2 DEF reviewer_of

LEMMA LastName ==
  ASSUME NEW lines \in Seq(Lines)
  PROVE  \/ NamedAt(lines) = {} /\ reviewer_of(lines) = NoReviewer
         \/ \E i \in NamedAt(lines) :
              /\ \A j \in NamedAt(lines) : j <= i
              /\ reviewer_of(lines) = lines[i].by /\ lines[i].by \in Named \ {NoReviewer}
<1>1. CASE NamedAt(lines) = {}
  BY <1>1 DEF reviewer_of
<1>2. CASE NamedAt(lines) # {}
  <2>1. /\ NamedAt(lines) \in SUBSET Int /\ Len(lines) \in Int
        /\ \A j \in NamedAt(lines) : j <= Len(lines) /\ j \in DOMAIN lines /\ lines[j].tag = "reviewed"
    BY DEF NamedAt
  <2>2. PICK i \in NamedAt(lines) : \A j \in NamedAt(lines) : j <= i
    BY <1>2, <2>1, GreatestOf
  <2>3. lines[i] \in Lines
    BY <2>1
  <2> QED BY <2>1, <2>2, <2>3, LastIs, TrailerLines
<1> QED BY <1>1, <1>2

\* Two messages in one hold the lines of both, and the last name of the two.
LEMMA Joined ==
  ASSUME NEW s \in Seq(Lines), NEW t \in Seq(Lines)
  PROVE  /\ s \o t \in Seq(Lines) /\ Elements(s \o t) = Elements(s) \cup Elements(t)
         /\ ChangesIn(s \o t) = ChangesIn(s) \cup ChangesIn(t)
         /\ reviewer_of(s \o t) = IF reviewer_of(t) = NoReviewer THEN reviewer_of(s) ELSE reviewer_of(t)
<1> DEFINE both == s \o t
<1>1. /\ both \in Seq(Lines) /\ Len(both) = Len(s) + Len(t) /\ Len(s) \in Nat /\ Len(t) \in Nat
      /\ \A i \in 1..(Len(s) + Len(t)) : both[i] = IF i <= Len(s) THEN s[i] ELSE t[i - Len(s)]
  BY ConcatProperties
<1> HIDE DEF both
<1>2. /\ DOMAIN s = 1..Len(s) /\ DOMAIN t = 1..Len(t) /\ DOMAIN both = 1..(Len(s) + Len(t))
      /\ \A i \in DOMAIN s : i \in DOMAIN both /\ both[i] = s[i]
      /\ \A i \in DOMAIN t : Len(s) + i \in DOMAIN both /\ both[Len(s) + i] = t[i]
      /\ \A i \in DOMAIN both : \/ i \in DOMAIN s /\ both[i] = s[i]
                                \/ i - Len(s) \in DOMAIN t /\ both[i] = t[i - Len(s)]
  BY <1>1
<1>3. Elements(both) = Elements(s) \cup Elements(t)
  BY <1>2 DEF Elements
<1>4. ChangesIn(both) = ChangesIn(s) \cup ChangesIn(t)
  BY <1>3 DEF ChangesIn
<1>5. /\ \A i \in NamedAt(t) : Len(s) + i \in NamedAt(both)
      /\ \A i \in NamedAt(s) : i \in NamedAt(both)
      /\ \A i \in NamedAt(both) : i \in NamedAt(s) \/ i - Len(s) \in NamedAt(t)
      /\ \A i \in NamedAt(both) : i \in Nat /\ (i \in NamedAt(s) => i <= Len(s))
      /\ \A i \in NamedAt(s) : i \in DOMAIN s
      /\ \A i \in NamedAt(t) : i \in DOMAIN t
  BY <1>1, <1>2 DEF NamedAt
<1>6. reviewer_of(both) = IF reviewer_of(t) = NoReviewer THEN reviewer_of(s) ELSE reviewer_of(t)
  <2>1. CASE NamedAt(t) # {}
    <3>1. PICK i \in NamedAt(t) : /\ \A j \in NamedAt(t) : j <= i
                                  /\ reviewer_of(t) = t[i].by /\ t[i].by \in Named \ {NoReviewer}
      BY <2>1, LastName
    <3>2. \A j \in NamedAt(both) : j <= Len(s) + i
      BY <1>1, <1>2, <1>5, <3>1
    <3>3. reviewer_of(both) = both[Len(s) + i].by
      BY <1>1, <1>5, <3>2, LastIs
    <3> QED BY <1>2, <1>5, <3>1, <3>3
  <2>2. CASE NamedAt(t) = {} /\ NamedAt(s) # {}
    <3>1. PICK i \in NamedAt(s) : /\ \A j \in NamedAt(s) : j <= i
                                  /\ reviewer_of(s) = s[i].by
      BY <2>2, LastName
    <3>2. reviewer_of(both) = both[i].by
      BY <1>1, <1>5, <2>2, <3>1, LastIs
    <3> QED BY <1>2, <1>5, <2>2, <3>1, <3>2, LastName
  <2>3. CASE NamedAt(t) = {} /\ NamedAt(s) = {}
    <3>1. NamedAt(both) = {}
      BY <1>5, <2>3
    <3> QED BY <1>1, <2>3, <3>1 DEF reviewer_of
  <2> QED BY <2>1, <2>2, <2>3
<1> QED BY <1>1, <1>3, <1>4, <1>6 DEF both
\* What a plan is made of.
LEMMA PlanParts ==
  ASSUME NEW plan \in Plan
  PROVE  /\ plan.changes \in Seq(FileChange) /\ plan.reviewer \in Named
         /\ \A i, j \in DOMAIN plan.changes : plan.changes[i].path = plan.changes[j].path => i = j
         /\ \A c \in Elements(plan.changes) : c.path \in ChangedPaths /\ coverage(plan, c) \in Coverages
<1>1. plan.changes \in ChangeLists /\ plan.coverage \in Coverages /\ plan.reviewer \in Named
  BY DEF Plan
<1>2. PICK n \in 1..Cardinality(ChangedPaths) : plan.changes \in [1..n -> FileChange]
  BY <1>1 DEF ChangeLists
<1>3. n \in Nat
  BY <1>2, FS_CardinalityType, TrailAssumption
<1>4. plan.changes \in Seq(FileChange)
  BY <1>2, <1>3
<1>5. \A c \in Elements(plan.changes) : c \in FileChange
  BY <1>2 DEF Elements
<1>6. \A c \in FileChange : c.path \in ChangedPaths /\ coverage(plan, c) \in Coverages
  BY <1>1 DEF FileChange, coverage, Coverages
<1>7. \A i, j \in DOMAIN plan.changes : plan.changes[i].path = plan.changes[j].path => i = j
  BY <1>1 DEF ChangeLists
<1> QED BY <1>1, <1>4, <1>5, <1>6, <1>7

\* Some plans write what each of them does.
LEMMA WritesIn == \A plans : \A l : l \in WritesOf(plans) <=> \E p \in plans : l \in Writes(p)
BY DEF WritesOf

\* An ingest's message is its plan's.
LEMMA IngestFaithful ==
  ASSUME NEW plan \in Plan
  PROVE  ingest_commit(plan) \in Commits /\ Faithful(ingest_commit(plan))
<1> DEFINE own == change_lines(plan)
           bound == evidence_lines(plan)
           names == reviewer_lines(plan)
           said == own \o bound
<1>1. /\ own \in Seq(Lines) /\ Len(own) = Len(plan.changes) /\ DOMAIN own = DOMAIN plan.changes
      /\ \A i \in DOMAIN own :
           /\ own[i] = change_line(plan.changes[i].path, coverage(plan, plan.changes[i]))
           /\ own[i].tag = "change" /\ own[i].path = plan.changes[i].path
  <2>1. \A i \in DOMAIN plan.changes :
          /\ plan.changes[i].path \in ChangedPaths
          /\ coverage(plan, plan.changes[i]) \in Coverages
    BY PlanParts DEF Elements
  <2>2. /\ DOMAIN own = DOMAIN plan.changes
        /\ \A i \in DOMAIN own :
             own[i] = change_line(plan.changes[i].path, coverage(plan, plan.changes[i]))
    BY DEF change_lines
  <2> HIDE DEF own
  <2>3. \A i \in DOMAIN own : own[i] \in Lines /\ own[i].tag = "change" /\ own[i].path = plan.changes[i].path
    BY <2>1, <2>2, LineRead
  <2>4. DOMAIN own = 1..Len(plan.changes) /\ Len(plan.changes) \in Nat
    BY <2>2, PlanParts
  <2>5. own \in [1..Len(plan.changes) -> Lines]
    <3>1. own = [i \in 1..Len(plan.changes) |-> own[i]]
      BY <2>2, <2>4 DEF own, change_lines
    <3> QED BY <2>2, <2>3, <2>4, <3>1
  <2>6. own \in Seq(Lines) /\ Len(own) = Len(plan.changes)
    BY <2>4, <2>5
  <2> QED BY <2>2, <2>3, <2>6
<1>2. Elements(own) = Writes(plan)
  BY <1>1 DEF Elements, Writes
<1>3. NamedAt(own) = {} /\ reviewer_of(own) = NoReviewer
  BY <1>1 DEF NamedAt, reviewer_of
<1>4. /\ bound \in Seq(Lines) /\ Elements(bound) = IF Bound(plan) THEN {source_run, evidence_sha256} ELSE {}
      /\ reviewer_of(bound) = NoReviewer
  <2>1. CASE Bound(plan)
    <3>1. bound = <<source_run, evidence_sha256>>
      BY <2>1 DEF evidence_lines
    <3> HIDE DEF bound
    <3>2. /\ bound \in Seq(Lines) /\ DOMAIN bound = {1, 2}
          /\ bound[1] = source_run /\ bound[2] = evidence_sha256
      BY <3>1, TrailerLines
    <3>3. NamedAt(bound) = {}
      BY <3>2, TrailerLines DEF NamedAt
    <3> QED BY <2>1, <3>2, <3>3 DEF Elements, reviewer_of
  <2>2. CASE ~Bound(plan)
    <3>1. bound = <<>>
      BY <2>2 DEF evidence_lines
    <3> QED BY <2>2, <3>1 DEF Elements, reviewer_of, NamedAt
  <2> QED BY <2>1, <2>2
<1>5. /\ names \in Seq(Lines) /\ reviewer_of(names) = plan.reviewer
      /\ \A l \in Elements(names) : l.tag = "reviewed"
  <2>1. CASE plan.reviewer # NoReviewer
    <3>1. names = <<reviewed_by(plan.reviewer)>>
      BY <2>1 DEF reviewer_lines
    <3> HIDE DEF names
    <3>2. /\ names \in Seq(Lines) /\ DOMAIN names = {1} /\ names[1] = reviewed_by(plan.reviewer)
      BY <2>1, <3>1, TrailerLines, PlanParts
    <3>3. NamedAt(names) = {1}
      BY <3>2, TrailerLines DEF NamedAt
    <3>4. reviewer_of(names) = plan.reviewer
      BY <3>2, <3>3, LastIs, TrailerLines
    <3> QED BY <3>2, <3>4, TrailerLines DEF Elements
  <2>2. CASE plan.reviewer = NoReviewer
    <3>1. names = <<>>
      BY <2>2 DEF reviewer_lines
    <3> QED BY <2>2, <3>1 DEF Elements, reviewer_of, NamedAt
  <2> QED BY <2>1, <2>2
<1>6. message(plan) = said \o names
  BY <1>1, <1>4, <1>5, ConcatAssociative DEF message
<1> HIDE DEF own, bound, names
<1>7. /\ said \in Seq(Lines) /\ Elements(said) = Elements(own) \cup Elements(bound)
      /\ reviewer_of(said) = NoReviewer
      /\ Len(said) = Len(own) + Len(bound) /\ \A i \in DOMAIN own : said[i] = own[i]
  <2>0. own \in Seq(Lines) /\ bound \in Seq(Lines)
    BY <1>1, <1>4
  <2>1. /\ Len(said) = Len(own) + Len(bound) /\ Len(own) \in Nat /\ Len(bound) \in Nat
        /\ \A i \in 1..(Len(own) + Len(bound)) :
             said[i] = IF i <= Len(own) THEN own[i] ELSE bound[i - Len(own)]
    BY <2>0, ConcatProperties
  <2>2. DOMAIN own = 1..Len(own)
    BY <1>1
  <2>3. \A i \in DOMAIN own : said[i] = own[i]
    BY <2>1, <2>2
  <2> QED BY <1>1, <1>3, <1>4, <2>1, <2>3, Joined
<1> HIDE DEF said
<1>8. /\ message(plan) \in Seq(Lines)
      /\ Elements(message(plan)) = Writes(plan) \cup Elements(bound) \cup Elements(names)
      /\ reviewer_of(message(plan)) = plan.reviewer
  BY <1>2, <1>3, <1>5, <1>6, <1>7, Joined
<1>9. \A l \in Writes(plan) : l.tag = "change"
  BY PlanParts, LineRead DEF Writes
<1>10. /\ ChangesIn(message(plan)) = Writes(plan)
       /\ source_run \in Elements(message(plan)) <=> Bound(plan)
       /\ evidence_sha256 \in Elements(message(plan)) <=> Bound(plan)
  BY <1>4, <1>5, <1>8, <1>9, TrailerLines DEF ChangesIn
<1>11. \A i, j \in DOMAIN message(plan) :
         /\ message(plan)[i].tag = "change" /\ message(plan)[j].tag = "change"
         /\ message(plan)[i].path = message(plan)[j].path
         => i = j
  <2>1. \A i \in DOMAIN message(plan) :
          \/ i \in DOMAIN own /\ message(plan)[i] = own[i]
          \/ message(plan)[i] \in Elements(bound) \cup Elements(names)
    <3>1. \A i \in DOMAIN message(plan) :
            \/ i <= Len(said) /\ message(plan)[i] = said[i] /\ i \in DOMAIN said
            \/ i - Len(said) \in DOMAIN names /\ message(plan)[i] = names[i - Len(said)]
      BY <1>5, <1>6, <1>7, ConcatProperties
    <3>2. \A i \in DOMAIN said :
            \/ i \in DOMAIN own /\ said[i] = own[i]
            \/ i - Len(own) \in DOMAIN bound /\ said[i] = bound[i - Len(own)]
      BY <1>1, <1>4, <1>7, ConcatProperties DEF said
    <3> QED BY <3>1, <3>2 DEF Elements
  <2>2. \A l \in Elements(bound) \cup Elements(names) : l.tag # "change"
    BY <1>4, <1>5, TrailerLines
  <2>3. \A i \in DOMAIN message(plan) : message(plan)[i].tag = "change" =>
          i \in DOMAIN plan.changes /\ message(plan)[i].path = plan.changes[i].path
    BY <1>1, <2>1, <2>2
  <2> QED BY <2>3, PlanParts
<1> DEFINE entry == ingest_commit(plan)
<1>12. /\ entry.lines = message(plan) /\ entry.plans = {plan} /\ entry.reviewer = plan.reviewer
       /\ entry \in Commits
  BY <1>8, PlanParts DEF ingest_commit, Commits
<1> HIDE DEF entry
<1>13. WritesOf(entry.plans) = Writes(plan)
  <2>1. \A l : l \in WritesOf(entry.plans) <=> l \in Writes(plan)
    BY <1>12, WritesIn
  <2> QED BY <2>1
<1>14. Faithful(entry)
  BY <1>8, <1>10, <1>11, <1>12, <1>13 DEF Faithful
<1> QED BY <1>12, <1>14 DEF entry

LEMMA NothingFaithful == Nothing \in Commits /\ Faithful(Nothing)
<1>1. NoReviewer \in Named
  BY TrailAssumption, FS_Singleton DEF Named, normalize_reviewer
<1>2. /\ Nothing \in Commits /\ Nothing.lines = <<>> /\ Nothing.plans = {}
      /\ Nothing.by = "hand" /\ Nothing.reviewer = NoReviewer
  BY <1>1 DEF Nothing, Commits
<1>3. Elements(<<>>) = {} /\ NamedAt(<<>>) = {}
  BY DEF Elements, NamedAt
<1>4. reviewer_of(<<>>) = NoReviewer /\ ChangesIn(<<>>) = {}
  BY <1>3 DEF reviewer_of, ChangesIn
<1> QED BY <1>2, <1>3, <1>4, WritesIn DEF Faithful

\* A message that quotes two others tells of the plans of both.
LEMMA QuotingFaithful ==
  ASSUME NEW first \in Commits, NEW second \in Commits, NEW subject \in {"ingest", "other"},
         Faithful(first), Faithful(second)
  PROVE  Quoting(first, second, subject) \in Commits /\ Faithful(Quoting(first, second, subject))
<1> DEFINE entry == Quoting(first, second, subject)
<1>1. first.lines \in Seq(Lines) /\ second.lines \in Seq(Lines)
      /\ first.reviewer \in Named /\ second.reviewer \in Named
      /\ first.plans \in SUBSET Plan /\ second.plans \in SUBSET Plan
  BY DEF Commits
<1>2. /\ entry.lines = first.lines \o second.lines /\ entry.plans = first.plans \cup second.plans
      /\ entry.by = "hand"
      /\ entry.reviewer = IF second.reviewer = NoReviewer THEN first.reviewer ELSE second.reviewer
  BY DEF Quoting
<1>3. entry \in Commits
  <2>1. first.lines \o second.lines \in Seq(Lines)
    BY <1>1, Joined
  <2> QED BY <1>1, <2>1 DEF Quoting, Commits
<1> HIDE DEF entry
<1>4. WritesOf(first.plans \cup second.plans) = WritesOf(first.plans) \cup WritesOf(second.plans)
  BY WritesIn
<1>5. ChangesIn(entry.lines) = WritesOf(entry.plans)
  BY <1>1, <1>2, <1>4, Joined DEF Faithful
<1>6. /\ source_run \in Elements(entry.lines) <=> \E p \in entry.plans : Bound(p)
      /\ evidence_sha256 \in Elements(entry.lines) <=> \E p \in entry.plans : Bound(p)
  BY <1>1, <1>2, Joined DEF Faithful
<1>7. reviewer_of(entry.lines) = entry.reviewer
  BY <1>1, <1>2, Joined DEF Faithful
<1> QED BY <1>2, <1>3, <1>5, <1>6, <1>7 DEF Faithful, entry

LEMMA TrailStep == ASSUME TrailInv, [TrailNext]_trail PROVE TrailInv'
<1> DEFINE Good == {c \in Commits : Faithful(c)}
<1>1. /\ trail \in Seq(Good) /\ Nothing \in Good
      /\ \A k \in DOMAIN trail : trail[k] \in Good
      /\ \A c \in Good : c \in Commits /\ Faithful(c) /\ c.subject \in {"ingest", "other"}
  BY NothingFaithful DEF TrailInv, Commits
<1>2. \A first, second \in Good : \A subject \in {first.subject, "other"} :
        Quoting(first, second, subject) \in Good
  <2> SUFFICES ASSUME NEW first \in Good, NEW second \in Good, NEW subject \in {first.subject, "other"}
               PROVE  Quoting(first, second, subject) \in Good
    OBVIOUS
  <2>1. subject \in {"ingest", "other"}
    BY <1>1
  <2> QED BY <1>1, <2>1, QuotingFaithful
<1> HIDE DEF Good
<1>3. CASE CommitIngest
  <2>1. PICK plan \in Plan : trail' = Append(trail, ingest_commit(plan))
    BY <1>3 DEF CommitIngest
  <2>2. ingest_commit(plan) \in Good
    BY IngestFaithful DEF Good
  <2>3. trail' \in Seq(Good)
    BY <1>1, <2>1, <2>2, AppendProperties
  <2> QED BY <2>3 DEF TrailInv, Good
<1>4. CASE CommitByHand
  <2>1. PICK first \in Elements(trail) \cup {Nothing}, second \in Elements(trail) \cup {Nothing} :
          \E subject \in {first.subject, "other"} :
            trail' = Append(trail, Quoting(first, second, subject))
    BY <1>4 DEF CommitByHand
  <2>2. first \in Good /\ second \in Good
    BY <1>1, <2>1 DEF Elements
  <2>3. \E c \in Good : trail' = Append(trail, c)
    BY <1>2, <2>1, <2>2
  <2>4. trail' \in Seq(Good)
    BY <1>1, <2>3, AppendProperties
  <2> QED BY <2>4 DEF TrailInv, Good
<1>5. CASE Squash
  <2> DEFINE last == Len(trail)
             kept == SubSeq(trail, 1, last - 2)
  <2>1. last \in Nat /\ last > 1 /\ last \in DOMAIN trail /\ last - 1 \in DOMAIN trail
    BY <1>1, <1>5 DEF Squash
  <2>2. PICK subject \in {trail[last - 1].subject, "other"} :
          trail' = Append(kept, Quoting(trail[last - 1], trail[last], subject))
    BY <1>5 DEF Squash
  <2>3. kept \in Seq(Good)
    <3>1. \A i \in 1..(last - 2) : trail[i] \in Good
      BY <1>1, <2>1
    <3> QED BY <2>1, <3>1, SubSeqProperties
  <2>4. Quoting(trail[last - 1], trail[last], subject) \in Good
    BY <1>1, <1>2, <2>1
  <2>5. trail' \in Seq(Good)
    BY <2>2, <2>3, <2>4, AppendProperties
  <2> QED BY <2>5 DEF TrailInv, Good
<1>6. CASE UNCHANGED trail
  BY <1>1, <1>6 DEF TrailInv, Good
<1> QED BY <1>3, <1>4, <1>5, <1>6 DEF TrailNext
--------------------------------------------------------------------------------
\* What is read of a commit is what its plans tell of.
LEMMA TrailRead ==
  ASSUME TrailInv
  PROVE  /\ DOMAIN build_report = DOMAIN trail /\ IsFiniteSet(DOMAIN trail)
         /\ \A k \in DOMAIN trail :
              /\ trail[k] \in Commits /\ Faithful(trail[k])
              /\ build_report[k] = parse_commit_message(trail[k])
<1>1. DOMAIN trail = 1..Len(trail) /\ Len(trail) \in Nat
      /\ \A k \in DOMAIN trail : trail[k] \in {c \in Commits : Faithful(c)}
  BY DEF TrailInv
<1>2. IsFiniteSet(DOMAIN trail)
  BY <1>1, FS_Interval
<1> QED BY <1>1, <1>2 DEF build_report

LEMMA MessageRead ==
  ASSUME NEW entry \in Commits, Faithful(entry)
  PROVE  LET record == parse_commit_message(entry) IN
         /\ record.is_ingest <=> entry.subject = "ingest"
         /\ Elements(record.changes) = History(entry)
         /\ record.reviewer = entry.reviewer
         /\ record.source_run <=> \E p \in entry.plans : Bound(p)
         /\ record.evidence <=> \E p \in entry.plans : Bound(p)
         /\ IsFiniteSet(DOMAIN record.changes)
         /\ entry.by = "ingest" => \A i, j \in DOMAIN record.changes :
                                      record.changes[i].path = record.changes[j].path => i = j
<1> DEFINE record == parse_commit_message(entry)
           lines == entry.lines
<1>1. /\ record.is_ingest <=> entry.subject = "ingest"
      /\ record.reviewer = reviewer_of(lines)
      /\ record.source_run <=> source_run \in Elements(lines)
      /\ record.evidence <=> evidence_sha256 \in Elements(lines)
      /\ DOMAIN record.changes = {i \in DOMAIN lines : Matches(lines[i])}
      /\ \A i \in DOMAIN record.changes : record.changes[i] = parse_change_line(lines[i])
  BY DEF parse_commit_message
<1> HIDE DEF record
<1>2. lines \in Seq(Lines) /\ entry.plans \subseteq Plan
  BY DEF Commits
<1>3. \A x : x \in Elements(record.changes) <=>
               \E l \in ChangesIn(lines) : Matches(l) /\ x = parse_change_line(l)
  BY <1>1 DEF Elements, ChangesIn, Matches
<1>4. \A l : l \in ChangesIn(lines) <=> \E p \in entry.plans : l \in Writes(p)
  BY WritesIn DEF Faithful
<1>5. \A p \in entry.plans : \A l : l \in Writes(p) <=>
        \E c \in Elements(p.changes) : l = change_line(c.path, coverage(p, c))
  BY DEF Writes
<1>6. \A p \in entry.plans : \A c \in Elements(p.changes) :
        LET l == change_line(c.path, coverage(p, c)) IN
        (Matches(l) <=> c.path \notin Spaced) /\ parse_change_line(l) = Told(p, c)
  BY <1>2, PlanParts, LineRead DEF Told
<1>7. \A x : x \in History(entry) <=>
               \E p \in entry.plans : \E c \in Elements(p.changes) : c.path \notin Spaced /\ x = Told(p, c)
  <2> DEFINE Tells(p) == {Told(p, c) : c \in Readable(p)}
  <2>1. \A p : \A x : x \in Tells(p) <=>
                 \E c \in Elements(p.changes) : c.path \notin Spaced /\ x = Told(p, c)
    BY DEF Readable
  <2>2. \A x : x \in History(entry) <=> \E p \in entry.plans : x \in Tells(p)
    BY DEF History
  <2> HIDE DEF Tells
  <2> QED BY <2>1, <2>2
<1>8. Elements(record.changes) = History(entry)
  <2>1. ASSUME NEW x \in Elements(record.changes) PROVE x \in History(entry)
    <3>1. PICK l \in ChangesIn(lines) : Matches(l) /\ x = parse_change_line(l)
      BY <1>3
    <3>2. PICK p \in entry.plans : l \in Writes(p)
      BY <1>4
    <3>3. PICK c \in Elements(p.changes) : l = change_line(c.path, coverage(p, c))
      BY <1>5, <3>2
    <3> QED BY <1>6, <1>7, <3>1, <3>3
  <2>2. ASSUME NEW x \in History(entry) PROVE x \in Elements(record.changes)
    <3>1. PICK p \in entry.plans : \E c \in Elements(p.changes) : c.path \notin Spaced /\ x = Told(p, c)
      BY <1>7
    <3>2. PICK c \in Elements(p.changes) : c.path \notin Spaced /\ x = Told(p, c)
      BY <3>1
    <3>3. change_line(c.path, coverage(p, c)) \in ChangesIn(lines)
      BY <1>4, <1>5
    <3> QED BY <1>3, <1>6, <3>2, <3>3
  <2> QED BY <2>1, <2>2
<1>9. IsFiniteSet(DOMAIN record.changes)
  <2>1. Len(lines) \in Nat /\ DOMAIN lines = 1..Len(lines)
    BY <1>2
  <2>2. IsFiniteSet(DOMAIN lines)
    BY <2>1, FS_Interval
  <2> QED BY <1>1, <2>2, FS_Subset
<1>10. ASSUME entry.by = "ingest"
       PROVE  \A i, j \in DOMAIN record.changes :
                record.changes[i].path = record.changes[j].path => i = j
  <2>1. \A l : parse_change_line(l).path = l.path
    BY DEF parse_change_line
  <2>2. \A i \in DOMAIN record.changes : i \in DOMAIN lines /\ Matches(lines[i])
    BY <1>1
  <2>3. \A i \in DOMAIN record.changes : /\ i \in DOMAIN lines /\ lines[i].tag = "change"
                                         /\ record.changes[i].path = lines[i].path
    BY <1>1, <2>1, <2>2 DEF Matches
  <2> QED BY <1>10, <2>3 DEF Faithful
<1> QED BY <1>1, <1>8, <1>9, <1>10 DEF Faithful, record
\* What finitely many values are mapped to is finite.
LEMMA FiniteImage ==
  ASSUME NEW f, IsFiniteSet(DOMAIN f)
  PROVE  IsFiniteSet({f[x] : x \in DOMAIN f})
<1> DEFINE g == [x \in DOMAIN f |-> f[x]]
<1>1. g \in Surjection(DOMAIN f, {f[x] : x \in DOMAIN f})
  BY DEF Surjection
<1> QED BY <1>1, FS_Surjection

\* A one-to-one image is as large.
LEMMA SameSize ==
  ASSUME NEW S, NEW T, IsFiniteSet(S), NEW f \in [S -> T],
         \A x, y \in S : f[x] = f[y] => x = y, \A t \in T : \E x \in S : f[x] = t
  PROVE  IsFiniteSet(T) /\ Cardinality(T) = Cardinality(S)
<1>1. f \in Bijection(S, T)
  BY DEF Bijection, Injection, Surjection, IsInjective
<1> QED BY <1>1, FS_Bijection DEF ExistsBijection

\* The keys of gaps are those of their kind and place alone.
LEMMA KeysApart ==
  /\ \A k : NoEvidence(k) = <<"legacy_evidence", k>>
  /\ \A k, p : NotCovered(k, p) = <<"incomplete_coverage", k, p>>
<1>1. ASSUME NEW k PROVE <<"legacy_evidence">> \o <<k>> = <<"legacy_evidence", k>>
  <2> DEFINE s == <<"legacy_evidence">> \o <<k>>
  <2>1. <<"legacy_evidence">> \in Seq({"legacy_evidence", k}) /\ <<k>> \in Seq({"legacy_evidence", k})
    OBVIOUS
  <2>2. /\ s \in Seq({"legacy_evidence", k}) /\ Len(s) = 2
        /\ s[1] = "legacy_evidence" /\ s[2] = k
    BY <2>1, ConcatProperties
  <2>3. <<"legacy_evidence", k>> \in Seq({"legacy_evidence", k})
    OBVIOUS
  <2> HIDE DEF s
  <2>4. \A i \in 1..Len(s) : s[i] = <<"legacy_evidence", k>>[i]
    BY <2>2
  <2>5. s = <<"legacy_evidence", k>>
    BY <2>2, <2>3, <2>4, SeqEqual
  <2> QED BY <2>5 DEF s
<1>2. ASSUME NEW k, NEW p
      PROVE  <<"incomplete_coverage">> \o <<k, p>> = <<"incomplete_coverage", k, p>>
  <2> DEFINE s == <<"incomplete_coverage">> \o <<k, p>>
             T == {"incomplete_coverage", k, p}
  <2>1. <<"incomplete_coverage">> \in Seq(T) /\ <<k, p>> \in Seq(T)
    OBVIOUS
  <2>2. /\ s \in Seq(T) /\ Len(s) = 3
        /\ s[1] = "incomplete_coverage" /\ s[2] = k /\ s[3] = p
    BY <2>1, ConcatProperties
  <2>3. <<"incomplete_coverage", k, p>> \in Seq(T)
    OBVIOUS
  <2> HIDE DEF s
  <2>4. \A i \in 1..Len(s) : s[i] = <<"incomplete_coverage", k, p>>[i]
    BY <2>2
  <2>5. s = <<"incomplete_coverage", k, p>>
    BY <2>2, <2>3, <2>4, SeqEqual
  <2> QED BY <2>5 DEF s
<1> QED BY <1>1, <1>2 DEF NoEvidence, NotCovered, dedup_key

\* Of one commit finitely many changes are read.
LEMMA UncoveredIs ==
  ASSUME TrailInv
  PROVE  LET report == build_report IN
         /\ IsFiniteSet(Uncovered(report))
         /\ \A u : u \in Uncovered(report) <=>
              \E k \in DOMAIN report : \E i \in DOMAIN report[k].changes :
                Incomplete(report[k].changes[i]) /\ u = <<k, i>>
<1> DEFINE report == build_report
           short(k) == {<<k, i>> : i \in {n \in DOMAIN report[k].changes : Incomplete(report[k].changes[n])}}
<1>1. IsFiniteSet(DOMAIN report) /\ \A k \in DOMAIN report : IsFiniteSet(DOMAIN report[k].changes)
  BY TrailRead, MessageRead
<1> HIDE DEF report
<1>2. ASSUME NEW k \in DOMAIN report PROVE IsFiniteSet(short(k))
  <2>1. IsFiniteSet({n \in DOMAIN report[k].changes : Incomplete(report[k].changes[n])})
    BY <1>1, FS_Subset
  <2> DEFINE f == [i \in {n \in DOMAIN report[k].changes : Incomplete(report[k].changes[n])} |-> <<k, i>>]
  <2>2. IsFiniteSet({f[i] : i \in DOMAIN f})
    BY <2>1, FiniteImage
  <2> QED BY <2>2
<1>3. IsFiniteSet({short(k) : k \in DOMAIN report})
  <2> DEFINE f == [k \in DOMAIN report |-> short(k)]
  <2>1. IsFiniteSet({f[k] : k \in DOMAIN f})
    BY <1>1, FiniteImage
  <2> QED BY <2>1
<1>4. IsFiniteSet(UNION {short(k) : k \in DOMAIN report})
  BY <1>2, <1>3, FS_UNION
<1>5. \A u : u \in Uncovered(report) <=>
        \E k \in DOMAIN report : \E i \in DOMAIN report[k].changes :
          Incomplete(report[k].changes[i]) /\ u = <<k, i>>
  BY DEF Uncovered
<1> QED BY <1>4, <1>5 DEF Uncovered, report

\* The gaps are those of the ingests without evidence and of the changes whose evidence
\* falls short.
LEMMA GapsAre ==
  ASSUME TrailInv
  PROVE  LET report == build_report IN
         \A x : x \in gaps_from_compliance_report(report) <=>
           \/ \E k \in WithStatus(report, "legacy") : x = NoEvidence(k)
           \/ \E k \in DOMAIN report : \E i \in DOMAIN report[k].changes :
                Incomplete(report[k].changes[i]) /\ x = NotCovered(k, report[k].changes[i].path)
<1> DEFINE report == build_report
<1>1. \A u : u \in Uncovered(report) <=>
        \E k \in DOMAIN report : \E i \in DOMAIN report[k].changes :
          Incomplete(report[k].changes[i]) /\ u = <<k, i>>
  BY UncoveredIs
<1> HIDE DEF report
<1>2. \A x : x \in gaps_from_compliance_report(report) <=>
        \/ \E k \in WithStatus(report, "legacy") : x = NoEvidence(k)
        \/ \E u \in Uncovered(report) : x = NotCovered(u[1], report[u[1]].changes[u[2]].path)
  BY DEF gaps_from_compliance_report
<1>3. \A x : (\E u \in Uncovered(report) : x = NotCovered(u[1], report[u[1]].changes[u[2]].path))
        <=> \E k \in DOMAIN report : \E i \in DOMAIN report[k].changes :
              Incomplete(report[k].changes[i]) /\ x = NotCovered(k, report[k].changes[i].path)
  <2> SUFFICES ASSUME NEW x
               PROVE  (\E u \in Uncovered(report) : x = NotCovered(u[1], report[u[1]].changes[u[2]].path))
                 <=> \E k \in DOMAIN report : \E i \in DOMAIN report[k].changes :
                       Incomplete(report[k].changes[i]) /\ x = NotCovered(k, report[k].changes[i].path)
    OBVIOUS
  <2>1. \A k, i : <<k, i>>[1] = k /\ <<k, i>>[2] = i
    OBVIOUS
  <2>2. ASSUME NEW u \in Uncovered(report), x = NotCovered(u[1], report[u[1]].changes[u[2]].path)
        PROVE  \E k \in DOMAIN report : \E i \in DOMAIN report[k].changes :
                 Incomplete(report[k].changes[i]) /\ x = NotCovered(k, report[k].changes[i].path)
    <3>1. PICK k \in DOMAIN report : \E i \in DOMAIN report[k].changes :
                 Incomplete(report[k].changes[i]) /\ u = <<k, i>>
      BY <1>1
    <3>2. PICK i \in DOMAIN report[k].changes : Incomplete(report[k].changes[i]) /\ u = <<k, i>>
      BY <3>1
    <3>3. u[1] = k /\ u[2] = i
      BY <2>1, <3>2
    <3> QED BY <2>2, <3>2, <3>3
  <2>3. ASSUME NEW k \in DOMAIN report, NEW i \in DOMAIN report[k].changes,
               Incomplete(report[k].changes[i]), x = NotCovered(k, report[k].changes[i].path)
        PROVE  \E u \in Uncovered(report) : x = NotCovered(u[1], report[u[1]].changes[u[2]].path)
    <3>1. <<k, i>> \in Uncovered(report)
      BY <1>1, <2>3
    <3> QED BY <2>1, <2>3, <3>1
  <2> QED BY <2>2, <2>3
<1> QED BY <1>2, <1>3 DEF report

\* There are at most as many gaps as ingests without evidence and changes whose
\* evidence falls short, and as many when no message names a path twice.
LEMMA GapsCounted ==
  ASSUME TrailInv
  PROVE  LET report == build_report
             found == Cardinality(gaps_from_compliance_report(report))
             counted == Summary(report).legacy + Summary(report).incomplete
         IN /\ found <= counted
            /\ (\A k \in DOMAIN report : \A i, j \in DOMAIN report[k].changes :
                  report[k].changes[i].path = report[k].changes[j].path => i = j)
               => found = counted
<1> DEFINE report == build_report
           bare == WithStatus(report, "legacy")
           short == Uncovered(report)
           key(u) == NotCovered(u[1], report[u[1]].changes[u[2]].path)
           evidence == {NoEvidence(k) : k \in bare}
           short_of == {key(u) : u \in short}
<1>1. /\ Summary(report).legacy = Cardinality(bare) /\ Summary(report).incomplete = Cardinality(short)
      /\ gaps_from_compliance_report(report) = evidence \cup short_of
  BY DEF Summary, gaps_from_compliance_report
<1>2. IsFiniteSet(bare)
  BY TrailRead, FS_Subset DEF WithStatus
<1>3. /\ IsFiniteSet(short)
      /\ \A u : u \in short <=> \E k \in DOMAIN report : \E i \in DOMAIN report[k].changes :
                                  Incomplete(report[k].changes[i]) /\ u = <<k, i>>
  BY UncoveredIs
<1> HIDE DEF report, bare, short
<1>4. IsFiniteSet(evidence) /\ Cardinality(evidence) = Cardinality(bare)
  <2> DEFINE f == [k \in bare |-> NoEvidence(k)]
  <2>1. f \in [bare -> evidence] /\ (\A t \in evidence : \E x \in bare : f[x] = t)
    OBVIOUS
  <2>2. \A x, y \in bare : f[x] = f[y] => x = y
    BY KeysApart
  <2> HIDE DEF f, evidence
  <2> QED BY <1>2, <2>1, <2>2, SameSize
<1> DEFINE g == [u \in short |-> key(u)]
<1>5. g \in Surjection(short, short_of)
  BY DEF Surjection
<1>6. \A u, v \in short : g[u] = g[v] =>
        /\ u[1] = v[1] /\ u[1] \in DOMAIN report /\ u = <<u[1], u[2]>> /\ v = <<v[1], v[2]>>
        /\ u[2] \in DOMAIN report[u[1]].changes /\ v[2] \in DOMAIN report[u[1]].changes
        /\ report[u[1]].changes[u[2]].path = report[u[1]].changes[v[2]].path
  <2>1. \A u \in short : /\ u[1] \in DOMAIN report /\ u = <<u[1], u[2]>>
                         /\ u[2] \in DOMAIN report[u[1]].changes
    BY <1>3
  <2>2. \A u, v \in short : g[u] = g[v] =>
          u[1] = v[1] /\ report[u[1]].changes[u[2]].path = report[v[1]].changes[v[2]].path
    BY KeysApart
  <2> QED BY <2>1, <2>2
<1> HIDE DEF g
<1>7. /\ IsFiniteSet(short_of) /\ Cardinality(short_of) <= Cardinality(short)
      /\ g \in Injection(short, short_of) => Cardinality(short_of) = Cardinality(short)
  BY <1>3, <1>5, FS_Surjection
<1>8. ASSUME \A k \in DOMAIN report : \A i, j \in DOMAIN report[k].changes :
               report[k].changes[i].path = report[k].changes[j].path => i = j
      PROVE  g \in Injection(short, short_of)
  <2>1. \A u, v \in short : g[u] = g[v] => u = v
    BY <1>6, <1>8
  <2>2. g \in [short -> short_of]
    BY <1>5 DEF Surjection
  <2> QED BY <2>1, <2>2 DEF Injection, IsInjective
<1>9. evidence \cap short_of = {}
  BY KeysApart
<1> HIDE DEF evidence, short_of
<1>10. Cardinality(evidence \cup short_of) = Cardinality(evidence) + Cardinality(short_of)
  <2>1. Cardinality(evidence \cup short_of) =
          Cardinality(evidence) + Cardinality(short_of) - Cardinality(evidence \cap short_of)
    BY <1>4, <1>7, FS_Union
  <2>2. Cardinality(evidence) \in Nat /\ Cardinality(short_of) \in Nat
    BY <1>4, <1>7, FS_CardinalityType
  <2>3. Cardinality(evidence \cap short_of) = 0
    BY <1>9, FS_EmptySet
  <2> QED BY <2>1, <2>2, <2>3
<1>11. Cardinality(bare) \in Nat /\ Cardinality(short) \in Nat /\ Cardinality(short_of) \in Nat
  BY <1>2, <1>3, <1>7, FS_CardinalityType
<1> QED BY <1>1, <1>4, <1>7, <1>8, <1>10, <1>11 DEF report

\* The totals split the ingests.
LEMMA IngestsSplit ==
  ASSUME TrailInv
  PROVE  LET totals == Summary(build_report) IN totals.verified + totals.legacy = totals.ingests
<1> DEFINE report == build_report
           good == WithStatus(report, "verified")
           bare == WithStatus(report, "legacy")
           all == {k \in DOMAIN report : report[k].is_ingest}
<1>1. good \cup bare = all /\ good \cap bare = {}
  BY DEF WithStatus, evidence_status
<1>2. /\ Summary(report).verified = Cardinality(good) /\ Summary(report).legacy = Cardinality(bare)
      /\ Summary(report).ingests = Cardinality(all)
  BY DEF Summary
<1>3. IsFiniteSet(good) /\ IsFiniteSet(bare)
  BY TrailRead, FS_Subset DEF WithStatus
<1> HIDE DEF report, good, bare, all
<1>4. Cardinality(all) = Cardinality(good) + Cardinality(bare) - 0
  BY <1>1, <1>3, FS_Union, FS_EmptySet
<1>5. Cardinality(good) \in Nat /\ Cardinality(bare) \in Nat
  BY <1>3, FS_CardinalityType
<1> QED BY <1>2, <1>4, <1>5 DEF report
--------------------------------------------------------------------------------
\* The report says of one commit what happened.
LEMMA CommitTold ==
  ASSUME TrailInv, NEW k \in DOMAIN trail
  PROVE  LET report == build_report
             gaps_found == gaps_from_compliance_report(report)
             json == to_json(report)
             page == to_markdown(report)
             entry == trail[k]
             bound == \E p \in entry.plans : Bound(p)
         IN /\ Elements(json[k].changes) = History(entry)
            /\ json[k].reviewer = entry.reviewer
            /\ IF entry.subject = "ingest"
               THEN /\ json[k].evidence = IF bound THEN "verified" ELSE "legacy"
                    /\ page[k].evidence = {json[k].evidence}
               ELSE page[k].evidence = {}
            /\ NoEvidence(k) \in gaps_found <=> entry.subject = "ingest" /\ ~bound
            /\ \A path \in ChangedPaths :
                 NotCovered(k, path) \in gaps_found
                   <=> \E c \in History(entry) : c.path = path /\ Incomplete(c)
<1> DEFINE report == build_report
           gaps_found == gaps_from_compliance_report(report)
           json == to_json(report)
           page == to_markdown(report)
           entry == trail[k]
           bound == \E p \in entry.plans : Bound(p)
<1>1. DOMAIN report = DOMAIN trail /\ report[k] = parse_commit_message(entry)
      /\ entry \in Commits /\ Faithful(entry)
  BY TrailRead
<1>2. /\ json[k].changes = report[k].changes /\ json[k].reviewer = report[k].reviewer
      /\ json[k].evidence = evidence_status(report[k])
      /\ page[k].evidence = IF report[k].is_ingest THEN {evidence_status(report[k])} ELSE {}
  BY <1>1 DEF to_json, to_markdown
<1>3. \A x : x \in gaps_found <=>
        \/ \E n \in WithStatus(report, "legacy") : x = NoEvidence(n)
        \/ \E n \in DOMAIN report : \E i \in DOMAIN report[n].changes :
             Incomplete(report[n].changes[i]) /\ x = NotCovered(n, report[n].changes[i].path)
  BY GapsAre
<1>4. /\ report[k].is_ingest <=> entry.subject = "ingest"
      /\ Elements(report[k].changes) = History(entry)
      /\ report[k].reviewer = entry.reviewer
      /\ report[k].source_run <=> bound
      /\ report[k].evidence <=> bound
  BY <1>1, MessageRead
<1>5. k \in WithStatus(report, "legacy") <=> evidence_status(report[k]) = "legacy"
  BY <1>1 DEF WithStatus
<1> HIDE DEF report, gaps_found, json, page, entry, bound
<1>6. evidence_status(report[k]) = IF entry.subject = "ingest"
                                   THEN IF bound THEN "verified" ELSE "legacy"
                                   ELSE "n/a"
  BY <1>4 DEF evidence_status
<1>7. NoEvidence(k) \in gaps_found <=> evidence_status(report[k]) = "legacy"
  BY <1>3, <1>5, KeysApart
<1>8. ASSUME NEW path
      PROVE  NotCovered(k, path) \in gaps_found <=> \E c \in History(entry) : c.path = path /\ Incomplete(c)
  <2>1. NotCovered(k, path) \in gaps_found <=>
          \E i \in DOMAIN report[k].changes :
            Incomplete(report[k].changes[i]) /\ report[k].changes[i].path = path
    BY <1>1, <1>3, KeysApart DEF entry
  <2>2. \A c : c \in History(entry) <=> \E i \in DOMAIN report[k].changes : c = report[k].changes[i]
    BY <1>4 DEF Elements
  <2> QED BY <2>1, <2>2
<1>9. /\ json[k].evidence = evidence_status(report[k])
      /\ Elements(json[k].changes) = History(entry)
      /\ json[k].reviewer = entry.reviewer
      /\ page[k].evidence = IF entry.subject = "ingest" THEN {evidence_status(report[k])} ELSE {}
  BY <1>2, <1>4
<1> QED BY <1>6, <1>7, <1>8, <1>9 DEF report, gaps_found, json, page, entry, bound

\* The record can be trusted: for any plans, reviewers and names, and however commits
\* quote one another or are squashed, a report says of every commit what the plans in
\* its message changed, gaps are raised for exactly the ingests and the changes that
\* lack evidence or coverage, and the totals are never below them.
THEOREM AuditAlwaysTells == TrailSpec => []AuditTellsHistory
<1>1. TrailInit => TrailInv
  BY EmptySeq DEF TrailInit, TrailInv
<1>2. TrailInv => AuditTellsHistory
  <2> SUFFICES ASSUME TrailInv PROVE AuditTellsHistory
    OBVIOUS
  <2>1. ASSUME NEW k \in DOMAIN trail, trail[k].by = "ingest"
        PROVE  \A i, j \in DOMAIN build_report[k].changes :
                 build_report[k].changes[i].path = build_report[k].changes[j].path => i = j
    BY <2>1, TrailRead, MessageRead
  <2>2. DOMAIN build_report = DOMAIN trail
    BY TrailRead
  <2> QED BY <2>1, <2>2, CommitTold, GapsCounted, IngestsSplit DEF AuditTellsHistory
<1> QED BY <1>1, <1>2, TrailStep, PTL DEF TrailSpec
--------------------------------------------------------------------------------
(* The fitted thresholds.                                                         *)

\* Numbers that are bounded below have a least.
LEMMA LeastOf ==
  ASSUME NEW S \in SUBSET Int, S # {}, NEW b \in Int, \A x \in S : b <= x
  PROVE  Sets!Min(S) \in S /\ \A x \in S : Sets!Min(S) <= x
<1> DEFINE T == {x - b : x \in S}
<1>1. T \in SUBSET Nat /\ T # {}
  <2>1. \A x \in S : x - b \in Nat
    OBVIOUS
  <2>2. T # {}
    OBVIOUS
  <2> QED BY <2>1, <2>2
<1>2. PICK m \in T : \A n \in T : m <= n
  BY <1>1, SmallestElement
<1>3. m + b \in S /\ \A x \in S : m + b <= x
  BY <1>2
<1> QED BY <1>3 DEF Sets!Min

\* The lesser of two, and a threshold cut to its bounds.
LEMMA LesserOf ==
  ASSUME NEW a \in Int, NEW b \in Int
  PROVE  Sets!Min({a, b}) = IF a <= b THEN a ELSE b
BY DEF Sets!Min

LEMMA Clamps ==
  ASSUME NEW t \in Int
  PROVE  /\ Clamped(t) \in 0..Half(One)
         /\ Clamped(t) <= t \/ Clamped(t) = 0
         /\ t <= Clamped(t) \/ Clamped(t) = Half(One)
<1>1. Half(One) \in Nat
  BY CalibrationAssumption DEF Half
<1>2. Sets!Min({Half(One), t}) = IF t <= Half(One) THEN t ELSE Half(One)
  BY <1>1 DEF Sets!Min
<1>3. \A u \in Int : Sets!Max({0, u}) = IF u <= 0 THEN 0 ELSE u
  BY DEF Sets!Max
<1> QED BY <1>1, <1>2, <1>3 DEF Clamped

\* What was fitted was fitted to these scores, which never change, and what the
\* resolver made of a pair is what its score allows.
FitInv ==
    /\ score \in [Pairs -> Scores]
    /\ fitted # NotFitted => Labelled /\ \E margin \in Margins : fitted = calibrate_thresholds(margin)
    /\ cutoff # NotFitted =>
         /\ Labelled /\ \A p \in Pairs : score[p] >= 0
         /\ cutoff = [balanced |-> _fit_single_threshold, plain |-> evaluate_threshold_only]
    /\ called # <<>> => fitted # NotFitted /\ \A p \in Pairs : called[p] \in DecisionsOn(score[p])

\* The scores of labelled pairs have a lowest and a highest.
LEMMA ScoresBounded ==
  ASSUME score \in [Pairs -> Scores], NEW pairs \in SUBSET Pairs, pairs # {}
  PROVE  LET low == Sets!Min(ScoresOf(pairs))
             high == Sets!Max(ScoresOf(pairs)) IN
         /\ low \in ScoresOf(pairs) /\ high \in ScoresOf(pairs)
         /\ One \in Nat /\ ScoresOf(pairs) \in SUBSET Int /\ ScoresOf(pairs) # {}
         /\ \A p \in pairs : score[p] \in ScoresOf(pairs)
         /\ \A s \in ScoresOf(pairs) : low <= s /\ s <= high /\ -One <= s /\ s <= One
<1>1. One \in Nat /\ One \in Int /\ -One \in Int
  BY CalibrationAssumption
<1>2. \A p \in pairs : score[p] \in (-One)..One
  BY CalibrationAssumption
<1>3. /\ ScoresOf(pairs) \subseteq (-One)..One /\ ScoresOf(pairs) # {}
      /\ \A p \in pairs : score[p] \in ScoresOf(pairs)
  BY <1>2 DEF ScoresOf
<1>4. ScoresOf(pairs) \in SUBSET Int /\ \A s \in ScoresOf(pairs) : -One <= s /\ s <= One
  BY <1>1, <1>3
<1>5. Sets!Min(ScoresOf(pairs)) \in ScoresOf(pairs)
      /\ \A s \in ScoresOf(pairs) : Sets!Min(ScoresOf(pairs)) <= s
  BY <1>1, <1>3, <1>4, LeastOf
<1>6. Sets!Max(ScoresOf(pairs)) \in ScoresOf(pairs)
      /\ \A s \in ScoresOf(pairs) : s <= Sets!Max(ScoresOf(pairs))
  BY <1>1, <1>3, <1>4, GreatestOf
<1> QED BY <1>1, <1>3, <1>4, <1>5, <1>6

\* What the resolver does of itself it does by the thresholds.
LEMMA DecidedByScore ==
  ASSUME FitInv, called # <<>>, NEW p \in Pairs
  PROVE  /\ ~called[p].adjudicated /\ called[p].action = "update" => Half(score[p]) >= fitted.high
         /\ ~called[p].adjudicated /\ called[p].action = "create" => Half(score[p]) < fitted.low
         /\ Half(score[p]) >= fitted.high \/ Half(score[p]) < fitted.low => ~called[p].adjudicated
<1> DEFINE s == score[p]
<1>1. called[p] \in DecisionsOn(s)
  BY DEF FitInv
<1>2. CASE Half(s) >= fitted.high
  <2>1. RouteOf(s) = "update"
    BY <1>2 DEF RouteOf
  <2> QED BY <1>1, <1>2, <2>1 DEF DecisionsOn
<1>3. CASE ~(Half(s) >= fitted.high) /\ Half(s) < fitted.low
  <2>1. RouteOf(s) = "create"
    BY <1>3 DEF RouteOf
  <2> QED BY <1>1, <1>3, <2>1 DEF DecisionsOn
<1>4. CASE ~(Half(s) >= fitted.high) /\ ~(Half(s) < fitted.low)
  <2>1. RouteOf(s) = "adjudicate"
    BY <1>4 DEF RouteOf
  <2> QED BY <1>1, <1>4, <2>1 DEF DecisionsOn
<1> QED BY <1>2, <1>3, <1>4

\* The thresholds do what they were fitted for.
LEMMA ThresholdsSeparate ==
  ASSUME FitInv, called # <<>>
  PROVE  /\ fitted.margin > 0 \/ Gap > 0 =>
              \A p \in Calls(DifferentPairs, "update") : called[p].adjudicated \/ score[p] = One
         /\ \A p \in Calls(SamePairs, "create") : called[p].adjudicated \/ score[p] < 0
         /\ Gap > 2 * fitted.margin => \A p \in Pairs : ~called[p].adjudicated
<1> DEFINE top == Sets!Max(ScoresOf(DifferentPairs))
           bottom == Sets!Min(ScoresOf(SamePairs))
<1>1. PICK margin \in Margins : fitted = calibrate_thresholds(margin)
  BY DEF FitInv
<1>2. margin \in Nat /\ One \in Nat
  BY CalibrationAssumption
<1>3. Labelled /\ score \in [Pairs -> Scores]
  BY DEF FitInv
<1>4. /\ top \in Int /\ \A p \in DifferentPairs : score[p] \in Int /\ score[p] <= top /\ score[p] <= One
      /\ bottom \in Int /\ \A p \in SamePairs : score[p] \in Int /\ bottom <= score[p]
  <2>1. DifferentPairs \in SUBSET Pairs /\ SamePairs \in SUBSET Pairs
    BY DEF Pairs
  <2>2. top \in Int /\ \A p \in DifferentPairs : score[p] \in Int /\ score[p] <= top /\ score[p] <= One
    BY <1>3, <2>1, ScoresBounded DEF Labelled
  <2>3. bottom \in Int /\ \A p \in SamePairs : score[p] \in Int /\ bottom <= score[p]
    BY <1>3, <2>1, ScoresBounded DEF Labelled
  <2> QED BY <2>2, <2>3
<1>5. fitted.margin = margin
  BY <1>1 DEF calibrate_thresholds
<1>6. CASE top + margin >= bottom - margin
  <2>1. /\ fitted.high = Clamped(Half(top + margin))
        /\ fitted.low = Sets!Min({Clamped(Half(bottom - margin)), Clamped(Half(top + margin))})
    BY <1>1, <1>6 DEF calibrate_thresholds
  <2> HIDE DEF top, bottom
  <2>2. Half(top + margin) \in Int /\ Half(bottom - margin) \in Int
    BY <1>2, <1>4 DEF Half
  <2>3. /\ Clamped(Half(top + margin)) \in Int /\ Clamped(Half(bottom - margin)) \in Int
        /\ Half(top + margin) <= Clamped(Half(top + margin)) \/ Clamped(Half(top + margin)) = Half(One)
        /\ Clamped(Half(bottom - margin)) <= Half(bottom - margin) \/ Clamped(Half(bottom - margin)) = 0
    <3>1. Half(One) \in Nat
      BY <1>2 DEF Half
    <3> QED BY <2>2, <3>1, Clamps
  <2>4. fitted.low <= Clamped(Half(bottom - margin)) /\ fitted.low \in Int
    BY <2>1, <2>3, LesserOf
  <2>5. ASSUME NEW p \in Calls(DifferentPairs, "update"), margin > 0 \/ bottom - top > 0
        PROVE  called[p].adjudicated \/ score[p] = One
    <3> SUFFICES ASSUME ~called[p].adjudicated PROVE score[p] = One
      OBVIOUS
    <3>1. p \in DifferentPairs /\ Half(score[p]) >= fitted.high
      BY <2>5, DecidedByScore DEF Calls, Pairs
    <3>2. margin > 0
      BY <1>2, <1>4, <1>6, <2>5
    <3> QED BY <1>2, <1>4, <2>1, <2>3, <3>1, <3>2 DEF Half
  <2>6. ASSUME NEW p \in Calls(SamePairs, "create")
        PROVE  called[p].adjudicated \/ score[p] < 0
    <3> SUFFICES ASSUME ~called[p].adjudicated PROVE score[p] < 0
      OBVIOUS
    <3>1. p \in SamePairs /\ Half(score[p]) < fitted.low
      BY DecidedByScore DEF Calls, Pairs
    <3> QED BY <1>2, <1>4, <2>3, <2>4, <3>1 DEF Half
  <2>7. ~(bottom - top > 2 * margin)
    BY <1>2, <1>4, <1>6
  <2> QED BY <1>5, <2>5, <2>6, <2>7 DEF Gap, top, bottom
<1>7. CASE ~(top + margin >= bottom - margin)
  <2>1. fitted.high = Clamped(top + bottom) /\ fitted.low = Clamped(top + bottom)
    BY <1>1, <1>7 DEF calibrate_thresholds
  <2> HIDE DEF top, bottom
  <2>2. top + bottom \in Int /\ top < bottom
    BY <1>2, <1>4, <1>7
  <2>3. /\ Clamped(top + bottom) \in Int
        /\ top + bottom <= Clamped(top + bottom) \/ Clamped(top + bottom) = Half(One)
        /\ Clamped(top + bottom) <= top + bottom \/ Clamped(top + bottom) = 0
    BY <1>2, <2>2, Clamps DEF Half
  <2>4. ASSUME NEW p \in Calls(DifferentPairs, "update") PROVE called[p].adjudicated \/ score[p] = One
    <3> SUFFICES ASSUME ~called[p].adjudicated PROVE score[p] = One
      OBVIOUS
    <3>1. p \in DifferentPairs /\ Half(score[p]) >= fitted.high
      BY DecidedByScore DEF Calls, Pairs
    <3> QED BY <1>2, <1>4, <2>1, <2>2, <2>3, <3>1 DEF Half
  <2>5. ASSUME NEW p \in Calls(SamePairs, "create") PROVE called[p].adjudicated \/ score[p] < 0
    <3> SUFFICES ASSUME ~called[p].adjudicated PROVE score[p] < 0
      OBVIOUS
    <3>1. p \in SamePairs /\ Half(score[p]) < fitted.low
      BY DecidedByScore DEF Calls, Pairs
    <3> QED BY <1>2, <1>4, <2>1, <2>2, <2>3, <3>1 DEF Half
  <2>6. ASSUME NEW p \in Pairs PROVE ~called[p].adjudicated
    <3>1. score[p] \in Int
      BY <1>4 DEF Pairs
    <3> QED BY <2>1, <2>3, <3>1, DecidedByScore DEF Half
  <2> QED BY <2>4, <2>5, <2>6
<1> QED BY <1>6, <1>7
--------------------------------------------------------------------------------
\* Of candidates that are bounded, with rates that are, Best is one of the best.
LEMMA BestIs ==
  ASSUME NEW C \in SUBSET Int, C # {}, NEW b \in Int, \A c \in C : b <= c,
         NEW rate \in [C -> Nat], NEW top \in Nat, \A c \in C : rate[c] <= top
  PROVE  Best(rate) \in C /\ \A c \in C : rate[c] <= rate[Best(rate)]
<1> DEFINE rates == {rate[c] : c \in C}
           winners == {c \in C : \A d \in C : rate[d] <= rate[c]}
<1>1. rates \in SUBSET Int /\ rates # {} /\ \A x \in rates : x <= top
  <2>1. \A c \in C : rate[c] \in Int /\ rate[c] <= top
    OBVIOUS
  <2>2. rates # {}
    OBVIOUS
  <2> QED BY <2>1, <2>2
<1> HIDE DEF rates
<1>2. Sets!Max(rates) \in rates /\ \A x \in rates : x <= Sets!Max(rates)
  <2>1. top \in Int
    OBVIOUS
  <2> QED BY <1>1, <2>1, GreatestOf
<1>3. winners # {} /\ winners \in SUBSET Int /\ \A c \in winners : b <= c
  <2>1. PICK c \in C : rate[c] = Sets!Max(rates)
    BY <1>2 DEF rates
  <2>2. c \in winners
    BY <1>2, <2>1 DEF rates
  <2> QED BY <2>2
<1>4. Sets!Min(winners) \in winners
  BY <1>3, LeastOf
<1>5. Best(rate) = Sets!Min(winners)
  BY DEF Best
<1> QED BY <1>4, <1>5

\* What a cutoff gets right can be counted, and depends on its calls alone.
LEMMA CutoffCounts ==
  ASSUME score \in [Pairs -> Scores]
  PROVE  /\ Cardinality(SamePairs) \in Nat /\ Cardinality(DifferentPairs) \in Nat
         /\ \A t \in Int : /\ Cardinality(TruePositives(t)) \in 0..Cardinality(SamePairs)
                           /\ Cardinality(TrueNegatives(t)) \in 0..Cardinality(DifferentPairs)
<1>1. IsFiniteSet(SamePairs) /\ IsFiniteSet(DifferentPairs)
  BY CalibrationAssumption, FS_Subset
<1>2. \A t : TruePositives(t) \in SUBSET SamePairs /\ TrueNegatives(t) \in SUBSET DifferentPairs
  BY DEF TruePositives, TrueNegatives
<1>3. Cardinality(SamePairs) \in Nat /\ Cardinality(DifferentPairs) \in Nat
  BY <1>1, FS_CardinalityType
<1>4. ASSUME NEW t \in Int
      PROVE  /\ Cardinality(TruePositives(t)) \in 0..Cardinality(SamePairs)
             /\ Cardinality(TrueNegatives(t)) \in 0..Cardinality(DifferentPairs)
  <2>1. /\ IsFiniteSet(TruePositives(t)) /\ Cardinality(TruePositives(t)) <= Cardinality(SamePairs)
        /\ IsFiniteSet(TrueNegatives(t)) /\ Cardinality(TrueNegatives(t)) <= Cardinality(DifferentPairs)
    BY <1>1, <1>2, FS_Subset
  <2>2. Cardinality(TruePositives(t)) \in Nat /\ Cardinality(TrueNegatives(t)) \in Nat
    BY <2>1, FS_CardinalityType
  <2> QED BY <1>3, <2>1, <2>2
<1> QED BY <1>3, <1>4

LEMMA SameCalls ==
  ASSUME NEW t \in Int, NEW c \in Int, score \in [Pairs -> Scores],
         \A p \in Pairs : Half(score[p]) >= t <=> Half(score[p]) >= c
  PROVE  Balanced(t) = Balanced(c) /\ Correct(t) = Correct(c)
<1>1. \A p \in Pairs : Half(score[p]) \in Int
  <2>1. One \in Int /\ -One \in Int /\ Scores \subseteq (-One)..One
    BY CalibrationAssumption
  <2>2. ASSUME NEW p \in Pairs PROVE Half(score[p]) \in Int
    <3>1. score[p] \in Scores
      OBVIOUS
    <3>2. score[p] \in (-One)..One
      BY <2>1, <3>1, Zenon
    <3>3. score[p] \in Int
      BY <2>1, <3>2
    <3> QED BY <3>3 DEF Half
  <2> QED BY <2>2
<1>2. TruePositives(t) = TruePositives(c) /\ TrueNegatives(t) = TrueNegatives(c)
  BY <1>1 DEF TruePositives, TrueNegatives, Pairs
<1> QED BY <1>2 DEF Balanced, Correct

\* No cutoff does better than some candidate.
LEMMA CandidatesSuffice ==
  ASSUME score \in [Pairs -> Scores], Labelled, \A p \in Pairs : score[p] >= 0, NEW t \in Int
  PROVE  \E c \in Candidates : Balanced(t) = Balanced(c)
<1> DEFINE ss == ScoresOf(Pairs)
           below == {s \in ss : Half(s) < t}
           above == {s \in ss : Half(s) >= t}
<1>1. Pairs # {} /\ Pairs \in SUBSET Pairs
  BY DEF Labelled, Pairs
<1>2. One \in Nat /\ (\A p \in Pairs : score[p] \in ss) /\ \A s \in ss : -One <= s /\ s <= One
  BY <1>1, ScoresBounded
<1>3. ss \in SUBSET Int
  BY <1>1, ScoresBounded
<1> HIDE DEF ss
<1>4. 0 \in Candidates
  BY DEF Candidates
<1>5. CASE below = {}
  <2>1. \A p \in Pairs : Half(score[p]) >= t /\ Half(score[p]) >= 0
    <3>1. \A s \in ss : s \in Int /\ ~(Half(s) < t) /\ Half(s) \in Int
      BY <1>3, <1>5 DEF Half
    <3>2. \A p \in Pairs : score[p] \in ss /\ score[p] >= 0
      BY <1>2
    <3> QED BY <3>1, <3>2 DEF Half
  <2> QED BY <1>4, <2>1, SameCalls
<1>6. CASE above = {}
  <2>1. \A p \in Pairs : Half(score[p]) < t /\ Half(score[p]) >= 0 /\ Half(score[p]) \in Int
    <3>1. \A s \in ss : s \in Int /\ ~(Half(s) >= t) /\ Half(s) \in Int
      BY <1>3, <1>6 DEF Half
    <3>2. \A p \in Pairs : score[p] \in ss /\ score[p] >= 0
      BY <1>2
    <3> QED BY <3>1, <3>2 DEF Half
  <2>2. /\ TruePositives(t) = {} /\ TrueNegatives(t) = DifferentPairs
        /\ TruePositives(0) = SamePairs /\ TrueNegatives(0) = {}
    BY <2>1 DEF TruePositives, TrueNegatives, Pairs
  <2>3. Cardinality({}) = 0 /\ Cardinality(SamePairs) \in Nat /\ Cardinality(DifferentPairs) \in Nat
    BY FS_EmptySet, CutoffCounts
  <2>4. Balanced(t) = 0 * Cardinality(DifferentPairs) + Cardinality(DifferentPairs) * Cardinality(SamePairs)
        /\ Balanced(0) = Cardinality(SamePairs) * Cardinality(DifferentPairs) + 0 * Cardinality(SamePairs)
    BY <2>2, <2>3 DEF Balanced
  <2> QED BY <1>4, <2>3, <2>4
<1>7. CASE below # {} /\ above # {}
  <2> DEFINE a == Sets!Max(below)
             b == Sets!Min(above)
  <2>1. a \in below /\ \A s \in below : s <= a
    <3>1. below \in SUBSET Int /\ \A s \in below : s <= One
      BY <1>2, <1>3
    <3>2. One \in Int
      BY <1>2
    <3> HIDE DEF below
    <3> QED BY <1>7, <3>1, <3>2, GreatestOf
  <2>2. b \in above /\ \A s \in above : b <= s
    <3>1. above \in SUBSET Int /\ \A s \in above : -One <= s
      BY <1>2, <1>3
    <3>2. -One \in Int
      BY <1>2
    <3> HIDE DEF above
    <3> QED BY <1>7, <3>1, <3>2, LeastOf
  <2> HIDE DEF a, b
  <2>3. a \in Int /\ b \in Int /\ a < b /\ a \in ss /\ b \in ss
    BY <1>3, <2>1, <2>2 DEF Half
  <2>4. ~\E s \in ss : a < s /\ s < b
    <3>1. \A s \in ss : s \in Int /\ (s <= a \/ b <= s)
      BY <1>3, <2>1, <2>2 DEF Half
    <3> QED BY <2>3, <3>1
  <2>5. a + b \in Candidates
    <3>1. <<a, b>> \in Neighbours(ss)
      BY <2>3, <2>4 DEF Neighbours
    <3>2. a + b \in Midpoints(ss)
      BY <3>1 DEF Midpoints
    <3> QED BY <3>2 DEF Candidates, ss
  <2>6. \A s \in ss : Half(s) >= t <=> Half(s) >= a + b
    <3> TAKE s \in ss
    <3>1. s \in Int /\ (s \in below \/ s \in above)
      BY <1>3 DEF Half
    <3> QED BY <2>1, <2>2, <2>3, <3>1 DEF Half
  <2>7. a + b \in Int /\ \A p \in Pairs : Half(score[p]) >= t <=> Half(score[p]) >= a + b
    <3>1. a + b \in Int
      BY <2>3
    <3>2. \A p \in Pairs : score[p] \in ss
      BY <1>2
    <3> HIDE DEF below, above
    <3> QED BY <2>6, <3>1, <3>2
  <2> QED BY <2>5, <2>7, SameCalls
<1> QED BY <1>5, <1>6, <1>7

\* For plain accuracy the scores themselves do, and one step beyond either end.
LEMMA AroundSuffices ==
  ASSUME score \in [Pairs -> Scores], Labelled, NEW t \in Int
  PROVE  LET ss == ScoresOf(Pairs) IN
         \E c \in {Half(s) : s \in ss} \cup {Half(Sets!Min(ss)) - 1, Half(Sets!Max(ss)) + 1} :
            Correct(t) = Correct(c)
<1> DEFINE ss == ScoresOf(Pairs)
           above == {s \in ss : Half(s) >= t}
<1>1. Pairs # {} /\ Pairs \in SUBSET Pairs
  BY DEF Labelled, Pairs
<1>2. One \in Nat /\ (\A p \in Pairs : score[p] \in ss) /\ \A s \in ss : -One <= s /\ s <= One
  BY <1>1, ScoresBounded
<1>3. ss \in SUBSET Int
  BY <1>1, ScoresBounded
<1> HIDE DEF ss
<1>4. CASE above = {}
  <2>1. Sets!Max(ss) \in ss /\ \A s \in ss : s <= Sets!Max(ss)
    BY <1>1, ScoresBounded DEF ss
  <2>2. Half(Sets!Max(ss)) + 1 \in Int
        /\ \A s \in ss : ~(Half(s) >= t) /\ ~(Half(s) >= Half(Sets!Max(ss)) + 1)
    <3>1. \A s \in ss : s \in Int /\ ~(Half(s) >= t)
      BY <1>3, <1>4
    <3>2. Sets!Max(ss) \in Int
      BY <1>3, <2>1
    <3> QED BY <2>1, <3>1, <3>2 DEF Half
  <2>3. \A p \in Pairs : Half(score[p]) >= t <=> Half(score[p]) >= Half(Sets!Max(ss)) + 1
    BY <1>2, <2>2
  <2>4. Correct(t) = Correct(Half(Sets!Max(ss)) + 1)
    BY <2>2, <2>3, SameCalls
  <2> QED BY <2>4 DEF ss
<1>5. CASE above # {}
  <2> DEFINE b == Sets!Min(above)
  <2>1. b \in above /\ \A s \in above : b <= s
    <3>1. above \in SUBSET Int /\ \A s \in above : -One <= s
      BY <1>2, <1>3
    <3>2. -One \in Int
      BY <1>2
    <3> HIDE DEF above
    <3> QED BY <1>5, <3>1, <3>2, LeastOf
  <2> HIDE DEF b
  <2>2. b \in ss /\ b \in Int /\ Half(b) \in Int
    BY <1>3, <2>1 DEF Half
  <2>3. \A s \in ss : Half(s) >= t <=> Half(s) >= Half(b)
    <3> TAKE s \in ss
    <3>1. s \in Int /\ (Half(s) >= t => b <= s) /\ Half(b) >= t
      BY <1>3, <2>1
    <3> QED BY <2>2, <3>1 DEF Half
  <2>4. \A p \in Pairs : Half(score[p]) >= t <=> Half(score[p]) >= Half(b)
    BY <1>2, <2>3
  <2>5. Correct(t) = Correct(Half(b))
    BY <2>2, <2>4, SameCalls
  <2> QED BY <2>2, <2>5 DEF ss
<1> QED BY <1>4, <1>5

\* The cutoffs chosen are the best there are.
LEMMA CutoffsBest ==
  ASSUME FitInv, cutoff # NotFitted, NEW t \in Int
  PROVE  Balanced(t) <= Balanced(cutoff.balanced) /\ Correct(t) <= Correct(cutoff.plain)
<1> DEFINE ss == ScoresOf(Pairs)
           around == {Half(s) : s \in ss} \cup {Half(Sets!Min(ss)) - 1, Half(Sets!Max(ss)) + 1}
           same == Cardinality(SamePairs)
           different == Cardinality(DifferentPairs)
<1>1. /\ score \in [Pairs -> Scores] /\ Labelled /\ \A p \in Pairs : score[p] >= 0
      /\ cutoff.balanced = Best([c \in Candidates |-> Balanced(c)])
      /\ cutoff.plain = Best([c \in around |-> Correct(c)])
  BY DEF FitInv, _fit_single_threshold, evaluate_threshold_only
<1>2. Pairs # {} /\ Pairs \in SUBSET Pairs
  BY <1>1 DEF Labelled, Pairs
<1>3. /\ One \in Nat /\ ss # {}
      /\ Sets!Min(ss) \in ss /\ Sets!Max(ss) \in ss
  BY <1>1, <1>2, ScoresBounded
<1>4. \A s \in ss : s \in Int /\ -One <= s /\ s <= One
  BY <1>1, <1>2, ScoresBounded
<1> HIDE DEF ss
<1>5. around \in SUBSET Int /\ around # {} /\ \A c \in around : -Half(One) - 1 <= c
  <2>1. \A s \in ss : Half(s) \in Int /\ -Half(One) - 1 <= Half(s) - 1 /\ Half(s) - 1 \in Int
    BY <1>3, <1>4 DEF Half
  <2>2. \A s \in ss : -Half(One) - 1 <= Half(s) /\ Half(s) + 1 \in Int /\ -Half(One) - 1 <= Half(s) + 1
    BY <1>3, <1>4 DEF Half
  <2>3. \A c \in around : \E s \in ss : c \in {Half(s), Half(s) - 1, Half(s) + 1}
    BY <1>3
  <2>4. around # {}
    OBVIOUS
  <2> HIDE DEF around
  <2> QED BY <2>1, <2>2, <2>3, <2>4
<1>6. Candidates \in SUBSET Int /\ Candidates # {} /\ \A c \in Candidates : -Half(One) <= c
  <2>1. \A x \in Neighbours(ss) : x[1] + x[2] \in Int /\ -Half(One) <= x[1] + x[2]
    <3> TAKE x \in Neighbours(ss)
    <3>1. x[1] \in ss /\ x[2] \in ss
      BY DEF Neighbours
    <3> QED BY <1>3, <1>4, <3>1 DEF Half
  <2> QED BY <1>3, <2>1 DEF Candidates, Midpoints, Half, ss
<1> HIDE DEF around
<1>7. same \in Nat /\ different \in Nat
      /\ \A c \in Int : /\ Cardinality(TruePositives(c)) \in 0..same
                        /\ Cardinality(TrueNegatives(c)) \in 0..different
  BY <1>1, CutoffCounts
<1>8. \A c \in Int : Correct(c) \in Nat /\ Correct(c) <= same + different
  BY <1>7 DEF Correct
<1>9. \A x, y, z \in Nat : x <= y => x * z \in Nat /\ x * z <= y * z
  OBVIOUS
<1>10. \A c \in Int : Balanced(c) \in Nat /\ Balanced(c) <= same * different + different * same
  BY <1>7, <1>9 DEF Balanced
<1>11. Balanced(t) <= Balanced(cutoff.balanced)
  <2> DEFINE rate == [c \in Candidates |-> Balanced(c)]
  <2>1. same * different + different * same \in Nat /\ -Half(One) \in Int
    BY <1>3, <1>7, <1>9 DEF Half
  <2>2. rate \in [Candidates -> Nat] /\ \A c \in Candidates : rate[c] <= same * different + different * same
    BY <1>6, <1>10
  <2>3. Best(rate) \in Candidates /\ \A c \in Candidates : rate[c] <= rate[Best(rate)]
    <3> HIDE DEF rate
    <3> QED BY ONLY <1>6, <2>1, <2>2, BestIs
  <2>4. PICK c \in Candidates : Balanced(t) = Balanced(c)
    BY <1>1, CandidatesSuffice
  <2> QED BY <1>1, <2>3, <2>4
<1>12. Correct(t) <= Correct(cutoff.plain)
  <2> DEFINE rate == [c \in around |-> Correct(c)]
  <2>1. same + different \in Nat /\ -Half(One) - 1 \in Int
    BY <1>3, <1>7 DEF Half
  <2>2. rate \in [around -> Nat] /\ \A c \in around : rate[c] <= same + different
    BY <1>5, <1>8
  <2>3. Best(rate) \in around /\ \A c \in around : rate[c] <= rate[Best(rate)]
    <3> HIDE DEF rate
    <3> QED BY ONLY <1>5, <2>1, <2>2, BestIs
  <2>4. PICK c \in around : Correct(t) = Correct(c)
    BY <1>1, AroundSuffices DEF around, ss
  <2> QED BY <1>1, <2>3, <2>4
<1> QED BY <1>11, <1>12

\* What is fitted depends on the scores alone.
LEMMA FitRead ==
  ASSUME score' = score
  PROVE  /\ \A margin \in Margins : calibrate_thresholds(margin)' = calibrate_thresholds(margin)
         /\ _fit_single_threshold' = _fit_single_threshold
         /\ evaluate_threshold_only' = evaluate_threshold_only
         /\ Labelled' = Labelled
BY DEF calibrate_thresholds, _fit_single_threshold, evaluate_threshold_only, Candidates, Balanced,
       Correct, TruePositives, TrueNegatives, ScoresOf, Labelled

LEMMA FitStep == ASSUME FitInv, [FitNext]_fitVars PROVE FitInv'
<1> USE DEF FitInv
<1>1. ASSUME NEW margin \in Margins, CalibrateThresholds(margin) PROVE FitInv'
  <2>1. called = <<>> /\ Labelled /\ fitted' = calibrate_thresholds(margin) /\ cutoff = NotFitted
        /\ score' = score /\ cutoff' = cutoff /\ called' = called
    BY <1>1 DEF CalibrateThresholds
  <2> QED BY <2>1, FitRead
<1>2. CASE CalibrateCutoff
  <2>1. /\ fitted = NotFitted /\ Labelled /\ \A p \in Pairs : score[p] >= 0
        /\ cutoff' = [balanced |-> _fit_single_threshold, plain |-> evaluate_threshold_only]
        /\ score' = score /\ fitted' = fitted /\ called' = called
    BY <1>2 DEF CalibrateCutoff
  <2> QED BY <2>1, FitRead
<1>3. CASE EvaluateDedup
  <2>1. /\ fitted # NotFitted /\ \A p \in Pairs : called'[p] \in DecisionsOn(score[p])
        /\ score' = score /\ fitted' = fitted /\ cutoff' = cutoff
    BY <1>3 DEF EvaluateDedup
  <2>2. \A p \in Pairs : DecisionsOn(score[p])' = DecisionsOn(score[p])
    BY <2>1 DEF DecisionsOn, RouteOf
  <2> QED BY <2>1, <2>2, FitRead
<1>4. CASE UNCHANGED fitVars
  <2>1. score' = score /\ fitted' = fitted /\ cutoff' = cutoff /\ called' = called
    BY <1>4 DEF fitVars
  <2>2. \A p \in Pairs : DecisionsOn(score[p])' = DecisionsOn(score[p])
    BY <2>1 DEF DecisionsOn, RouteOf
  <2> QED BY <2>1, <2>2, FitRead
<1> QED BY <1>1, <1>2, <1>3, <1>4 DEF FitNext

\* Thresholds do what they were fitted for, whatever the pairs, their scores and the
\* margin: nothing known to be different is joined unasked and nothing known to be the
\* same is separated unasked, but for the exceptions the property names; over a wide
\* enough gap nobody is asked; and no cutoff at all is better than the one chosen.
THEOREM CalibrationAlwaysSeparates == FitSpec => []CalibrationSeparates
<1>1. FitInit => FitInv
  BY DEF FitInit, FitInv
<1>2. FitInv => CalibrationSeparates
  <2> SUFFICES ASSUME FitInv PROVE CalibrationSeparates
    OBVIOUS
  <2>1. \A t \in -1..(Half(One) + 1) : t \in Int
    BY CalibrationAssumption DEF Half
  <2> QED BY <2>1, ThresholdsSeparate, CutoffsBest DEF CalibrationSeparates
<1> QED BY <1>1, <1>2, FitStep, PTL DEF FitSpec
================================================================================
