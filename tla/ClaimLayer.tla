------------------------------- MODULE ClaimLayer ------------------------------
(***************************************************************************)
(* The claim layer of one concept: src/kosha/merge/claims.py (lifecycle and *)
(* body projection), contradiction/{policy,temporal,escalate}.py (conflict  *)
(* resolution) and pipeline/writer.py (apply_update, the loop that merges   *)
(* one draft statement by statement).                                       *)
(*                                                                          *)
(* Abstractions.  A statement is an element of Statements.  claim_id is a   *)
(* hash of (source, asserted_at, statement); here it is that triple, so two *)
(* claims share an identity exactly when mint_claim_id returns the same     *)
(* digest.  The targeter (lexical or an LLM) answers any in-force claim or  *)
(* nothing.  The judge is the relation Conflicts of (prior, new) pairs; the *)
(* order in which find_conflict ranks the claims is left open, so any       *)
(* conflicting claim may be the first one found.  A date is a natural       *)
(* number on the same clock as asserted_at.                                 *)
(***************************************************************************)
EXTENDS Naturals, Sequences, FiniteSets

CONSTANTS
  Statements,          \* the texts a paragraph may have
  Sources,             \* the sources claims are attributed to
  Bundle,              \* the incumbent source "bundle:<id>" of hydrate_claims
  Authority,           \* the rank of each source; an unranked one has 0
  Conflicts,           \* pairs <<prior, new>> the judge calls a conflict
  Dates,               \* the effective_from dates a claim may carry
  None,                \* Python's None
  RepeatedParagraphs,  \* may one source state the same paragraph twice?
  MaxTime,             \* bound: the last asserted_at
  MaxParagraphs,       \* bound: the paragraphs of a body or a draft
  MaxClaims            \* bound: the claims of the concept

ASSUME ConstantsAssumption ==
  /\ Bundle \in Sources
  /\ Authority \in [Sources -> Nat]
  /\ Conflicts \subseteq Statements \X Statements
  /\ Dates \subseteq Nat
  /\ None \notin Dates
  /\ None \notin Statements \X Sources \X Nat
  /\ RepeatedParagraphs \in BOOLEAN
  /\ MaxTime \in Nat
  /\ MaxParagraphs \in Nat
  /\ MaxClaims \in Nat

VARIABLES
  claims,       \* concept.claims
  before,       \* the claims apply_update started from
  draft,        \* the paragraphs of the draft still to merge
  source,       \* the draft's source
  now,          \* asserted_at of the running merge
  state,        \* UpdateResult.contradiction
  superseded,   \* UpdateResult.superseded
  escalations   \* UpdateResult.escalations, as <<old id, new id>> pairs

vars == <<claims, before, draft, source, now, state, superseded, escalations>>

--------------------------------------------------------------------------------
(* Claims.                                                                  *)

ClaimIds == Statements \X Sources \X Nat

Claims ==
  [statement : Statements, source : Sources, at : Nat,
   status : {"current", "superseded", "contradicted"},
   supersedes : ClaimIds \cup {None}, contradicts : ClaimIds \cup {None},
   from : Dates \cup {None}, to : Dates \cup {None}]

\* A paragraph of a draft.  apply_update never dates one: a dated paragraph is
\* a direct call of reconcile(), which the library offers and its tests make.
Paragraphs == [statement : Statements, from : Dates \cup {None}]

mint_claim_id(s, src, at) == <<s, src, at>>

ClaimId(c) == mint_claim_id(c.statement, c.source, c.at)

IdsOf(cs) == {ClaimId(cs[i]) : i \in DOMAIN cs}

make_claim(s, src, at, sup, from) ==
  [statement |-> s, source |-> src, at |-> at, status |-> "current",
   supersedes |-> sup, contradicts |-> None, from |-> from, to |-> None]

\* The claims of cs that supersede cs[i]; the dict by_supersedes keeps the last.
Successors(cs, i) == {j \in DOMAIN cs : cs[j].supersedes = ClaimId(cs[i])}

LastOf(S) == CHOOSE j \in S : \A k \in S : k <= j

Roots(cs) == {i \in DOMAIN cs : cs[i].supersedes = None}

\* The claim current_claims holds after n turns of its while loop.
WalkFrom(cs, r) ==
  LET walk[n \in Nat] ==
        IF n = 0 THEN r
        ELSE LET p == walk[n - 1]
             IN IF Successors(cs, p) = {} THEN p ELSE LastOf(Successors(cs, p))
  IN walk

\* A walk that never repeats a claim has stopped after Len(cs) turns.
HeadOf(cs, r) == WalkFrom(cs, r)[Len(cs)]

\* The while loop of current_claims ends for every root.
WalkEnds(cs) == \A r \in Roots(cs) : Successors(cs, HeadOf(cs, r)) = {}

\* current_claims: the chain heads that are current, as indices into cs.
current_claims(cs) ==
  {i \in DOMAIN cs : cs[i].status = "current" /\ \E r \in Roots(cs) : HeadOf(cs, r) = i}

\* Fault: the last day of a window belongs to it.
in_forceClosed(c, asof) ==
  IF asof = None THEN c.to = None
  ELSE /\ (c.from = None \/ asof >= c.from)
       /\ (c.to = None \/ asof <= c.to)

\* in_force: the validity window of c holds at asof.
in_force(c, asof) ==
  IF asof = None THEN c.to = None
  ELSE /\ (c.from = None \/ asof >= c.from)
       /\ (c.to = None \/ asof < c.to)

effective_claims(cs, asof) == {i \in current_claims(cs) : in_force(cs[i], asof)}

\* render_body: each slot is a root's position and holds its head's statement.
render_body(cs) ==
  [r \in {q \in Roots(cs) : HeadOf(cs, q) \in current_claims(cs)} |->
     cs[HeadOf(cs, r)].statement]

\* merge/lineage.py: the claims that lost to the claim id.
contested_by(cs, id) == {i \in DOMAIN cs : cs[i].contradicts = id}

\* The claim claim_chain holds after n turns back along the supersedes links.
WalkBack(cs, i) ==
  LET walk[n \in Nat] ==
        IF n = 0 THEN i
        ELSE LET p == walk[n - 1]
                 named == {j \in DOMAIN cs : ClaimId(cs[j]) = cs[p].supersedes}
             IN IF named = {} THEN p ELSE LastOf(named)
  IN walk

\* The chain claim i belongs to, from its root to its newest member.
claim_chain(cs, i) ==
  LET root == WalkBack(cs, i)[Len(cs)] IN {WalkFrom(cs, root)[n] : n \in 0..Len(cs)}

\* _find: the first claim whose identity is id.
Find(cs, id) ==
  cs[CHOOSE i \in DOMAIN cs :
       /\ ClaimId(cs[i]) = id
       /\ \A j \in DOMAIN cs : ClaimId(cs[j]) = id => i <= j]

\* _replace: every claim whose identity is id becomes the replacement.
Replaced(cs, id, replacement) ==
  [i \in DOMAIN cs |-> IF ClaimId(cs[i]) = id THEN replacement ELSE cs[i]]

\* Fault: the target is left in force.
SupersededNot(cs, id) == cs

\* supersede_claim marks the target, each copy where it stands.
Superseded(cs, id) ==
  [i \in DOMAIN cs |->
     IF ClaimId(cs[i]) = id THEN [cs[i] EXCEPT !.status = "superseded"] ELSE cs[i]]

--------------------------------------------------------------------------------
(* The states a merge starts from.                                          *)

BoundedSeq(S, lo, hi) == UNION {[1..n -> S] : n \in lo..hi}

\* A draft states no paragraph twice, nor one its source already stated at
\* this instant, unless RepeatedParagraphs lets it.
FreshDraft(d, src, at) ==
  /\ \A i, j \in DOMAIN d : d[i].statement = d[j].statement => i = j
  /\ \A i \in DOMAIN d : mint_claim_id(d[i].statement, src, at) \notin IdsOf(claims)

\* hydrate_claims: one incumbent claim per paragraph of the loaded body.
hydrate_claims(body, at, from) ==
  [i \in DOMAIN body |-> make_claim(body[i], Bundle, at, None, from)]

Init ==
  /\ \E body \in BoundedSeq(Statements, 1, MaxParagraphs), from \in Dates \cup {None} :
        /\ ~ RepeatedParagraphs => \A i, j \in DOMAIN body : body[i] = body[j] => i = j
        /\ claims = hydrate_claims(body, 0, from)
  /\ before = claims
  /\ draft = << >>
  /\ source = Bundle
  /\ now = 0
  /\ state = "none"
  /\ superseded = FALSE
  /\ escalations = {}

--------------------------------------------------------------------------------
(* apply_update.                                                            *)

\* apply_update is entered with the next draft: by the same run, which stamps
\* every draft with one instant, or later by a caller that kept the claims.
\* MaxClaims bounds the concept here and in Turn.
BeginMerge(src, d, at) ==
  /\ draft = << >>
  /\ Len(claims) < MaxClaims
  /\ at \in {now, now + 1}
  /\ at <= MaxTime
  /\ ~ RepeatedParagraphs => FreshDraft(d, src, at)
  /\ draft' = d
  /\ source' = src
  /\ now' = at
  /\ before' = claims
  /\ state' = "none"
  /\ superseded' = FALSE
  /\ escalations' = {}
  /\ UNCHANGED claims

\* What every turn of the loop needs and does: current_claims returns, and the
\* next paragraph is consumed.
Turn ==
  /\ draft # << >>
  /\ Len(claims) < MaxClaims
  /\ WalkEnds(claims)
  /\ draft' = Tail(draft)
  /\ UNCHANGED <<before, source, now>>

Stated(s) == \E i \in current_claims(claims) : claims[i].statement = s

\* The conflicts find_conflict can report for statement s at asof.
Conflicting(s, asof) ==
  {i \in effective_claims(claims, asof) : <<claims[i].statement, s>> \in Conflicts}

\* The claim the running paragraph becomes.
Incoming == make_claim(Head(draft).statement, source, now, None, Head(draft).from)

\* A verbatim re-assertion of an in-force paragraph changes nothing.
Reassert ==
  /\ Turn
  /\ Head(draft).from = None
  /\ Stated(Head(draft).statement)
  /\ UNCHANGED <<claims, state, superseded, escalations>>

\* The claim that takes claim i's place in the body.
Winner(i) == [Incoming EXCEPT !.supersedes = ClaimId(claims[i])]

\* The paragraph revises claim i: the targeter chose it and the judge sees no
\* conflict between the two.
Revising(i) ==
  /\ Turn
  /\ Head(draft).from = None
  /\ ~ Stated(Head(draft).statement)
  /\ i \in current_claims(claims)
  /\ <<claims[i].statement, Head(draft).statement>> \notin Conflicts
  /\ superseded' = TRUE
  /\ UNCHANGED <<state, escalations>>

\* Fault: a stale target, retired by an earlier paragraph, is revised again.
ReviseStale(i) ==
  /\ Turn
  /\ Head(draft).from = None
  /\ ~ Stated(Head(draft).statement)
  /\ claims' = Append(Superseded(claims, ClaimId(claims[i])), Winner(i))
  /\ superseded' = TRUE
  /\ UNCHANGED <<state, escalations>>

\* Fault: the target is retired and the replacement never appended.
ReviseDropped(i) == Revising(i) /\ claims' = Superseded(claims, ClaimId(claims[i]))

\* supersede_claim; it raises when the target is not current.
Revise(i) ==
  /\ Revising(i)
  /\ Find(claims, ClaimId(claims[i])).status = "current"
  /\ claims' = Append(Superseded(claims, ClaimId(claims[i])), Winner(i))

\* The paragraph goes to reconcile: at asserted_at from apply_update, which has
\* skipped verbatim re-assertions, and with or without a date otherwise.
Reconciling(asof) ==
  /\ Turn
  /\ Head(draft).from = None => asof = now /\ ~ Stated(Head(draft).statement)

\* reconcile without a conflict: the claim joins the others.
AppendClaim(asof) ==
  /\ Reconciling(asof)
  /\ Conflicting(Head(draft).statement, asof) = {}
  /\ claims' = Append(claims, Incoming)
  /\ UNCHANGED <<state, superseded, escalations>>

\* reconcile found claim i in conflict with the running paragraph.
Disputed(i, asof) ==
  /\ Reconciling(asof)
  /\ i \in Conflicting(Head(draft).statement, asof)

\* The claim reconcile works on once it has found that conflict.
Old(i) == Find(claims, ClaimId(claims[i]))

\* resolve_conflict's first rule: the incoming claim takes effect later.
TakesEffectLater(new, old) ==
  /\ new.from # None
  /\ old.from # None => new.from > old.from

\* Fault: the last paragraph's verdict overrides an earlier escalation.
ResolvedLast == superseded' = TRUE /\ state' = "resolved" /\ UNCHANGED escalations

Resolved ==
  /\ superseded' = TRUE
  /\ state' = IF state = "escalated" THEN state ELSE "resolved"
  /\ UNCHANGED escalations

\* The incoming paragraph wins: the old claim is retired and it takes its place.
Supplants(i, retired) ==
  claims' = Append(Replaced(claims, ClaimId(claims[i]), retired), Winner(i))

\* Fault: the old window is closed on the day of the merge.
ResolveTemporalToday(i, asof) ==
  /\ Disputed(i, asof)
  /\ TakesEffectLater(Incoming, Old(i))
  /\ Supplants(i, [Old(i) EXCEPT !.status = "superseded", !.to = now])
  /\ Resolved

\* The later policy version wins; the old claim's window closes at the handover.
ResolveTemporal(i, asof) ==
  /\ Disputed(i, asof)
  /\ TakesEffectLater(Incoming, Old(i))
  /\ Supplants(i, [Old(i) EXCEPT !.status = "superseded", !.to = Incoming.from])
  /\ Resolved

\* Fault: the winner is appended without the link to the claim it replaces.
ResolveForIncomingUnlinked(i, asof) ==
  /\ Disputed(i, asof)
  /\ ~ TakesEffectLater(Incoming, Old(i))
  /\ Authority[source] > Authority[Old(i).source]
  /\ claims' = Append(Replaced(claims, ClaimId(claims[i]),
                        [Old(i) EXCEPT !.status = "contradicted",
                                       !.contradicts = ClaimId(Incoming)]), Incoming)
  /\ Resolved

\* The incoming source outranks the incumbent's.
ResolveForIncoming(i, asof) ==
  /\ Disputed(i, asof)
  /\ ~ TakesEffectLater(Incoming, Old(i))
  /\ Authority[source] > Authority[Old(i).source]
  /\ Supplants(i, [Old(i) EXCEPT !.status = "contradicted", !.contradicts = ClaimId(Incoming)])
  /\ Resolved

\* Fault: the loser is marked and nothing says what it lost to.
HeldUnexplained(i) == [Incoming EXCEPT !.status = "contradicted"]

\* The claim that is recorded and not applied.
Held(i) == [Incoming EXCEPT !.status = "contradicted", !.contradicts = ClaimId(claims[i])]

\* The incumbent's source outranks the incoming one.
ResolveForIncumbent(i, asof) ==
  /\ Disputed(i, asof)
  /\ ~ TakesEffectLater(Incoming, Old(i))
  /\ Authority[source] < Authority[Old(i).source]
  /\ claims' = Append(claims, Held(i))
  /\ Resolved

\* Equal authority and no temporal order: the conflict goes to the human plan.
Escalate(i, asof) ==
  /\ Disputed(i, asof)
  /\ ~ TakesEffectLater(Incoming, Old(i))
  /\ Authority[source] = Authority[Old(i).source]
  /\ claims' = Append(claims, Held(i))
  /\ state' = "escalated"
  /\ escalations' = escalations \cup {<<ClaimId(claims[i]), ClaimId(Incoming)>>}
  /\ UNCHANGED superseded

Reconcile(asof) ==
  \/ AppendClaim(asof)
  \/ \E i \in DOMAIN claims :
        \/ ResolveTemporal(i, asof)
        \/ ResolveForIncoming(i, asof)
        \/ ResolveForIncumbent(i, asof)
        \/ Escalate(i, asof)

Next ==
  \/ \E src \in Sources \ {Bundle}, d \in BoundedSeq(Paragraphs, 1, MaxParagraphs) :
        \E at \in {now, now + 1} : BeginMerge(src, d, at)
  \/ Reassert
  \/ \E i \in DOMAIN claims : Revise(i)
  \/ \E asof \in {None, now} : Reconcile(asof)

Spec == Init /\ [][Next]_vars

--------------------------------------------------------------------------------
(* What the layer guarantees.                                               *)

TypeOK ==
  /\ claims \in Seq(Claims)
  /\ before \in Seq(Claims)
  /\ draft \in Seq(Paragraphs)
  /\ source \in Sources
  /\ now \in 0..MaxTime
  /\ state \in {"none", "resolved", "escalated"}
  /\ superseded \in BOOLEAN
  /\ escalations \in SUBSET (ClaimIds \X ClaimIds)

\* The body shows the claims that are current, all of them and nothing else: no
\* current claim hides behind a successor or off every root's chain, so
\* current_claims and the status field never disagree.  The history a reader gets
\* (merge/lineage.py: claim_chain) is the same chain whichever of its members is
\* asked for, and holds exactly one of the paragraphs of the body, or none.
ProjectionFaithful ==
  /\ {HeadOf(claims, r) : r \in DOMAIN render_body(claims)} =
       {i \in DOMAIN claims : claims[i].status = "current"}
  /\ \A i \in DOMAIN claims :
       /\ i \in claim_chain(claims, i)
       /\ \A j \in claim_chain(claims, i) : claim_chain(claims, j) = claim_chain(claims, i)
       /\ Cardinality(claim_chain(claims, i) \cap current_claims(claims)) <= 1

\* current_claims returns, for every root: no supersedes link closes a cycle.
ProjectionTerminates == WalkEnds(claims)

UniqueIds(cs) == \A i, j \in DOMAIN cs : ClaimId(cs[i]) = ClaimId(cs[j]) => i = j

LinksBackward(cs) ==
  \A j \in DOMAIN cs : cs[j].supersedes # None =>
    \E i \in 1..(j - 1) : ClaimId(cs[i]) = cs[j].supersedes /\ cs[i].status # "current"

LinksDistinct(cs) ==
  \A i, j \in DOMAIN cs :
    cs[i].supersedes # None /\ cs[i].supersedes = cs[j].supersedes => i = j

EveryoneSucceeded(cs) ==
  \A i \in DOMAIN cs : cs[i].status = "superseded" =>
    \E j \in DOMAIN cs : j > i /\ cs[j].supersedes = ClaimId(cs[i])

\* Supersede chains are lines that run forward in time: a link names an earlier
\* claim that is no longer current, no two links name the same claim, and a
\* superseded claim always has its replacement.
ChainsLinear ==
  /\ UniqueIds(claims)
  /\ LinksBackward(claims)
  /\ LinksDistinct(claims)
  /\ EveryoneSucceeded(claims)

\* Every contradicted claim names the claim it lost to, that claim is in the
\* ledger, the judge did call the two a conflict, and the winner's source does
\* not rank below the loser's.
LosersExplained ==
  \A i \in DOMAIN claims : claims[i].status = "contradicted" =>
    \E j \in DOMAIN claims :
      /\ i \in contested_by(claims, ClaimId(claims[j]))
      /\ LET first == IF i < j THEN i ELSE j
             last == IF i < j THEN j ELSE i
         IN <<claims[first].statement, claims[last].statement>> \in Conflicts
      /\ Authority[claims[j].source] >= Authority[claims[i].source]

\* The merge's verdict is honest: it says "escalated" exactly when it hands an
\* escalation to the plan, every tie it held aside is among them, whatever the
\* later paragraphs of the draft resolved, and it reports a revision if a claim the
\* reader could see before was retired.
OutcomeHonest ==
  /\ state = "escalated" <=> escalations # {}
  /\ (\E i \in DOMAIN before : before[i].status = "current" /\ claims[i].status # "current")
        => superseded
  /\ \A i \in DOMAIN claims \ DOMAIN before, j \in DOMAIN claims :
        /\ claims[i].status = "contradicted"
        /\ claims[i].contradicts = ClaimId(claims[j])
        /\ Authority[claims[i].source] = Authority[claims[j].source]
        => <<ClaimId(claims[j]), ClaimId(claims[i])>> \in escalations

\* A closed window is a handover: the claim was in force before its end, and from that
\* day on its one replacement is.  Both windows are half-open (contradiction/temporal.py:
\* 30-32), so that no day belongs to both versions, the day of the handover to the new.
WindowsHandOver ==
  \A i \in DOMAIN claims : claims[i].to # None =>
    /\ Successors(claims, i) # {}
    /\ claims[i].from # None => in_force(claims[i], claims[i].from)
    /\ \A j \in Successors(claims, i) :
         /\ in_force(claims[j], claims[i].to)
         /\ \A day \in Dates : ~ (in_force(claims[i], day) /\ in_force(claims[j], day))

\* assert_no_silent_overwrite, and more: a merge keeps every claim with its
\* statement, provenance and place in its chain, and only a current claim ever
\* changes status.
Retained(cs, ds) ==
  /\ Len(cs) <= Len(ds)
  /\ \A i \in DOMAIN cs :
       /\ ClaimId(ds[i]) = ClaimId(cs[i])
       /\ ds[i].supersedes = cs[i].supersedes
       /\ ds[i].from = cs[i].from
       /\ cs[i].status # "current" => ds[i] = cs[i]

NoSilentOverwrite == [][Retained(claims, claims')]_vars

\* A paragraph of the body is replaced in its place or left alone: no step
\* makes one vanish, and no step touches two.
ParagraphsStay ==
  [][LET old == render_body(claims)
         new == render_body(claims')
     IN /\ DOMAIN old \subseteq DOMAIN new
        /\ Cardinality({r \in DOMAIN old : new[r] # old[r]}) <= 1]_vars

\* The layer implements the append-only ledger of ClaimLedger.
Ledger == INSTANCE ClaimLedger WITH
  Ids <- Statements \X Sources \X (0..MaxTime),
  entries <- IdsOf(claims),
  live <- {ClaimId(claims[i]) : i \in {k \in DOMAIN claims : claims[k].status = "current"}}

ImplementsLedger == Ledger!LedgerSpec

--------------------------------------------------------------------------------
(* What its documentation says of it, and the code does not do.             *)

\* Two in-force claims of which the merge asserted one never conflict unless
\* the merge escalated (pipeline/writer.py:8-12: a conflict "is resolved
\* deterministically or surfaced for the human").
ConflictsSurfaced ==
  \A i \in current_claims(claims), j \in current_claims(claims) \ DOMAIN before :
    <<claims[i].statement, claims[j].statement>> \in Conflicts => state = "escalated"

\* A reader who asks for the date a superseded policy took effect is answered
\* with that policy (docs/authoring-bundles.md:113).
HistoryAnswers ==
  \A i \in DOMAIN claims :
    claims[i].status = "superseded" /\ claims[i].from # None /\ claims[i].to # None
      => i \in effective_claims(claims, claims[i].from)
================================================================================
