---------------------------- MODULE ClaimLayerProofs ---------------------------
(***************************************************************************)
(* What the claim layer of ClaimLayer guarantees for every set of           *)
(* statements, sources and ranks, every judge and every targeter.           *)
(***************************************************************************)
EXTENDS ClaimLayer, WellFoundedInduction, SequenceTheorems, TLAPS

--------------------------------------------------------------------------------
(* A set of naturals that is not empty has a least element.                 *)

NatLess == OpToRel(<, Nat)

\* The strict order on the naturals has no infinite descent.
LEMMA NatLessWellFounded == IsWellFoundedOn(NatLess, Nat)
  BY NatLessThanWellFounded, Zenon DEF NatLess

\* The relation NatLess is the order < as pairs.
LEMMA NatLessIsLess == \A m, n \in Nat : <<m, n>> \in NatLess <=> m < n
  BY DEF NatLess, OpToRel

\* A set of naturals that is not empty has a smallest element; _find needs it, for
\* it returns the first claim that matches.
LEMMA SmallestElement ==
  ASSUME NEW T \in SUBSET Nat, T # {}
  PROVE  \E m \in T : \A n \in T : m <= n
<1>1. PICK m \in T : \A n \in T : ~ (<<n, m>> \in NatLess)
  BY NatLessWellFounded, WFMin, Zenon
<1>2. ASSUME NEW n \in T PROVE m <= n
  <2>1. ~ (n < m)
    BY <1>1, NatLessIsLess
  <2> QED BY <2>1
<1> QED BY <1>2

--------------------------------------------------------------------------------
(* The operators on lists of claims.                                        *)

\* mint_claim_id makes an identity of every claim.
LEMMA ClaimIdType == ASSUME NEW c \in Claims PROVE ClaimId(c) \in ClaimIds
  BY DEF Claims, ClaimId, mint_claim_id, ClaimIds

\* _find returns a claim of the list with the identity asked for.
LEMMA FindReturns ==
  ASSUME NEW cs \in Seq(Claims), NEW i \in DOMAIN cs
  PROVE  \E k \in DOMAIN cs :
           Find(cs, ClaimId(cs[i])) = cs[k] /\ ClaimId(cs[k]) = ClaimId(cs[i])
<1> DEFINE Same == {k \in DOMAIN cs : ClaimId(cs[k]) = ClaimId(cs[i])}
           First(k) == /\ ClaimId(cs[k]) = ClaimId(cs[i])
                       /\ \A j \in DOMAIN cs : ClaimId(cs[j]) = ClaimId(cs[i]) => k <= j
<1>1. Same \in SUBSET Nat /\ Same # {}
  OBVIOUS
<1>2. \E k \in DOMAIN cs : First(k)
  <2> HIDE DEF Same
  <2>1. PICK k \in Same : \A j \in Same : k <= j
    BY <1>1, SmallestElement
  <2> QED BY <2>1 DEF Same
<1>3. Find(cs, ClaimId(cs[i])) = cs[CHOOSE k \in DOMAIN cs : First(k)]
  BY DEF Find
<1> HIDE DEF First
<1>4. /\ (CHOOSE k \in DOMAIN cs : First(k)) \in DOMAIN cs
      /\ First(CHOOSE k \in DOMAIN cs : First(k))
  BY <1>2
<1> QED BY <1>3, <1>4 DEF First

\* _replace returns a list of claims.
LEMMA ReplacedType ==
  ASSUME NEW cs \in Seq(Claims), NEW id, NEW m \in Claims
  PROVE  Replaced(cs, id, m) \in Seq(Claims)
  BY DEF Replaced

\* Marking a target as superseded leaves a list of claims.
LEMMA SupersededType ==
  ASSUME NEW cs \in Seq(Claims), NEW id
  PROVE  Superseded(cs, id) \in Seq(Claims)
<1>1. ASSUME NEW c \in Claims PROVE [c EXCEPT !.status = "superseded"] \in Claims
  BY DEF Claims
<1> QED BY <1>1 DEF Superseded

\* The claim a paragraph becomes is current, links to nothing, and has the identity
\* of its statement, the running source and the instant of the merge.
LEMMA IncomingType ==
  ASSUME TypeOK, draft # << >>
  PROVE  /\ Incoming \in Claims
         /\ Head(draft) \in Paragraphs
         /\ Tail(draft) \in Seq(Paragraphs)
         /\ ClaimId(Incoming) = <<Head(draft).statement, source, now>>
         /\ Incoming.supersedes = None
         /\ Incoming.status = "current"
<1>1. Head(draft) \in Paragraphs /\ Tail(draft) \in Seq(Paragraphs)
  BY HeadTailProperties DEF TypeOK
<1>2. now \in Nat /\ source \in Sources
  BY ConstantsAssumption DEF TypeOK
<1> QED BY <1>1, <1>2 DEF Incoming, make_claim, Claims, Paragraphs, ClaimId, mint_claim_id

\* Every claim a step appends, or puts in the place of another, is a claim.
LEMMA OutcomeTypes ==
  ASSUME TypeOK, draft # << >>, NEW i \in DOMAIN claims
  PROVE  /\ claims[i] \in Claims
         /\ Old(i) \in Claims
         /\ Winner(i) \in Claims
         /\ Held(i) \in Claims
         /\ [Old(i) EXCEPT !.status = "superseded", !.to = Incoming.from] \in Claims
         /\ [Old(i) EXCEPT !.status = "contradicted", !.contradicts = ClaimId(Incoming)]
               \in Claims
<1>1. claims \in Seq(Claims) /\ claims[i] \in Claims
  BY DEF TypeOK
<1>2. Old(i) \in Claims
  BY <1>1, FindReturns DEF Old
<1>3. ClaimId(claims[i]) \in ClaimIds /\ ClaimId(Incoming) \in ClaimIds
  BY <1>1, IncomingType, ClaimIdType
<1>4. Winner(i) \in Claims /\ Held(i) \in Claims
  BY <1>3, IncomingType DEF Winner, Held, Claims
<1>5. [Old(i) EXCEPT !.status = "superseded", !.to = Incoming.from] \in Claims
  BY <1>2, IncomingType DEF Claims
<1>6. [Old(i) EXCEPT !.status = "contradicted", !.contradicts = ClaimId(Incoming)] \in Claims
  BY <1>2, <1>3 DEF Claims
<1> QED BY <1>1, <1>2, <1>4, <1>5, <1>6

\* hydrate_claims starts the concept in a typed state.
LEMMA TypeInit == Init => TypeOK
<1> SUFFICES ASSUME Init PROVE TypeOK
  OBVIOUS
<1>1. PICK body \in BoundedSeq(Statements, 1, MaxParagraphs), from \in Dates \cup {None} :
        claims = hydrate_claims(body, 0, from)
  BY DEF Init
<1>2. PICK n \in Nat : body \in [1..n -> Statements]
  BY ConstantsAssumption DEF BoundedSeq
<1>3. \A k \in 1..n : make_claim(body[k], Bundle, 0, None, from) \in Claims
  BY <1>2, ConstantsAssumption DEF make_claim, Claims
<1>4. claims \in Seq(Claims)
  BY <1>1, <1>2, <1>3 DEF hydrate_claims
<1>5. draft \in Seq(Paragraphs) /\ before \in Seq(Claims)
  BY <1>4, EmptySeq DEF Init
<1>6. now \in 0..MaxTime /\ source \in Sources
  BY ConstantsAssumption DEF Init
<1> QED BY <1>4, <1>5, <1>6 DEF Init, TypeOK

\* Every turn of the merge loop keeps the types.
LEMMA TypeStep == ASSUME TypeOK, [Next]_vars PROVE TypeOK'
<1> USE ConstantsAssumption
<1>1. CASE UNCHANGED vars
  BY <1>1 DEF vars, TypeOK
<1>2. ASSUME NEW src \in Sources \ {Bundle},
             NEW d \in BoundedSeq(Paragraphs, 1, MaxParagraphs),
             NEW at \in {now, now + 1}, BeginMerge(src, d, at)
      PROVE  TypeOK'
  <2>1. d \in Seq(Paragraphs)
    BY DEF BoundedSeq
  <2>2. at \in 0..MaxTime
    BY <1>2 DEF BeginMerge, TypeOK
  <2> QED BY <1>2, <2>1, <2>2 DEF BeginMerge, TypeOK
<1>3. CASE Reassert
  BY <1>3, IncomingType DEF Reassert, Turn, TypeOK
<1>4. ASSUME NEW i \in DOMAIN claims, Revise(i) PROVE TypeOK'
  <2>1. draft # << >>
    BY <1>4 DEF Revise, Revising, Turn
  <2>2. claims' \in Seq(Claims)
    BY <1>4, <2>1, OutcomeTypes, SupersededType, AppendProperties DEF Revise, TypeOK
  <2> QED BY <1>4, <2>1, <2>2, IncomingType DEF Revise, Revising, Turn, TypeOK
<1>5. ASSUME NEW asof, Reconcile(asof) PROVE TypeOK'
  <2>1. draft # << >> /\ Reconciling(asof)
    BY <1>5 DEF Reconcile, AppendClaim, ResolveTemporal, ResolveForIncoming,
                ResolveForIncumbent, Escalate, Disputed, Reconciling, Turn
  <2>2. draft' \in Seq(Paragraphs) /\ UNCHANGED <<before, source, now>>
    BY <2>1, IncomingType DEF Reconciling, Turn
  <2>3. CASE AppendClaim(asof)
    <3>1. claims' \in Seq(Claims)
      BY <2>1, <2>3, IncomingType, AppendProperties DEF AppendClaim, TypeOK
    <3> QED BY <2>2, <2>3, <3>1 DEF AppendClaim, TypeOK
  <2>4. ASSUME NEW i \in DOMAIN claims, ResolveTemporal(i, asof) PROVE TypeOK'
    <3>1. claims' \in Seq(Claims)
      BY <2>1, <2>4, OutcomeTypes, ReplacedType, AppendProperties
         DEF ResolveTemporal, Supplants, TypeOK
    <3> QED BY <2>2, <2>4, <3>1 DEF ResolveTemporal, Resolved, TypeOK
  <2>5. ASSUME NEW i \in DOMAIN claims, ResolveForIncoming(i, asof) PROVE TypeOK'
    <3>1. claims' \in Seq(Claims)
      BY <2>1, <2>5, OutcomeTypes, ReplacedType, AppendProperties
         DEF ResolveForIncoming, Supplants, TypeOK
    <3> QED BY <2>2, <2>5, <3>1 DEF ResolveForIncoming, Resolved, TypeOK
  <2>6. ASSUME NEW i \in DOMAIN claims, ResolveForIncumbent(i, asof) PROVE TypeOK'
    <3>1. claims' \in Seq(Claims)
      BY <2>1, <2>6, OutcomeTypes, AppendProperties DEF ResolveForIncumbent, TypeOK
    <3> QED BY <2>2, <2>6, <3>1 DEF ResolveForIncumbent, Resolved, TypeOK
  <2>7. ASSUME NEW i \in DOMAIN claims, Escalate(i, asof) PROVE TypeOK'
    <3>1. claims' \in Seq(Claims)
      BY <2>1, <2>7, OutcomeTypes, AppendProperties DEF Escalate, TypeOK
    <3>2. <<ClaimId(claims[i]), ClaimId(Incoming)>> \in ClaimIds \X ClaimIds
      BY <2>1, OutcomeTypes, IncomingType, ClaimIdType
    <3>3. escalations' \in SUBSET (ClaimIds \X ClaimIds)
      BY <2>7, <3>2 DEF Escalate, TypeOK
    <3> QED BY <2>2, <2>7, <3>1, <3>3 DEF Escalate, TypeOK
  <2> QED BY <1>5, <2>3, <2>4, <2>5, <2>6, <2>7 DEF Reconcile
<1> QED BY <1>1, <1>2, <1>3, <1>4, <1>5 DEF Next

\* The claims, the drafts and the verdict keep their types in every behaviour.
THEOREM TypeCorrect == Spec => []TypeOK
<1>1. TypeOK /\ [Next]_vars => TypeOK'
  BY TypeStep
<1> QED BY <1>1, TypeInit, PTL DEF Spec

--------------------------------------------------------------------------------
(* Without repeated paragraphs.  Identities are then unique, because the    *)
(* paragraphs still to merge have identities the ledger does not; so a step *)
(* retires one claim and no other, and only the shape of the step matters.  *)

ChainInv ==
  /\ TypeOK
  /\ ChainsLinear
  /\ FreshDraft(draft, source, now)
  /\ \A i \in DOMAIN claims : claims[i].at <= now

\* The step appends one new claim, current or held aside, and links it to none.
Appends(new) ==
  /\ new \in Claims
  /\ ClaimId(new) \notin IdsOf(claims)
  /\ new.at = now
  /\ new.supersedes = None
  /\ new.status \in {"current", "contradicted"}
  /\ claims' = Append(claims, new)

\* The step retires claim i as old and appends the claim that supersedes it.
Supersedes(i, old, new) ==
  /\ old \in Claims
  /\ new \in Claims
  /\ claims[i].status = "current"
  /\ ClaimId(old) = ClaimId(claims[i])
  /\ old.supersedes = claims[i].supersedes
  /\ old.from = claims[i].from
  /\ old.status \in {"superseded", "contradicted"}
  /\ ClaimId(new) \notin IdsOf(claims)
  /\ new.at = now
  /\ new.supersedes = ClaimId(claims[i])
  /\ new.status = "current"
  /\ claims' = Append([claims EXCEPT ![i] = old], new)

\* The identity of the running paragraph is not in the ledger yet.
LEMMA IncomingIsNew ==
  ASSUME ChainInv, ~ RepeatedParagraphs, draft # << >>
  PROVE  ClaimId(Incoming) \notin IdsOf(claims)
<1>1. 1 \in DOMAIN draft /\ Head(draft) = draft[1]
  BY EmptySeq, LenProperties DEF ChainInv, TypeOK
<1> QED BY <1>1, IncomingType DEF ChainInv, FreshDraft, mint_claim_id

\* With unique identities, Find and Replaced mean the one claim at i.
LEMMA OneClaim ==
  ASSUME ChainInv, NEW i \in DOMAIN claims, NEW old \in Claims
  PROVE  /\ Old(i) = claims[i]
         /\ Replaced(claims, ClaimId(claims[i]), old) = [claims EXCEPT ![i] = old]
         /\ Superseded(claims, ClaimId(claims[i])) =
              [claims EXCEPT ![i] = [claims[i] EXCEPT !.status = "superseded"]]
<1>1. UniqueIds(claims) /\ claims \in Seq(Claims)
  BY DEF ChainInv, ChainsLinear, TypeOK
<1>2. Old(i) = claims[i]
  BY <1>1, FindReturns DEF Old, UniqueIds
<1>3. Replaced(claims, ClaimId(claims[i]), old) = [claims EXCEPT ![i] = old]
  BY <1>1 DEF Replaced, UniqueIds
<1>4. Superseded(claims, ClaimId(claims[i])) =
        [claims EXCEPT ![i] = [claims[i] EXCEPT !.status = "superseded"]]
  BY <1>1 DEF Superseded, UniqueIds
<1> QED BY <1>2, <1>3, <1>4

\* What the running paragraph becomes, field by field: on its own, in the place of
\* claim i, and recorded but not applied.
LEMMA OutcomeFields ==
  ASSUME TypeOK, draft # << >>, NEW i \in DOMAIN claims
  PROVE  /\ Incoming.statement = Head(draft).statement /\ Incoming.source = source
         /\ Incoming.at = now /\ Incoming.from = Head(draft).from /\ Incoming.to = None
         /\ Incoming.contradicts = None /\ Incoming.status = "current"
         /\ Winner(i) = [Incoming EXCEPT !.supersedes = ClaimId(claims[i])]
         /\ Winner(i).statement = Head(draft).statement /\ Winner(i).source = source
         /\ Winner(i).at = now /\ Winner(i).from = Head(draft).from /\ Winner(i).to = None
         /\ Winner(i).status = "current" /\ Winner(i).supersedes = ClaimId(claims[i])
         /\ ClaimId(Winner(i)) = ClaimId(Incoming)
         /\ Held(i).statement = Head(draft).statement /\ Held(i).source = source
         /\ Held(i).at = now /\ Held(i).to = None /\ Held(i).supersedes = None
         /\ Held(i).status = "contradicted" /\ Held(i).contradicts = ClaimId(claims[i])
         /\ ClaimId(Held(i)) = ClaimId(Incoming)
<1>1. /\ Incoming.statement = Head(draft).statement /\ Incoming.source = source
      /\ Incoming.at = now /\ Incoming.from = Head(draft).from /\ Incoming.to = None
      /\ Incoming.contradicts = None /\ Incoming.status = "current"
      /\ Incoming.supersedes = None
  BY DEF Incoming, make_claim
<1>2. Incoming \in Claims
  BY IncomingType
<1>3. /\ Winner(i).statement = Incoming.statement /\ Winner(i).source = Incoming.source
      /\ Winner(i).at = Incoming.at /\ Winner(i).from = Incoming.from
      /\ Winner(i).to = Incoming.to /\ Winner(i).status = Incoming.status
      /\ Winner(i).supersedes = ClaimId(claims[i])
  BY <1>2 DEF Winner, Claims
<1>4. /\ Held(i).statement = Incoming.statement /\ Held(i).source = Incoming.source
      /\ Held(i).at = Incoming.at /\ Held(i).to = Incoming.to
      /\ Held(i).supersedes = Incoming.supersedes
      /\ Held(i).status = "contradicted" /\ Held(i).contradicts = ClaimId(claims[i])
  BY <1>2 DEF Held, Claims
<1> QED BY <1>1, <1>3, <1>4 DEF ClaimId, mint_claim_id, Winner

\* A claim found in conflict is a current one, and the judge named the pair.
LEMMA DisputedMeans ==
  ASSUME NEW i \in DOMAIN claims, NEW asof, Disputed(i, asof)
  PROVE  /\ claims[i].status = "current"
         /\ <<claims[i].statement, Head(draft).statement>> \in Conflicts
         /\ draft # << >> /\ draft' = Tail(draft) /\ UNCHANGED <<before, source, now>>
  BY DEF Disputed, Conflicting, effective_claims, current_claims, Reconciling, Turn

\* The step replaces claim i, which is current, by its successor.
LEMMA SupplantsShape ==
  ASSUME ChainInv, ~ RepeatedParagraphs, draft # << >>,
         NEW i \in DOMAIN claims, NEW old \in Claims, Supplants(i, old),
         claims[i].status = "current",
         ClaimId(old) = ClaimId(claims[i]), old.supersedes = claims[i].supersedes,
         old.from = claims[i].from, old.status \in {"superseded", "contradicted"}
  PROVE  Supersedes(i, old, Winner(i))
<1>0. TypeOK
  BY DEF ChainInv
<1>1. claims' = Append([claims EXCEPT ![i] = old], Winner(i))
  BY OneClaim DEF Supplants
<1> QED BY <1>0, <1>1, OutcomeFields, IncomingIsNew, OutcomeTypes DEF Supersedes

\* A revision retires its target and keeps the rest of it.
LEMMA ReviseDoes ==
  ASSUME ChainInv, ~ RepeatedParagraphs, NEW i \in DOMAIN claims, Revise(i)
  PROVE  /\ Supersedes(i, [claims[i] EXCEPT !.status = "superseded"], Winner(i))
         /\ draft # << >> /\ draft' = Tail(draft) /\ UNCHANGED <<before, source, now>>
         /\ superseded' = TRUE /\ UNCHANGED <<state, escalations>>
<1>0. TypeOK
  BY DEF ChainInv
<1>1. draft # << >> /\ draft' = Tail(draft) /\ UNCHANGED <<before, source, now>>
      /\ superseded' = TRUE /\ UNCHANGED <<state, escalations>>
      /\ claims[i].status = "current"
      /\ claims' = Append(Superseded(claims, ClaimId(claims[i])), Winner(i))
  BY DEF Revise, Revising, Turn, current_claims
<1> DEFINE old == [claims[i] EXCEPT !.status = "superseded"]
<1>2. old \in Claims /\ ClaimId(old) = ClaimId(claims[i])
      /\ old.supersedes = claims[i].supersedes /\ old.from = claims[i].from
      /\ old.status = "superseded"
  BY <1>0, <1>1, OutcomeTypes DEF Claims, ClaimId, mint_claim_id
<1>3. claims' = Append([claims EXCEPT ![i] = old], Winner(i))
  BY <1>1, <1>2, OneClaim
<1>4. ClaimId(Winner(i)) \notin IdsOf(claims) /\ Winner(i) \in Claims /\ Winner(i).at = now
      /\ Winner(i).supersedes = ClaimId(claims[i]) /\ Winner(i).status = "current"
  BY <1>0, <1>1, OutcomeFields, OutcomeTypes, IncomingIsNew
<1> HIDE DEF old
<1>5. Supersedes(i, old, Winner(i))
  BY <1>1, <1>2, <1>3, <1>4 DEF Supersedes
<1> QED BY <1>1, <1>5 DEF old

\* A later policy version retires the older one and closes its window.
LEMMA ResolveTemporalDoes ==
  ASSUME ChainInv, ~ RepeatedParagraphs, NEW i \in DOMAIN claims, NEW asof,
         ResolveTemporal(i, asof)
  PROVE  /\ Supersedes(i, [claims[i] EXCEPT !.status = "superseded", !.to = Incoming.from],
                       Winner(i))
         /\ TakesEffectLater(Incoming, claims[i])
<1>0. TypeOK
  BY DEF ChainInv
<1>1. draft # << >> /\ claims[i].status = "current" /\ TakesEffectLater(Incoming, Old(i))
      /\ Supplants(i, [Old(i) EXCEPT !.status = "superseded", !.to = Incoming.from])
  BY DisputedMeans DEF ResolveTemporal
<1>2. Old(i) = claims[i] /\ claims[i] \in Claims
      /\ [Old(i) EXCEPT !.status = "superseded", !.to = Incoming.from] \in Claims
  BY <1>0, <1>1, OutcomeTypes, OneClaim
<1> DEFINE old == [claims[i] EXCEPT !.status = "superseded", !.to = Incoming.from]
<1>3. old \in Claims /\ ClaimId(old) = ClaimId(claims[i]) /\ Supplants(i, old)
      /\ old.supersedes = claims[i].supersedes /\ old.from = claims[i].from
      /\ old.status = "superseded"
  BY <1>1, <1>2 DEF Claims, ClaimId, mint_claim_id
<1> HIDE DEF old
<1>4. Supersedes(i, old, Winner(i))
  BY <1>1, <1>3, SupplantsShape
<1> QED BY <1>1, <1>2, <1>4 DEF old

\* A conflict the incoming source wins records on the loser what it lost to.
LEMMA ResolveForIncomingDoes ==
  ASSUME ChainInv, ~ RepeatedParagraphs, NEW i \in DOMAIN claims, NEW asof,
         ResolveForIncoming(i, asof)
  PROVE  /\ Supersedes(i, [claims[i] EXCEPT !.status = "contradicted",
                                            !.contradicts = ClaimId(Incoming)], Winner(i))
         /\ Authority[source] > Authority[claims[i].source]
<1>0. TypeOK
  BY DEF ChainInv
<1>1. draft # << >> /\ claims[i].status = "current"
      /\ Authority[source] > Authority[Old(i).source]
      /\ Supplants(i, [Old(i) EXCEPT !.status = "contradicted",
                                     !.contradicts = ClaimId(Incoming)])
  BY DisputedMeans DEF ResolveForIncoming
<1>2. Old(i) = claims[i] /\ claims[i] \in Claims
      /\ [Old(i) EXCEPT !.status = "contradicted", !.contradicts = ClaimId(Incoming)] \in Claims
  BY <1>0, <1>1, OutcomeTypes, OneClaim
<1> DEFINE old == [claims[i] EXCEPT !.status = "contradicted", !.contradicts = ClaimId(Incoming)]
<1>3. old \in Claims /\ ClaimId(old) = ClaimId(claims[i]) /\ Supplants(i, old)
      /\ old.supersedes = claims[i].supersedes /\ old.from = claims[i].from
      /\ old.status = "contradicted"
  BY <1>1, <1>2 DEF Claims, ClaimId, mint_claim_id
<1> HIDE DEF old
<1>4. Supersedes(i, old, Winner(i))
  BY <1>1, <1>3, SupplantsShape
<1> QED BY <1>1, <1>2, <1>4 DEF old

\* A conflict the incumbent wins, or one nobody wins, appends the held claim.
LEMMA HoldDoes ==
  ASSUME ChainInv, ~ RepeatedParagraphs, NEW i \in DOMAIN claims, NEW asof,
         ResolveForIncumbent(i, asof) \/ Escalate(i, asof)
  PROVE  /\ Appends(Held(i))
         /\ ResolveForIncumbent(i, asof) => Authority[source] < Authority[claims[i].source]
         /\ Escalate(i, asof) => Authority[source] = Authority[claims[i].source]
<1>0. TypeOK
  BY DEF ChainInv
<1>1. draft # << >> /\ claims' = Append(claims, Held(i))
  BY DisputedMeans DEF ResolveForIncumbent, Escalate
<1>2. Held(i) \in Claims /\ ClaimId(Held(i)) \notin IdsOf(claims) /\ Held(i).at = now
      /\ Held(i).supersedes = None /\ Held(i).status = "contradicted"
  BY <1>0, <1>1, OutcomeFields, OutcomeTypes, IncomingIsNew
<1>3. Appends(Held(i))
  BY <1>1, <1>2 DEF Appends
<1>4. Old(i) = claims[i]
  BY <1>0, <1>1, OneClaim, OutcomeTypes
<1> QED BY <1>3, <1>4 DEF ResolveForIncumbent, Escalate

\* A paragraph without a conflict joins the others.
LEMMA AppendClaimDoes ==
  ASSUME ChainInv, ~ RepeatedParagraphs, NEW asof, AppendClaim(asof)
  PROVE  /\ Appends(Incoming)
         /\ draft # << >> /\ draft' = Tail(draft) /\ UNCHANGED <<before, source, now>>
         /\ UNCHANGED <<state, superseded, escalations>>
<1>0. TypeOK
  BY DEF ChainInv
<1>1. draft # << >> /\ draft' = Tail(draft) /\ UNCHANGED <<before, source, now>>
      /\ UNCHANGED <<state, superseded, escalations>> /\ claims' = Append(claims, Incoming)
  BY DEF AppendClaim, Reconciling, Turn
<1>2. Appends(Incoming)
  BY <1>0, <1>1, IncomingType, IncomingIsNew DEF Appends, Incoming, make_claim
<1> QED BY <1>1, <1>2

\* What a step may do to the claims, to the draft, and to who is merging.
LEMMA StepShape ==
  ASSUME ChainInv, ~ RepeatedParagraphs, Next
  PROVE  \/ claims' = claims /\ FreshDraft(draft, source, now)' /\ now <= now'
         \/ /\ draft # << >> /\ draft' = Tail(draft) /\ UNCHANGED <<source, now>>
            /\ \/ claims' = claims
               \/ \E new : Appends(new) /\ ClaimId(new) = ClaimId(Incoming)
               \/ \E i \in DOMAIN claims : \E old, new :
                     Supersedes(i, old, new) /\ ClaimId(new) = ClaimId(Incoming)
<1> USE ConstantsAssumption
<1>0. TypeOK
  BY DEF ChainInv
<1>1. ASSUME NEW src \in Sources \ {Bundle},
             NEW d \in BoundedSeq(Paragraphs, 1, MaxParagraphs),
             NEW at \in {now, now + 1}, BeginMerge(src, d, at)
      PROVE  claims' = claims /\ FreshDraft(draft, source, now)' /\ now <= now'
  BY <1>0, <1>1 DEF BeginMerge, FreshDraft, TypeOK, IdsOf
<1>2. CASE Reassert
  BY <1>2 DEF Reassert, Turn
<1>3. ASSUME NEW i \in DOMAIN claims, Revise(i)
      PROVE  /\ draft # << >> /\ draft' = Tail(draft) /\ UNCHANGED <<source, now>>
             /\ \E old, new : Supersedes(i, old, new) /\ ClaimId(new) = ClaimId(Incoming)
  <2>1. /\ Supersedes(i, [claims[i] EXCEPT !.status = "superseded"], Winner(i))
        /\ draft # << >> /\ draft' = Tail(draft) /\ UNCHANGED <<source, now>>
    BY <1>3, ReviseDoes
  <2>2. ClaimId(Winner(i)) = ClaimId(Incoming)
    BY <1>0, <2>1, OutcomeFields
  <2> QED BY <2>1, <2>2, Zenon
<1>4. ASSUME NEW asof, Reconcile(asof)
      PROVE  /\ draft # << >> /\ draft' = Tail(draft) /\ UNCHANGED <<source, now>>
             /\ \/ \E new : Appends(new) /\ ClaimId(new) = ClaimId(Incoming)
                \/ \E i \in DOMAIN claims : \E old, new :
                      Supersedes(i, old, new) /\ ClaimId(new) = ClaimId(Incoming)
  <2>1. draft # << >> /\ draft' = Tail(draft) /\ UNCHANGED <<source, now>>
    BY <1>4 DEF Reconcile, AppendClaim, ResolveTemporal, ResolveForIncoming,
                ResolveForIncumbent, Escalate, Disputed, Reconciling, Turn
  <2>2. CASE AppendClaim(asof)
    BY <2>1, <2>2, AppendClaimDoes
  <2>3. ASSUME NEW i \in DOMAIN claims, ResolveForIncumbent(i, asof) \/ Escalate(i, asof)
        PROVE  Appends(Held(i)) /\ ClaimId(Held(i)) = ClaimId(Incoming)
    BY <1>0, <2>1, <2>3, HoldDoes, OutcomeFields
  <2>4. ASSUME NEW i \in DOMAIN claims, ResolveTemporal(i, asof) \/ ResolveForIncoming(i, asof)
        PROVE  \E old, new : Supersedes(i, old, new) /\ ClaimId(new) = ClaimId(Incoming)
    <3>1. ClaimId(Winner(i)) = ClaimId(Incoming)
      BY <1>0, <2>1, OutcomeFields
    <3>2. \E old : Supersedes(i, old, Winner(i))
      BY <2>4, ResolveTemporalDoes, ResolveForIncomingDoes, Zenon
    <3> QED BY <3>1, <3>2, Zenon
  <2> QED BY <1>4, <2>1, <2>2, <2>3, <2>4 DEF Reconcile
<1> QED BY <1>1, <1>2, <1>3, <1>4 DEF Next

--------------------------------------------------------------------------------
(* The chains stay linear.                                                  *)

\* The list after a step that appends one claim, position by position.
LEMMA AppendsShape ==
  ASSUME ChainInv, NEW new, Appends(new)
  PROVE  /\ Len(claims) \in Nat
         /\ DOMAIN claims = 1..Len(claims)
         /\ DOMAIN claims' = 1..(Len(claims) + 1)
         /\ \A j \in DOMAIN claims : claims'[j] = claims[j]
         /\ claims'[Len(claims) + 1] = new
  BY AppendProperties, LenProperties DEF Appends, ChainInv, TypeOK

\* The list after a step that replaces claim i, position by position.
LEMMA SupersedesShape ==
  ASSUME ChainInv, NEW i \in DOMAIN claims, NEW old, NEW new, Supersedes(i, old, new)
  PROVE  /\ Len(claims) \in Nat
         /\ DOMAIN claims = 1..Len(claims)
         /\ DOMAIN claims' = 1..(Len(claims) + 1)
         /\ \A j \in DOMAIN claims : claims'[j] = IF j = i THEN old ELSE claims[j]
         /\ claims'[Len(claims) + 1] = new
<1> DEFINE cs == [claims EXCEPT ![i] = old]
<1>1. claims \in Seq(Claims) /\ DOMAIN claims = 1..Len(claims) /\ Len(claims) \in Nat
  BY LenProperties DEF ChainInv, TypeOK
<1>2. cs \in Seq(Claims) /\ Len(cs) = Len(claims)
      /\ \A j \in 1..Len(claims) : cs[j] = IF j = i THEN old ELSE claims[j]
  BY <1>1, ExceptSeq DEF Supersedes
<1>3. claims' = Append(cs, new) /\ new \in Claims
  BY DEF Supersedes
<1> HIDE DEF cs
<1>4. claims' \in Seq(Claims) /\ Len(claims') = Len(claims) + 1
  BY <1>2, <1>3, AppendProperties
<1>5. DOMAIN claims' = 1..(Len(claims) + 1)
  BY <1>4, LenProperties
<1>6. \A j \in 1..Len(claims) : claims'[j] = cs[j]
  BY <1>2, <1>3, AppendProperties
<1>7. claims'[Len(claims) + 1] = new
  BY <1>2, <1>3, AppendProperties
<1> QED BY <1>1, <1>2, <1>5, <1>6, <1>7

\* A turn that appends an unlinked claim keeps the chains linear.
LEMMA AppendsKeepsChains ==
  ASSUME ChainInv, NEW new, Appends(new) PROVE ChainsLinear'
<1> DEFINE n == Len(claims) + 1
<1>1. /\ Len(claims) \in Nat /\ DOMAIN claims = 1..Len(claims) /\ DOMAIN claims' = 1..n
      /\ \A j \in DOMAIN claims : claims'[j] = claims[j]
      /\ claims'[n] = new
  BY AppendsShape
<1>2. /\ new.supersedes = None /\ new.status # "superseded"
      /\ \A j \in DOMAIN claims : ClaimId(claims[j]) # ClaimId(new)
  BY DEF Appends, IdsOf
<1>3. UniqueIds(claims')
  BY <1>1, <1>2 DEF ChainInv, ChainsLinear, UniqueIds
<1>4. LinksBackward(claims')
  BY <1>1, <1>2 DEF ChainInv, ChainsLinear, LinksBackward
<1>5. LinksDistinct(claims')
  BY <1>1, <1>2 DEF ChainInv, ChainsLinear, LinksDistinct
<1>6. EveryoneSucceeded(claims')
  BY <1>1, <1>2 DEF ChainInv, ChainsLinear, EveryoneSucceeded
<1> QED BY <1>3, <1>4, <1>5, <1>6 DEF ChainsLinear

\* A turn that retires one claim and appends its replacement keeps the chains
\* linear.
LEMMA SupersedesKeepsChains ==
  ASSUME ChainInv, NEW i \in DOMAIN claims, NEW old, NEW new, Supersedes(i, old, new)
  PROVE  ChainsLinear'
<1> DEFINE n == Len(claims) + 1
<1>0. UniqueIds(claims) /\ LinksBackward(claims) /\ LinksDistinct(claims)
      /\ EveryoneSucceeded(claims)
  BY DEF ChainInv, ChainsLinear
<1>1. /\ Len(claims) \in Nat /\ DOMAIN claims = 1..Len(claims) /\ DOMAIN claims' = 1..n
      /\ \A j \in DOMAIN claims : claims'[j] = IF j = i THEN old ELSE claims[j]
      /\ claims'[n] = new
  BY SupersedesShape
<1>2. /\ new.supersedes = ClaimId(claims[i]) /\ new.status = "current"
      /\ \A j \in DOMAIN claims : ClaimId(claims[j]) # ClaimId(new)
  BY DEF Supersedes, IdsOf
<1>3. /\ ClaimId(old) = ClaimId(claims[i]) /\ old.supersedes = claims[i].supersedes
      /\ old.status \in {"superseded", "contradicted"} /\ claims[i].status = "current"
  BY DEF Supersedes
<1>4. \A j \in DOMAIN claims :
        /\ ClaimId(claims'[j]) = ClaimId(claims[j])
        /\ claims'[j].supersedes = claims[j].supersedes
        /\ j # i => claims'[j] = claims[j]
  BY <1>1, <1>3
<1>5. UniqueIds(claims')
  BY <1>0, <1>1, <1>2, <1>4 DEF UniqueIds
<1>6. LinksBackward(claims')
  <2> SUFFICES ASSUME NEW j \in 1..n, claims'[j].supersedes # None
               PROVE  \E k \in 1..(j - 1) :
                        ClaimId(claims'[k]) = claims'[j].supersedes /\ claims'[k].status # "current"
    BY <1>1 DEF LinksBackward
  <2>1. CASE j = n
    <3>1. i \in 1..(j - 1) /\ ClaimId(claims'[i]) = claims'[j].supersedes
          /\ claims'[i].status # "current"
      BY <1>1, <1>2, <1>3, <2>1
    <3> QED BY <3>1
  <2>2. CASE j # n
    <3>1. j \in DOMAIN claims
      BY <1>1, <2>2
    <3>2. PICK k \in 1..(j - 1) :
            ClaimId(claims[k]) = claims[j].supersedes /\ claims[k].status # "current"
      BY <1>0, <1>4, <3>1 DEF LinksBackward
    <3>3. k \in DOMAIN claims /\ k # i
      BY <1>1, <1>3, <3>1, <3>2
    <3> QED BY <1>4, <3>1, <3>2, <3>3
  <2> QED BY <2>1, <2>2
<1>7. \A j \in DOMAIN claims : claims[j].supersedes # ClaimId(claims[i])
  <2> SUFFICES ASSUME NEW j \in DOMAIN claims, claims[j].supersedes = ClaimId(claims[i])
               PROVE  FALSE
    OBVIOUS
  <2>1. claims[i] \in Claims
    BY DEF ChainInv, TypeOK
  <2>2. ClaimId(claims[i]) # None
    BY <2>1, ClaimIdType, ConstantsAssumption DEF ClaimIds
  <2>3. PICK k \in 1..(j - 1) :
          ClaimId(claims[k]) = claims[j].supersedes /\ claims[k].status # "current"
    BY <1>0, <2>2 DEF LinksBackward
  <2>4. k = i
    BY <1>0, <1>1, <2>3 DEF UniqueIds
  <2> QED BY <1>3, <2>3, <2>4
<1>8. LinksDistinct(claims')
  <2> SUFFICES ASSUME NEW j \in 1..n, NEW k \in 1..n,
                      claims'[j].supersedes # None,
                      claims'[j].supersedes = claims'[k].supersedes
               PROVE  j = k
    BY <1>1 DEF LinksDistinct
  <2>1. CASE j \in DOMAIN claims /\ k \in DOMAIN claims
    BY <1>0, <1>4, <2>1 DEF LinksDistinct
  <2>2. CASE j = n /\ k \in DOMAIN claims
    BY <1>1, <1>2, <1>4, <1>7, <2>2
  <2>3. CASE k = n /\ j \in DOMAIN claims
    BY <1>1, <1>2, <1>4, <1>7, <2>3
  <2> QED BY <1>1, <2>1, <2>2, <2>3
<1>9. EveryoneSucceeded(claims')
  <2> SUFFICES ASSUME NEW j \in 1..n, claims'[j].status = "superseded"
               PROVE  \E k \in 1..n : k > j /\ claims'[k].supersedes = ClaimId(claims'[j])
    BY <1>1 DEF EveryoneSucceeded
  <2>1. CASE j = i
    <3>1. n > j /\ claims'[n].supersedes = ClaimId(claims'[j]) /\ n \in 1..n
      BY <1>1, <1>2, <1>4, <2>1
    <3> QED BY <3>1
  <2>2. CASE j # i
    <3>1. j \in DOMAIN claims
      BY <1>1, <1>2
    <3>2. PICK k \in DOMAIN claims : k > j /\ claims[k].supersedes = ClaimId(claims[j])
      BY <1>0, <1>4, <2>2, <3>1 DEF EveryoneSucceeded
    <3> QED BY <1>1, <1>4, <3>1, <3>2
  <2> QED BY <2>1, <2>2
<1> QED BY <1>5, <1>6, <1>8, <1>9 DEF ChainsLinear

\* The paragraphs still to merge stay new: the claim a step appends has the
\* identity of the paragraph it consumes, and no other paragraph has it.
LEMMA FreshnessStep ==
  ASSUME ChainInv, draft # << >>, draft' = Tail(draft), UNCHANGED <<source, now>>,
         IdsOf(claims') \subseteq IdsOf(claims) \cup {ClaimId(Incoming)}
  PROVE  FreshDraft(draft, source, now)'
<1>1. /\ draft \in Seq(Paragraphs) /\ Tail(draft) \in Seq(Paragraphs)
      /\ Len(Tail(draft)) = Len(draft) - 1 /\ Len(draft) \in Nat \ {0}
      /\ \A k \in 1..Len(Tail(draft)) : Tail(draft)[k] = draft[k + 1]
      /\ DOMAIN draft = 1..Len(draft) /\ DOMAIN Tail(draft) = 1..Len(Tail(draft))
      /\ Head(draft) = draft[1]
  BY HeadTailProperties, EmptySeq, LenProperties DEF ChainInv, TypeOK
<1>2. \A j, k \in DOMAIN draft' : draft'[j].statement = draft'[k].statement => j = k
  BY <1>1 DEF ChainInv, FreshDraft
<1>3. ASSUME NEW k \in DOMAIN draft'
      PROVE  mint_claim_id(draft'[k].statement, source', now') \notin IdsOf(claims')
  <2>1. k + 1 \in DOMAIN draft /\ draft'[k] = draft[k + 1]
    BY <1>1
  <2>2. draft[k + 1].statement # Head(draft).statement
    BY <1>1, <2>1 DEF ChainInv, FreshDraft
  <2>3. mint_claim_id(draft[k + 1].statement, source, now) # ClaimId(Incoming)
    BY <2>2, IncomingType DEF ChainInv, mint_claim_id
  <2> QED BY <2>1, <2>3 DEF ChainInv, FreshDraft
<1> QED BY <1>2, <1>3 DEF FreshDraft

\* Every turn of the merge loop keeps the inductive invariant.
LEMMA ChainInvStep ==
  ASSUME ~ RepeatedParagraphs, ChainInv, [Next]_vars PROVE ChainInv'
<1>0. TypeOK' /\ now \in Nat /\ now' \in Nat
  BY TypeStep, ConstantsAssumption DEF ChainInv, TypeOK
<1>1. CASE UNCHANGED vars
  BY <1>0, <1>1 DEF vars, ChainInv, ChainsLinear, FreshDraft, IdsOf
<1>2. CASE claims' = claims /\ FreshDraft(draft, source, now)' /\ now <= now'
  <2>1. \A i \in DOMAIN claims : claims[i] \in Claims
    BY DEF ChainInv, TypeOK
  <2>2. \A i \in DOMAIN claims : claims[i].at \in Nat
    BY <2>1 DEF Claims
  <2> QED BY <1>0, <1>2, <2>2 DEF ChainInv, ChainsLinear
<1>3. ASSUME draft # << >>, draft' = Tail(draft), UNCHANGED <<source, now>>,
             claims' = claims
      PROVE  ChainInv'
  <2>1. FreshDraft(draft, source, now)'
    BY <1>3, FreshnessStep
  <2> QED BY <1>0, <1>3, <2>1 DEF ChainInv, ChainsLinear
<1>4. ASSUME draft # << >>, draft' = Tail(draft), UNCHANGED <<source, now>>,
             NEW new, Appends(new), ClaimId(new) = ClaimId(Incoming)
      PROVE  ChainInv'
  <2>1. IdsOf(claims') \subseteq IdsOf(claims) \cup {ClaimId(Incoming)}
    BY <1>4, AppendsShape DEF IdsOf
  <2>2. FreshDraft(draft, source, now)'
    BY <1>4, <2>1, FreshnessStep
  <2>3. \A i \in DOMAIN claims' : claims'[i].at <= now'
    BY <1>0, <1>4, AppendsShape DEF ChainInv, Appends
  <2> QED BY <1>0, <1>4, <2>2, <2>3, AppendsKeepsChains DEF ChainInv
<1>5. ASSUME draft # << >>, draft' = Tail(draft), UNCHANGED <<source, now>>,
             NEW i \in DOMAIN claims, NEW old, NEW new, Supersedes(i, old, new),
             ClaimId(new) = ClaimId(Incoming)
      PROVE  ChainInv'
  <2>0. ClaimId(old) = ClaimId(claims[i]) /\ old.at = claims[i].at
    BY <1>5 DEF Supersedes, ClaimId, mint_claim_id
  <2>1. IdsOf(claims') \subseteq IdsOf(claims) \cup {ClaimId(Incoming)}
    BY <1>5, <2>0, SupersedesShape DEF IdsOf
  <2>2. FreshDraft(draft, source, now)'
    BY <1>5, <2>1, FreshnessStep
  <2>3. \A k \in DOMAIN claims' : claims'[k].at <= now'
    BY <1>0, <1>5, <2>0, SupersedesShape DEF ChainInv, Supersedes
  <2> QED BY <1>0, <1>5, <2>2, <2>3, SupersedesKeepsChains DEF ChainInv
<1> QED BY <1>1, <1>2, <1>3, <1>4, <1>5, StepShape

\* The incumbent claims of a loaded body satisfy the inductive invariant.
LEMMA ChainInvInit == ASSUME ~ RepeatedParagraphs PROVE Init => ChainInv
<1> SUFFICES ASSUME Init PROVE ChainInv
  OBVIOUS
<1>1. PICK body \in BoundedSeq(Statements, 1, MaxParagraphs), from \in Dates \cup {None} :
        /\ \A i, j \in DOMAIN body : body[i] = body[j] => i = j
        /\ claims = hydrate_claims(body, 0, from)
  BY DEF Init
<1>2. /\ DOMAIN claims = DOMAIN body
      /\ \A i \in DOMAIN claims : claims[i] = make_claim(body[i], Bundle, 0, None, from)
  BY <1>1 DEF hydrate_claims
<1>3. \A i \in DOMAIN claims :
        /\ claims[i].statement = body[i] /\ claims[i].at = 0
        /\ claims[i].supersedes = None /\ claims[i].status = "current"
  BY <1>2 DEF make_claim
<1>4. UniqueIds(claims)
  BY <1>1, <1>2, <1>3 DEF UniqueIds, ClaimId, mint_claim_id
<1>5. LinksBackward(claims) /\ LinksDistinct(claims) /\ EveryoneSucceeded(claims)
  BY <1>3 DEF LinksBackward, LinksDistinct, EveryoneSucceeded
<1>6. draft = << >> /\ now = 0
  BY DEF Init
<1>7. FreshDraft(draft, source, now)
  BY <1>6 DEF FreshDraft
<1> QED BY <1>3, <1>4, <1>5, <1>6, <1>7, TypeInit DEF ChainInv, ChainsLinear

\* The inductive invariant holds in every reachable state.
LEMMA ChainInvariant == ASSUME ~ RepeatedParagraphs PROVE Spec => []ChainInv
<1>1. ChainInv /\ [Next]_vars => ChainInv'
  BY ChainInvStep
<1> QED BY <1>1, ChainInvInit, PTL DEF Spec

\* Whatever the targeter and the judge answer and whoever outranks whom, the
\* supersede chains of a concept never fork, cross or run backward.
THEOREM ChainsStayLinear == ASSUME ~ RepeatedParagraphs PROVE Spec => []ChainsLinear
<1>1. ChainInv => ChainsLinear
  BY DEF ChainInv
<1> QED BY <1>1, ChainInvariant, PTL

--------------------------------------------------------------------------------
(* Nothing is overwritten silently.                                         *)

\* Every turn keeps every claim with its provenance.
LEMMA RetainedStep ==
  ASSUME ~ RepeatedParagraphs, ChainInv, Next PROVE Retained(claims, claims')
<1>1. claims \in Seq(Claims) /\ Len(claims) \in Nat
  BY LenProperties DEF ChainInv, TypeOK
<1>2. CASE claims' = claims
  BY <1>1, <1>2 DEF Retained
<1>3. ASSUME NEW new, Appends(new) PROVE Retained(claims, claims')
  <2>1. claims' \in Seq(Claims) /\ Len(claims') = Len(claims) + 1
    BY <1>1, <1>3, AppendProperties DEF Appends
  <2> QED BY <1>1, <1>3, <2>1, AppendsShape DEF Retained
<1>4. ASSUME NEW i \in DOMAIN claims, NEW old, NEW new, Supersedes(i, old, new)
      PROVE  Retained(claims, claims')
  <2>1. TypeOK'
    BY TypeStep DEF ChainInv
  <2>2. Len(claims') = Len(claims) + 1
    BY <1>1, <1>4, <2>1, SupersedesShape, LenProperties DEF TypeOK
  <2>3. \A j \in DOMAIN claims :
          /\ ClaimId(claims'[j]) = ClaimId(claims[j])
          /\ claims'[j].supersedes = claims[j].supersedes
          /\ claims'[j].from = claims[j].from
          /\ claims[j].status # "current" => claims'[j] = claims[j]
    BY <1>4, SupersedesShape DEF Supersedes
  <2> QED BY <1>1, <2>2, <2>3 DEF Retained
<1> QED BY <1>2, <1>3, <1>4, StepShape

\* No merge drops a claim, rewrites what it says or where it came from, moves it
\* in its chain, or brings a retired one back.
THEOREM NothingIsOverwritten ==
  ASSUME ~ RepeatedParagraphs PROVE Spec => NoSilentOverwrite
<1>1. ChainInv /\ [Next]_vars => [Retained(claims, claims')]_vars
  BY RetainedStep
<1> QED BY <1>1, ChainInvariant, PTL DEF Spec, NoSilentOverwrite

--------------------------------------------------------------------------------
(* What a step does to the losers, to the verdict and to the windows.       *)

\* The ledger keeps the identity, and so the text and the source, of every claim,
\* and the whole of a claim that is retired.
LEMMA RetainedFields ==
  ASSUME NEW cs, NEW ds, Retained(cs, ds), NEW i \in DOMAIN cs
  PROVE  /\ ClaimId(ds[i]) = ClaimId(cs[i])
         /\ ds[i].statement = cs[i].statement /\ ds[i].source = cs[i].source
         /\ ds[i].supersedes = cs[i].supersedes
         /\ cs[i].status # "current" => ds[i] = cs[i]
  BY DEF Retained, ClaimId, mint_claim_id

\* The claim a step appends, the other positions, and the claim it retires.
LEMMA AfterSupersedes ==
  ASSUME ChainInv, NEW i \in DOMAIN claims, NEW old, NEW new, Supersedes(i, old, new)
  PROVE  /\ Len(claims) \in Nat /\ DOMAIN claims = 1..Len(claims)
         /\ DOMAIN claims' = 1..(Len(claims) + 1) /\ Len(claims) + 1 \notin DOMAIN claims
         /\ claims'[Len(claims) + 1] = new
         /\ claims'[i] = old
         /\ \A j \in DOMAIN claims : j # i => claims'[j] = claims[j]
  BY SupersedesShape

\* claims[i] lost to claims[j]: it names it, the judge called them a conflict, and
\* the winner's source does not rank below its own.
LostTo(cs, i, j) ==
  /\ cs[i].contradicts = ClaimId(cs[j])
  /\ LET first == IF i < j THEN i ELSE j
         last == IF i < j THEN j ELSE i
     IN <<cs[first].statement, cs[last].statement>> \in Conflicts
  /\ Authority[cs[j].source] >= Authority[cs[i].source]

\* A loser explained before a step is explained after it.
LEMMA StaysExplained ==
  ASSUME NEW cs, NEW ds, Retained(cs, ds), NEW i \in DOMAIN cs, NEW j \in DOMAIN cs,
         cs[i].status = "contradicted", LostTo(cs, i, j)
  PROVE  LostTo(ds, i, j)
<1>1. ds[i] = cs[i]
  BY RetainedFields
<1>2. ClaimId(ds[j]) = ClaimId(cs[j]) /\ ds[j].statement = cs[j].statement
      /\ ds[j].source = cs[j].source
  BY RetainedFields
<1> QED BY <1>1, <1>2 DEF LostTo

\* Every turn of the merge loop explains the claim it marks as contradicted.
LEMMA LosersStep ==
  ASSUME ~ RepeatedParagraphs, ChainInv, LosersExplained, [Next]_vars
  PROVE  LosersExplained'
<1>0. TypeOK /\ TypeOK' /\ Len(claims) \in Nat /\ DOMAIN claims = 1..Len(claims)
  BY TypeStep DEF ChainInv, TypeOK
<1>1. CASE claims' = claims
  BY <1>1 DEF LosersExplained, contested_by
<1>2. ASSUME Next,
             \A i \in DOMAIN claims', s \in {"contradicted"} :
               claims'[i].status = s => \/ i \in DOMAIN claims /\ claims[i].status = s
                                        \/ \E j \in DOMAIN claims' : LostTo(claims', i, j)
      PROVE  LosersExplained'
  <2> SUFFICES ASSUME NEW i \in DOMAIN claims', claims'[i].status = "contradicted"
               PROVE  \E j \in DOMAIN claims' : LostTo(claims', i, j)
    BY DEF LosersExplained, LostTo, contested_by
  <2>1. CASE i \in DOMAIN claims /\ claims[i].status = "contradicted"
    <3>1. PICK j \in DOMAIN claims : LostTo(claims, i, j)
      BY <2>1 DEF LosersExplained, LostTo, contested_by
    <3>2. Retained(claims, claims')
      BY <1>2, RetainedStep
    <3>3. LostTo(claims', i, j)
      BY <2>1, <3>1, <3>2, StaysExplained
    <3>4. j \in DOMAIN claims'
      BY <1>0, <3>2, LenProperties DEF Retained, TypeOK
    <3> QED BY <3>3, <3>4
  <2> QED BY <1>2, <2>1
<1>3. CASE Reassert
  BY <1>1, <1>3 DEF Reassert
<1>4. ASSUME NEW i \in DOMAIN claims, Revise(i) PROVE LosersExplained'
  <2> DEFINE old == [claims[i] EXCEPT !.status = "superseded"]
  <2>1. Supersedes(i, old, Winner(i)) /\ draft # << >>
    BY <1>4, ReviseDoes
  <2>2. claims[i] \in Claims /\ Winner(i).status = "current"
    BY <1>0, <2>1, OutcomeTypes, OutcomeFields
  <2>3. old.status = "superseded"
    BY <2>2 DEF Claims
  <2> HIDE DEF old
  <2> QED BY <1>0, <1>2, <1>4, <2>1, <2>2, <2>3, AfterSupersedes DEF Next
<1>5. ASSUME NEW asof \in {None, now}, Reconcile(asof) PROVE LosersExplained'
  <2>0. Next
    BY <1>5 DEF Next
  <2>1. CASE AppendClaim(asof)
    BY <1>0, <1>2, <2>0, <2>1, AppendClaimDoes, AppendsShape, IncomingType
  <2>2. ASSUME NEW i \in DOMAIN claims, ResolveTemporal(i, asof) PROVE LosersExplained'
    <3> DEFINE old == [claims[i] EXCEPT !.status = "superseded", !.to = Incoming.from]
    <3>1. Supersedes(i, old, Winner(i)) /\ draft # << >>
      BY <2>2, ResolveTemporalDoes, DisputedMeans DEF ResolveTemporal
    <3>2. claims[i] \in Claims /\ Winner(i).status = "current"
      BY <1>0, <3>1, OutcomeTypes, OutcomeFields
    <3>3. old.status = "superseded"
      BY <3>2 DEF Claims
    <3> HIDE DEF old
    <3> QED BY <1>0, <1>2, <2>0, <3>1, <3>2, <3>3, AfterSupersedes
  <2>3. ASSUME NEW i \in DOMAIN claims, ResolveForIncoming(i, asof) PROVE LosersExplained'
    <3> DEFINE old == [claims[i] EXCEPT !.status = "contradicted", !.contradicts = ClaimId(Incoming)]
               n == Len(claims) + 1
    <3>1. /\ Supersedes(i, old, Winner(i)) /\ draft # << >>
          /\ Authority[source] > Authority[claims[i].source]
          /\ <<claims[i].statement, Head(draft).statement>> \in Conflicts
      BY <2>3, ResolveForIncomingDoes, DisputedMeans DEF ResolveForIncoming
    <3>2. /\ claims[i] \in Claims /\ ClaimId(Winner(i)) = ClaimId(Incoming)
          /\ Winner(i).statement = Head(draft).statement /\ Winner(i).source = source
          /\ Winner(i).status = "current"
      BY <1>0, <3>1, OutcomeTypes, OutcomeFields
    <3>3. /\ old.contradicts = ClaimId(Incoming) /\ old.statement = claims[i].statement
          /\ old.source = claims[i].source
          /\ source \in Sources /\ claims[i].source \in Sources
      BY <1>0, <3>2 DEF TypeOK, Claims
    <3>4. Authority[source] >= Authority[claims[i].source]
      BY <3>1, <3>3, ConstantsAssumption
    <3> HIDE DEF old
    <3>5. /\ DOMAIN claims' = 1..n /\ i \in 1..Len(claims) /\ i < n /\ claims'[i] = old
          /\ claims'[n] = Winner(i)
          /\ \A j \in DOMAIN claims : j # i => claims'[j] = claims[j]
      BY <1>0, <3>1, AfterSupersedes
    <3>6. LostTo(claims', i, n) /\ n \in DOMAIN claims'
      BY <1>0, <3>1, <3>2, <3>3, <3>4, <3>5 DEF LostTo
    <3> QED BY <1>0, <1>2, <2>0, <3>2, <3>5, <3>6
  <2>4. ASSUME NEW i \in DOMAIN claims, ResolveForIncumbent(i, asof) \/ Escalate(i, asof)
        PROVE  LosersExplained'
    <3> DEFINE n == Len(claims) + 1
    <3>1. /\ Appends(Held(i)) /\ draft # << >>
          /\ <<claims[i].statement, Head(draft).statement>> \in Conflicts
      BY <2>4, HoldDoes, DisputedMeans DEF ResolveForIncumbent, Escalate
    <3>2. source \in Sources /\ claims[i].source \in Sources
      BY <1>0, <3>1, OutcomeTypes DEF TypeOK, Claims
    <3>3. Authority[claims[i].source] >= Authority[source]
      BY <2>4, <3>2, HoldDoes, ConstantsAssumption
    <3>4. /\ Held(i).statement = Head(draft).statement /\ Held(i).source = source
          /\ Held(i).contradicts = ClaimId(claims[i])
      BY <1>0, <3>1, OutcomeFields
    <3>5. /\ DOMAIN claims' = 1..n /\ i \in 1..Len(claims) /\ i < n
          /\ claims'[n] = Held(i)
          /\ \A j \in DOMAIN claims : claims'[j] = claims[j]
      BY <1>0, <3>1, AppendsShape
    <3>6. LostTo(claims', n, i) /\ i \in DOMAIN claims'
      BY <1>0, <3>1, <3>3, <3>4, <3>5 DEF LostTo
    <3> QED BY <1>0, <1>2, <2>0, <3>5, <3>6
  <2> QED BY <1>5, <2>1, <2>2, <2>3, <2>4 DEF Reconcile
<1>6. ASSUME NEW src, NEW d, NEW at, BeginMerge(src, d, at) PROVE LosersExplained'
  BY <1>1, <1>6 DEF BeginMerge
<1> QED BY <1>1, <1>3, <1>4, <1>5, <1>6 DEF Next, vars

\* Whoever reads a contradicted claim can name the claim it lost to; the two were in
\* conflict, and the winner was not the lower of the two in authority.
THEOREM LosersAreExplained == ASSUME ~ RepeatedParagraphs PROVE Spec => []LosersExplained
<1>1. Init => LosersExplained
  BY DEF Init, hydrate_claims, make_claim, LosersExplained
<1>2. ChainInv /\ LosersExplained /\ [Next]_vars => LosersExplained'
  BY LosersStep
<1> QED BY <1>1, <1>2, ChainInvariant, PTL DEF Spec

--------------------------------------------------------------------------------
(* The merge's verdict.                                                     *)

\* The verdict is read against the claims the merge began with, which are the first
\* ones of the ledger.
VerdictInv == OutcomeHonest /\ Len(before) <= Len(claims)

\* claims[i], held aside by this merge, tied with claims[j] that it names.
Tied(cs, i, j) ==
  /\ cs[i].status = "contradicted"
  /\ cs[i].contradicts = ClaimId(cs[j])
  /\ Authority[cs[i].source] = Authority[cs[j].source]

\* A turn that leaves the claims and the verdict alone keeps the verdict honest.
LEMMA VerdictKept ==
  ASSUME VerdictInv, claims' = claims,
         UNCHANGED <<before, state, superseded, escalations>>
  PROVE  VerdictInv'
  BY DEF VerdictInv, OutcomeHonest

\* A turn keeps the verdict honest if it reports the claim it retires, and if every
\* tie among the claims it adds or marks is in the escalations.
LEMMA VerdictGrows ==
  ASSUME ~ RepeatedParagraphs, ChainInv, LosersExplained, VerdictInv, Next,
         UNCHANGED before,
         Len(claims) <= Len(claims'),
         state' = "escalated" <=> escalations' # {},
         escalations \subseteq escalations', superseded => superseded',
         (\E i \in DOMAIN claims : claims'[i].status # claims[i].status) => superseded',
         \A i \in DOMAIN claims', j \in DOMAIN claims' :
           Tied(claims', i, j) =>
             \/ i \in DOMAIN claims /\ claims[i].status = "contradicted"
             \/ <<ClaimId(claims'[j]), ClaimId(claims'[i])>> \in escalations'
  PROVE  VerdictInv'
<1>0. /\ TypeOK /\ TypeOK' /\ Len(before) \in Nat /\ DOMAIN before = 1..Len(before)
      /\ Len(claims) \in Nat /\ DOMAIN claims = 1..Len(claims)
      /\ Len(claims') \in Nat /\ DOMAIN claims' = 1..Len(claims')
      /\ Len(before) <= Len(claims) /\ ConstantsAssumption
  BY TypeStep, ConstantsAssumption DEF ChainInv, TypeOK, VerdictInv
<1>1. Retained(claims, claims') /\ UniqueIds(claims')
  <2>1. ChainInv'
    BY ChainInvStep
  <2> QED BY <2>1, RetainedStep DEF ChainInv, ChainsLinear
<1>2. Len(before') <= Len(claims')
  BY <1>0
<1>3. ASSUME NEW i \in DOMAIN before', before'[i].status = "current", claims'[i].status # "current"
      PROVE  superseded'
  <2>1. i \in DOMAIN claims /\ i \in DOMAIN before /\ before[i].status = "current"
    BY <1>0, <1>3
  <2>2. CASE claims[i].status # "current"
    BY <2>1, <2>2 DEF VerdictInv, OutcomeHonest
  <2>3. CASE claims[i].status = "current"
    BY <1>3, <2>1, <2>3
  <2> QED BY <2>2, <2>3
<1>4. ASSUME NEW i \in DOMAIN claims' \ DOMAIN before', NEW j \in DOMAIN claims',
             Tied(claims', i, j)
      PROVE  <<ClaimId(claims'[j]), ClaimId(claims'[i])>> \in escalations'
  <2> SUFFICES ASSUME i \in DOMAIN claims, claims[i].status = "contradicted"
               PROVE  <<ClaimId(claims'[j]), ClaimId(claims'[i])>> \in escalations'
    BY <1>4
  <2>1. claims'[i] = claims[i]
    BY <1>1, RetainedFields
  <2>2. PICK k \in DOMAIN claims : claims[i].contradicts = ClaimId(claims[k])
    BY DEF LosersExplained, contested_by
  <2>3. k = j
    <3>1. ClaimId(claims'[k]) = ClaimId(claims[k]) /\ k \in DOMAIN claims'
      BY <1>0, <1>1, RetainedFields
    <3>2. ClaimId(claims'[k]) = ClaimId(claims'[j])
      BY <1>4, <2>1, <2>2, <3>1 DEF Tied
    <3> QED BY <1>1, <3>1, <3>2 DEF UniqueIds
  <2>4. Authority[claims[i].source] = Authority[claims[k].source]
    BY <1>1, <1>4, <2>1, <2>3, RetainedFields DEF Tied
  <2>5. <<ClaimId(claims[k]), ClaimId(claims[i])>> \in escalations
    BY <1>0, <1>4, <2>2, <2>4 DEF VerdictInv, OutcomeHonest
  <2> QED BY <1>1, <2>3, <2>5, RetainedFields
<1> QED BY <1>2, <1>3, <1>4 DEF VerdictInv, OutcomeHonest, Tied

\* Every turn of the merge loop keeps the verdict honest.
LEMMA VerdictStep ==
  ASSUME ~ RepeatedParagraphs, ChainInv, LosersExplained, VerdictInv, [Next]_vars
  PROVE  VerdictInv'
<1>0. TypeOK /\ Len(claims) \in Nat /\ DOMAIN claims = 1..Len(claims)
  BY DEF ChainInv, TypeOK
<1>1. CASE UNCHANGED vars
  BY <1>1, VerdictKept DEF vars
<1>2. ASSUME NEW src, NEW d, NEW at, BeginMerge(src, d, at) PROVE VerdictInv'
  <2>1. before' = claims /\ claims' = claims /\ state' = "none" /\ escalations' = {}
    BY <1>2 DEF BeginMerge
  <2> QED BY <1>0, <2>1 DEF VerdictInv, OutcomeHonest
<1>3. CASE Reassert
  BY <1>3, VerdictKept DEF Reassert, Turn
<1>4. ASSUME NEW i \in DOMAIN claims, Revise(i) PROVE VerdictInv'
  <2> DEFINE old == [claims[i] EXCEPT !.status = "superseded"]
             n == Len(claims) + 1
  <2>1. /\ Supersedes(i, old, Winner(i)) /\ draft # << >> /\ UNCHANGED before
        /\ superseded' = TRUE /\ UNCHANGED <<state, escalations>>
    BY <1>4, ReviseDoes
  <2>2. claims[i] \in Claims /\ Winner(i).status = "current"
    BY <1>0, <2>1, OutcomeTypes, OutcomeFields
  <2>3. old.status = "superseded"
    BY <2>2 DEF Claims
  <2> HIDE DEF old
  <2>4. /\ DOMAIN claims' = 1..n /\ claims'[n] = Winner(i) /\ claims'[i] = old
        /\ \A j \in DOMAIN claims : j # i => claims'[j] = claims[j]
    BY <2>1, AfterSupersedes
  <2>5. Len(claims') = n
    BY <1>0, <2>4, TypeStep, LenProperties DEF TypeOK
  <2>6. \A k \in DOMAIN claims' :
          claims'[k].status = "contradicted" =>
            k \in DOMAIN claims /\ claims[k].status = "contradicted"
    BY <1>0, <2>2, <2>3, <2>4
  <2>7. Next /\ (state' = "escalated" <=> escalations' # {})
    BY <1>4, <2>1 DEF Next, VerdictInv, OutcomeHonest
  <2> QED BY <1>0, <2>1, <2>5, <2>6, <2>7, VerdictGrows DEF Tied
<1>5. ASSUME NEW asof \in {None, now}, Reconcile(asof) PROVE VerdictInv'
  <2>0. Next
    BY <1>5 DEF Next
  <2>1. CASE AppendClaim(asof)
    <3> DEFINE n == Len(claims) + 1
    <3>1. /\ Appends(Incoming) /\ draft # << >> /\ UNCHANGED before
          /\ UNCHANGED <<state, superseded, escalations>>
      BY <2>1, AppendClaimDoes
    <3>2. Incoming.status = "current"
      BY <1>0, <3>1, IncomingType
    <3>3. /\ DOMAIN claims' = 1..n /\ claims'[n] = Incoming
          /\ \A j \in DOMAIN claims : claims'[j] = claims[j]
      BY <3>1, AppendsShape
    <3>4. Len(claims') = n
      BY <1>0, <3>3, TypeStep, LenProperties DEF TypeOK
    <3>5. state' = "escalated" <=> escalations' # {}
      BY <3>1 DEF VerdictInv, OutcomeHonest
    <3> QED BY <1>0, <2>0, <3>1, <3>2, <3>3, <3>4, <3>5, VerdictGrows DEF Tied
  <2>2. ASSUME NEW i \in DOMAIN claims, ResolveTemporal(i, asof) PROVE VerdictInv'
    <3> DEFINE old == [claims[i] EXCEPT !.status = "superseded", !.to = Incoming.from]
               n == Len(claims) + 1
    <3>1. /\ Supersedes(i, old, Winner(i)) /\ draft # << >> /\ UNCHANGED before
          /\ superseded' = TRUE /\ Resolved
      BY <2>2, ResolveTemporalDoes, DisputedMeans DEF ResolveTemporal, Resolved
    <3>2. claims[i] \in Claims /\ Winner(i).status = "current"
      BY <1>0, <3>1, OutcomeTypes, OutcomeFields
    <3>3. old.status = "superseded"
      BY <3>2 DEF Claims
    <3> HIDE DEF old
    <3>4. /\ DOMAIN claims' = 1..n /\ claims'[n] = Winner(i) /\ claims'[i] = old
          /\ \A j \in DOMAIN claims : j # i => claims'[j] = claims[j]
      BY <3>1, AfterSupersedes
    <3>5. Len(claims') = n
      BY <1>0, <3>4, TypeStep, LenProperties DEF TypeOK
    <3>6. \A k \in DOMAIN claims' :
            claims'[k].status = "contradicted" =>
              k \in DOMAIN claims /\ claims[k].status = "contradicted"
      BY <1>0, <3>2, <3>3, <3>4
    <3>7. (state' = "escalated" <=> escalations' # {}) /\ escalations' = escalations
      BY <3>1 DEF VerdictInv, OutcomeHonest, Resolved
    <3> QED BY <1>0, <2>0, <3>1, <3>5, <3>6, <3>7, VerdictGrows DEF Tied
  <2>3. ASSUME NEW i \in DOMAIN claims, ResolveForIncoming(i, asof) PROVE VerdictInv'
    <3> DEFINE old == [claims[i] EXCEPT !.status = "contradicted", !.contradicts = ClaimId(Incoming)]
               n == Len(claims) + 1
    <3>1. /\ Supersedes(i, old, Winner(i)) /\ draft # << >> /\ UNCHANGED before
          /\ superseded' = TRUE /\ Resolved
          /\ Authority[source] > Authority[claims[i].source]
      BY <2>3, ResolveForIncomingDoes, DisputedMeans DEF ResolveForIncoming, Resolved
    <3>2. /\ claims[i] \in Claims /\ Winner(i).status = "current"
          /\ Winner(i).source = source /\ ClaimId(Winner(i)) = ClaimId(Incoming)
      BY <1>0, <3>1, OutcomeTypes, OutcomeFields
    <3>3. /\ old.contradicts = ClaimId(Incoming) /\ old.source = claims[i].source
          /\ source \in Sources /\ claims[i].source \in Sources
      BY <1>0, <3>2 DEF TypeOK, Claims
    <3>4. Authority[source] # Authority[claims[i].source]
      BY <3>1, <3>3, ConstantsAssumption
    <3> HIDE DEF old
    <3>5. /\ DOMAIN claims' = 1..n /\ claims'[n] = Winner(i) /\ claims'[i] = old
          /\ \A j \in DOMAIN claims : j # i => claims'[j] = claims[j]
      BY <3>1, AfterSupersedes
    <3>6. Len(claims') = n
      BY <1>0, <3>5, TypeStep, LenProperties DEF TypeOK
    <3>7. UniqueIds(claims')
      <4>1. ChainInv'
        BY ChainInvStep
      <4> QED BY <4>1 DEF ChainInv, ChainsLinear
    <3>8. \A j \in DOMAIN claims' : ~ Tied(claims', i, j)
      <4> SUFFICES ASSUME NEW j \in DOMAIN claims', Tied(claims', i, j) PROVE FALSE
        OBVIOUS
      <4>1. ClaimId(claims'[j]) = ClaimId(claims'[n]) /\ n \in DOMAIN claims'
        BY <1>0, <3>2, <3>3, <3>5 DEF Tied
      <4>2. j = n
        BY <3>7, <4>1 DEF UniqueIds
      <4> QED BY <3>2, <3>3, <3>4, <3>5, <4>2 DEF Tied
    <3>9. (state' = "escalated" <=> escalations' # {}) /\ escalations' = escalations
      BY <3>1 DEF VerdictInv, OutcomeHonest, Resolved
    <3>10. \A k \in DOMAIN claims' : k # i =>
             (claims'[k].status = "contradicted" =>
                k \in DOMAIN claims /\ claims[k].status = "contradicted")
      BY <1>0, <3>2, <3>5
    <3>11. \A k \in DOMAIN claims', j \in DOMAIN claims' : Tied(claims', k, j) =>
             k \in DOMAIN claims /\ claims[k].status = "contradicted"
      BY <3>8, <3>10 DEF Tied
    <3> QED BY <1>0, <2>0, <3>1, <3>6, <3>9, <3>11, VerdictGrows
  <2>4. ASSUME NEW i \in DOMAIN claims, ResolveForIncumbent(i, asof) \/ Escalate(i, asof)
        PROVE  VerdictInv'
    <3> DEFINE n == Len(claims) + 1
    <3>1. /\ Appends(Held(i)) /\ draft # << >> /\ UNCHANGED before
      BY <2>4, HoldDoes, DisputedMeans DEF ResolveForIncumbent, Escalate
    <3>2. /\ Held(i).source = source /\ Held(i).contradicts = ClaimId(claims[i])
          /\ ClaimId(Held(i)) = ClaimId(Incoming) /\ claims[i] \in Claims
      BY <1>0, <3>1, OutcomeFields, OutcomeTypes
    <3>3. source \in Sources /\ claims[i].source \in Sources
      BY <1>0, <3>2 DEF TypeOK, Claims
    <3>4. /\ DOMAIN claims' = 1..n /\ claims'[n] = Held(i) /\ i \in DOMAIN claims'
          /\ \A j \in DOMAIN claims : claims'[j] = claims[j]
      BY <1>0, <3>1, AppendsShape
    <3>5. Len(claims') = n
      BY <1>0, <3>4, TypeStep, LenProperties DEF TypeOK
    <3>6. UniqueIds(claims')
      <4>1. ChainInv'
        BY ChainInvStep
      <4> QED BY <4>1 DEF ChainInv, ChainsLinear
    <3>7. CASE ResolveForIncumbent(i, asof)
      <4>1. Resolved /\ Authority[source] # Authority[claims[i].source]
        BY <3>3, <3>7, HoldDoes, ConstantsAssumption DEF ResolveForIncumbent
      <4>2. \A j \in DOMAIN claims' : ~ Tied(claims', n, j)
        BY <3>2, <3>4, <3>6, <4>1 DEF Tied, UniqueIds
      <4>3. \A k \in DOMAIN claims', j \in DOMAIN claims' : Tied(claims', k, j) =>
              k \in DOMAIN claims /\ claims[k].status = "contradicted"
        BY <1>0, <3>4, <4>2 DEF Tied
      <4>4. (state' = "escalated" <=> escalations' # {}) /\ escalations' = escalations
            /\ superseded' = TRUE
        BY <4>1 DEF VerdictInv, OutcomeHonest, Resolved
      <4> QED BY <1>0, <2>0, <3>1, <3>5, <4>3, <4>4, VerdictGrows
    <3>8. CASE Escalate(i, asof)
      <4>1. /\ state' = "escalated" /\ superseded' = superseded
            /\ escalations' = escalations \cup {<<ClaimId(claims[i]), ClaimId(Incoming)>>}
        BY <3>8 DEF Escalate
      <4>2. ASSUME NEW k \in DOMAIN claims', NEW j \in DOMAIN claims', Tied(claims', k, j)
            PROVE  \/ k \in DOMAIN claims /\ claims[k].status = "contradicted"
                   \/ <<ClaimId(claims'[j]), ClaimId(claims'[k])>> \in escalations'
        <5>1. CASE k \in DOMAIN claims
          BY <3>4, <4>2, <5>1 DEF Tied
        <5>2. CASE k = n
          <6>1. ClaimId(claims'[j]) = ClaimId(claims'[i])
            BY <3>2, <3>4, <4>2, <5>2 DEF Tied
          <6>2. ClaimId(claims'[k]) = ClaimId(Incoming) /\ claims'[i] = claims[i]
            BY <3>2, <3>4, <5>2
          <6> QED BY <4>1, <6>1, <6>2
        <5> QED BY <1>0, <3>4, <5>1, <5>2
      <4>3. \A k \in DOMAIN claims : claims'[k].status = claims[k].status
        BY <3>4
      <4>4. escalations \subseteq escalations' /\ (state' = "escalated" <=> escalations' # {})
        BY <4>1
      <4>5. Len(claims) <= Len(claims') /\ (superseded => superseded')
        BY <1>0, <3>5, <4>1
      <4> QED BY <2>0, <3>1, <4>2, <4>3, <4>4, <4>5, VerdictGrows
    <3> QED BY <2>4, <3>7, <3>8
  <2> QED BY <1>5, <2>1, <2>2, <2>3, <2>4 DEF Reconcile
<1> QED BY <1>1, <1>2, <1>3, <1>4, <1>5 DEF Next

\* The merge never reports less than it did: it says "escalated" exactly when it hands
\* a tie to the human, hands over every tie, and says when it revised the body.
THEOREM VerdictsAreHonest == ASSUME ~ RepeatedParagraphs PROVE Spec => []OutcomeHonest
<1>1. Init => LosersExplained /\ VerdictInv
  <2> SUFFICES ASSUME Init PROVE LosersExplained /\ VerdictInv
    OBVIOUS
  <2>1. \A i \in DOMAIN claims : claims[i].status = "current"
    BY DEF Init, hydrate_claims, make_claim
  <2>2. before = claims /\ state = "none" /\ escalations = {} /\ Len(claims) \in Nat
    BY TypeInit DEF Init, TypeOK
  <2> QED BY <2>1, <2>2 DEF LosersExplained, VerdictInv, OutcomeHonest
<1>2. ChainInv /\ LosersExplained /\ VerdictInv /\ [Next]_vars => LosersExplained' /\ VerdictInv'
  BY LosersStep, VerdictStep
<1>3. VerdictInv => OutcomeHonest
  BY DEF VerdictInv
<1> QED BY <1>1, <1>2, <1>3, ChainInvariant, PTL DEF Spec

--------------------------------------------------------------------------------
(* The validity windows.                                                    *)

\* claims[i], if its window is closed, hands over to its successors.
HandsOver(cs, i) ==
  cs[i].to # None =>
    /\ \A j \in Successors(cs, i) : cs[j].from = cs[i].to
    /\ Successors(cs, i) # {}
    /\ cs[i].from # None => cs[i].from < cs[i].to

\* A window is closed by being superseded, and by nothing else.
WindowInv ==
  /\ \A i \in DOMAIN claims : HandsOver(claims, i)
  /\ \A i \in DOMAIN claims : claims[i].to # None => claims[i].status = "superseded"

\* A window that was closed before a turn still hands over after it: the turn leaves
\* its claim and its successors alone and gives it no other successor.
LEMMA HandOverKept ==
  ASSUME ChainInv, ~ RepeatedParagraphs, Next, WindowInv,
         NEW n, n = Len(claims) + 1, DOMAIN claims' = 1..n \/ DOMAIN claims' = DOMAIN claims,
         NEW k \in DOMAIN claims, claims[k].to # None,
         n \in DOMAIN claims' => claims'[n].supersedes # ClaimId(claims[k])
  PROVE  HandsOver(claims', k) /\ claims'[k] = claims[k] /\ claims[k].status = "superseded"
<1>0. Len(claims) \in Nat /\ DOMAIN claims = 1..Len(claims) /\ Retained(claims, claims')
  BY RetainedStep DEF ChainInv, TypeOK
<1>1. claims[k].status = "superseded" /\ HandsOver(claims, k)
  BY DEF WindowInv, HandsOver
<1>2. claims'[k] = claims[k]
  BY <1>0, <1>1, RetainedFields
<1>3. /\ \A j \in DOMAIN claims : claims'[j].supersedes = claims[j].supersedes
                                  /\ claims'[j].from = claims[j].from
      /\ DOMAIN claims \subseteq DOMAIN claims'
  BY <1>0 DEF Retained
<1>4. Successors(claims', k) = Successors(claims, k)
  BY <1>0, <1>2, <1>3 DEF Successors
<1>5. \A j \in Successors(claims, k) : claims'[j].from = claims[j].from
  BY <1>3 DEF Successors
<1> QED BY <1>1, <1>2, <1>4, <1>5 DEF HandsOver

\* Every turn closes windows only by handing over.
LEMMA WindowStep ==
  ASSUME ~ RepeatedParagraphs, ChainInv, WindowInv, [Next]_vars
  PROVE  WindowInv'
<1>0. /\ TypeOK /\ TypeOK' /\ Len(claims) \in Nat /\ DOMAIN claims = 1..Len(claims)
      /\ UniqueIds(claims)
  BY TypeStep DEF ChainInv, ChainsLinear, TypeOK
<1>1. CASE claims' = claims
  BY <1>1 DEF WindowInv, HandsOver, Successors
<1>2. ASSUME \A k \in DOMAIN claims' :
               HandsOver(claims', k) /\ (claims'[k].to # None => claims'[k].status = "superseded")
      PROVE  WindowInv'
  BY <1>2 DEF WindowInv, HandsOver
<1>3. ASSUME Next, NEW new, Appends(new), new.to = None PROVE WindowInv'
  <2> DEFINE n == Len(claims) + 1
  <2>1. /\ DOMAIN claims' = 1..n /\ claims'[n] = new
        /\ \A j \in DOMAIN claims : claims'[j] = claims[j]
    BY <1>3, AppendsShape
  <2>2. new.supersedes = None
    BY <1>3 DEF Appends
  <2>3. ASSUME NEW k \in DOMAIN claims, claims[k].to # None
        PROVE  HandsOver(claims', k) /\ claims'[k].status = "superseded"
    <3>1. claims[k] \in Claims
      BY <1>0 DEF TypeOK
    <3>2. ClaimId(claims[k]) # None
      BY <3>1, ClaimIdType, ConstantsAssumption DEF ClaimIds
    <3> QED BY <1>0, <1>3, <2>1, <2>2, <2>3, <3>2, HandOverKept
  <2> QED BY <1>0, <1>2, <1>3, <2>1, <2>3 DEF HandsOver
<1>4. ASSUME Next, NEW i \in DOMAIN claims, NEW old, NEW new, Supersedes(i, old, new),
             new.to = None,
             old.to # None => /\ old.status = "superseded" /\ new.from = old.to
                              /\ old.from # None => old.from < old.to
      PROVE  WindowInv'
  <2> DEFINE n == Len(claims) + 1
  <2>1. /\ DOMAIN claims' = 1..n /\ claims'[n] = new /\ n \notin DOMAIN claims
        /\ claims'[i] = old /\ i \in 1..n
        /\ \A j \in DOMAIN claims : j # i => claims'[j] = claims[j]
    BY <1>0, <1>4, AfterSupersedes
  <2>2. /\ new.supersedes = ClaimId(claims[i]) /\ ClaimId(old) = ClaimId(claims[i])
        /\ claims[i].status = "current"
    BY <1>4 DEF Supersedes
  <2>3. claims[i].to = None
    BY <2>2 DEF WindowInv
  <2>4. ASSUME NEW k \in DOMAIN claims, k # i, claims[k].to # None
        PROVE  HandsOver(claims', k) /\ claims'[k].status = "superseded"
    <3>1. ClaimId(claims[k]) # ClaimId(claims[i])
      BY <1>0, <2>4 DEF UniqueIds
    <3> QED BY <1>0, <1>4, <2>1, <2>2, <2>4, <3>1, HandOverKept
  <2>5. ASSUME claims'[i].to # None PROVE HandsOver(claims', i)
    <3>1. LinksDistinct(claims')
      <4>1. ChainInv'
        BY ChainInvStep, <1>4
      <4> QED BY <4>1 DEF ChainInv, ChainsLinear
    <3>2. n \in Successors(claims', i)
      BY <1>0, <2>1, <2>2 DEF Successors
    <3>3. new.supersedes # None
      <4>1. claims[i] \in Claims
        BY <1>0 DEF TypeOK
      <4> QED BY <2>2, <4>1, ClaimIdType, ConstantsAssumption DEF ClaimIds
    <3>4. \A j \in Successors(claims', i) : j = n
      BY <2>1, <3>1, <3>2, <3>3 DEF Successors, LinksDistinct
    <3>5. new.from = old.to /\ (old.from # None => old.from < old.to)
      BY <1>4, <2>1, <2>5
    <3> QED BY <2>1, <3>2, <3>4, <3>5 DEF HandsOver
  <2>6. \A k \in DOMAIN claims' : HandsOver(claims', k)
    <3> SUFFICES ASSUME NEW k \in DOMAIN claims', claims'[k].to # None
                 PROVE  HandsOver(claims', k)
      BY DEF HandsOver
    <3>1. CASE k = n
      BY <1>4, <2>1, <3>1
    <3>2. CASE k = i
      BY <2>5, <3>2
    <3>3. CASE k # n /\ k # i
      BY <1>0, <2>1, <2>4, <3>3
    <3> QED BY <3>1, <3>2, <3>3
  <2>7. \A k \in DOMAIN claims' : claims'[k].to # None => claims'[k].status = "superseded"
    BY <1>0, <1>4, <2>1, <2>4
  <2> QED BY <1>2, <2>6, <2>7
<1>5. CASE Reassert
  BY <1>1, <1>5 DEF Reassert
<1>6. ASSUME NEW i \in DOMAIN claims, Revise(i) PROVE WindowInv'
  <2> DEFINE old == [claims[i] EXCEPT !.status = "superseded"]
  <2>1. Supersedes(i, old, Winner(i)) /\ draft # << >> /\ Next
    BY <1>6, ReviseDoes DEF Next
  <2>2. claims[i] \in Claims /\ Winner(i).to = None
    BY <1>0, <2>1, OutcomeTypes, OutcomeFields
  <2>3. claims[i].to = None
    BY <2>1 DEF Supersedes, WindowInv
  <2>4. old.to = None
    BY <2>2, <2>3 DEF Claims
  <2> HIDE DEF old
  <2> QED BY <1>4, <2>1, <2>2, <2>4
<1>7. ASSUME NEW asof \in {None, now}, Reconcile(asof) PROVE WindowInv'
  <2>0. Next
    BY <1>7 DEF Next
  <2>1. CASE AppendClaim(asof)
    <3>1. Appends(Incoming) /\ Incoming.to = None
      BY <2>1, AppendClaimDoes DEF Incoming, make_claim
    <3> QED BY <1>3, <2>0, <3>1
  <2>2. ASSUME NEW i \in DOMAIN claims, ResolveTemporal(i, asof) PROVE WindowInv'
    <3> DEFINE old == [claims[i] EXCEPT !.status = "superseded", !.to = Incoming.from]
    <3>1. Supersedes(i, old, Winner(i)) /\ draft # << >> /\ TakesEffectLater(Incoming, claims[i])
      BY <2>2, ResolveTemporalDoes, DisputedMeans DEF ResolveTemporal
    <3>2. /\ claims[i] \in Claims /\ Incoming \in Claims /\ Winner(i).to = None
          /\ Winner(i).from = Incoming.from
      BY <1>0, <3>1, OutcomeTypes, OutcomeFields, IncomingType
    <3>3. old.to = Incoming.from /\ old.from = claims[i].from /\ old.status = "superseded"
      BY <3>2 DEF Claims
    <3>4. old.from # None => old.from < old.to
      BY <3>1, <3>2, <3>3, ConstantsAssumption DEF TakesEffectLater, Claims
    <3> HIDE DEF old
    <3> QED BY <1>4, <2>0, <3>1, <3>2, <3>3, <3>4
  <2>3. ASSUME NEW i \in DOMAIN claims, ResolveForIncoming(i, asof) PROVE WindowInv'
    <3> DEFINE old == [claims[i] EXCEPT !.status = "contradicted", !.contradicts = ClaimId(Incoming)]
    <3>1. Supersedes(i, old, Winner(i)) /\ draft # << >>
      BY <2>3, ResolveForIncomingDoes, DisputedMeans DEF ResolveForIncoming
    <3>2. claims[i] \in Claims /\ Winner(i).to = None
      BY <1>0, <3>1, OutcomeTypes, OutcomeFields
    <3>3. claims[i].to = None
      BY <3>1 DEF Supersedes, WindowInv
    <3>4. old.to = None
      BY <3>2, <3>3 DEF Claims
    <3> HIDE DEF old
    <3> QED BY <1>4, <2>0, <3>1, <3>2, <3>4
  <2>4. ASSUME NEW i \in DOMAIN claims, ResolveForIncumbent(i, asof) \/ Escalate(i, asof)
        PROVE  WindowInv'
    <3>1. Appends(Held(i)) /\ draft # << >>
      BY <2>4, HoldDoes, DisputedMeans DEF ResolveForIncumbent, Escalate
    <3>2. Held(i).to = None
      BY <1>0, <3>1, OutcomeFields
    <3> QED BY <1>3, <2>0, <3>1, <3>2
  <2> QED BY <1>7, <2>1, <2>2, <2>3, <2>4 DEF Reconcile
<1>8. ASSUME NEW src, NEW d, NEW at, BeginMerge(src, d, at) PROVE WindowInv'
  BY <1>1, <1>8 DEF BeginMerge
<1> QED BY <1>1, <1>5, <1>6, <1>7, <1>8 DEF Next, vars

\* A policy stops being in force on the day its one replacement comes into force, and
\* was in force before it: no day belongs to both, and the day of the handover to one.
THEOREM WindowsAlwaysHandOver == ASSUME ~ RepeatedParagraphs PROVE Spec => []WindowsHandOver
<1>1. Init => WindowInv
  BY DEF Init, hydrate_claims, make_claim, WindowInv, HandsOver
<1>2. ChainInv /\ WindowInv /\ [Next]_vars => WindowInv'
  BY WindowStep
<1>3. ChainInv /\ WindowInv => WindowsHandOver
  <2> SUFFICES ASSUME ChainInv, WindowInv, NEW i \in DOMAIN claims, claims[i].to # None
               PROVE  /\ Successors(claims, i) # {}
                      /\ claims[i].from # None => in_force(claims[i], claims[i].from)
                      /\ \A j \in Successors(claims, i) :
                           /\ in_force(claims[j], claims[i].to)
                           /\ \A day \in Dates : ~ (in_force(claims[i], day) /\ in_force(claims[j], day))
    BY DEF WindowsHandOver
  <2>1. /\ \A j \in Successors(claims, i) : j \in DOMAIN claims /\ claims[j].from = claims[i].to
        /\ Successors(claims, i) # {}
        /\ claims[i].from # None => claims[i].from < claims[i].to
    BY DEF WindowInv, HandsOver, Successors
  <2>2. \A j \in DOMAIN claims : /\ claims[j].from \in Nat \cup {None} /\ claims[j].to \in Nat \cup {None}
                                 /\ claims[j].from # None /\ claims[j].to # None => claims[j].from < claims[j].to
    <3>1. \A j \in DOMAIN claims : claims[j] \in Claims
      BY DEF ChainInv, TypeOK
    <3>2. \A j \in DOMAIN claims : claims[j].from \in Dates \cup {None} /\ claims[j].to \in Dates \cup {None}
      BY <3>1 DEF Claims
    <3> QED BY <3>2, ConstantsAssumption DEF WindowInv, HandsOver
  <2>3. Dates \subseteq Nat /\ None \notin Dates
    BY ConstantsAssumption
  <2> QED BY <2>1, <2>2, <2>3 DEF in_force
<1> QED BY <1>1, <1>2, <1>3, ChainInvariant, PTL DEF Spec

--------------------------------------------------------------------------------
(* The layer implements the append-only ledger: the identities are the      *)
(* entries, and the identities of the current claims are the live ones.     *)

LedgerIds == Statements \X Sources \X (0..MaxTime)
LiveIds == {ClaimId(claims[i]) : i \in {k \in DOMAIN claims : claims[k].status = "current"}}

\* The identities of the claims are identities of the ledger: no claim was asserted
\* after MaxTime.
LEMMA IdsInLedger ==
  ASSUME TypeOK, NEW c \in Claims, c.at <= now PROVE ClaimId(c) \in LedgerIds
<1>1. c.at \in 0..MaxTime
  BY ConstantsAssumption DEF Claims, TypeOK
<1> QED BY <1>1 DEF Claims, ClaimId, mint_claim_id, LedgerIds

\* A loaded body is an initial ledger.
LEMMA LedgerStart == ASSUME ~ RepeatedParagraphs, Init PROVE Ledger!LedgerInit
<1>1. ChainInv
  BY ChainInvInit
<1>2. \A i \in DOMAIN claims : claims[i] \in Claims /\ claims[i].at <= now
  BY <1>1 DEF ChainInv, TypeOK
<1>3. IdsOf(claims) \subseteq LedgerIds
  BY <1>1, <1>2, IdsInLedger DEF IdsOf, ChainInv
<1>4. \A i \in DOMAIN claims : claims[i].status = "current"
  BY DEF Init, hydrate_claims, make_claim
<1>5. LiveIds = IdsOf(claims)
  BY <1>4 DEF LiveIds, IdsOf
<1> QED BY <1>3, <1>5 DEF Ledger!LedgerInit, LedgerIds, LiveIds

\* Every turn is a step of the ledger or leaves it as it is.
LEMMA LedgerStep ==
  ASSUME ~ RepeatedParagraphs, ChainInv, [Next]_vars
  PROVE  [Ledger!LedgerNext]_(Ledger!ledgerVars)
<1>1. CASE claims' = claims
  BY <1>1 DEF Ledger!ledgerVars, IdsOf
<1>2. ASSUME NEW new, Appends(new) PROVE Ledger!LedgerNext
  <2>1. IdsOf(claims') = IdsOf(claims) \cup {ClaimId(new)}
    BY <1>2, AppendsShape DEF IdsOf
  <2>2. LiveIds' = IF new.status = "current" THEN LiveIds \cup {ClaimId(new)} ELSE LiveIds
    BY <1>2, AppendsShape DEF LiveIds
  <2>3. ClaimId(new) \in LedgerIds /\ ClaimId(new) \notin IdsOf(claims)
    BY <1>2, IdsInLedger, ConstantsAssumption DEF Appends, ChainInv, TypeOK
  <2> QED BY <2>1, <2>2, <2>3
          DEF Ledger!LedgerNext, Ledger!Assert, Ledger!Hold, LedgerIds, LiveIds
<1>3. ASSUME NEW i \in DOMAIN claims, NEW old, NEW new, Supersedes(i, old, new)
      PROVE  Ledger!LedgerNext
  <2>1. UniqueIds(claims) /\ ClaimId(old) = ClaimId(claims[i]) /\ claims[i].status = "current"
        /\ old.status # "current" /\ new.status = "current"
    BY <1>3 DEF ChainInv, ChainsLinear, Supersedes
  <2>2. IdsOf(claims') = IdsOf(claims) \cup {ClaimId(new)}
    BY <1>3, <2>1, SupersedesShape DEF IdsOf
  <2>3. LiveIds' = (LiveIds \ {ClaimId(claims[i])}) \cup {ClaimId(new)}
    BY <1>3, <2>1, SupersedesShape DEF LiveIds, UniqueIds, Supersedes, IdsOf
  <2>4. ClaimId(new) \in LedgerIds /\ ClaimId(new) \notin IdsOf(claims)
    BY <1>3, IdsInLedger, ConstantsAssumption DEF Supersedes, ChainInv, TypeOK
  <2>5. ClaimId(claims[i]) \in LiveIds
    BY <2>1 DEF LiveIds
  <2> QED BY <2>2, <2>3, <2>4, <2>5 DEF Ledger!LedgerNext, Ledger!Replace, LedgerIds, LiveIds
<1> QED BY <1>1, <1>2, <1>3, StepShape DEF vars

\* The claim layer refines the append-only ledger of ClaimLedger.
THEOREM RefinesLedger == ASSUME ~ RepeatedParagraphs PROVE Spec => ImplementsLedger
<1>1. Init => Ledger!LedgerInit
  BY LedgerStart
<1>2. ChainInv /\ [Next]_vars => [Ledger!LedgerNext]_(Ledger!ledgerVars)
  BY LedgerStep
<1> QED BY <1>1, <1>2, ChainInvariant, PTL DEF Spec, ImplementsLedger, Ledger!LedgerSpec
================================================================================
