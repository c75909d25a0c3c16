------------------------- MODULE ClaimProjectionProofs -------------------------
(***************************************************************************)
(* What a reader of a concept sees (current_claims, render_body) and is told *)
(* of its past (claim_chain), for claims whose supersede chains are linear:  *)
(* the walks of both loops end, they are each other's reverse, and the body  *)
(* shows the current claims and nothing else.                                *)
(***************************************************************************)
EXTENDS ClaimLayerProofs, FiniteSetTheorems

--------------------------------------------------------------------------------
(* Iterating a function.                                                     *)

\* A set of naturals that holds 0 and the successor of each of its members holds
\* every natural.
LEMMA CountingUp ==
  ASSUME NEW T \in SUBSET Nat, 0 \in T, \A n \in T : n + 1 \in T
  PROVE  T = Nat
<1> SUFFICES ASSUME Nat \ T # {} PROVE FALSE
  OBVIOUS
<1>1. PICK m \in Nat \ T : \A n \in Nat \ T : m <= n
  <2>1. Nat \ T \in SUBSET Nat
    OBVIOUS
  <2> QED BY <2>1, SmallestElement, Zenon
<1>2. m # 0 /\ m - 1 \in Nat
  BY <1>1
<1>3. m - 1 \in T
  BY <1>1, <1>2
<1>4. (m - 1) + 1 \in T
  BY <1>3
<1> QED BY <1>1, <1>2, <1>4

\* A loop that applies step to what it holds runs through one sequence of values.
LEMMA IterationExists ==
  ASSUME NEW D, NEW r \in D, NEW step \in [D -> D]
  PROVE  \E f \in [Nat -> D] : f[0] = r /\ \A n \in Nat : f[n + 1] = step[f[n]]
<1> DEFINE Up(n) == {g \in [0..n -> D] : g[0] = r /\ \A k \in 0..(n - 1) : g[k + 1] = step[g[k]]}
<1>1. \A n \in Nat : Up(n) # {}
  <2> DEFINE T == {n \in Nat : Up(n) # {}}
  <2>1. 0 \in T
    <3>1. [k \in 0..0 |-> r] \in Up(0)
      OBVIOUS
    <3> QED BY <3>1
  <2>2. ASSUME NEW n \in T PROVE n + 1 \in T
    <3>1. PICK g \in [0..n -> D] : g[0] = r /\ \A k \in 0..(n - 1) : g[k + 1] = step[g[k]]
      BY <2>2
    <3> DEFINE h == [k \in 0..(n + 1) |-> IF k = n + 1 THEN step[g[n]] ELSE g[k]]
    <3>2. h \in [0..(n + 1) -> D] /\ h[0] = r
      BY <2>2, <3>1
    <3>3. ASSUME NEW k \in 0..n PROVE h[k + 1] = step[h[k]]
      BY <2>2, <3>1, <3>3
    <3> HIDE DEF h
    <3>4. (n + 1) - 1 = n /\ n + 1 \in Nat
      BY <2>2
    <3>5. h \in Up(n + 1)
      BY <3>2, <3>3, <3>4
    <3> QED BY <3>4, <3>5
  <2> HIDE DEF T
  <2>3. T = Nat
    <3>1. T \in SUBSET Nat
      BY DEF T
    <3> QED BY <2>1, <2>2, <3>1, CountingUp
  <2> QED BY <2>3 DEF T
<1>2. ASSUME NEW m \in Nat, NEW n \in Nat, m <= n, NEW g \in Up(m), NEW h \in Up(n)
      PROVE  \A k \in 0..m : g[k] = h[k]
  <2> DEFINE T == {k \in Nat : k <= m => g[k] = h[k]}
  <2>1. 0 \in T
    OBVIOUS
  <2>2. ASSUME NEW k \in T PROVE k + 1 \in T
    <3> SUFFICES ASSUME k + 1 <= m PROVE g[k + 1] = h[k + 1]
      BY <2>2
    <3>1. k \in 0..(m - 1) /\ k \in 0..(n - 1) /\ k <= m
      BY <1>2, <2>2
    <3> QED BY <2>2, <3>1
  <2> HIDE DEF T
  <2>3. T = Nat
    <3>1. T \in SUBSET Nat
      BY DEF T
    <3> QED BY <2>1, <2>2, <3>1, CountingUp
  <2> QED BY <2>3 DEF T
<1> DEFINE c(n) == CHOOSE g : g \in Up(n)
           f == [n \in Nat |-> c(n)[n]]
<1>3. \A n \in Nat : c(n) \in Up(n)
  BY <1>1
<1> HIDE DEF c
<1>4. f \in [Nat -> D] /\ f[0] = r
  BY <1>3
<1>5. ASSUME NEW n \in Nat PROVE f[n + 1] = step[f[n]]
  <2>1. c(n) \in Up(n) /\ c(n + 1) \in Up(n + 1) /\ n + 1 \in Nat /\ n <= n + 1
    BY <1>3
  <2>2. \A k \in 0..n : c(n)[k] = c(n + 1)[k]
    <3> HIDE DEF Up
    <3> QED BY <1>2, <2>1
  <2>3. n \in 0..((n + 1) - 1)
    OBVIOUS
  <2>4. c(n + 1)[n + 1] = step[c(n + 1)[n]]
    BY <2>1, <2>3
  <2>5. c(n)[n] = c(n + 1)[n]
    BY <2>2
  <2> QED BY <2>1, <2>4, <2>5
<1> QED BY <1>4, <1>5

--------------------------------------------------------------------------------
(* One step along a chain, forward and back.                                 *)

\* A list of claims whose supersede chains are lines.
Linear(cs) ==
  cs \in Seq(Claims) /\ UniqueIds(cs) /\ LinksBackward(cs) /\ LinksDistinct(cs)

\* The claims that cs[p] says it supersedes.
Named(cs, p) == {j \in DOMAIN cs : ClaimId(cs[j]) = cs[p].supersedes}

\* One turn of the loop of current_claims, and of the loop of claim_chain.
NextOf(cs, p) == IF Successors(cs, p) = {} THEN p ELSE LastOf(Successors(cs, p))
PrevOf(cs, p) == IF Named(cs, p) = {} THEN p ELSE LastOf(Named(cs, p))

\* The last member of a set of one.
LEMMA LastOfOne == ASSUME NEW x \in Nat PROVE LastOf({x}) = x
  BY DEF LastOf

\* No identity is Python's None.
LEMMA IdsAreNotNone ==
  ASSUME NEW cs \in Seq(Claims), NEW i \in DOMAIN cs PROVE ClaimId(cs[i]) # None
<1>1. cs[i] \in Claims
  OBVIOUS
<1> QED BY <1>1, ClaimIdType, ConstantsAssumption DEF ClaimIds

\* The one claim that supersedes cs[p], if there is any, stands after it.
LEMMA ForwardStep ==
  ASSUME NEW cs, Linear(cs), NEW p \in DOMAIN cs
  PROVE  /\ NextOf(cs, p) \in DOMAIN cs
         /\ Successors(cs, p) = {} <=> NextOf(cs, p) = p
         /\ \A q \in Successors(cs, p) : q = NextOf(cs, p) /\ q > p
<1>0. cs \in Seq(Claims) /\ Len(cs) \in Nat /\ DOMAIN cs = 1..Len(cs)
  BY LenProperties DEF Linear
<1>1. CASE Successors(cs, p) = {}
  BY <1>1 DEF NextOf
<1>2. CASE Successors(cs, p) # {}
  <2>1. PICK q \in DOMAIN cs : cs[q].supersedes = ClaimId(cs[p])
    BY <1>2 DEF Successors
  <2>2. cs[q].supersedes # None
    BY <1>0, <2>1, IdsAreNotNone
  <2>3. PICK i \in 1..(q - 1) : ClaimId(cs[i]) = cs[q].supersedes
    BY <2>1, <2>2 DEF Linear, LinksBackward
  <2>4. i = p /\ q > p
    BY <1>0, <2>1, <2>3 DEF Linear, UniqueIds
  <2>5. Successors(cs, p) = {q}
    BY <2>1, <2>2 DEF Successors, Linear, LinksDistinct
  <2>6. NextOf(cs, p) = q
    BY <1>0, <2>5, LastOfOne DEF NextOf
  <2> QED BY <1>0, <2>4, <2>5, <2>6
<1> QED BY <1>1, <1>2

\* The one claim that cs[p] supersedes, if there is any, stands before it and leads
\* forward to it.
LEMMA BackwardStep ==
  ASSUME NEW cs, Linear(cs), NEW p \in DOMAIN cs
  PROVE  /\ PrevOf(cs, p) \in DOMAIN cs
         /\ cs[p].supersedes = None <=> PrevOf(cs, p) = p
         /\ cs[p].supersedes # None =>
              /\ PrevOf(cs, p) < p
              /\ ClaimId(cs[PrevOf(cs, p)]) = cs[p].supersedes
              /\ NextOf(cs, PrevOf(cs, p)) = p
<1>0. cs \in Seq(Claims) /\ Len(cs) \in Nat /\ DOMAIN cs = 1..Len(cs)
  BY LenProperties DEF Linear
<1>1. CASE cs[p].supersedes = None
  <2>1. Named(cs, p) = {}
    BY <1>0, <1>1, IdsAreNotNone DEF Named
  <2> QED BY <1>1, <2>1 DEF PrevOf
<1>2. CASE cs[p].supersedes # None
  <2>1. PICK i \in 1..(p - 1) : ClaimId(cs[i]) = cs[p].supersedes
    BY <1>2 DEF Linear, LinksBackward
  <2>2. i \in DOMAIN cs /\ i < p
    BY <1>0, <2>1
  <2>3. Named(cs, p) = {i}
    BY <2>1, <2>2 DEF Named, Linear, UniqueIds
  <2>4. PrevOf(cs, p) = i
    BY <2>2, <2>3, <1>0, LastOfOne DEF PrevOf
  <2>5. p \in Successors(cs, i)
    BY <2>1 DEF Successors
  <2>6. NextOf(cs, i) = p
    BY <2>2, <2>5, ForwardStep
  <2> QED BY <1>0, <1>2, <2>1, <2>2, <2>4, <2>6
<1> QED BY <1>1, <1>2

\* A step forward can be taken back.
LEMMA ForwardThenBack ==
  ASSUME NEW cs, Linear(cs), NEW p \in DOMAIN cs, NextOf(cs, p) # p
  PROVE  PrevOf(cs, NextOf(cs, p)) = p
<1>0. cs \in Seq(Claims)
  BY DEF Linear
<1>1. NextOf(cs, p) \in Successors(cs, p) /\ NextOf(cs, p) \in DOMAIN cs
  BY ForwardStep
<1>2. cs[NextOf(cs, p)].supersedes = ClaimId(cs[p])
  BY <1>1 DEF Successors
<1>3. cs[NextOf(cs, p)].supersedes # None
  BY <1>0, <1>2, IdsAreNotNone
<1>4. /\ PrevOf(cs, NextOf(cs, p)) \in DOMAIN cs
      /\ ClaimId(cs[PrevOf(cs, NextOf(cs, p))]) = ClaimId(cs[p])
  BY <1>1, <1>2, <1>3, BackwardStep
<1> QED BY <1>4 DEF Linear, UniqueIds

--------------------------------------------------------------------------------
(* The two loops.                                                            *)

\* The loop of current_claims holds the root first, and steps forward.
LEMMA WalksForward ==
  ASSUME NEW cs, Linear(cs), NEW r \in DOMAIN cs
  PROVE  /\ WalkFrom(cs, r) \in [Nat -> DOMAIN cs]
         /\ WalkFrom(cs, r)[0] = r
         /\ \A n \in Nat : WalkFrom(cs, r)[n + 1] = NextOf(cs, WalkFrom(cs, r)[n])
<1> DEFINE step == [p \in DOMAIN cs |-> NextOf(cs, p)]
           Is(w) == w = [n \in Nat |->
                           IF n = 0 THEN r
                           ELSE IF Successors(cs, w[n - 1]) = {} THEN w[n - 1]
                                ELSE LastOf(Successors(cs, w[n - 1]))]
<1>1. step \in [DOMAIN cs -> DOMAIN cs]
  BY ForwardStep
<1>2. PICK f \in [Nat -> DOMAIN cs] : f[0] = r /\ \A n \in Nat : f[n + 1] = step[f[n]]
  <2> HIDE DEF step
  <2> QED BY <1>1, IterationExists
<1>3. Is(f)
  <2>1. ASSUME NEW n \in Nat, n # 0
        PROVE  f[n] = IF Successors(cs, f[n - 1]) = {} THEN f[n - 1]
                      ELSE LastOf(Successors(cs, f[n - 1]))
    <3>1. n - 1 \in Nat /\ (n - 1) + 1 = n
      BY <2>1
    <3>2. f[n] = step[f[n - 1]]
      BY <1>2, <3>1
    <3> QED BY <1>2, <3>1, <3>2 DEF NextOf
  <2> QED BY <1>2, <2>1
<1>4. WalkFrom(cs, r) = CHOOSE w : Is(w)
  BY DEF WalkFrom
<1> DEFINE w == WalkFrom(cs, r)
<1>5. Is(w)
  <2> HIDE DEF Is
  <2> QED BY <1>3, <1>4
<1>6. w[0] = r
  BY <1>5
<1>7. ASSUME NEW n \in Nat PROVE w[n + 1] = NextOf(cs, w[n])
  <2>1. n + 1 \in Nat /\ n + 1 # 0 /\ (n + 1) - 1 = n
    OBVIOUS
  <2> QED BY <1>5, <2>1 DEF NextOf
<1>8. w \in [Nat -> DOMAIN cs]
  <2> DEFINE T == {n \in Nat : w[n] \in DOMAIN cs}
  <2>1. 0 \in T /\ T \in SUBSET Nat
    BY <1>6
  <2>2. \A n \in T : n + 1 \in T
    BY <1>7, ForwardStep
  <2>3. T = Nat
    <3> HIDE DEF T
    <3> QED BY <2>1, <2>2, CountingUp
  <2>4. DOMAIN w = Nat /\ w = [n \in Nat |-> w[n]]
    BY <1>5
  <2> HIDE DEF w
  <2> QED BY <2>3, <2>4
<1> QED BY <1>6, <1>7, <1>8

\* The loop of claim_chain holds the claim asked for first, and steps back.
LEMMA WalksBack ==
  ASSUME NEW cs, Linear(cs), NEW i \in DOMAIN cs
  PROVE  /\ WalkBack(cs, i) \in [Nat -> DOMAIN cs]
         /\ WalkBack(cs, i)[0] = i
         /\ \A n \in Nat : WalkBack(cs, i)[n + 1] = PrevOf(cs, WalkBack(cs, i)[n])
<1> DEFINE step == [p \in DOMAIN cs |-> PrevOf(cs, p)]
           named(p) == {j \in DOMAIN cs : ClaimId(cs[j]) = cs[p].supersedes}
           Is(w) == w = [n \in Nat |->
                           IF n = 0 THEN i
                           ELSE IF named(w[n - 1]) = {} THEN w[n - 1] ELSE LastOf(named(w[n - 1]))]
<1>1. step \in [DOMAIN cs -> DOMAIN cs]
  BY BackwardStep
<1>2. PICK f \in [Nat -> DOMAIN cs] : f[0] = i /\ \A n \in Nat : f[n + 1] = step[f[n]]
  <2> HIDE DEF step
  <2> QED BY <1>1, IterationExists
<1>3. Is(f)
  <2>1. ASSUME NEW n \in Nat, n # 0
        PROVE  f[n] = IF named(f[n - 1]) = {} THEN f[n - 1] ELSE LastOf(named(f[n - 1]))
    <3>1. n - 1 \in Nat /\ (n - 1) + 1 = n
      BY <2>1
    <3>2. f[n] = step[f[n - 1]]
      BY <1>2, <3>1
    <3> QED BY <1>2, <3>1, <3>2 DEF PrevOf, Named
  <2> QED BY <1>2, <2>1
<1>4. WalkBack(cs, i) = CHOOSE w : Is(w)
  BY DEF WalkBack
<1> DEFINE w == WalkBack(cs, i)
<1>5. Is(w)
  <2> HIDE DEF Is
  <2> QED BY <1>3, <1>4
<1>6. w[0] = i
  BY <1>5
<1>7. ASSUME NEW n \in Nat PROVE w[n + 1] = PrevOf(cs, w[n])
  <2>1. n + 1 \in Nat /\ n + 1 # 0 /\ (n + 1) - 1 = n
    OBVIOUS
  <2> QED BY <1>5, <2>1 DEF PrevOf, Named
<1>8. w \in [Nat -> DOMAIN cs]
  <2> DEFINE T == {n \in Nat : w[n] \in DOMAIN cs}
  <2>1. 0 \in T /\ T \in SUBSET Nat
    BY <1>6
  <2>2. \A n \in T : n + 1 \in T
    BY <1>7, BackwardStep
  <2>3. T = Nat
    <3> HIDE DEF T
    <3> QED BY <2>1, <2>2, CountingUp
  <2>4. DOMAIN w = Nat /\ w = [n \in Nat |-> w[n]]
    BY <1>5
  <2> HIDE DEF w
  <2> QED BY <2>3, <2>4
<1> QED BY <1>6, <1>7, <1>8

--------------------------------------------------------------------------------
(* Where the loops end.                                                      *)

\* The claim claim_chain starts the chain of cs[i] from.
RootOf(cs, i) == WalkBack(cs, i)[Len(cs)]

\* Once a claim has no successor the walk holds it for ever, and from the Len(cs)-th
\* turn on the walk holds such a claim: it never meets a claim twice.
LEMMA WalkStops ==
  ASSUME NEW cs, Linear(cs), NEW r \in DOMAIN cs
  PROVE  /\ HeadOf(cs, r) \in DOMAIN cs
         /\ Successors(cs, HeadOf(cs, r)) = {}
         /\ \A n \in Nat : Successors(cs, WalkFrom(cs, r)[n]) = {} =>
              WalkFrom(cs, r)[n] = HeadOf(cs, r)
         /\ \A n \in Nat : \E k \in 0..Len(cs) : WalkFrom(cs, r)[n] = WalkFrom(cs, r)[k]
<1> DEFINE w == WalkFrom(cs, r)
<1>0. Len(cs) \in Nat /\ DOMAIN cs = 1..Len(cs)
  BY LenProperties DEF Linear
<1>1. w \in [Nat -> DOMAIN cs] /\ w[0] = r /\ \A n \in Nat : w[n + 1] = NextOf(cs, w[n])
  BY WalksForward
<1> HIDE DEF w
<1>2. \A n \in Nat : w[n] > n \/ NextOf(cs, w[n]) = w[n]
  <2> DEFINE T == {n \in Nat : w[n] > n \/ NextOf(cs, w[n]) = w[n]}
  <2>1. 0 \in T
    BY <1>0, <1>1
  <2>2. ASSUME NEW n \in T PROVE n + 1 \in T
    <3>1. CASE NextOf(cs, w[n]) = w[n]
      BY <1>1, <3>1
    <3>2. CASE NextOf(cs, w[n]) # w[n]
      <4>1. w[n] \in DOMAIN cs /\ w[n] > n /\ w[n + 1] = NextOf(cs, w[n])
        BY <1>1, <2>2, <3>2
      <4>2. w[n + 1] > w[n] /\ w[n + 1] \in DOMAIN cs
        BY <3>2, <4>1, ForwardStep
      <4> QED BY <1>0, <4>1, <4>2
    <3> QED BY <3>1, <3>2
  <2> HIDE DEF T
  <2>3. T = Nat
    <3>1. T \in SUBSET Nat
      BY DEF T
    <3> QED BY <2>1, <2>2, <3>1, CountingUp
  <2> QED BY <2>3 DEF T
<1>3. ASSUME NEW m \in Nat, NextOf(cs, w[m]) = w[m], NEW n \in Nat
      PROVE  m <= n => w[n] = w[m]
  <2> DEFINE T == {k \in Nat : m <= k => w[k] = w[m]}
  <2>1. 0 \in T
    OBVIOUS
  <2>2. ASSUME NEW k \in T PROVE k + 1 \in T
    <3>1. CASE m <= k
      BY <1>1, <1>3, <3>1, <2>2
    <3>2. CASE ~ (m <= k)
      <4>1. m <= k + 1 => m = k + 1
        BY <2>2, <3>2
      <4> QED BY <4>1, <2>2
    <3> QED BY <3>1, <3>2
  <2> HIDE DEF T
  <2>3. T = Nat
    <3>1. T \in SUBSET Nat
      BY DEF T
    <3> QED BY <2>1, <2>2, <3>1, CountingUp
  <2> QED BY <2>3 DEF T
<1>4. w[Len(cs)] \in DOMAIN cs /\ NextOf(cs, w[Len(cs)]) = w[Len(cs)]
  BY <1>0, <1>1, <1>2
<1>5. ASSUME NEW n \in Nat, NextOf(cs, w[n]) = w[n] PROVE w[n] = w[Len(cs)]
  <2>1. n <= Len(cs) \/ Len(cs) <= n
    BY <1>0
  <2> QED BY <1>0, <1>3, <1>4, <1>5, <2>1
<1>6. ASSUME NEW n \in Nat PROVE \E k \in 0..Len(cs) : w[n] = w[k]
  <2>1. CASE n \in 0..Len(cs)
    BY <2>1
  <2>2. CASE n \notin 0..Len(cs)
    <3>1. Len(cs) <= n
      BY <1>0, <2>2
    <3>2. w[n] = w[Len(cs)]
      BY <1>0, <1>3, <1>4, <3>1
    <3> QED BY <1>0, <3>2
  <2> QED BY <2>1, <2>2
<1>7. HeadOf(cs, r) = w[Len(cs)]
  BY DEF HeadOf, w
<1>8. \A n \in Nat : Successors(cs, w[n]) = {} <=> NextOf(cs, w[n]) = w[n]
  BY <1>1, ForwardStep
<1> QED BY <1>0, <1>4, <1>5, <1>6, <1>7, <1>8 DEF w

\* The walk back of cs[i] ends at a root, which is cs[i] itself if that is one.
LEMMA BackStops ==
  ASSUME NEW cs, Linear(cs), NEW i \in DOMAIN cs
  PROVE  /\ RootOf(cs, i) \in Roots(cs)
         /\ cs[i].supersedes = None => RootOf(cs, i) = i
         /\ RootOf(cs, PrevOf(cs, i)) = RootOf(cs, i)
<1> DEFINE w == WalkBack(cs, i)
           v == WalkBack(cs, PrevOf(cs, i))
<1>0. Len(cs) \in Nat /\ DOMAIN cs = 1..Len(cs)
  BY LenProperties DEF Linear
<1>1. w \in [Nat -> DOMAIN cs] /\ w[0] = i /\ \A n \in Nat : w[n + 1] = PrevOf(cs, w[n])
  BY WalksBack
<1>2. /\ v \in [Nat -> DOMAIN cs] /\ v[0] = PrevOf(cs, i)
      /\ \A n \in Nat : v[n + 1] = PrevOf(cs, v[n])
  BY WalksBack, BackwardStep
<1>3. RootOf(cs, i) = w[Len(cs)] /\ RootOf(cs, PrevOf(cs, i)) = v[Len(cs)]
  BY DEF RootOf
<1> HIDE DEF w, v
<1>4. \A n \in Nat : w[n] + n <= Len(cs) \/ PrevOf(cs, w[n]) = w[n]
  <2> DEFINE T == {n \in Nat : w[n] + n <= Len(cs) \/ PrevOf(cs, w[n]) = w[n]}
  <2>1. 0 \in T
    BY <1>0, <1>1
  <2>2. ASSUME NEW n \in T PROVE n + 1 \in T
    <3>1. CASE PrevOf(cs, w[n]) = w[n]
      BY <1>1, <3>1
    <3>2. CASE PrevOf(cs, w[n]) # w[n]
      <4>1. w[n] \in DOMAIN cs /\ w[n] + n <= Len(cs) /\ w[n + 1] = PrevOf(cs, w[n])
        BY <1>1, <2>2, <3>2
      <4>2. w[n + 1] < w[n] /\ w[n + 1] \in DOMAIN cs
        BY <3>2, <4>1, BackwardStep
      <4> QED BY <1>0, <4>1, <4>2
    <3> QED BY <3>1, <3>2
  <2> HIDE DEF T
  <2>3. T = Nat
    <3>1. T \in SUBSET Nat
      BY DEF T
    <3> QED BY <2>1, <2>2, <3>1, CountingUp
  <2> QED BY <2>3 DEF T
<1>5. w[Len(cs)] \in DOMAIN cs /\ PrevOf(cs, w[Len(cs)]) = w[Len(cs)]
  BY <1>0, <1>1, <1>4
<1>6. w[Len(cs)] \in Roots(cs)
  BY <1>5, BackwardStep DEF Roots
<1>7. ASSUME cs[i].supersedes = None PROVE w[Len(cs)] = i
  <2> DEFINE T == {n \in Nat : w[n] = i}
  <2>1. 0 \in T
    BY <1>1
  <2>2. ASSUME NEW n \in T PROVE n + 1 \in T
    BY <1>1, <1>7, BackwardStep
  <2> HIDE DEF T
  <2>3. T = Nat
    <3>1. T \in SUBSET Nat
      BY DEF T
    <3> QED BY <2>1, <2>2, <3>1, CountingUp
  <2> QED BY <1>0, <2>3 DEF T
<1>8. v[Len(cs)] = w[Len(cs) + 1]
  <2> DEFINE T == {n \in Nat : v[n] = w[n + 1]}
  <2>1. 0 \in T
    <3>1. w[0 + 1] = PrevOf(cs, w[0])
      BY <1>1
    <3> QED BY <1>1, <1>2, <3>1
  <2>2. ASSUME NEW n \in T PROVE n + 1 \in T
    BY <1>1, <1>2
  <2> HIDE DEF T
  <2>3. T = Nat
    <3>1. T \in SUBSET Nat
      BY DEF T
    <3> QED BY <2>1, <2>2, <3>1, CountingUp
  <2> QED BY <1>0, <2>3 DEF T
<1>9. w[Len(cs) + 1] = w[Len(cs)]
  BY <1>0, <1>1, <1>5
<1> QED BY <1>3, <1>6, <1>7, <1>8, <1>9

--------------------------------------------------------------------------------
(* A chain is the same from wherever it is asked for.                        *)

\* Every claim a walk meets has the root the walk started from.
LEMMA WalkKeepsRoot ==
  ASSUME NEW cs, Linear(cs), NEW r \in Roots(cs), NEW n \in Nat
  PROVE  RootOf(cs, WalkFrom(cs, r)[n]) = r
<1> DEFINE w == WalkFrom(cs, r)
           T == {k \in Nat : RootOf(cs, w[k]) = r}
<1>0. r \in DOMAIN cs /\ cs[r].supersedes = None
  BY DEF Roots
<1>1. w \in [Nat -> DOMAIN cs] /\ w[0] = r /\ \A k \in Nat : w[k + 1] = NextOf(cs, w[k])
  BY <1>0, WalksForward
<1> HIDE DEF w
<1>2. 0 \in T
  BY <1>0, <1>1, BackStops
<1>3. ASSUME NEW k \in T PROVE k + 1 \in T
  <2>1. w[k] \in DOMAIN cs /\ w[k + 1] = NextOf(cs, w[k]) /\ w[k + 1] \in DOMAIN cs
    BY <1>1
  <2>2. CASE NextOf(cs, w[k]) = w[k]
    BY <2>1, <2>2
  <2>3. CASE NextOf(cs, w[k]) # w[k]
    <3>1. PrevOf(cs, w[k + 1]) = w[k]
      BY <2>1, <2>3, ForwardThenBack
    <3>2. RootOf(cs, w[k + 1]) = RootOf(cs, w[k])
      BY <2>1, <3>1, BackStops
    <3> QED BY <3>2
  <2> QED BY <2>2, <2>3
<1> HIDE DEF T
<1>4. T = Nat
  <2>1. T \in SUBSET Nat
    BY DEF T
  <2> QED BY <1>2, <1>3, <2>1, CountingUp
<1> QED BY <1>4 DEF T, w

\* Every claim is met by the walk from its root.
LEMMA RootReaches ==
  ASSUME NEW cs, Linear(cs), NEW i \in DOMAIN cs
  PROVE  \E n \in Nat : WalkFrom(cs, RootOf(cs, i))[n] = i
<1> DEFINE Reached(k) == \E n \in Nat : WalkFrom(cs, RootOf(cs, k))[n] = k
           Bad == {k \in DOMAIN cs : ~ Reached(k)}
<1>0. Len(cs) \in Nat /\ DOMAIN cs = 1..Len(cs)
  BY LenProperties DEF Linear
<1> SUFFICES ASSUME Bad # {} PROVE FALSE
  OBVIOUS
<1>1. PICK k \in Bad : \A j \in Bad : k <= j
  <2>1. Bad \in SUBSET Nat
    BY <1>0
  <2> HIDE DEF Bad
  <2> QED BY <2>1, SmallestElement
<1>2. k \in DOMAIN cs /\ RootOf(cs, k) \in Roots(cs) /\ RootOf(cs, k) \in DOMAIN cs
  BY <1>1, BackStops DEF Roots
<1> HIDE DEF Bad
<1> DEFINE w == WalkFrom(cs, RootOf(cs, k))
<1>w. w[0] = RootOf(cs, k) /\ \A n \in Nat : w[n + 1] = NextOf(cs, w[n])
  BY <1>2, WalksForward
<1>n. \A n \in Nat : w[n] # k
  BY <1>1 DEF Bad
<1> HIDE DEF w
<1>3. CASE cs[k].supersedes = None
  <2>1. RootOf(cs, k) = k
    BY <1>2, <1>3, BackStops
  <2> QED BY <1>w, <1>n, <2>1
<1>4. CASE cs[k].supersedes # None
  <2>1. PrevOf(cs, k) \in DOMAIN cs /\ PrevOf(cs, k) < k /\ NextOf(cs, PrevOf(cs, k)) = k
    BY <1>2, <1>4, BackwardStep
  <2>2. Reached(PrevOf(cs, k))
    <3>1. ~ (k <= PrevOf(cs, k))
      BY <1>0, <1>2, <2>1
    <3>2. PrevOf(cs, k) \notin Bad
      BY <1>1, <3>1
    <3> QED BY <2>1, <3>2 DEF Bad
  <2>3. RootOf(cs, PrevOf(cs, k)) = RootOf(cs, k)
    BY <1>2, BackStops
  <2>4. PICK n \in Nat : w[n] = PrevOf(cs, k)
    BY <2>2, <2>3 DEF w
  <2>5. w[n + 1] = k /\ n + 1 \in Nat
    BY <1>w, <2>1, <2>4
  <2> QED BY <1>n, <2>5
<1> QED BY <1>3, <1>4

\* A claim without a successor is the head of the chain its root starts.
LEMMA HeadOfRoot ==
  ASSUME NEW cs, Linear(cs), NEW i \in DOMAIN cs, Successors(cs, i) = {}
  PROVE  HeadOf(cs, RootOf(cs, i)) = i
<1>1. RootOf(cs, i) \in DOMAIN cs
  BY BackStops DEF Roots
<1>2. PICK n \in Nat : WalkFrom(cs, RootOf(cs, i))[n] = i
  BY RootReaches
<1> QED BY <1>1, <1>2, WalkStops

\* The head of a root's chain has that root.
LEMMA RootOfHead ==
  ASSUME NEW cs, Linear(cs), NEW r \in Roots(cs)
  PROVE  /\ HeadOf(cs, r) \in DOMAIN cs /\ Successors(cs, HeadOf(cs, r)) = {}
         /\ RootOf(cs, HeadOf(cs, r)) = r
<1>1. r \in DOMAIN cs /\ Len(cs) \in Nat
  BY LenProperties DEF Roots, Linear
<1>2. RootOf(cs, HeadOf(cs, r)) = r
  BY <1>1, WalkKeepsRoot DEF HeadOf
<1> QED BY <1>1, <1>2, WalkStops

\* The chain of a claim holds it, and the claims with its root and no other.
LEMMA ChainHolds ==
  ASSUME NEW cs, Linear(cs), NEW i \in DOMAIN cs
  PROVE  /\ i \in claim_chain(cs, i)
         /\ \A j \in claim_chain(cs, i) :
              j \in DOMAIN cs /\ RootOf(cs, j) = RootOf(cs, i)
              /\ claim_chain(cs, j) = claim_chain(cs, i)
<1>r. PICK r \in Roots(cs) : r = RootOf(cs, i)
  BY BackStops
<1> DEFINE w == WalkFrom(cs, r)
<1>0. r \in DOMAIN cs /\ Len(cs) \in Nat
  BY LenProperties DEF Roots, Linear
<1>1. \A j : claim_chain(cs, j) = {WalkFrom(cs, RootOf(cs, j))[n] : n \in 0..Len(cs)}
  BY DEF claim_chain, RootOf
<1>2. PICK n \in Nat : w[n] = i
  BY <1>r, RootReaches
<1>w. /\ w \in [Nat -> DOMAIN cs] /\ \A m \in Nat : RootOf(cs, w[m]) = r
      /\ \A m \in Nat : \E k \in 0..Len(cs) : w[m] = w[k]
  <2>1. w \in [Nat -> DOMAIN cs]
    BY <1>0, WalksForward
  <2>2. \A m \in Nat : RootOf(cs, w[m]) = r
    BY WalkKeepsRoot
  <2>3. \A m \in Nat : \E k \in 0..Len(cs) : w[m] = w[k]
    BY <1>0, WalkStops
  <2> QED BY <2>1, <2>2, <2>3
<1> HIDE DEF w
<1>3. PICK k \in 0..Len(cs) : w[k] = i
  BY <1>2, <1>w
<1>4. i \in claim_chain(cs, i)
  BY <1>r, <1>1, <1>3 DEF w
<1>5. ASSUME NEW j \in claim_chain(cs, i)
      PROVE  j \in DOMAIN cs /\ RootOf(cs, j) = r /\ claim_chain(cs, j) = claim_chain(cs, i)
  <2>1. PICK m \in 0..Len(cs) : w[m] = j
    BY <1>r, <1>1 DEF w
  <2>2. m \in Nat
    BY <1>0
  <2>3. j \in DOMAIN cs /\ RootOf(cs, j) = r
    BY <1>w, <2>1, <2>2
  <2> QED BY <1>r, <1>1, <2>3
<1> QED BY <1>r, <1>4, <1>5

--------------------------------------------------------------------------------
(* The body.                                                                 *)

\* A claim that has a successor is not current.
LEMMA CurrentHasNoSuccessor ==
  ASSUME NEW cs, Linear(cs), NEW i \in DOMAIN cs, cs[i].status = "current"
  PROVE  Successors(cs, i) = {}
<1> SUFFICES ASSUME NEW q \in DOMAIN cs, cs[q].supersedes = ClaimId(cs[i]) PROVE FALSE
  BY DEF Successors
<1>0. cs \in Seq(Claims) /\ Len(cs) \in Nat /\ DOMAIN cs = 1..Len(cs)
  BY LenProperties DEF Linear
<1>1. cs[q].supersedes # None
  BY <1>0, IdsAreNotNone
<1>2. PICK k \in 1..(q - 1) : ClaimId(cs[k]) = cs[q].supersedes /\ cs[k].status # "current"
  BY <1>1 DEF Linear, LinksBackward
<1>3. k = i
  BY <1>0, <1>2 DEF Linear, UniqueIds
<1> QED BY <1>2, <1>3

\* The current claims are the heads the body shows.
LEMMA CurrentIsShown ==
  ASSUME NEW cs, Linear(cs), NEW i \in DOMAIN cs, cs[i].status = "current"
  PROVE  /\ RootOf(cs, i) \in DOMAIN render_body(cs)
         /\ HeadOf(cs, RootOf(cs, i)) = i
         /\ i \in current_claims(cs)
<1>1. HeadOf(cs, RootOf(cs, i)) = i /\ RootOf(cs, i) \in Roots(cs)
  BY CurrentHasNoSuccessor, HeadOfRoot, BackStops
<1> QED BY <1>1 DEF current_claims, render_body

\* With linear chains the projection is faithful, and both loops end.
LEMMA LinearProjects ==
  ASSUME ChainInv PROVE ProjectionFaithful /\ ProjectionTerminates
<1>0. Linear(claims)
  BY DEF ChainInv, ChainsLinear, TypeOK, Linear
<1>1. {HeadOf(claims, r) : r \in DOMAIN render_body(claims)} =
        {i \in DOMAIN claims : claims[i].status = "current"}
  <2>1. ASSUME NEW r \in DOMAIN render_body(claims)
        PROVE  HeadOf(claims, r) \in DOMAIN claims /\ claims[HeadOf(claims, r)].status = "current"
    BY DEF render_body, current_claims
  <2>2. ASSUME NEW i \in DOMAIN claims, claims[i].status = "current"
        PROVE  \E r \in DOMAIN render_body(claims) : HeadOf(claims, r) = i
    BY <1>0, <2>2, CurrentIsShown
  <2> QED BY <2>1, <2>2
<1>2. ASSUME NEW i \in DOMAIN claims
      PROVE  /\ i \in claim_chain(claims, i)
             /\ \A j \in claim_chain(claims, i) : claim_chain(claims, j) = claim_chain(claims, i)
             /\ Cardinality(claim_chain(claims, i) \cap current_claims(claims)) <= 1
  <2> DEFINE shown == claim_chain(claims, i) \cap current_claims(claims)
             h == HeadOf(claims, RootOf(claims, i))
  <2>1. ASSUME NEW x \in shown PROVE x = h
    <3>1. PICK r \in Roots(claims) : HeadOf(claims, r) = x
      BY DEF current_claims
    <3>2. RootOf(claims, x) = r
      BY <1>0, <3>1, RootOfHead
    <3>3. RootOf(claims, x) = RootOf(claims, i)
      BY <1>0, ChainHolds
    <3> QED BY <3>1, <3>2, <3>3
  <2>2. shown = {} \/ shown = {h}
    <3> HIDE DEF shown, h
    <3> QED BY <2>1
  <2>3. Cardinality({}) = 0 /\ Cardinality({h}) = 1
    BY FS_EmptySet, FS_Singleton
  <2>4. Cardinality(shown) <= 1
    <3> HIDE DEF shown, h
    <3> QED BY <2>2, <2>3
  <2> QED BY <1>0, <2>4, ChainHolds
<1>3. WalkEnds(claims)
  BY <1>0, RootOfHead DEF WalkEnds
<1> QED BY <1>1, <1>2, <1>3 DEF ProjectionFaithful, ProjectionTerminates

\* The body of a concept is its current claims, each once and all of them, and the
\* history a reader gets is the chain of the claim asked about, whichever that is.
THEOREM BodiesAreFaithful == ASSUME ~ RepeatedParagraphs PROVE Spec => []ProjectionFaithful
<1>1. ChainInv => ProjectionFaithful
  BY LinearProjects
<1> QED BY <1>1, ChainInvariant, PTL

\* current_claims returns for every concept a run can build, however long: the loop
\* meets no claim twice.
THEOREM BodiesAlwaysRender == ASSUME ~ RepeatedParagraphs PROVE Spec => []ProjectionTerminates
<1>1. ChainInv => ProjectionTerminates
  BY LinearProjects
<1> QED BY <1>1, ChainInvariant, PTL

--------------------------------------------------------------------------------
(* A step changes one paragraph of the body at most.                         *)

\* The root of a claim is not moved by what a merge appends.
LEMMA RootStays ==
  ASSUME NEW cs, NEW ds, Linear(cs), Linear(ds), Retained(cs, ds), NEW i \in DOMAIN cs
  PROVE  RootOf(ds, i) = RootOf(cs, i)
<1> DEFINE Bad == {k \in DOMAIN cs : RootOf(ds, k) # RootOf(cs, k)}
<1>0. /\ Len(cs) \in Nat /\ DOMAIN cs = 1..Len(cs) /\ Len(ds) \in Nat /\ DOMAIN ds = 1..Len(ds)
      /\ DOMAIN cs \subseteq DOMAIN ds
      /\ \A k \in DOMAIN cs : ClaimId(ds[k]) = ClaimId(cs[k]) /\ ds[k].supersedes = cs[k].supersedes
  BY LenProperties DEF Linear, Retained
<1> SUFFICES ASSUME Bad # {} PROVE FALSE
  OBVIOUS
<1>1. PICK k \in Bad : \A j \in Bad : k <= j
  <2>1. Bad \in SUBSET Nat
    BY <1>0
  <2> HIDE DEF Bad
  <2> QED BY <2>1, SmallestElement
<1>2. k \in DOMAIN cs /\ k \in DOMAIN ds /\ RootOf(ds, k) # RootOf(cs, k)
  BY <1>0, <1>1
<1> HIDE DEF Bad
<1>3. CASE cs[k].supersedes = None
  <2>1. RootOf(cs, k) = k /\ RootOf(ds, k) = k
    BY <1>0, <1>2, <1>3, BackStops
  <2> QED BY <1>2, <2>1
<1>4. CASE cs[k].supersedes # None
  <2>1. /\ PrevOf(cs, k) \in DOMAIN cs /\ PrevOf(cs, k) < k
        /\ ClaimId(cs[PrevOf(cs, k)]) = cs[k].supersedes
    BY <1>2, <1>4, BackwardStep
  <2>2. PrevOf(ds, k) \in DOMAIN ds /\ ClaimId(ds[PrevOf(ds, k)]) = ds[k].supersedes
    BY <1>0, <1>2, <1>4, BackwardStep
  <2>3. PrevOf(ds, k) = PrevOf(cs, k)
    BY <1>0, <1>2, <2>1, <2>2 DEF Linear, UniqueIds
  <2>4. PrevOf(cs, k) \notin Bad
    <3>1. ~ (k <= PrevOf(cs, k))
      BY <1>0, <1>2, <2>1
    <3> QED BY <1>1, <3>1
  <2>5. RootOf(ds, PrevOf(cs, k)) = RootOf(cs, PrevOf(cs, k))
    BY <2>1, <2>4 DEF Bad
  <2>6. RootOf(cs, PrevOf(cs, k)) = RootOf(cs, k) /\ RootOf(ds, PrevOf(ds, k)) = RootOf(ds, k)
    BY <1>2, BackStops
  <2> QED BY <1>2, <2>3, <2>5, <2>6
<1> QED BY <1>3, <1>4

\* A paragraph whose claim keeps its status and gets no successor stays as it is.
LEMMA ParagraphKept ==
  ASSUME NEW cs, NEW ds, Linear(cs), Linear(ds), Retained(cs, ds),
         NEW r \in DOMAIN render_body(cs),
         ds[HeadOf(cs, r)].status = "current"
  PROVE  r \in DOMAIN render_body(ds) /\ render_body(ds)[r] = render_body(cs)[r]
<1> DEFINE h == HeadOf(cs, r)
<1>1. r \in Roots(cs) /\ h \in DOMAIN cs /\ RootOf(cs, h) = r
  BY RootOfHead DEF render_body
<1>2. h \in DOMAIN ds
  BY <1>1, LenProperties DEF Retained, Linear
<1>3. RootOf(ds, h) = r
  BY <1>1, RootStays
<1>4. r \in DOMAIN render_body(ds) /\ HeadOf(ds, r) = h
  BY <1>2, <1>3, CurrentIsShown
<1>5. ds[h].statement = cs[h].statement
  BY <1>1, RetainedFields
<1> QED BY <1>4, <1>5 DEF render_body

\* The two bodies a step relates.
Changed(cs, ds) == {r \in DOMAIN render_body(cs) : render_body(ds)[r] # render_body(cs)[r]}

\* Every step of a merge keeps every paragraph in its place and changes at most one.
LEMMA ParagraphsStep ==
  ASSUME ~ RepeatedParagraphs, ChainInv, Next
  PROVE  /\ DOMAIN render_body(claims) \subseteq DOMAIN render_body(claims')
         /\ Cardinality(Changed(claims, claims')) <= 1
<1>0. Linear(claims) /\ Linear(claims') /\ Retained(claims, claims')
  <2>1. ChainInv'
    BY ChainInvStep
  <2> QED BY <2>1, RetainedStep DEF ChainInv, ChainsLinear, TypeOK, Linear
<1>1. \A r \in DOMAIN render_body(claims) :
        HeadOf(claims, r) \in DOMAIN claims /\ claims[HeadOf(claims, r)].status = "current"
        /\ r \in Roots(claims)
  BY DEF render_body, current_claims
<1>2. Cardinality({}) = 0
  BY FS_EmptySet
<1>3. ASSUME \A i \in DOMAIN claims : claims[i].status = "current" => claims'[i].status = "current"
      PROVE  /\ DOMAIN render_body(claims) \subseteq DOMAIN render_body(claims')
             /\ Cardinality(Changed(claims, claims')) <= 1
  <2>1. \A r \in DOMAIN render_body(claims) :
          r \in DOMAIN render_body(claims') /\ render_body(claims')[r] = render_body(claims)[r]
    BY <1>0, <1>1, <1>3, ParagraphKept
  <2>2. Changed(claims, claims') = {}
    BY <2>1 DEF Changed
  <2> QED BY <1>2, <2>1, <2>2
<1>4. ASSUME NEW i \in DOMAIN claims, NEW old, NEW new, Supersedes(i, old, new)
      PROVE  /\ DOMAIN render_body(claims) \subseteq DOMAIN render_body(claims')
             /\ Cardinality(Changed(claims, claims')) <= 1
  <2> DEFINE n == Len(claims) + 1
             slot == RootOf(claims, i)
  <2>1. /\ DOMAIN claims' = 1..n /\ claims'[n] = new /\ i \in DOMAIN claims'
        /\ \A j \in DOMAIN claims : j # i => claims'[j] = claims[j]
        /\ Len(claims) \in Nat /\ n \in DOMAIN claims'
    BY <1>4, AfterSupersedes
  <2>2. new.status = "current" /\ new.supersedes = ClaimId(claims[i])
    BY <1>4 DEF Supersedes
  <2>3. slot \in DOMAIN render_body(claims')
    <3>1. ClaimId(claims'[i]) = ClaimId(claims[i]) /\ claims \in Seq(Claims)
      BY <1>0, RetainedFields DEF Linear
    <3>2. claims'[n].supersedes # None
      BY <2>1, <2>2, <3>1, IdsAreNotNone
    <3>3. PrevOf(claims', n) \in DOMAIN claims' /\ ClaimId(claims'[PrevOf(claims', n)]) = ClaimId(claims'[i])
      BY <1>0, <2>1, <2>2, <3>1, <3>2, BackwardStep
    <3>4. PrevOf(claims', n) = i
      BY <1>0, <2>1, <3>3 DEF Linear, UniqueIds
    <3>5. RootOf(claims', n) = RootOf(claims', i)
      BY <1>0, <2>1, <3>4, BackStops
    <3>6. RootOf(claims', i) = slot
      BY <1>0, RootStays
    <3>7. RootOf(claims', n) \in DOMAIN render_body(claims')
      BY <1>0, <2>1, <2>2, CurrentIsShown
    <3> QED BY <3>5, <3>6, <3>7
  <2>4. ASSUME NEW r \in DOMAIN render_body(claims), r # slot
        PROVE  r \in DOMAIN render_body(claims') /\ render_body(claims')[r] = render_body(claims)[r]
    <3>1. HeadOf(claims, r) # i
      BY <1>0, <1>1, <2>4, RootOfHead
    <3>2. claims'[HeadOf(claims, r)].status = "current"
      BY <1>1, <2>1, <3>1
    <3> QED BY <1>0, <3>2, ParagraphKept
  <2>5. Changed(claims, claims') = {} \/ Changed(claims, claims') = {slot}
    <3>1. \A r \in Changed(claims, claims') : r = slot
      BY <2>4 DEF Changed
    <3> QED BY <3>1
  <2>6. Cardinality({slot}) = 1
    BY FS_Singleton
  <2>7. Cardinality(Changed(claims, claims')) <= 1
    BY <1>2, <2>5, <2>6
  <2> QED BY <2>3, <2>4, <2>7
<1>5. ASSUME NEW new, Appends(new)
      PROVE  \A i \in DOMAIN claims : claims[i].status = "current" => claims'[i].status = "current"
  BY <1>5, AppendsShape
<1>6. CASE claims' = claims
  BY <1>3, <1>6
<1> QED BY <1>3, <1>4, <1>5, <1>6, StepShape

\* No step of a merge makes a paragraph of the body vanish or touches two of them.
THEOREM ParagraphsAlwaysStay == ASSUME ~ RepeatedParagraphs PROVE Spec => ParagraphsStay
<1> DEFINE Keeps == LET old == render_body(claims)
                        new == render_body(claims')
                    IN /\ DOMAIN old \subseteq DOMAIN new
                       /\ Cardinality({r \in DOMAIN old : new[r] # old[r]}) <= 1
<1>1. ChainInv /\ [Next]_vars => [Keeps]_vars
  BY ParagraphsStep DEF Changed
<1> QED BY <1>1, ChainInvariant, PTL DEF Spec, ParagraphsStay
================================================================================
