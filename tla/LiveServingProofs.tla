--------------------------- MODULE LiveServingProofs ---------------------------
(***************************************************************************)
(* What the registry of LiveServing guarantees for every number of bundles, *)
(* threads and readers, whatever is written to the disk and whenever.       *)
(***************************************************************************)
EXTENDS LiveServing, TLAPS

\* The server starts in a typed state.
LEMMA ServingTypeInit == Init => TypeOK
<1> SUFFICES ASSUME Init PROVE TypeOK
  OBVIOUS
<1>1. Initial \in Contents /\ Loading(Initial) \in Registrations /\ 0 \in 0..MaxWrites
  BY ServingAssumption DEF Loading, Registrations
<1>2. Fresh \in [Bundles -> Registrations]
  BY <1>1 DEF Fresh
<1> QED BY <1>1, <1>2 DEF Init, TypeOK, Steps

\* A read of refresh() that succeeds or raises keeps the types.
LEMMA ReadTypes ==
  ASSUME TypeOK, NEW t \in Threads, NEW from, NEW to \in Steps \ {"idle"},
         from # "idle", Goto(t, from, to),
         candidate' \in [Threads -> Contents], loaded' \in [Threads -> Contents],
         stage' \in [Threads -> Stages \cup {None}]
  PROVE  TypeOK'
  BY DEF TypeOK, Goto, registry

\* A refresh that returns keeps the types of everything but the registry.
LEMMA ReturnTypes ==
  ASSUME TypeOK, NEW t \in Threads, Return(t),
         active' \in [Bundles -> Registrations],
         health' \in [Bundles -> {"current", "failed"}],
         errors' \in [Bundles -> Stages \cup {None}],
         last' \in [Bundles -> Contents \cup {None}],
         activated' \subseteq Answerable
  PROVE  TypeOK'
<1>1. Initial \in Contents /\ Fresh \in [Bundles -> Registrations]
  BY ServingAssumption DEF Fresh, Loading, Registrations
<1> QED BY <1>1 DEF TypeOK, Return, Steps

\* What a refresh has at hand when it runs.
LEMMA InRefresh ==
  ASSUME TypeOK, NEW t \in Threads, at[t] # "idle"
  PROVE  /\ on[t] \in Bundles
         /\ disk[on[t]] \in Contents
         /\ candidate[t] \in Contents
         /\ Candidate(t) \in Registrations
         /\ Served(on[t], Candidate(t)) \in Answerable
  BY DEF TypeOK, Candidate, Registrations, Served, Answerable

\* Every step of the server and of the world keeps the types.
LEMMA ServingTypeStep == ASSUME TypeOK, [Next]_vars PROVE TypeOK'
<1>1. CASE UNCHANGED vars
  BY <1>1 DEF TypeOK, vars, registry, locals
<1>2. ASSUME NEW b \in Bundles, NEW c \in Contents, Write(b, c) PROVE TypeOK'
  BY <1>2, ServingAssumption DEF TypeOK, Write, registry, locals
<1>3. ASSUME NEW b \in Bundles, StartLoad(b) PROVE TypeOK'
  <2> DEFINE reg == [active[b] EXCEPT !.content = disk[b]]
  <2>1. active[b] \in Registrations /\ disk[b] \in Contents
    BY <1>3 DEF TypeOK
  <2>2. reg \in Registrations
    BY <2>1 DEF Registrations
  <2>3. active' = [active EXCEPT ![b] = reg]
    BY <1>3 DEF StartLoad
  <2> HIDE DEF reg
  <2>4. active' \in [Bundles -> Registrations]
    BY <2>2, <2>3 DEF TypeOK
  <2> QED BY <1>3, <2>4 DEF TypeOK, StartLoad, locals
<1>4. ASSUME NEW b \in Bundles, StartActivate(b) PROVE TypeOK'
  <2> DEFINE reg == [active[b] EXCEPT !.revision = disk[b]]
  <2>1. active[b] \in Registrations /\ disk[b] \in Contents
    BY <1>4 DEF TypeOK
  <2>2. reg \in Registrations
    BY <2>1 DEF Registrations
  <2>3. active' = [active EXCEPT ![b] = reg]
    BY <1>4 DEF StartActivate
  <2> HIDE DEF reg
  <2>4. active' \in [Bundles -> Registrations]
    BY <2>2, <2>3 DEF TypeOK
  <2>5. Served(b, active'[b]) \in Answerable
    BY <1>4, <2>4 DEF Served, Answerable, Registrations
  <2> QED BY <1>4, <2>4, <2>5 DEF TypeOK, StartActivate, locals
<1>5. ASSUME NEW t \in Threads, NEW b \in Bundles, Begin(t, b) PROVE TypeOK'
  BY <1>5 DEF TypeOK, Begin, registry, Steps
<1>6. ASSUME NEW t \in Threads, Refresh(t) PROVE TypeOK'
  <2>hash. CASE Hash(t)
    BY <2>hash, InRefresh, ReadTypes DEF TypeOK, Hash, Goto, Steps
  <2>hash_fails. CASE HashFails(t) \/ LoadFails(t) \/ ValidateFails(t) \/ IndexFails(t)
    <3>1. PICK from \in Steps \ {"idle"}, s \in Stages : Raise(t, from, s)
      BY <2>hash_fails DEF HashFails, LoadFails, ValidateFails, IndexFails, Steps, Stages
    <3>2. /\ candidate' \in [Threads -> Contents]
          /\ loaded' \in [Threads -> Contents]
          /\ stage' \in [Threads -> Stages \cup {None}]
      BY <3>1 DEF TypeOK, Raise
    <3>3. Goto(t, from, "failing") /\ "failing" \in Steps \ {"idle"}
      BY <3>1 DEF Raise, Steps
    <3> QED BY <3>2, <3>3, ReadTypes
  <2>load. CASE Load(t)
    BY <2>load, InRefresh, ReadTypes DEF TypeOK, Load, Goto, Steps
  <2>validate. CASE Validate(t) \/ Index(t)
    BY <2>validate, ReadTypes DEF TypeOK, Validate, Index, Steps
  <2>unchanged. CASE Unchanged(t)
    BY <2>unchanged, ReturnTypes DEF TypeOK, Unchanged
  <2>activate. CASE Activate(t)
    <3>1. Candidate(t) \in Registrations /\ Candidate(t).revision \in Contents
      BY <2>activate, InRefresh DEF Activate, Swap, Candidate
    <3> QED BY <2>activate, <3>1, InRefresh, ReturnTypes DEF TypeOK, Activate, Swap
  <2>fail. CASE Fail(t)
    BY <2>fail, ReturnTypes DEF TypeOK, Fail
  <2> QED
    BY <1>6, <2>hash, <2>hash_fails, <2>load, <2>validate, <2>unchanged, <2>activate, <2>fail
       DEF Refresh
<1>7. ASSUME NEW r \in Readers, NEW b \in Bundles, Ask(r, b) PROVE TypeOK'
  <2>1. Served(b, active[b]) \in Answerable
    BY DEF TypeOK, Served, Answerable, Registrations
  <2> QED BY <1>7, <2>1 DEF TypeOK, Ask, registry, locals
<1>8. ASSUME NEW r \in Readers, Answer(r) PROVE TypeOK'
  BY <1>8 DEF TypeOK, Answer, registry, locals
<1> QED BY <1>1, <1>2, <1>3, <1>4, <1>5, <1>6, <1>7, <1>8 DEF Next

\* What the safety properties rest on: nothing is served, refreshed or asked
\* before the registry is up, a recorded failure has a stage, and whatever is
\* served or being asked was activated.
ServingInv ==
  /\ TypeOK
  /\ \A b \in Bundles : boot[b] # "up" => last[b] = None
  /\ \A t \in Threads : at[t] # "idle" => Up
  /\ \A t \in Threads : at[t] = "failing" => stage[t] \in Stages
  /\ \A b \in Bundles : boot[b] = "up" => Served(b, active[b]) \in activated
  /\ \A r \in Readers : calls[r] # None => calls[r] \in activated
  /\ HistoryEndsInServed
  /\ HealthExplained
  /\ AnswersConsistent

\* The server starts in the inductive invariant.
LEMMA ServingInit == Init => ServingInv
<1> SUFFICES ASSUME Init PROVE ServingInv
  OBVIOUS
<1>1. TypeOK
  BY ServingTypeInit
<1> QED BY <1>1 DEF Init, ServingInv, HistoryEndsInServed, HealthExplained, AnswersConsistent

\* A step of refresh() that only reads keeps the inductive invariant.
LEMMA ReadKeeps ==
  ASSUME ServingInv, TypeOK', NEW t \in Threads, NEW from, NEW to, from # "idle",
         Goto(t, from, to), \A u \in Threads \ {t} : stage'[u] = stage[u],
         to = "failing" => stage'[t] \in Stages
  PROVE  ServingInv'
<1>1. /\ boot' = boot /\ last' = last /\ active' = active /\ activated' = activated
      /\ health' = health /\ errors' = errors /\ calls' = calls /\ answers' = answers
  BY DEF Goto, registry
<1>2. Up'
  BY <1>1 DEF ServingInv, Goto, Up
<1>3. \A u \in Threads : at'[u] = "failing" => stage'[u] \in Stages
  BY DEF ServingInv, Goto, TypeOK
<1>4. HistoryEndsInServed' /\ HealthExplained' /\ AnswersConsistent'
  BY <1>1 DEF ServingInv, HistoryEndsInServed, HealthExplained, AnswersConsistent
<1> QED BY <1>1, <1>2, <1>3, <1>4 DEF ServingInv, Served

\* A refresh that returns, having set the registry right for its bundle, keeps
\* the inductive invariant.
LEMMA ReturnKeeps ==
  ASSUME ServingInv, TypeOK', NEW t \in Threads, at[t] # "idle", Return(t),
         activated \subseteq activated',
         \A b \in Bundles : Served(b, active'[b]) \in activated',
         \A b \in Bundles : last'[b] # None => active'[b].revision = last'[b],
         \A b \in Bundles : health'[b] = "failed" <=> errors'[b] # None
  PROVE  ServingInv'
<1>1. boot' = boot /\ calls' = calls /\ answers' = answers
  BY DEF Return
<1>2. Up /\ Up'
  BY <1>1 DEF ServingInv, Up
<1>3. \A u \in Threads : at'[u] = "failing" => stage'[u] \in Stages
  BY DEF ServingInv, Return, TypeOK
<1>4. HistoryEndsInServed' /\ HealthExplained' /\ AnswersConsistent'
  BY <1>1 DEF ServingInv, HistoryEndsInServed, HealthExplained, AnswersConsistent
<1> QED BY <1>1, <1>2, <1>3, <1>4 DEF ServingInv, Up

\* Every step keeps the inductive invariant.
LEMMA ServingStep == ASSUME ServingInv, [Next]_vars PROVE ServingInv'
<1> USE DEF ServingInv
<1>0. TypeOK /\ TypeOK'
  BY ServingTypeStep
<1>1. CASE UNCHANGED vars
  BY <1>0, <1>1
  DEF vars, registry, locals, Up, Served, HistoryEndsInServed, HealthExplained,
      AnswersConsistent
<1>2. ASSUME NEW b \in Bundles, NEW c \in Contents, Write(b, c) PROVE ServingInv'
  BY <1>0, <1>2
  DEF Write, registry, locals, Up, Served, HistoryEndsInServed, HealthExplained,
      AnswersConsistent
<1>3. ASSUME NEW b \in Bundles, StartLoad(b) PROVE ServingInv'
  <2>1. \A a \in Bundles : a # b => active'[a] = active[a]
    BY <1>0, <1>3 DEF StartLoad, TypeOK
  <2>2. boot[b] = "new" /\ last[b] = None /\ last' = last /\ boot'[b] = "loaded"
    BY <1>0, <1>3 DEF StartLoad, TypeOK
  <2>3. HistoryEndsInServed'
    BY <2>1, <2>2 DEF HistoryEndsInServed
  <2> QED BY <1>0, <1>3, <2>1, <2>2, <2>3
          DEF StartLoad, locals, Up, Served, HealthExplained, AnswersConsistent, TypeOK
<1>4. ASSUME NEW b \in Bundles, StartActivate(b) PROVE ServingInv'
  <2>others. \A a \in Bundles : a # b => active'[a] = active[a] /\ boot'[a] = boot[a]
    BY <1>0, <1>4 DEF StartActivate, TypeOK
  <2>first. boot[b] = "loaded" /\ last[b] = None /\ last' = last
    BY <1>0, <1>4 DEF StartActivate, TypeOK
  <2>served. Served(b, active'[b]) \in activated' /\ activated \subseteq activated'
    BY <1>4 DEF StartActivate
  <2>history. HistoryEndsInServed'
    BY <2>others, <2>first DEF HistoryEndsInServed
  <2>idle. \A t \in Threads : at'[t] = "idle"
    BY <1>0, <1>4, <2>first DEF StartActivate, locals, Up
  <2> QED BY <1>0, <1>4, <2>others, <2>first, <2>served, <2>history, <2>idle
          DEF StartActivate, locals, Served, HealthExplained, AnswersConsistent, TypeOK
<1>5. ASSUME NEW t \in Threads, NEW b \in Bundles, Begin(t, b) PROVE ServingInv'
  BY <1>0, <1>5
  DEF Begin, registry, Up, Served, HistoryEndsInServed, HealthExplained, AnswersConsistent,
      TypeOK
<1>6. ASSUME NEW t \in Threads, Refresh(t) PROVE ServingInv'
  <2>1. CASE Hash(t) \/ Load(t) \/ Validate(t) \/ Index(t)
    <3>1. PICK from \in Steps \ {"idle"}, to \in Steps \ {"failing"} : Goto(t, from, to)
      BY <2>1 DEF Hash, Load, Validate, Index, Steps
    <3>2. stage' = stage
      BY <2>1 DEF Hash, Load, Validate, Index
    <3> QED BY <1>0, <3>1, <3>2, ReadKeeps
  <2>2. CASE HashFails(t) \/ LoadFails(t) \/ ValidateFails(t) \/ IndexFails(t)
    <3>1. PICK from \in Steps \ {"idle"}, s \in Stages : Raise(t, from, s)
      BY <2>2 DEF HashFails, LoadFails, ValidateFails, IndexFails, Steps, Stages
    <3>2. /\ Goto(t, from, "failing")
          /\ stage'[t] \in Stages
          /\ \A u \in Threads \ {t} : stage'[u] = stage[u]
      BY <1>0, <3>1 DEF Raise, TypeOK
    <3> QED BY <1>0, <3>2, ReadKeeps
  <2>3. CASE Unchanged(t) \/ Activate(t) \/ Fail(t)
    <3>1. at[t] # "idle" /\ on[t] \in Bundles /\ Up /\ Return(t)
      BY <1>0, <2>3 DEF Unchanged, Activate, Swap, Fail, TypeOK
    <3>2. \A b \in Bundles : Served(b, active[b]) \in activated
      BY <3>1 DEF Up
    <3>3. activated \subseteq activated' /\ \A b \in Bundles : Served(b, active'[b]) \in activated'
      BY <1>0, <2>3, <3>1, <3>2 DEF Unchanged, Activate, Swap, Fail, TypeOK
    <3>4. \A b \in Bundles : last'[b] # None => active'[b].revision = last'[b]
      BY <1>0, <2>3, <3>1 DEF Unchanged, Activate, Swap, Fail, TypeOK, HistoryEndsInServed
    <3>5. Fail(t) => stage[t] # None
      BY <1>0, ServingAssumption DEF Fail
    <3>6. \A b \in Bundles : health'[b] = "failed" <=> errors'[b] # None
      BY <1>0, <2>3, <3>1, <3>5 DEF Unchanged, Activate, Swap, Fail, TypeOK, HealthExplained
    <3> QED BY <1>0, <3>1, <3>3, <3>4, <3>6, ReturnKeeps
  <2> QED BY <1>6, <2>1, <2>2, <2>3 DEF Refresh
<1>7. ASSUME NEW r \in Readers, NEW b \in Bundles, Ask(r, b) PROVE ServingInv'
  BY <1>0, <1>7
  DEF Ask, registry, locals, Up, Served, HistoryEndsInServed, HealthExplained,
      AnswersConsistent, TypeOK
<1>8. ASSUME NEW r \in Readers, Answer(r) PROVE ServingInv'
  BY <1>0, <1>8
  DEF Answer, registry, locals, Up, Served, HistoryEndsInServed, HealthExplained,
      AnswersConsistent, TypeOK
<1> QED BY <1>1, <1>2, <1>3, <1>4, <1>5, <1>6, <1>7, <1>8 DEF Next

\* The inductive invariant holds in every reachable state.
LEMMA ServingInvariant == Spec => []ServingInv
<1>1. Init => ServingInv
  BY ServingInit
<1>2. ServingInv /\ [Next]_vars => ServingInv'
  BY ServingStep
<1> QED BY <1>1, <1>2, PTL DEF Spec

\* Every variable of the registry and of its callers keeps its type.
THEOREM ServingTypeCorrect == Spec => []TypeOK
<1>1. ServingInv => TypeOK
  BY DEF ServingInv
<1> QED BY <1>1, ServingInvariant, PTL

\* The activation history of every bundle ends in the revision it serves: the
\* swap under the lock loses no activation of another bundle.
THEOREM NoActivationLost == Spec => []HistoryEndsInServed
<1>1. ServingInv => HistoryEndsInServed
  BY DEF ServingInv
<1> QED BY <1>1, ServingInvariant, PTL

\* A bundle has an error to report exactly while it reports failed health.
THEOREM FailureIsExplained == Spec => []HealthExplained
<1>1. ServingInv => HealthExplained
  BY DEF ServingInv
<1> QED BY <1>1, ServingInvariant, PTL

\* History, health and errors of every bundle agree with one another and with what
\* is served.
THEOREM RecordsAlwaysAgree == Spec => []RecordsAgree
<1>1. ServingInv => RecordsAgree
  BY DEF ServingInv, RecordsAgree
<1> QED BY <1>1, ServingInvariant, PTL

\* Every answer bears the revision of the registration it came from.
THEOREM AnswersBearTheirRevision == Spec => []AnswersConsistent
<1>1. ServingInv => AnswersConsistent
  BY DEF ServingInv
<1> QED BY <1>1, ServingInvariant, PTL
================================================================================
