-------------------------- MODULE OperatorFilesProofs --------------------------
(* What the files an operator's commands share keep, whatever commands run at once *)
(* and wherever one dies: the gap ledger, the review queue, the state of the       *)
(* documentation sync, and the benchmark's recorded verdict.                       *)
EXTENDS GapLedger, ReviewQueue, SyncSurfaces, GateZero, FiniteSetTheorems,
        SequenceTheorems, TLAPS

--------------------------------------------------------------------------------
(* The gap ledger.                                                                *)

Ledgers == UNION {[D -> Record] : D \in SUBSET GapIds}
Tasks == [at : {"idle", "saving"}, write : Ledgers, stale : BOOLEAN]

GapShape == gaps \in Ledgers /\ task \in [Clients -> Tasks]

\* A client that is about to save and whose file has not changed since it loaded it
\* holds a ledger that keeps what the file has.
HoldsFile == \A c \in Clients : task[c].at = "saving" /\ ~task[c].stale => Keeps(gaps, task[c].write)

GapInv == GapShape /\ GapTypeOK /\ HoldsFile
--------------------------------------------------------------------------------
LEMMA EmptyLedger == <<>> \in Ledgers /\ WellFormed(<<>>)
<1>1. DOMAIN <<>> = {} OBVIOUS
<1>2. <<>> \in [{} -> Record] BY <1>1
<1> QED BY <1>1, <1>2 DEF Ledgers, WellFormed

LEMMA LedgerShape ==
  ASSUME NEW ledger \in Ledgers
  PROVE  /\ DOMAIN ledger \subseteq GapIds
         /\ ledger \in [DOMAIN ledger -> Record]
         /\ \A g \in DOMAIN ledger : /\ ledger[g] \in Record
                                     /\ ledger[g].seen \in Nat
BY DEF Ledgers, Record

LEMMA KeepsItself ==
  ASSUME NEW ledger \in Ledgers
  PROVE  Keeps(ledger, ledger)
BY LedgerShape DEF Keeps

\* Merging a batch that the ledger accepts keeps every gap, and its resolution.
LEMMA MergeKeeps ==
  ASSUME GapInv, NEW events \in SUBSET GapIds, NEW at \in Times, Mergeable(events, at)
  PROVE  /\ Merged(events, at) \in Ledgers
         /\ WellFormed(Merged(events, at))
         /\ Keeps(gaps, Merged(events, at))
<1> DEFINE merged == Merged(events, at)
           all == DOMAIN gaps \cup events
<1>1. /\ DOMAIN gaps \subseteq GapIds /\ at \in Nat
      /\ \A g \in DOMAIN gaps : gaps[g] \in Record /\ gaps[g].seen \in Nat
  BY LedgerShape, GapAssumption DEF GapInv, GapShape
<1>2. DOMAIN merged = all /\ all \subseteq GapIds
  BY <1>1 DEF Merged
<1>3. \A g \in all :
        /\ merged[g] \in Record
        /\ merged[g].reference # Unset <=> merged[g].status \in {"answered", "invalidated"}
  <2> SUFFICES ASSUME NEW g \in all
               PROVE  /\ merged[g] \in Record
                      /\ merged[g].reference # Unset <=> merged[g].status \in {"answered", "invalidated"}
    OBVIOUS
  <2>1. CASE g \notin DOMAIN gaps
    <3>1. merged[g] = [status |-> "open", seen |-> at, reference |-> Unset]
      BY <2>1 DEF Merged, NewGap
    <3> QED BY <3>1, <1>1 DEF Record
  <2>2. CASE g \in DOMAIN gaps /\ g \in events
    <3>1. merged[g] = [gaps[g] EXCEPT !.seen = at]
      BY <2>2 DEF Merged, Observed
    <3> QED BY <3>1, <2>2, <1>1 DEF Record, GapInv, GapTypeOK, WellFormed
  <2>3. CASE g \in DOMAIN gaps /\ g \notin events
    <3>1. merged[g] = gaps[g]
      BY <2>3 DEF Merged
    <3> QED BY <3>1, <2>3, <1>1 DEF GapInv, GapTypeOK, WellFormed
  <2> QED BY <2>1, <2>2, <2>3
<1>4. merged \in [all -> Record] BY <1>3 DEF Merged
<1>5. \A g \in DOMAIN gaps :
        /\ merged[g].seen >= gaps[g].seen
        /\ merged[g].status = gaps[g].status /\ merged[g].reference = gaps[g].reference
  <2> SUFFICES ASSUME NEW g \in DOMAIN gaps
               PROVE  /\ merged[g].seen >= gaps[g].seen
                      /\ merged[g].status = gaps[g].status /\ merged[g].reference = gaps[g].reference
    OBVIOUS
  <2>1. CASE g \in events
    <3>1. merged[g] = [gaps[g] EXCEPT !.seen = at] /\ at >= gaps[g].seen
      BY <2>1 DEF Merged, Observed, Mergeable
    <3> QED BY <3>1, <1>1 DEF Record
  <2>2. CASE g \notin events
    <3>1. merged[g] = gaps[g] BY <2>2 DEF Merged
    <3> QED BY <3>1, <1>1
  <2> QED BY <2>1, <2>2
<1> HIDE DEF merged
<1>6. merged \in Ledgers BY <1>2, <1>4 DEF Ledgers
<1>7. WellFormed(merged) BY <1>2, <1>3 DEF WellFormed
<1>8. Keeps(gaps, merged) BY <1>2, <1>5 DEF Keeps
<1> QED BY <1>6, <1>7, <1>8 DEF merged

\* Settling an open gap touches that gap alone, and does not take it back in time.
LEMMA ResolveKeeps ==
  ASSUME GapInv, NEW g \in GapIds, NEW at \in Times, Resolvable(g),
         NEW status, NEW reference,
         \/ status \in {"answered", "invalidated"} /\ reference \in References
         \/ status = "stale" /\ reference = Unset
  PROVE  /\ Resolved(g, status, reference, at) \in Ledgers
         /\ WellFormed(Resolved(g, status, reference, at))
         /\ Keeps(gaps, Resolved(g, status, reference, at))
<1> DEFINE new == Resolved(g, status, reference, at)
<1>1. /\ DOMAIN gaps \subseteq GapIds /\ at \in Nat
      /\ gaps \in [DOMAIN gaps -> Record]
      /\ \A h \in DOMAIN gaps : gaps[h] \in Record /\ gaps[h].seen \in Nat
  BY LedgerShape, GapAssumption DEF GapInv, GapShape
<1>2. g \in DOMAIN gaps /\ gaps[g].status = "open"
  BY DEF Resolvable
<1>3. /\ Later(gaps[g].seen, at) \in Nat
      /\ Later(gaps[g].seen, at) >= gaps[g].seen
  BY <1>1, <1>2 DEF Later
<1>4. DOMAIN new = DOMAIN gaps /\ \A h \in DOMAIN gaps \ {g} : new[h] = gaps[h]
  BY <1>1 DEF Resolved
<1>5. new[g] = [status |-> status, seen |-> Later(gaps[g].seen, at),
                reference |-> reference]
  BY <1>1, <1>2 DEF Resolved
<1>6. /\ new[g] \in Record
      /\ new[g].status = status /\ new[g].reference = reference
      /\ new[g].seen = Later(gaps[g].seen, at)
  BY <1>1, <1>2, <1>3, <1>5 DEF Record, Terminal
<1>7. status \in {"answered", "invalidated"} <=> reference # Unset
  BY GapAssumption
<1>8. \A h \in DOMAIN gaps :
        gaps[h].reference # Unset <=> gaps[h].status \in {"answered", "invalidated"}
  BY DEF GapInv, GapTypeOK, WellFormed
<1>9. new \in [DOMAIN gaps -> Record]
  BY <1>1, <1>4, <1>6 DEF Resolved
<1> HIDE DEF new
<1>10. new \in Ledgers BY <1>1, <1>9 DEF Ledgers
<1>11. WellFormed(new) BY <1>1, <1>4, <1>6, <1>7, <1>8 DEF WellFormed
<1>12. Keeps(gaps, new) BY <1>1, <1>2, <1>3, <1>4, <1>6 DEF Keeps
<1> QED BY <1>10, <1>11, <1>12 DEF new
--------------------------------------------------------------------------------
LEMMA GapInitInv == GapInit => GapInv
<1> SUFFICES ASSUME GapInit PROVE GapInv OBVIOUS
<1>1. NoTask \in Tasks BY EmptyLedger DEF NoTask, Tasks
<1>2. \A c \in Clients : task[c] = NoTask BY DEF GapInit
<1>3. GapShape BY <1>1, EmptyLedger DEF GapInit, GapShape
<1>4. GapTypeOK BY <1>2, EmptyLedger DEF GapInit, GapTypeOK, NoTask
<1>5. HoldsFile BY <1>2 DEF HoldsFile, NoTask
<1> QED BY <1>3, <1>4, <1>5 DEF GapInv

\* A client takes up a ledger that keeps the file's.
LEMMA BeginInv ==
  ASSUME GapInv, NEW c \in Clients, NEW new \in Ledgers, WellFormed(new), Keeps(gaps, new),
         Begin(c, new), UNCHANGED gaps
  PROVE  GapInv'
<1> DEFINE taken == [at |-> "saving", write |-> new, stale |-> FALSE]
<1>1. taken \in Tasks BY DEF Tasks
<1>2. /\ task' \in [Clients -> Tasks]
      /\ task'[c] = taken
      /\ \A d \in Clients \ {c} : task'[d] = task[d]
  BY <1>1 DEF Begin, GapInv, GapShape
<1>3. GapShape' BY <1>2 DEF GapInv, GapShape
<1>4. GapTypeOK' BY <1>2 DEF GapInv, GapTypeOK, WellFormed
<1>5. HoldsFile' BY <1>2 DEF GapInv, HoldsFile, Keeps
<1> QED BY <1>3, <1>4, <1>5 DEF GapInv

LEMMA SaveInv ==
  ASSUME GapInv, NEW c \in Clients, SaveLedger(c)
  PROVE  GapInv'
<1>1. gaps' = task[c].write /\ task[c].at = "saving" BY DEF SaveLedger
<1>2. gaps' \in Ledgers BY <1>1 DEF GapInv, GapShape, Tasks
<1>3. NoTask \in Tasks /\ WellFormed(NoTask.write) BY EmptyLedger DEF NoTask, Tasks
<1>4. task'[c] = NoTask BY DEF SaveLedger
<1>5. ASSUME NEW d \in Clients, d # c
      PROVE  /\ task'[d] \in Tasks
             /\ task'[d].write = task[d].write
             /\ task'[d].at = task[d].at
             /\ task'[d].at = "saving" /\ ~task'[d].stale => gaps' = gaps /\ ~task[d].stale
  <2>1. task[d] \in Tasks BY DEF GapInv, GapShape
  <2>2. task'[d] = [task[d] EXCEPT !.stale = @ \/ (task[d].at = "saving" /\ gaps' # gaps)]
    BY <1>5 DEF SaveLedger
  <2> QED BY <2>1, <2>2 DEF Tasks
<1>6. GapShape'
  <2>1. task' \in [Clients -> Tasks] BY <1>3, <1>4, <1>5 DEF SaveLedger
  <2> QED BY <1>2, <2>1 DEF GapShape
<1>7. GapTypeOK'
  <2>1. WellFormed(gaps') BY <1>1 DEF GapInv, GapTypeOK
  <2>2. \A d \in Clients : WellFormed(task'[d].write)
    BY <1>3, <1>4, <1>5 DEF GapInv, GapTypeOK
  <2> QED BY <2>1, <2>2 DEF GapTypeOK, WellFormed
<1>8. HoldsFile' BY <1>4, <1>5 DEF GapInv, HoldsFile, NoTask, Keeps
<1> QED BY <1>6, <1>7, <1>8 DEF GapInv

LEMMA DieInv ==
  ASSUME GapInv, NEW c \in Clients, DieUnsaved(c)
  PROVE  GapInv'
<1>1. NoTask \in Tasks /\ WellFormed(NoTask.write) BY EmptyLedger DEF NoTask, Tasks
<1>2. /\ task' \in [Clients -> Tasks] /\ gaps' = gaps
      /\ task'[c] = NoTask /\ \A d \in Clients \ {c} : task'[d] = task[d]
  BY <1>1 DEF DieUnsaved, GapInv, GapShape
<1>3. GapShape' BY <1>2 DEF GapInv, GapShape
<1>4. GapTypeOK' BY <1>1, <1>2 DEF GapInv, GapTypeOK, WellFormed
<1>5. HoldsFile' BY <1>2 DEF GapInv, HoldsFile, NoTask, Keeps
<1> QED BY <1>3, <1>4, <1>5 DEF GapInv

LEMMA ScanInv ==
  ASSUME GapInv, NEW c \in Clients, Scan(c)
  PROVE  GapInv'
<1>1. PICK events \in SUBSET GapIds, at \in Times :
        Mergeable(events, at) /\ Begin(c, Merged(events, at))
  BY DEF Scan
<1>2. UNCHANGED gaps BY DEF Scan
<1> QED BY <1>1, <1>2, MergeKeeps, BeginInv

LEMMA ResolveInv ==
  ASSUME GapInv, NEW c \in Clients, Resolve(c)
  PROVE  GapInv'
<1>1. PICK g \in GapIds, at \in Times :
        /\ Resolvable(g)
        /\ \E r \in [status : {"answered", "invalidated"}, reference : References]
                      \cup [status : {"stale"}, reference : {Unset}] :
             Begin(c, Resolved(g, r.status, r.reference, at))
  BY DEF Resolve
<1>2. PICK r \in [status : {"answered", "invalidated"}, reference : References]
                   \cup [status : {"stale"}, reference : {Unset}] :
        Begin(c, Resolved(g, r.status, r.reference, at))
  BY <1>1
<1>3. \/ r.status \in {"answered", "invalidated"} /\ r.reference \in References
      \/ r.status = "stale" /\ r.reference = Unset
  OBVIOUS
<1>4. UNCHANGED gaps BY DEF Resolve
<1>5. /\ Resolved(g, r.status, r.reference, at) \in Ledgers
      /\ WellFormed(Resolved(g, r.status, r.reference, at))
      /\ Keeps(gaps, Resolved(g, r.status, r.reference, at))
  BY <1>1, <1>3, ResolveKeeps
<1> QED BY <1>2, <1>4, <1>5, BeginInv

LEMMA GapNextInv == GapInv /\ [GapNext]_gapVars => GapInv'
<1> SUFFICES ASSUME GapInv, [GapNext]_gapVars PROVE GapInv' OBVIOUS
<1>1. CASE GapNext
  <2>1. PICK c \in Clients : Scan(c) \/ Resolve(c) \/ SaveLedger(c) \/ DieUnsaved(c)
    BY <1>1 DEF GapNext
  <2> QED BY <2>1, ScanInv, ResolveInv, SaveInv, DieInv
<1>2. CASE UNCHANGED gapVars
  BY <1>2 DEF gapVars, GapInv, GapShape, GapTypeOK, HoldsFile, WellFormed, Keeps
<1> QED BY <1>1, <1>2

\* Every ledger in the file, or in the hands of a client, is one whose settled gaps
\* carry a resolution exactly when they must (gaps/model.py: _validate_invariants).
THEOREM LedgerWellFormed == GapSpec => []GapTypeOK
<1>1. GapInv => GapTypeOK BY DEF GapInv
<1> QED BY <1>1, GapInitInv, GapNextInv, PTL DEF GapSpec

\* What one save changes, if the client's ledger is still the file's.
LEMMA StepKeeps ==
  ASSUME GapInv, [GapNext]_gapVars
  PROVE  SavesStale \/ Keeps(gaps, gaps')
<1>1. CASE \E c \in Clients : SaveLedger(c)
  <2>1. PICK c \in Clients : SaveLedger(c) BY <1>1
  <2>2. gaps' = task[c].write /\ task[c].at = "saving" /\ task'[c] = NoTask
    BY <2>1 DEF SaveLedger
  <2>3. CASE task[c].stale BY <2>2, <2>3 DEF SavesStale, NoTask
  <2>4. CASE ~task[c].stale BY <2>2, <2>4 DEF GapInv, HoldsFile
  <2> QED BY <2>3, <2>4
<1>2. CASE ~\E c \in Clients : SaveLedger(c)
  <2>1. gaps' = gaps BY <1>2 DEF GapNext, gapVars, Scan, Resolve, DieUnsaved
  <2> QED BY <2>1, KeepsItself DEF GapInv, GapShape
<1> QED BY <1>1, <1>2

\* No scan and no command of any number of clients loses a gap, reopens a settled
\* one or takes its resolution back, but for a save over a file that changed since
\* it was loaded (gaps/ledger.py has no lock).
THEOREM LedgerOnlyGrows == GapSpec => GapsOnlyGrow
<1>1. GapInv /\ [GapNext]_gapVars => [SavesStale \/ Keeps(gaps, gaps')]_gapVars
  BY StepKeeps
<1> QED BY <1>1, GapInitInv, GapNextInv, PTL DEF GapSpec, GapsOnlyGrow

--------------------------------------------------------------------------------
(* The review queue.                                                              *)

Item == [path : Paths, status : {"pending"} \cup Decisions, decisions : Seq(Decisions)]
Said == SUBSET (Nat \X Decisions)
Work == [at : {"idle", "locked", "changed", "writing"}, read : Seq(Item), write : Seq(Item),
         says : Said]

QueueTypeOK ==
    /\ items \in Seq(Item) /\ whole \in BOOLEAN
    /\ holder \in SUBSET Users
    /\ work \in [Users -> Work]
    /\ told \in Said

\* The three parts of QueueConsistent, of any list and what is said of it.
WaitsOnce(list) ==
    \A i, j \in DOMAIN list :
      list[i].path = list[j].path /\ list[i].status = "pending"
        /\ list[j].status = "pending" => i = j
Status(item) == IF item.decisions = <<>> THEN "pending"
                ELSE item.decisions[Len(item.decisions)]
StatusIsLast(list) == \A i \in DOMAIN list : list[i].status = Status(list[i])
Holds(list, said) ==
    \A t \in said :
      /\ t[1] \in DOMAIN list
      /\ \E k \in DOMAIN list[t[1]].decisions : list[t[1]].decisions[k] = t[2]
Sound(list) == WaitsOnce(list) /\ StatusIsLast(list)

\* A user in the queue holds the lock and has read what the file still says; what
\* it will write extends that, is sound, and has what the user will be told.
Locked(u) ==
    /\ work[u].at # "idle" => holder = {u} /\ work[u].read = items
    /\ work[u].at = "locked" => work[u].says = {}
Prepared(u) ==
    work[u].at \in {"changed", "writing"} =>
      Extends(items, work[u].write) /\ Sound(work[u].write) /\ Holds(work[u].write, work[u].says)

QueueInv ==
    /\ QueueTypeOK
    /\ Sound(items) /\ Holds(items, told)
    /\ \A u \in Users : Locked(u) /\ Prepared(u)
--------------------------------------------------------------------------------
\* An order of a finite set names every member once.
LEMMA OrderIsInjective ==
  ASSUME NEW set, IsFiniteSet(set), NEW order \in InOrder(set)
  PROVE  /\ order \in Seq(set)
         /\ \A i, j \in DOMAIN order : order[i] = order[j] => i = j
<1> DEFINE n == Cardinality(set)
<1>1. n \in Nat BY FS_CardinalityType
<1>2. order \in [1..n -> set] /\ DOMAIN order = 1..n /\ {order[i] : i \in 1..n} = set
  BY DEF InOrder
<1>3. IsFiniteSet(1..n) /\ Cardinality(1..n) = n
  BY <1>1, FS_Interval
<1>4. order \in Surjection(1..n, set)
  BY <1>2 DEF Surjection
<1>5. order \in Injection(1..n, set)
  BY <1>3, <1>4, FS_Surjection
<1>6. order \in Seq(set) BY <1>1, <1>2 DEF Seq
<1>7. \A i, j \in 1..n : order[i] = order[j] => i = j
  BY <1>5 DEF Injection, IsInjective
<1> QED BY <1>2, <1>6, <1>7

LEMMA ExtendsItself == ASSUME NEW list \in Seq(Item) PROVE Extends(list, list)
BY LenProperties DEF Extends, Item

\* What a list holds, a list that extends it holds.
LEMMA HoldsOn ==
  ASSUME NEW old \in Seq(Item), NEW new \in Seq(Item), NEW said \in Said,
         Extends(old, new), Holds(old, said)
  PROVE  Holds(new, said)
<1> SUFFICES ASSUME NEW t \in said
             PROVE  /\ t[1] \in DOMAIN new
                    /\ \E k \in DOMAIN new[t[1]].decisions : new[t[1]].decisions[k] = t[2]
  BY DEF Holds
<1>1. t[1] \in DOMAIN old /\ t[1] \in DOMAIN new
  <2>1. t[1] \in 1..Len(old) /\ Len(old) <= Len(new) /\ Len(new) \in Nat /\ Len(old) \in Nat
    BY DEF Holds, Extends
  <2> QED BY <2>1
<1>2. PICK k \in DOMAIN old[t[1]].decisions : old[t[1]].decisions[k] = t[2]
  BY DEF Holds
<1>3. old[t[1]] \in Item /\ new[t[1]] \in Item
  BY <1>1, LenProperties
<1>4. /\ k \in 1..Len(old[t[1]].decisions)
      /\ Len(old[t[1]].decisions) <= Len(new[t[1]].decisions)
      /\ new[t[1]].decisions[k] = old[t[1]].decisions[k]
  BY <1>1, <1>2, <1>3 DEF Extends, Item
<1>5. k \in DOMAIN new[t[1]].decisions
  BY <1>3, <1>4 DEF Item
<1> QED BY <1>1, <1>2, <1>4, <1>5

\* Queueing what does not wait yet extends the list and leaves it sound.
LEMMA QueueingExtends ==
  ASSUME NEW list \in Seq(Item), Sound(list), NEW blocked \in SUBSET Paths,
         NEW order \in InOrder(Fresh(list, blocked))
  PROVE  LET new == list \o [i \in DOMAIN order |-> NewItem(order[i])]
         IN  new \in Seq(Item) /\ Extends(list, new) /\ Sound(new)
<1> DEFINE added == [i \in DOMAIN order |-> NewItem(order[i])]
           new == list \o added
           fresh == Fresh(list, blocked)
<1>1. fresh \subseteq Paths /\ IsFiniteSet(fresh) /\ fresh \cap Pending(list) = {}
  BY QueueAssumption, FS_Subset DEF Fresh
<1>2. /\ order \in Seq(fresh)
      /\ \A i, j \in DOMAIN order : order[i] = order[j] => i = j
  BY <1>1, OrderIsInjective
<1>3. DOMAIN order = 1..Len(order) /\ Len(order) \in Nat /\ \A i \in 1..Len(order) : order[i] \in fresh
  BY <1>2, LenProperties
<1>4. \A i \in 1..Len(order) :
        NewItem(order[i]) \in Item /\ NewItem(order[i]).path = order[i]
        /\ NewItem(order[i]).status = "pending" /\ NewItem(order[i]).decisions = <<>>
  BY <1>1, <1>3 DEF NewItem, Item
<1>5. added \in Seq(Item) /\ Len(added) = Len(order) /\ \A i \in 1..Len(order) : added[i] = NewItem(order[i])
  BY <1>3, <1>4 DEF Seq
<1>6. /\ new \in Seq(Item) /\ Len(new) = Len(list) + Len(order)
      /\ \A i \in 1..Len(new) : new[i] = IF i <= Len(list) THEN list[i] ELSE added[i - Len(list)]
  <2> HIDE DEF added
  <2>1. /\ list \o added \in Seq(Item) /\ Len(list \o added) = Len(list) + Len(added)
        /\ \A i \in 1..Len(list) + Len(added) :
             (list \o added)[i] = IF i <= Len(list) THEN list[i] ELSE added[i - Len(list)]
    BY <1>5, ConcatProperties
  <2> QED BY <1>5, <2>1
<1>7. Len(list) \in Nat /\ DOMAIN list = 1..Len(list) /\ DOMAIN new = 1..Len(new)
  BY <1>6, LenProperties
<1> HIDE DEF new, added
<1>8. \A i \in DOMAIN list : new[i] = list[i]
  BY <1>3, <1>6, <1>7
<1>9. \A i \in DOMAIN new \ DOMAIN list :
        /\ i - Len(list) \in 1..Len(order)
        /\ new[i] = NewItem(order[i - Len(list)])
  BY <1>3, <1>5, <1>6, <1>7
<1>10. Extends(list, new)
  <2>1. \A i \in DOMAIN list : list[i] \in Item BY <1>7
  <2> QED BY <1>3, <1>6, <1>7, <1>8, <2>1 DEF Extends, Item
<1>11. StatusIsLast(new)
  BY <1>4, <1>8, <1>9 DEF Sound, StatusIsLast, Status
<1>12. WaitsOnce(new)
  <2> SUFFICES ASSUME NEW i \in DOMAIN new, NEW j \in DOMAIN new, new[i].path = new[j].path,
                      new[i].status = "pending", new[j].status = "pending"
               PROVE  i = j
    BY DEF WaitsOnce
  <2>1. CASE i \in DOMAIN list /\ j \in DOMAIN list
    BY <1>8, <2>1 DEF Sound, WaitsOnce
  <2>2. CASE i \notin DOMAIN list /\ j \notin DOMAIN list
    <3>1. order[i - Len(list)] = order[j - Len(list)] BY <1>4, <1>9, <2>2
    <3>2. i - Len(list) = j - Len(list) BY <1>2, <1>3, <1>9, <2>2, <3>1
    <3> QED BY <1>6, <1>7, <3>2
  <2>3. ASSUME NEW m \in DOMAIN list, NEW k \in DOMAIN new \ DOMAIN list,
               new[m].path = new[k].path, new[m].status = "pending"
        PROVE  FALSE
    <3>1. new[k].path \in fresh BY <1>3, <1>4, <1>9
    <3>2. list[m].path \in Pending(list) BY <1>8, <2>3 DEF Pending
    <3> QED BY <1>1, <1>8, <2>3, <3>1, <3>2
  <2> QED BY <2>1, <2>2, <2>3
<1> QED BY <1>6, <1>10, <1>11, <1>12 DEF Sound, new, added

\* Recording a decision extends the list, leaves it sound, and is in it.
LEMMA DecidingExtends ==
  ASSUME NEW list \in Seq(Item), Sound(list), NEW i \in DOMAIN list, NEW d \in Decisions
  PROVE  LET new == [list EXCEPT ![i] = Decided(list[i], d)]
         IN  new \in Seq(Item) /\ Extends(list, new) /\ Sound(new) /\ Holds(new, {<<i, d>>})
<1> DEFINE old == list[i]
           item == Decided(old, d)
           new == [list EXCEPT ![i] = item]
<1>1. Len(list) \in Nat /\ DOMAIN list = 1..Len(list) /\ \A j \in DOMAIN list : list[j] \in Item
  BY LenProperties
<1>2. old \in Item /\ old.decisions \in Seq(Decisions) /\ Len(old.decisions) \in Nat
  BY <1>1 DEF Item
<1>4. /\ Append(old.decisions, d) \in Seq(Decisions)
      /\ Len(Append(old.decisions, d)) = Len(old.decisions) + 1
      /\ Append(old.decisions, d)[Len(old.decisions) + 1] = d
      /\ \A k \in 1..Len(old.decisions) : Append(old.decisions, d)[k] = old.decisions[k]
  BY <1>2
<1>5. /\ item \in Item /\ item.path = old.path /\ item.status = d
      /\ item.decisions = Append(old.decisions, d)
  BY <1>2, <1>4 DEF Decided, Item
<1> HIDE DEF item
<1>6. /\ new \in Seq(Item) /\ Len(new) = Len(list)
      /\ \A j \in DOMAIN list : new[j] = IF j = i THEN item ELSE list[j]
  BY <1>1, <1>5, ExceptSeq
<1>7. DOMAIN new = DOMAIN list BY <1>1, <1>6, LenProperties
<1> HIDE DEF new
<1>8. Extends(list, new)
  <2> SUFFICES ASSUME NEW j \in DOMAIN list
               PROVE  /\ new[j].path = list[j].path
                      /\ Len(list[j].decisions) <= Len(new[j].decisions)
                      /\ \A k \in DOMAIN list[j].decisions : new[j].decisions[k] = list[j].decisions[k]
    BY <1>1, <1>6 DEF Extends
  <2>1. CASE j = i
    <3>1. new[j] = item /\ DOMAIN old.decisions = 1..Len(old.decisions)
      BY <1>2, <1>6, <2>1, LenProperties
    <3>2. Len(old.decisions) <= Len(old.decisions) + 1 BY <1>2
    <3> QED BY <1>4, <1>5, <2>1, <3>1, <3>2
  <2>2. CASE j # i
    <3>1. new[j] = list[j] BY <1>6, <2>2
    <3>2. Len(list[j].decisions) \in Nat BY <1>1 DEF Item
    <3> QED BY <3>1, <3>2
  <2> QED BY <2>1, <2>2
<1>9. StatusIsLast(new)
  <2>1. item.decisions # <<>> BY <1>2, <1>4, <1>5
  <2>2. Status(item) = d BY <1>2, <1>4, <1>5, <2>1 DEF Status
  <2> QED BY <1>5, <1>6, <1>7, <2>2 DEF Sound, StatusIsLast
<1>10. WaitsOnce(new)
  <2>1. item.status # "pending" BY <1>5 DEF Decisions
  <2> QED BY <1>6, <1>7, <2>1 DEF Sound, WaitsOnce
<1>11. Holds(new, {<<i, d>>})
  <2>1. Len(old.decisions) + 1 \in DOMAIN item.decisions BY <1>2, <1>4, <1>5
  <2> QED BY <1>4, <1>5, <1>6, <1>7, <2>1 DEF Holds
<1> QED BY <1>6, <1>8, <1>9, <1>10, <1>11 DEF Sound, new, item
--------------------------------------------------------------------------------
LEMMA NoWorkType == NoWork \in Work /\ NoWork.at = "idle"
BY EmptySeq DEF NoWork, Work, Said

LEMMA QueueInitInv == QueueInit => QueueInv
<1> SUFFICES ASSUME QueueInit PROVE QueueInv OBVIOUS
<1>1. <<>> \in Seq(Item) /\ DOMAIN <<>> = {} BY EmptySeq
<1>2. QueueTypeOK BY <1>1, NoWorkType DEF QueueInit, QueueTypeOK, Nobody, Said
<1>3. Sound(items) /\ Holds(items, told)
  BY <1>1 DEF QueueInit, Sound, WaitsOnce, StatusIsLast, Holds
<1>4. \A u \in Users : work[u].at = "idle" BY NoWorkType DEF QueueInit
<1> QED BY <1>2, <1>3, <1>4 DEF QueueInv, Locked, Prepared

\* A user that is in the queue is in it alone.
LEMMA Alone ==
  ASSUME QueueInv, NEW u \in Users, work[u].at # "idle"
  PROVE  \A v \in Users \ {u} : work[v].at = "idle"
<1> SUFFICES ASSUME NEW v \in Users, v # u, work[v].at # "idle" PROVE FALSE
  OBVIOUS
<1>1. holder = {u} /\ holder = {v} BY DEF QueueInv, Locked
<1> QED BY <1>1

LEMMA QueueStep == QueueInv /\ [QueueNext]_queueVars => QueueInv' /\ Extends(items, items')
<1> SUFFICES ASSUME QueueInv, [QueueNext]_queueVars PROVE QueueInv' /\ Extends(items, items')
  OBVIOUS
<1>0. /\ items \in Seq(Item) /\ work \in [Users -> Work] /\ Extends(items, items)
      /\ \A v \in Users : work[v] \in Work /\ Locked(v) /\ Prepared(v)
  BY ExtendsItself DEF QueueInv, QueueTypeOK
<1>1. ASSUME NEW u \in Users, Read(u) PROVE QueueInv' /\ Extends(items, items')
  <2>1. work[u].at = "idle" /\ holder = {} BY <1>1 DEF Read, Nobody
  <2>2. \A v \in Users : work[v].at = "idle" BY <1>0, <2>1 DEF Locked
  <2> DEFINE mine == [NoWork EXCEPT !.at = "locked", !.read = items]
  <2>3. mine \in Work /\ mine.at = "locked" /\ mine.read = items /\ mine.says = {}
    BY <1>0, NoWorkType DEF Work, NoWork
  <2> HIDE DEF mine
  <2>4. work' = [work EXCEPT ![u] = mine] /\ holder' = {u} /\ UNCHANGED <<items, whole, told>>
    BY <1>1 DEF Read, mine
  <2>5. QueueTypeOK' BY <2>3, <2>4 DEF QueueInv, QueueTypeOK
  <2>6. \A v \in Users : Locked(v)' /\ Prepared(v)'
    BY <1>0, <2>2, <2>3, <2>4 DEF Locked, Prepared
  <2> QED BY <1>0, <2>4, <2>5, <2>6 DEF QueueInv
\* A user in the queue moves on, and the list stays.
<1>2. ASSUME NEW u \in Users, NEW mine \in Work, work[u].at # "idle",
             mine.at \in {"changed", "writing"}, mine.read = work[u].read,
             Extends(items, mine.write), Sound(mine.write), Holds(mine.write, mine.says),
             work' = [work EXCEPT ![u] = mine], whole' \in BOOLEAN,
             UNCHANGED <<items, holder, told>>
      PROVE  QueueInv' /\ Extends(items, items')
  <2>1. QueueTypeOK' BY <1>2 DEF QueueInv, QueueTypeOK
  <2>2. \A v \in Users : Locked(v)' /\ Prepared(v)'
    BY <1>0, <1>2 DEF Locked, Prepared
  <2> QED BY <1>0, <1>2, <2>1, <2>2 DEF QueueInv
\* A user leaves the queue without having written.
<1>3. ASSUME NEW u \in Users, work[u].at # "idle",
             work' = [work EXCEPT ![u] = NoWork], holder' = {},
             UNCHANGED <<items, whole, told>>
      PROVE  QueueInv' /\ Extends(items, items')
  <2>1. \A v \in Users : work'[v].at = "idle"
    BY <1>0, <1>3, Alone, NoWorkType
  <2>2. QueueTypeOK' BY <1>3, NoWorkType DEF QueueInv, QueueTypeOK
  <2>3. \A v \in Users : Locked(v)' /\ Prepared(v)'
    BY <2>1 DEF Locked, Prepared
  <2> QED BY <1>0, <1>3, <2>2, <2>3 DEF QueueInv
<1>4. ASSUME NEW u \in Users, Enqueue(u) PROVE QueueInv' /\ Extends(items, items')
  <2>1. work[u].at = "locked" /\ work[u].read = items /\ work[u].says = {}
    BY <1>0, <1>4 DEF Enqueue, Locked
  <2>a. PICK blocked \in SUBSET Paths : \E order \in InOrder(Fresh(items, blocked)) :
           work' = [work EXCEPT ![u].at = "changed",
                       ![u].write = items \o [i \in DOMAIN order |-> NewItem(order[i])]]
    BY <1>4, <2>1 DEF Enqueue
  <2>2. PICK order \in InOrder(Fresh(items, blocked)) :
           work' = [work EXCEPT ![u].at = "changed",
                       ![u].write = items \o [i \in DOMAIN order |-> NewItem(order[i])]]
    BY <2>a
  <2> DEFINE new == items \o [i \in DOMAIN order |-> NewItem(order[i])]
             mine == [work[u] EXCEPT !.at = "changed", !.write = new]
  <2>3. new \in Seq(Item) /\ Extends(items, new) /\ Sound(new) /\ Holds(new, {})
    BY <1>0, QueueingExtends DEF QueueInv, Holds
  <2>4. work' = [work EXCEPT ![u] = mine] BY <1>0, <2>2 DEF Work
  <2> HIDE DEF new
  <2>5. /\ mine \in Work /\ mine.at = "changed" /\ mine.write = new /\ mine.says = {}
        /\ mine.read = work[u].read
    BY <1>0, <2>1, <2>3 DEF Work
  <2> HIDE DEF mine
  <2>6. UNCHANGED <<items, holder, told>> /\ whole' \in BOOLEAN
    BY <1>4 DEF Enqueue, QueueInv, QueueTypeOK
  <2> QED BY <1>2, <2>1, <2>3, <2>4, <2>5, <2>6
<1>5. ASSUME NEW u \in Users, Decide(u) PROVE QueueInv' /\ Extends(items, items')
  <2>1. work[u].at = "locked" /\ work[u].read = items
    BY <1>0, <1>5 DEF Decide, Locked
  <2>2. PICK i \in DOMAIN items, d \in Decisions :
           work' = [work EXCEPT ![u].at = "changed", ![u].says = {<<i, d>>},
                       ![u].write = [items EXCEPT ![i] = Decided(items[i], d)]]
    BY <1>5, <2>1 DEF Decide
  <2> DEFINE new == [items EXCEPT ![i] = Decided(items[i], d)]
             mine == [work[u] EXCEPT !.at = "changed", !.says = {<<i, d>>}, !.write = new]
  <2>3. new \in Seq(Item) /\ Extends(items, new) /\ Sound(new) /\ Holds(new, {<<i, d>>})
    BY <1>0, DecidingExtends DEF QueueInv
  <2>4. work' = [work EXCEPT ![u] = mine] BY <1>0, <2>2 DEF Work
  <2>5. {<<i, d>>} \in Said
    BY <1>0, LenProperties DEF Said
  <2> HIDE DEF new
  <2>6. /\ mine \in Work /\ mine.at = "changed" /\ mine.write = new /\ mine.says = {<<i, d>>}
        /\ mine.read = work[u].read
    BY <1>0, <2>3, <2>5 DEF Work
  <2> HIDE DEF mine
  <2>7. UNCHANGED <<items, holder, told>> /\ whole' \in BOOLEAN
    BY <1>5 DEF Decide, QueueInv, QueueTypeOK
  <2> QED BY <1>2, <2>1, <2>3, <2>4, <2>6, <2>7
<1>6. ASSUME NEW u \in Users, UnknownItem(u) PROVE QueueInv' /\ Extends(items, items')
  <2> DEFINE mine == [work[u] EXCEPT !.at = "changed", !.write = items]
  <2>1. work[u].at = "locked" /\ work[u].read = items /\ work[u].says = {}
    BY <1>0, <1>6 DEF UnknownItem, Locked
  <2>2. work' = [work EXCEPT ![u] = mine]
    BY <1>0, <1>6, <2>1 DEF UnknownItem, Work
  <2>3. /\ mine \in Work /\ mine.at = "changed" /\ mine.write = items /\ mine.says = {}
        /\ mine.read = work[u].read
    BY <1>0, <2>1 DEF Work
  <2> HIDE DEF mine
  <2>4. UNCHANGED <<items, holder, told>> /\ whole' \in BOOLEAN
    BY <1>6 DEF UnknownItem, QueueInv, QueueTypeOK
  <2>5. Sound(items) /\ Holds(items, {})
    BY DEF QueueInv, Holds
  <2> QED BY <1>0, <1>2, <2>1, <2>2, <2>3, <2>4, <2>5
<1>7. ASSUME NEW u \in Users, Truncate(u) PROVE QueueInv' /\ Extends(items, items')
  <2> DEFINE mine == [work[u] EXCEPT !.at = "writing"]
  <2>1. /\ mine \in Work /\ mine.at = "writing" /\ mine.write = work[u].write
        /\ mine.says = work[u].says /\ mine.read = work[u].read
    BY <1>0 DEF Work
  <2>2. work' = [work EXCEPT ![u] = mine] BY <1>0, <1>7 DEF Truncate, Work
  <2> HIDE DEF mine
  <2>3. work[u].at = "changed" /\ UNCHANGED <<items, holder, told>> /\ whole' \in BOOLEAN
    BY <1>7 DEF Truncate
  <2>4. Extends(items, mine.write) /\ Sound(mine.write) /\ Holds(mine.write, mine.says)
    BY <1>0, <2>1, <2>3 DEF Prepared
  <2> QED BY <1>2, <2>1, <2>2, <2>3, <2>4
<1>8. ASSUME NEW u \in Users, WriteAndUnlock(u) PROVE QueueInv' /\ Extends(items, items')
  <2>1. /\ work[u].at = "writing" /\ items' = work[u].write /\ whole' = TRUE /\ holder' = {}
        /\ told' = told \cup work[u].says /\ work' = [work EXCEPT ![u] = NoWork]
    BY <1>8 DEF WriteAndUnlock, Nobody
  <2>2. Extends(items, items') /\ Sound(items') /\ Holds(items', work[u].says)
        /\ items' \in Seq(Item) /\ work[u].says \in Said
    BY <1>0, <2>1 DEF Prepared, Work
  <2>3. Holds(items', told)
    BY <1>0, <2>2, HoldsOn DEF QueueInv, QueueTypeOK
  <2>4. Holds(items', told') BY <2>1, <2>2, <2>3 DEF Holds
  <2>5. \A v \in Users : work'[v].at = "idle"
    BY <1>0, <2>1, Alone, NoWorkType
  <2>6. QueueTypeOK' BY <2>1, <2>2, NoWorkType DEF QueueInv, QueueTypeOK, Said
  <2>7. \A v \in Users : Locked(v)' /\ Prepared(v)'
    BY <2>5 DEF Locked, Prepared
  <2> QED BY <2>2, <2>4, <2>6, <2>7 DEF QueueInv
<1>9. ASSUME NEW u \in Users, DieHolding(u) PROVE QueueInv' /\ Extends(items, items')
  BY <1>3, <1>9 DEF DieHolding, Nobody
<1>10. CASE UNCHANGED queueVars
  <2>1. QueueTypeOK' BY <1>10 DEF queueVars, QueueInv, QueueTypeOK
  <2>2. \A v \in Users : Locked(v)' /\ Prepared(v)'
    BY <1>0, <1>10 DEF queueVars, Locked, Prepared
  <2>3. UNCHANGED items /\ UNCHANGED told BY <1>10 DEF queueVars
  <2> QED BY <1>0, <2>1, <2>2, <2>3 DEF QueueInv
<1> QED BY <1>1, <1>4, <1>5, <1>6, <1>7, <1>8, <1>9, <1>10 DEF QueueNext

\* Whoever queues, decides, fails or dies, and in whatever order, no later queue
\* lacks an item or a recorded decision of an earlier one.
THEOREM QueueNeverShrinks == QueueSpec => QueueOnlyGrows
<1>1. QueueInv /\ [QueueNext]_queueVars => [Extends(items, items')]_queueVars
  BY QueueStep
<1> QED BY QueueInitInv, QueueStep, <1>1, PTL DEF QueueSpec, QueueOnlyGrows

\* Nothing waits twice, every status is that of the last decision, and every
\* decision a reviewer was told of is recorded.
THEOREM QueueStaysConsistent == QueueSpec => []QueueConsistent
<1>1. QueueInv => QueueConsistent
  BY DEF QueueInv, Sound, WaitsOnce, StatusIsLast, Status, Holds, QueueConsistent
<1> QED BY QueueInitInv, QueueStep, <1>1, PTL DEF QueueSpec

--------------------------------------------------------------------------------
(* The state a sync command leaves.                                               *)

State == [command : Commands, git_head : Int, snapshot : [sources : Versions, surface : Versions \cup {Edited}],
          mixed : BOOLEAN]

SyncTypeOK ==
    /\ sources \in Versions /\ surface \in Versions \cup {Edited}
    /\ commits \in Seq([sources : Versions, surface : Versions \cup {Edited}])
    /\ head \in Int
    /\ state_file \in State \cup {Missing, Torn}
    /\ syncing \in [at : {"idle", "writing", "recording"}, command : Commands,
                    rendering : Versions \cup {Edited}, mixed : BOOLEAN]

\* A state left by an undisturbed docs command records a rendered surface; an
\* undisturbed command renders what the sources say, and has once it has written.
RecordsRendered ==
    state_file \notin {Missing, Torn} /\ state_file.command = "docs" /\ ~state_file.mixed =>
      state_file.snapshot.surface = state_file.snapshot.sources
RendersSources ==
    syncing.at # "idle" /\ ~syncing.mixed =>
      /\ syncing.rendering = sources
      /\ syncing.at = "recording" /\ syncing.command = "docs" => surface = sources

SyncInv == SyncTypeOK /\ RecordsRendered /\ RendersSources
--------------------------------------------------------------------------------
\* A tree that was just rendered, or one somebody edited and nobody vouches for.
LEMMA SyncStarts == SyncInit => SyncInv
<1> SUFFICES ASSUME SyncInit PROVE SyncInv
  OBVIOUS
<1>1. sources \in Versions /\ surface \in Versions \cup {Edited} /\ surface \in {sources, Edited}
  BY DEF SyncInit
<1>2. commits \in Seq([sources : Versions, surface : Versions \cup {Edited}]) /\ head = 1
  BY <1>1 DEF SyncInit, Tree
<1>3. syncing = NoSync /\ syncing.at = "idle"
      /\ syncing \in [at : {"idle", "writing", "recording"}, command : Commands,
                      rendering : Versions \cup {Edited}, mixed : BOOLEAN]
  BY DEF SyncInit, NoSync, Commands
<1>4. ASSUME state_file # Missing
      PROVE  state_file \in State /\ (~state_file.mixed => state_file.snapshot.surface = state_file.snapshot.sources)
  <2>1. PICK c \in Commands :
          state_file = [command |-> c, git_head |-> NoHead, snapshot |-> Tree, mixed |-> surface = Edited]
    BY <1>4 DEF SyncInit
  <2>2. Tree \in [sources : Versions, surface : Versions \cup {Edited}]
        /\ Tree.surface = surface /\ Tree.sources = sources
    BY <1>1 DEF Tree
  <2>3. state_file.snapshot = Tree /\ (~state_file.mixed => surface # Edited)
    BY <2>1
  <2>4. (surface = Edited) \in BOOLEAN /\ NoHead \in Int
    BY DEF NoHead
  <2>5. state_file \in State
    BY <2>1, <2>2, <2>4 DEF State
  <2> QED BY <1>1, <2>2, <2>3, <2>5
<1> QED BY <1>1, <1>2, <1>3, <1>4 DEF SyncInv, SyncTypeOK, RecordsRendered, RendersSources

\* Whatever authors and commands do to the tree and the state file keeps it so.
LEMMA SyncStep == SyncInv /\ [SyncNext]_syncVars => SyncInv'
<1> SUFFICES ASSUME SyncInv, [SyncNext]_syncVars PROVE SyncInv'
  OBVIOUS
<1>0. SyncTypeOK /\ RecordsRendered /\ RendersSources
  BY DEF SyncInv
<1>1. CASE UNCHANGED syncVars
  BY <1>0, <1>1 DEF syncVars, SyncInv, SyncTypeOK, RecordsRendered, RendersSources
<1>2. ASSUME NEW command \in Commands, StartSync(command) PROVE SyncInv'
  <2>1. /\ syncing' = [at |-> "writing", command |-> command, rendering |-> sources, mixed |-> FALSE]
        /\ UNCHANGED <<sources, surface, commits, head, state_file>>
    BY <1>2 DEF StartSync
  <2>2. SyncTypeOK'
    BY <1>0, <2>1 DEF SyncTypeOK
  <2> QED BY <1>0, <2>1, <2>2 DEF SyncInv, RecordsRendered, RendersSources
<1>3. CASE WriteSurfaces
  <2>1. /\ syncing.at = "writing" /\ syncing'.at = "recording"
        /\ syncing'.command = syncing.command /\ syncing'.rendering = syncing.rendering
        /\ syncing'.mixed = syncing.mixed
        /\ surface' = IF syncing.command = "docs" THEN syncing.rendering ELSE surface
        /\ UNCHANGED <<sources, commits, head, state_file>>
    BY <1>0, <1>3 DEF WriteSurfaces, SyncTypeOK
  <2>2. SyncTypeOK'
    BY <1>0, <1>3, <2>1 DEF WriteSurfaces, SyncTypeOK
  <2> QED BY <1>0, <2>1, <2>2 DEF SyncInv, RecordsRendered, RendersSources
<1>4. CASE DieSyncing
  <2>1. /\ syncing' = NoSync /\ surface' \in {surface, Edited}
        /\ UNCHANGED <<sources, commits, head, state_file>>
    BY <1>4 DEF DieSyncing
  <2>2. SyncTypeOK'
    BY <1>0, <2>1 DEF SyncTypeOK, NoSync, Commands
  <2> QED BY <1>0, <2>1, <2>2 DEF SyncInv, RecordsRendered, RendersSources, NoSync
<1>5. CASE SaveSyncState
  <2> DEFINE state == [command |-> syncing.command, git_head |-> head,
                       snapshot |-> content_snapshot, mixed |-> syncing.mixed]
  <2>1. /\ syncing.at = "recording" /\ syncing' = NoSync /\ state_file' \in {state, state_file, Torn}
        /\ UNCHANGED <<sources, surface, commits, head>>
    BY <1>5 DEF SaveSyncState
  <2>2. /\ content_snapshot \in [sources : Versions, surface : Versions \cup {Edited}]
        /\ content_snapshot.surface = surface /\ content_snapshot.sources = sources
    BY <1>0 DEF content_snapshot, Tree, SyncTypeOK
  <2>3. /\ state \in State /\ state.command = syncing.command /\ state.mixed = syncing.mixed
        /\ state.snapshot = content_snapshot
    BY <1>0, <2>2 DEF State, SyncTypeOK
  <2> HIDE DEF state
  <2>4. SyncTypeOK'
    BY <1>0, <2>1, <2>3 DEF SyncTypeOK, NoSync, Commands
  <2>5. RecordsRendered'
    BY <1>0, <2>1, <2>2, <2>3 DEF RecordsRendered, RendersSources
  <2> QED BY <2>1, <2>4, <2>5 DEF SyncInv, RendersSources, NoSync
<1>6. CASE RemoveState
  BY <1>0, <1>6 DEF RemoveState, SyncInv, SyncTypeOK, RecordsRendered, RendersSources
<1>7. ASSUME NEW v \in Versions, EditSources(v) PROVE SyncInv'
  <2>1. /\ sources' \in Versions /\ UNCHANGED <<surface, commits, head, state_file>>
        /\ syncing' = [syncing EXCEPT !.mixed = syncing.at # "idle"]
    BY <1>7 DEF EditSources, Disturbed
  <2>2. SyncTypeOK' /\ syncing'.at = syncing.at /\ (syncing.at # "idle" => syncing'.mixed)
    BY <1>0, <2>1 DEF SyncTypeOK
  <2> QED BY <1>0, <2>1, <2>2 DEF SyncInv, RecordsRendered, RendersSources
<1>8. CASE EditSurface
  <2>1. /\ surface' = Edited /\ UNCHANGED <<sources, commits, head, state_file>>
        /\ syncing' = [syncing EXCEPT !.mixed = syncing.at # "idle"]
    BY <1>8 DEF EditSurface, Disturbed
  <2>2. SyncTypeOK' /\ syncing'.at = syncing.at /\ (syncing.at # "idle" => syncing'.mixed)
    BY <1>0, <2>1 DEF SyncTypeOK
  <2> QED BY <1>0, <2>1, <2>2 DEF SyncInv, RecordsRendered, RendersSources
<1>9. CASE CommitTree
  <2>1. /\ commits' = Append(commits, Tree) /\ head' = Len(commits')
        /\ UNCHANGED <<sources, surface, state_file, syncing>>
    BY <1>9 DEF CommitTree
  <2>2. Tree \in [sources : Versions, surface : Versions \cup {Edited}]
    BY <1>0 DEF Tree, SyncTypeOK
  <2>3. commits' \in Seq([sources : Versions, surface : Versions \cup {Edited}]) /\ head' \in Int
    BY <1>0, <2>1, <2>2, AppendProperties, LenProperties DEF SyncTypeOK
  <2>4. SyncTypeOK'
    BY <1>0, <2>1, <2>3 DEF SyncTypeOK
  <2> QED BY <1>0, <2>1, <2>4 DEF SyncInv, RecordsRendered, RendersSources
<1>10. ASSUME NEW c \in DOMAIN commits, CheckOut(c) PROVE SyncInv'
  <2>1. /\ head' = c /\ sources' = commits[c].sources /\ surface' = commits[c].surface
        /\ syncing' = [syncing EXCEPT !.mixed = syncing.at # "idle"]
        /\ UNCHANGED <<commits, state_file>>
    BY <1>10 DEF CheckOut, Disturbed
  <2>2. c \in Int /\ commits[c] \in [sources : Versions, surface : Versions \cup {Edited}]
    <3> DEFINE T == [sources : Versions, surface : Versions \cup {Edited}]
    <3>1. commits \in Seq(T)
      BY <1>0 DEF SyncTypeOK
    <3> HIDE DEF T
    <3>2. c \in 1..Len(commits) /\ Len(commits) \in Nat
      BY <1>10, <3>1, LenProperties
    <3>3. commits[c] \in T
      BY <3>1, <3>2, ElementOfSeq
    <3> QED BY <3>2, <3>3 DEF T
  <2>3. SyncTypeOK' /\ syncing'.at = syncing.at /\ (syncing.at # "idle" => syncing'.mixed)
    BY <1>0, <2>1, <2>2 DEF SyncTypeOK
  <2> QED BY <1>0, <2>1, <2>3 DEF SyncInv, RecordsRendered, RendersSources
<1> QED BY <1>1, <1>2, <1>3, <1>4, <1>5, <1>6, <1>7, <1>8, <1>9, <1>10 DEF SyncNext

\* Whatever was edited, committed, checked out or cut off since: a docs command that
\* skips its work would have changed nothing.
THEOREM SkipsAlwaysCurrent == SyncSpec => []SkipsAreCurrent
<1>1. SyncInv => SkipsAreCurrent
  BY DEF SyncInv, SyncTypeOK, RecordsRendered, SkipsAreCurrent, Skips, decide_sync, content_snapshot, Tree
<1> QED BY SyncStarts, SyncStep, <1>1, PTL DEF SyncSpec
--------------------------------------------------------------------------------
(* The Gate-0 verdict.                                                            *)

Stages == {"safety", "seeded", "growing", "grown", "fidelity", "done"}
Measured ==
    [at : Stages, local : BOOLEAN, ingests : IngestCounts, left : Int, loopSafe : Int, promptSafe : Int,
     start : Int, end : Int, added : Int, heads : Seq(Int \cup {Gold}), intact : BOOLEAN,
     onTarget : BOOLEAN, verdict : {"none", "GO", "NO-GO", "INVALID"}]

\* The fidelity ingests so far.
Ingested == FidelityIngests(bench.ingests) - bench.left

\* Before the fidelity ingests nothing is lost.  As long as each found its paragraph
\* there are two current statements, the last text and Gold; one that did not find it
\* lost Gold or left one too many, and nothing takes that back.
HeadsTell ==
    IF bench.onTarget
    THEN bench.intact /\ bench.heads = <<IF bench.at \in {"fidelity", "done"} THEN Ingested ELSE 0, Gold>>
    ELSE ~bench.intact \/ Len(bench.heads) > 2

GateInv ==
    /\ bench \in Measured \cup {NotRun, [at |-> "aborted"]}
    /\ bench.at \in Stages => HeadsTell
    /\ bench.at = "done" => (bench.verdict = "GO" => Met(0)) /\ (Met(1) => bench.verdict = "GO")
    /\ "GO" \in rows \cup {recorded, section} => bench.at = "done" /\ bench.verdict = "GO"
--------------------------------------------------------------------------------
\* What a comparison of equal figures may come to is TRUE of figures that are not
\* below, and nothing else is of figures above.
LEMMA ComparisonSays ==
  ASSUME NEW a \in Int, NEW b \in Int
  PROVE  (TRUE \in AtLeast(a, b) => a >= b) /\ (a > b => AtLeast(a, b) = {TRUE})
<1>1. CASE a = b
  <2>1. a >= b /\ ~(a > b)
    BY <1>1
  <2> QED BY <2>1
<1>2. CASE a > b
  <2>1. a # b /\ a >= b /\ (a > b) = TRUE
    BY <1>2
  <2>2. AtLeast(a, b) = {TRUE}
    BY <2>1 DEF AtLeast
  <2> QED BY <2>1, <2>2
<1>3. CASE a < b
  <2>1. a # b /\ ~(a > b) /\ (a > b) = FALSE
    BY <1>3
  <2>2. AtLeast(a, b) = {FALSE}
    BY <2>1 DEF AtLeast
  <2>3. TRUE \notin {FALSE}
    OBVIOUS
  <2> QED BY <2>1, <2>2, <2>3
<1>4. a = b \/ a > b \/ a < b
  OBVIOUS
<1> QED BY <1>1, <1>2, <1>3, <1>4, Zenon

\* What is left of an accuracy is what is not lost.
LEMMA LossIsDifference ==
  ASSUME NEW x \in Int, NEW y \in Int, NEW tolerated \in Int
  PROVE  /\ 100 * (x - y) + 0 <= tolerated <=> 100 * (y - x) + tolerated >= 0
         /\ 100 * (x - y) + 1 <= tolerated <=> 100 * (y - x) + tolerated > 0
OBVIOUS

\* What a run has measured, as numbers.
LEMMA MeasuredNumbers ==
  ASSUME bench \in Measured
  PROVE  /\ bench.ingests \in Nat /\ FidelityIngests(bench.ingests) \in Nat
         /\ bench.left \in Int /\ bench.loopSafe \in Int /\ bench.promptSafe \in Int
         /\ bench.start \in Int /\ bench.end \in Int /\ bench.added \in Int
         /\ bench.heads \in Seq(Int \cup {Gold}) /\ Ingested \in Int
<1>1. bench.ingests \in IngestCounts /\ IngestCounts \subseteq Nat
  BY GateAssumption DEF Measured
<1>2. FidelityIngests(bench.ingests) \in Nat
  BY <1>1, GateAssumption DEF FidelityIngests
<1>3. bench.left \in Int
  BY DEF Measured
<1>4. Ingested \in Int
  BY <1>2, <1>3 DEF Ingested
<1> QED BY <1>1, <1>2, <1>4 DEF Measured

\* The tolerances are numbers.
LEMMA TolerancesAreNumbers ==
  SafetyMargin * Contradictions \in Int /\ DriftTolerance * Cardinality(UpdateCases \cup CreateCases) \in Int
<1>1. SafetyMargin \in Int /\ Contradictions \in Int /\ DriftTolerance \in Int
  BY GateAssumption
<1>2. Cardinality(UpdateCases \cup CreateCases) \in Int
  BY GateAssumption, FS_CardinalityType
<1> QED BY <1>1, <1>2

\* A run under way is a record of all it has measured.
LEMMA RunMeasured == ASSUME GateInv, bench.at \in Stages PROVE bench \in Measured /\ HeadsTell
<1>1. NotRun.at = "idle" /\ [at |-> "aborted"].at = "aborted"
  BY DEF NotRun
<1>2. NotRun.at \notin Stages /\ [at |-> "aborted"].at \notin Stages
  BY <1>1 DEF Stages
<1> QED BY <1>2 DEF GateInv

\* How many notes are routed right is a number.
LEMMA AccuracyIsANumber == ASSUME NEW route PROVE _drift_accuracy(route) \in Nat
<1> DEFINE S == {c \in UpdateCases \cup CreateCases : _is_correct(c, route[c])}
<1>1. IsFiniteSet(S)
  BY GateAssumption, FS_Subset
<1> HIDE DEF S
<1>2. Cardinality(S) \in Nat
  BY <1>1, FS_CardinalityType
<1> QED BY <1>2 DEF _drift_accuracy, S

\* What a run that ends may report.
LEMMA ReportEarned ==
  ASSUME GateInv, bench.at = "fidelity", bench.left = 0, NEW v \in MeasuredVerdicts
  PROVE  (v = "GO" => Met(0)) /\ (Met(1) => v = "GO") /\ v \in {"GO", "NO-GO", "INVALID"}
<1> DEFINE a == 100 * (bench.loopSafe - bench.promptSafe)
           b == SafetyMargin * Contradictions
           d == DriftTolerance * Cardinality(UpdateCases \cup CreateCases)
           e == 100 * (bench.end - bench.start) + d
<1>1. bench \in Measured /\ HeadsTell
  BY RunMeasured DEF Stages
<1>2. a \in Int /\ b \in Int /\ d \in Int /\ e \in Int
  <2>1. b \in Int /\ d \in Int
    BY TolerancesAreNumbers
  <2>2. /\ bench.loopSafe \in Int /\ bench.promptSafe \in Int
        /\ bench.start \in Int /\ bench.end \in Int
    BY <1>1, MeasuredNumbers
  <2>3. a \in Int
    BY <2>2
  <2>4. 100 * (bench.end - bench.start) \in Int
    BY <2>2
  <2> HIDE DEF a, b, d
  <2> QED BY <2>1, <2>3, <2>4
<1>3. fidelity_ok <=> bench.onTarget
  <2> DEFINE f == FidelityIngests(bench.ingests)
  <2>1. f \in Nat /\ f - 0 = f
    BY <1>1, MeasuredNumbers
  <2>2. Ingested = f
    BY <2>1 DEF Ingested
  <2> HIDE DEF f
  <2>3. Len(<<f, Gold>>) = 2 /\ latest_reflected = (bench.heads = <<f, Gold>>)
    BY DEF latest_reflected, f
  <2>4. HeadsTell /\ bench.at \in {"fidelity", "done"} /\ bench.onTarget \in BOOLEAN
    BY <1>1 DEF Measured
  <2>5. CASE bench.onTarget
    <3>1. bench.intact /\ bench.heads = <<f, Gold>>
      BY <2>2, <2>4, <2>5, Zenon DEF HeadsTell
    <3> QED BY <2>3, <2>5, <3>1, Zenon DEF fidelity_ok
  <2>6. CASE ~bench.onTarget
    <3>1. ~bench.intact \/ Len(bench.heads) > 2
      BY <2>4, <2>6, Zenon DEF HeadsTell
    <3>2. ASSUME latest_reflected PROVE ~(Len(bench.heads) > 2)
      <4>1. bench.heads = <<f, Gold>>
        BY <2>3, <3>2
      <4> QED BY <2>3, <4>1
    <3> QED BY <2>6, <3>1, <3>2, Zenon DEF fidelity_ok
  <2> QED BY <2>5, <2>6, Zenon
<1>4. 100 * (bench.start - bench.end) + 0 <= d <=> e >= 0
  BY <1>1, <1>2, MeasuredNumbers, LossIsDifference
<1>5. 100 * (bench.start - bench.end) + 1 <= d <=> e > 0
  BY <1>1, <1>2, MeasuredNumbers, LossIsDifference
<1>6. (TRUE \in beats_on_safety => a >= b) /\ (a > b => beats_on_safety = {TRUE})
  BY <1>2, ComparisonSays DEF beats_on_safety
<1>7. (TRUE \in KeptAccuracy => e >= 0) /\ (e > 0 => KeptAccuracy = {TRUE})
  <2>1. KeptAccuracy = AtLeast(e, 0)
    BY DEF KeptAccuracy
  <2> HIDE DEF e
  <2>2. 0 \in Int
    OBVIOUS
  <2>3. (TRUE \in AtLeast(e, 0) => e >= 0) /\ (e > 0 => AtLeast(e, 0) = {TRUE})
    BY <1>2, <2>2, ComparisonSays, Zenon
  <2> QED BY <2>1, <2>3, Zenon
<1> DEFINE rest == bench.ingests >= MinIngests /\ grew /\ bench.onTarget
<1>8. (TRUE \in no_degradation => rest /\ TRUE \in KeptAccuracy)
      /\ (rest /\ KeptAccuracy = {TRUE} => no_degradation = {TRUE})
  BY <1>3 DEF no_degradation
<1>9. Met(0) <=> ~bench.local /\ rest /\ a >= b /\ e >= 0
  BY <1>2, <1>4 DEF Met, grew
<1>10. Met(1) <=> ~bench.local /\ rest /\ a > b /\ e > 0
  BY <1>2, <1>5 DEF Met, grew
<1> HIDE DEF a, b, d, e
<1>11. v = "GO" => Met(0)
  <2> SUFFICES ASSUME v = "GO" PROVE Met(0)
    OBVIOUS
  <2>1. ~(bench.local /\ bench.ingests >= MinIngests)
        /\ \E safer \in beats_on_safety, kept \in no_degradation : safer /\ kept
    BY DEF MeasuredVerdicts
  <2>2. TRUE \in beats_on_safety /\ TRUE \in no_degradation
    BY <2>1 DEF beats_on_safety, no_degradation, KeptAccuracy, AtLeast
  <2> QED BY <1>6, <1>7, <1>8, <1>9, <2>1, <2>2
<1>12. ASSUME Met(1) PROVE v = "GO"
  <2>1. beats_on_safety = {TRUE} /\ no_degradation = {TRUE} /\ ~bench.local
    BY <1>6, <1>7, <1>8, <1>10, <1>12
  <2> QED BY <2>1 DEF MeasuredVerdicts
<1>13. v \in {"GO", "NO-GO", "INVALID"}
  BY DEF MeasuredVerdicts
<1> QED BY <1>11, <1>12, <1>13

\* A fidelity ingest that finds its paragraph replaces the last text; one that does
\* not loses Gold or leaves a statement too many.
LEMMA IngestTells ==
  ASSUME GateInv, bench.at = "fidelity", NEW picked \in 0..Len(bench.heads), _run_fidelity(picked)
  PROVE  bench' \in Measured /\ HeadsTell'
<1> DEFINE i == FidelityIngests(bench.ingests) - bench.left + 1
           heads == merge_update(bench.heads, picked, i)
<1>1. bench \in Measured /\ HeadsTell
  BY RunMeasured DEF Stages
<1>2. bench.ingests \in Nat /\ bench.left \in Int /\ bench.left > 0 /\ Ingested + 1 = i /\ i \in Int
      /\ FidelityIngests(bench.ingests) \in Int
  BY <1>1, MeasuredNumbers DEF _run_fidelity, Ingested
<1>3. bench' = [bench EXCEPT !.left = bench.left - 1, !.heads = heads,
                             !.intact = bench.intact /\ Stated(heads, Gold),
                             !.onTarget = bench.onTarget /\ picked = 1]
  BY Zenon DEF _run_fidelity
<1>4. bench.heads \in Seq(Int \cup {Gold}) /\ Len(bench.heads) \in Nat
  BY <1>1, LenProperties DEF Measured
<1> HIDE DEF i
<1>5. heads \in Seq(Int \cup {Gold})
      /\ Len(heads) = IF picked = 0 THEN Len(bench.heads) + 1 ELSE Len(bench.heads)
  <2>1. CASE picked = 0
    <3>1. heads = Append(bench.heads, i)
      BY <2>1 DEF merge_update
    <3>2. i \in Int \cup {Gold}
      BY <1>2
    <3>3. Append(bench.heads, i) \in Seq(Int \cup {Gold})
          /\ Len(Append(bench.heads, i)) = Len(bench.heads) + 1
      BY <1>4, <3>2, AppendProperties
    <3> QED BY <2>1, <3>1, <3>3
  <2>2. CASE picked # 0
    <3>1. heads = [bench.heads EXCEPT ![picked] = i]
      BY <2>2 DEF merge_update
    <3>2. picked \in 1..Len(bench.heads) /\ i \in Int \cup {Gold}
      BY <1>2, <1>4, <2>2
    <3> QED BY <1>4, <2>2, <3>1, <3>2, ExceptSeq
  <2> QED BY <2>1, <2>2
<1> DEFINE found == bench.onTarget /\ picked = 1
           kept == bench.intact /\ Stated(heads, Gold)
<1> HIDE DEF heads
<1>6. found \in BOOLEAN /\ kept \in BOOLEAN
  OBVIOUS
<1> HIDE DEF found, kept
<1>7. bench' = [bench EXCEPT !.left = bench.left - 1, !.heads = heads, !.intact = kept, !.onTarget = found]
  BY <1>3 DEF found, kept
<1>8. /\ bench'.at = "fidelity" /\ bench'.ingests = bench.ingests /\ bench'.left = bench.left - 1
      /\ bench'.heads = heads /\ bench'.onTarget = found /\ bench'.intact = kept
  BY <1>1, <1>7 DEF Measured
<1>9. bench' \in Measured
  <2>1. bench.left - 1 \in Int
    BY <1>2
  <2>2. heads \in Seq(Int \cup {Gold})
    BY <1>5
  <2> QED BY <1>1, <1>6, <1>7, <2>1, <2>2 DEF Measured
<1>10. Ingested' = i
  BY <1>2, <1>8 DEF Ingested, FidelityIngests
<1>11. HeadsTell /\ bench.at \in {"fidelity", "done"} /\ bench.onTarget \in BOOLEAN
  BY <1>1 DEF Measured
<1>12. CASE bench.onTarget
  <2>1. bench.intact /\ bench.heads = <<Ingested, Gold>>
    BY <1>12, <1>11, Zenon DEF HeadsTell
  <2>2. Len(bench.heads) = 2 /\ Ingested \in Int
    BY <1>1, <2>1, MeasuredNumbers
  <2>3. CASE picked = 1
    <3>1. heads = <<i, Gold>>
      BY <2>1, <2>3 DEF merge_update, heads
    <3>2. Stated(heads, Gold)
      BY <3>1 DEF Stated
    <3>3. found /\ kept
      BY <1>12, <2>1, <2>3, <3>2, Zenon DEF found, kept
    <3>4. bench'.at \in {"fidelity", "done"}
      BY <1>8
    <3> QED BY <1>8, <1>9, <1>10, <3>1, <3>3, <3>4, Zenon DEF HeadsTell
  <2>4. CASE picked = 0
    <3>1. Len(bench'.heads) > 2
      <4>1. Len(heads) = 3
        BY <1>5, <2>1, <2>2, <2>4
      <4>2. bench'.heads = heads
        BY <1>8
      <4>3. 3 > 2
        OBVIOUS
      <4> QED BY <4>1, <4>2, <4>3, Zenon
    <3>2. ~found
      BY <2>4 DEF found
    <3> QED BY <1>8, <1>9, <3>1, <3>2, Zenon DEF HeadsTell
  <2>5. CASE picked = 2
    <3>1. heads = <<Ingested, i>>
      BY <2>1, <2>5 DEF merge_update, heads
    <3>2. ~Stated(heads, Gold)
      BY <1>2, <2>2, <3>1, GateAssumption DEF Stated
    <3>3. ~found /\ ~kept
      BY <2>5, <3>2 DEF found, kept
    <3> QED BY <1>8, <1>9, <3>3, Zenon DEF HeadsTell
  <2> QED BY <2>2, <2>3, <2>4, <2>5
<1>13. CASE ~bench.onTarget
  <2>1. ~found
    BY <1>13 DEF found
  <2>2. ~bench.intact \/ Len(bench.heads) > 2
    BY <1>13, <1>11, Zenon DEF HeadsTell
  <2>3. ~kept \/ Len(heads) > 2
    <3>1. CASE ~bench.intact
      BY <3>1 DEF kept
    <3>2. CASE Len(bench.heads) > 2
      BY <1>4, <1>5, <3>2
    <3> QED BY <2>2, <3>1, <3>2
  <2> QED BY <1>8, <1>9, <2>1, <2>3, Zenon DEF HeadsTell
<1> QED BY <1>9, <1>12, <1>13, Zenon
--------------------------------------------------------------------------------
\* Nothing is published or measured when the benchmark has not run.
LEMMA GateStarts == ASSUME GateInit PROVE GateInv
<1>1. bench = NotRun /\ NotRun.at = "idle" /\ recorded = "NO-GO" /\ section = "NO-GO" /\ rows = {}
  BY DEF GateInit, NotRun
<1>2. bench.at \notin Stages /\ bench.at # "done"
  BY <1>1 DEF Stages
<1>3. "GO" \notin rows \cup {recorded, section}
  BY <1>1
<1> QED BY <1>1, <1>2, <1>3 DEF GateInv

\* A step of a run that publishes nothing keeps the invariant when what it measures does.
LEMMA RunStepKeeps ==
  ASSUME GateInv, bench.at # "done", UNCHANGED <<recorded, section, rows>>,
         bench' = [at |-> "aborted"] \/ (bench' \in Measured /\ bench'.at # "done" /\ HeadsTell')
  PROVE  GateInv'
<1>1. "GO" \notin rows' \cup {recorded', section'}
  BY DEF GateInv
<1>2. bench'.at # "done"
  OBVIOUS
<1>3. bench'.at \in Stages => HeadsTell'
  BY DEF Stages
<1> QED BY <1>1, <1>2, <1>3 DEF GateInv

\* Every step keeps the invariant.
LEMMA GateStep == ASSUME GateInv, [GateNext]_gateVars PROVE GateInv'
<1>1. ASSUME NEW local \in BOOLEAN, NEW n \in IngestCounts, Start(local, n) PROVE GateInv'
  <2>1. bench.at = "idle" /\ UNCHANGED <<recorded, section, rows>>
    BY <1>1 DEF Start, NotRun
  <2>2. bench' = [at |-> "safety", local |-> local, ingests |-> n, left |-> Contradictions,
                 loopSafe |-> 0, promptSafe |-> 0, start |-> 0, end |-> 0, added |-> 0,
                 heads |-> <<0, Gold>>, intact |-> TRUE, onTarget |-> TRUE, verdict |-> "none"]
    BY <1>1 DEF Start
  <2>3. <<0, Gold>> \in Seq(Int \cup {Gold})
    OBVIOUS
  <2>4. bench' \in Measured
    BY <2>2, <2>3, GateAssumption DEF Measured, Stages
  <2>5. bench'.at = "safety" /\ bench'.heads = <<0, Gold>> /\ bench'.intact /\ bench'.onTarget
    BY <2>2
  <2>6. HeadsTell'
    BY <2>5 DEF HeadsTell
  <2> QED BY <2>1, <2>4, <2>5, <2>6, RunStepKeeps
<1>2. ASSUME Abort PROVE GateInv'
  BY <1>2, RunStepKeeps DEF Abort
<1>3. ASSUME NEW flagged \in BOOLEAN, NEW preserved \in BOOLEAN, NEW judged,
             _run_safety(flagged, preserved, judged)
      PROVE  GateInv'
  <2>1. bench.at = "safety" /\ UNCHANGED <<recorded, section, rows>>
    BY <1>3 DEF _run_safety
  <2>2. bench \in Measured /\ HeadsTell
    BY <2>1, RunMeasured DEF Stages
  <2> DEFINE at == IF bench.left = 1 THEN "seeded" ELSE "safety"
             prompt == Tally(bench.promptSafe, flagged /\ preserved)
             loop == Tally(bench.loopSafe, judged = "conflict")
  <2>3. bench' = [bench EXCEPT !.at = at, !.left = bench.left - 1, !.promptSafe = prompt, !.loopSafe = loop]
    BY <1>3, Zenon DEF _run_safety
  <2>4. bench.promptSafe \in Int /\ bench.loopSafe \in Int /\ bench.left \in Int
        /\ (flagged /\ preserved) \in BOOLEAN /\ (judged = "conflict") \in BOOLEAN
    BY <2>2 DEF Measured
  <2>5. prompt \in Int /\ loop \in Int /\ bench.left - 1 \in Int
    BY <2>4 DEF Tally
  <2>6. at \in {"safety", "seeded"}
    OBVIOUS
  <2> HIDE DEF at, prompt, loop
  <2>7. bench' \in Measured
    BY <2>2, <2>3, <2>5, <2>6 DEF Measured, Stages
  <2>8. bench'.at = at /\ bench'.heads = bench.heads
        /\ bench'.intact = bench.intact /\ bench'.onTarget = bench.onTarget
    BY <2>2, <2>3 DEF Measured
  <2>9. HeadsTell'
    BY <2>1, <2>2, <2>8, <2>6 DEF HeadsTell
  <2> QED BY <2>1, <2>7, <2>8, <2>9, <2>6, RunStepKeeps
<1>4. ASSUME NEW route, MeasureStart(route) PROVE GateInv'
  <2>1. bench.at = "seeded" /\ UNCHANGED <<recorded, section, rows>>
    BY <1>4 DEF MeasureStart
  <2>2. bench \in Measured /\ HeadsTell
    BY <2>1, RunMeasured DEF Stages
  <2>3. bench' = [bench EXCEPT !.at = "growing", !.start = _drift_accuracy(route), !.left = bench.ingests]
        /\ _drift_accuracy(route) \in Int /\ bench.ingests \in Int
    BY <1>4, <2>2, AccuracyIsANumber, GateAssumption DEF MeasureStart, Measured
  <2>4. bench' \in Measured /\ bench'.at = "growing" /\ bench'.heads = bench.heads
        /\ bench'.intact = bench.intact /\ bench'.onTarget = bench.onTarget
    BY <2>2, <2>3 DEF Measured, Stages
  <2>5. HeadsTell'
    BY <2>1, <2>2, <2>4 DEF HeadsTell
  <2> QED BY <2>1, <2>4, <2>5, RunStepKeeps
<1>5. ASSUME NEW route, MeasureEnd(route) PROVE GateInv'
  <2>1. bench.at = "grown" /\ UNCHANGED <<recorded, section, rows>>
    BY <1>5 DEF MeasureEnd
  <2>2. bench \in Measured /\ HeadsTell
    BY <2>1, RunMeasured DEF Stages
  <2>3. bench.ingests \in Int /\ FidelityIngests(bench.ingests) \in Int
    BY <2>2, MeasuredNumbers
  <2>4. bench' = [bench EXCEPT !.at = "fidelity", !.end = _drift_accuracy(route),
                               !.left = FidelityIngests(bench.ingests)]
        /\ _drift_accuracy(route) \in Int
    BY <1>5, AccuracyIsANumber DEF MeasureEnd
  <2>5. bench' \in Measured /\ bench'.at = "fidelity" /\ bench'.heads = bench.heads
        /\ bench'.intact = bench.intact /\ bench'.onTarget = bench.onTarget
        /\ bench'.left = FidelityIngests(bench.ingests) /\ bench'.ingests = bench.ingests
    BY <2>2, <2>3, <2>4 DEF Measured, Stages
  <2>6. Ingested' = 0
    BY <2>3, <2>5 DEF Ingested, FidelityIngests
  <2>7. HeadsTell'
    BY <2>1, <2>2, <2>5, <2>6 DEF HeadsTell
  <2> QED BY <2>1, <2>5, <2>7, RunStepKeeps
<1>6. ASSUME NEW concepts \in 0..2, GrowOnce(concepts) PROVE GateInv'
  <2>1. bench.at = "growing" /\ UNCHANGED <<recorded, section, rows>>
    BY <1>6 DEF GrowOnce
  <2>2. bench \in Measured /\ HeadsTell
    BY <2>1, RunMeasured DEF Stages
  <2> DEFINE at == IF bench.left = 1 THEN "grown" ELSE "growing"
  <2>3. bench' = [bench EXCEPT !.at = at, !.left = bench.left - 1, !.added = bench.added + concepts]
        /\ bench.left - 1 \in Int /\ bench.added + concepts \in Int
    BY <1>6, <2>2 DEF GrowOnce, Measured
  <2>4. at \in {"grown", "growing"}
    OBVIOUS
  <2> HIDE DEF at
  <2>5. bench' \in Measured /\ bench'.at = at /\ bench'.heads = bench.heads
        /\ bench'.intact = bench.intact /\ bench'.onTarget = bench.onTarget
    BY <2>2, <2>3, <2>4 DEF Measured, Stages
  <2>6. HeadsTell'
    BY <2>1, <2>2, <2>5, <2>4 DEF HeadsTell
  <2> QED BY <2>1, <2>5, <2>6, <2>4, RunStepKeeps
<1>7. ASSUME bench.at = "fidelity", NEW picked \in 0..Len(bench.heads), _run_fidelity(picked)
      PROVE  GateInv'
  <2>1. bench' \in Measured /\ HeadsTell'
    BY <1>7, IngestTells
  <2>2. bench \in Measured
    BY <1>7, RunMeasured DEF Stages
  <2>3. bench'.at = "fidelity" /\ UNCHANGED <<recorded, section, rows>>
    BY <1>7, <2>2 DEF _run_fidelity, Measured
  <2> QED BY <1>7, <2>1, <2>3, RunStepKeeps
<1>8. ASSUME Report PROVE GateInv'
  <2>1. bench.at = "fidelity" /\ bench.left = 0 /\ UNCHANGED <<recorded, section, rows>>
    BY <1>8 DEF Report
  <2>2. PICK v \in MeasuredVerdicts : bench' = [bench EXCEPT !.at = "done", !.verdict = v]
    BY <1>8 DEF Report
  <2>3. bench \in Measured /\ HeadsTell
    BY <2>1, RunMeasured DEF Stages
  <2>4. (v = "GO" => Met(0)) /\ (Met(1) => v = "GO") /\ v \in {"GO", "NO-GO", "INVALID"}
    BY <2>1, <2>2, ReportEarned
  <2>5. /\ bench' \in Measured /\ bench'.at = "done" /\ bench'.verdict = v
        /\ \A f \in {"local", "ingests", "left", "loopSafe", "promptSafe", "start", "end", "added",
                     "heads", "intact", "onTarget"} : bench'[f] = bench[f]
    BY <2>2, <2>3, <2>4 DEF Measured, Stages
  <2>6. /\ bench'.local = bench.local /\ bench'.ingests = bench.ingests /\ bench'.left = bench.left
        /\ bench'.loopSafe = bench.loopSafe /\ bench'.promptSafe = bench.promptSafe
        /\ bench'.start = bench.start /\ bench'.end = bench.end /\ bench'.added = bench.added
        /\ bench'.heads = bench.heads /\ bench'.intact = bench.intact /\ bench'.onTarget = bench.onTarget
    BY <2>5
  <2>7. Met(0)' = Met(0) /\ Met(1)' = Met(1)
    BY <2>6 DEF Met
  <2>8. HeadsTell'
    BY <2>1, <2>3, <2>5, <2>6 DEF HeadsTell, Ingested, FidelityIngests
  <2>9. "GO" \notin rows \cup {recorded, section}
    BY <2>1 DEF GateInv
  <2> QED BY <2>1, <2>4, <2>5, <2>7, <2>8, <2>9 DEF GateInv
<1>9. ASSUME UNCHANGED bench,
             "GO" \in rows' \cup {recorded', section'} =>
               \/ "GO" \in rows \cup {recorded, section}
               \/ bench.at = "done" /\ bench.verdict = "GO"
      PROVE  GateInv'
  BY <1>9 DEF GateInv, HeadsTell, Ingested, Met, grew, FidelityIngests
<1>10. ASSUME render_gate_status_row PROVE GateInv'
  BY <1>9, <1>10 DEF render_gate_status_row
<1>11. ASSUME RecordVerdict PROVE GateInv'
  BY <1>9, <1>11 DEF RecordVerdict
<1>12. ASSUME write_gate0_status PROVE GateInv'
  BY <1>9, <1>12 DEF write_gate0_status
<1>13. ASSUME UNCHANGED gateVars PROVE GateInv'
  BY <1>9, <1>13 DEF gateVars
<1> QED BY <1>1, <1>2, <1>3, <1>4, <1>5, <1>6, <1>7, <1>8, <1>10, <1>11, <1>12, <1>13 DEF GateNext

\* GO is earned: for any figures, margins and held-out sets, a run that met the
\* criterion with anything to spare is a GO, one that did not is none, one fidelity
\* ingest that went to the wrong paragraph fails it, and nothing published says GO
\* unless such a run reported it.
THEOREM GoIsAlwaysEarned == GateSpec => []GoIsEarned
<1>1. GateInit => GateInv
  BY GateStarts
<1>2. GateInv /\ [GateNext]_gateVars => GateInv'
  BY GateStep
<1>3. GateInv => GoIsEarned
  BY DEF GateInv, GoIsEarned
<1> QED BY <1>1, <1>2, <1>3, PTL DEF GateSpec
================================================================================
