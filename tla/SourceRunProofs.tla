---------------------------- MODULE SourceRunProofs ----------------------------
(* Proofs about source runs, for any number of processes, histories, changes and   *)
(* texts, any limit and any connector: what the saved cursor claims is in the      *)
(* bundle and in the vault, and runs that do not overlap ingest nothing twice.     *)
EXTENDS SourceRun, SequenceTheorems, TLAPS

Places == {"idle", "reading", "persisting", "committing", "saving"}
Cursors == Histories \cup {<<>>}
StateFile == [cursor : Cursors, success : Runs \cup {NoRun}]
RunRecord == [at : Places, id : Runs \cup {NoRun}, prior : StateFile, texts : SUBSET Texts,
              upto : Cursors, truncated : BOOLEAN, stored : SUBSET Texts, next : StateFile]
Entry == [texts : SUBSET Texts, cited : SUBSET Texts, from : Cursors, upto : Cursors,
          truncated : BOOLEAN]

Shape ==
    /\ VaultTypeOK
    /\ kind \in Kinds /\ head \in Histories
    /\ state \in StateFile
    /\ run \in [Procs -> RunRecord]
    /\ DOMAIN ledger \subseteq Runs /\ \A r \in DOMAIN ledger : ledger[r] \in Entry
    /\ faults \in Nat /\ overlapped \in BOOLEAN /\ torn \in BOOLEAN

\* Where a run has loaded its state and not derived the next one yet; and where it
\* has read its texts as well.
Working(p) == run[p].at \in {"reading", "persisting", "committing"}
HasRead(p) == run[p].at \in {"persisting", "committing"}

Tidy(p) ==
    /\ run[p].stored \subseteq Stamped(run[p].texts)
    /\ run[p].texts # {} => HasRead(p)

\* The identifiers of runs under way are their own, and not in the bundle before
\* they commit.
OwnId(p) ==
    /\ run[p].at # "idle" => run[p].id \in Runs
    /\ Working(p) => run[p].id \notin DOMAIN ledger
    /\ \A q \in Procs \ {p} : run[p].at # "idle" /\ run[q].at # "idle" => run[p].id # run[q].id

\* The evidence of a run is persisted before it commits.
Kept(r, ts) == Stamped(ts) = {} \/ (r \in DOMAIN manifests /\ manifests[r] = Stamped(ts))
Persisted(p) == run[p].at = "committing" => Kept(run[p].id, run[p].texts)
LedgerKept ==
    \A r \in DOMAIN ledger :
      /\ ledger[r].cited \subseteq Stamped(ledger[r].texts)
      /\ Kept(r, ledger[r].texts)

\* What a git run that has read shows: the end of the stretch it goes over, all of
\* it unless it says so.  The other connectors keep no cursor.
Window(from, upto) == IF Len(upto) - Len(from) > Limit THEN Len(upto) - Limit ELSE Len(from)
Shows(ts, from, upto, truncated) ==
    /\ IsAncestor(from, upto)
    /\ ts = {<<SubSeq(upto, 1, Window(from, upto)), upto>>}
    /\ truncated <=> Len(upto) - Len(from) > Limit
ReadWell(p) ==
    HasRead(p) =>
      IF kind = "git"
      THEN run[p].upto # <<>>
           /\ Shows(run[p].texts, run[p].prior.cursor, run[p].upto, run[p].truncated)
      ELSE run[p].upto = <<>>

\* A state, saved or yet to be saved, names a run in the bundle and where that one
\* got to, and every commit behind its cursor is accounted for.
AccountedBy(l, ms, commit) ==
    \E r \in DOMAIN l :
      /\ Len(commit) > Len(l[r].from) /\ IsAncestor(commit, l[r].upto)
      /\ \/ \E t \in l[r].texts : Len(commit) > Len(t[1]) /\ IsAncestor(commit, t[2])
         \/ l[r].truncated /\ (r \in DOMAIN ms \/ Stamped(l[r].texts) = {})
BackedBy(k, l, ms, s) ==
    /\ s.success # NoRun =>
         /\ s.success \in DOMAIN l
         /\ k = "git" => s.cursor = l[s.success].upto
    /\ k = "git" => \A n \in 1..Len(s.cursor) : AccountedBy(l, ms, SubSeq(s.cursor, 1, n))
Backed(s) == BackedBy(kind, ledger, manifests, s)

\* While runs do not overlap, the one under way started from what is saved now,
\* and what it will save is no step back.
Current(p) ==
    ~overlapped =>
      /\ \A q \in Procs : run[p].at # "idle" /\ run[q].at # "idle" => p = q
      /\ Working(p) => run[p].prior = state
      /\ run[p].at = "saving" => IsAncestor(state.cursor, run[p].next.cursor)
      /\ run[p].at = "saving" /\ run[p].id \notin DOMAIN ledger => run[p].next = state

\* If moreover none is cut off after its commit, what was ingested is behind the
\* cursor that is saved or about to be, and no two runs went over the same stretch.
Reached(l, cursor) == \A r \in DOMAIN l : Len(l[r].upto) <= Len(cursor)
Apart(l) ==
    \A r, q \in DOMAIN l : r # q => Len(l[r].upto) <= Len(l[q].from) \/ Len(l[q].upto) <= Len(l[r].from)
InOneLine ==
    kind = "git" /\ ~overlapped /\ ~torn =>
      /\ (\A p \in Procs : run[p].at # "saving") => Reached(ledger, state.cursor)
      /\ \A p \in Procs : run[p].at = "saving" => Reached(ledger, run[p].next.cursor)
      /\ Apart(ledger)

EvidenceInv == \A p \in Procs : Tidy(p) /\ OwnId(p) /\ Persisted(p)
BackedInv ==
    /\ Backed(state)
    /\ \A p \in Procs : ReadWell(p) /\ Backed(run[p].prior) /\ Backed(run[p].next)

IInv ==
    /\ Shape
    /\ EvidenceInv /\ LedgerKept
    /\ BackedInv
    /\ \A p \in Procs : Current(p)
    /\ InOneLine
----
LEMMA CursorsAreSequences ==
  ASSUME NEW c \in Cursors
  PROVE  c \in Seq(Changes) /\ Len(c) \in Nat /\ (c = <<>> <=> Len(c) = 0)
BY SourceAssumption, EmptySeq DEF Cursors

LEMMA AncestorOfItself == ASSUME NEW a \in Cursors PROVE IsAncestor(a, a)
BY CursorsAreSequences, SubSeqFull DEF IsAncestor

LEMMA EmptyIsAncestor == ASSUME NEW a \in Cursors PROVE IsAncestor(<<>>, a)
<1>1. SubSeq(a, 1, 0) = <<>> BY SubSeqEmpty
<1> QED BY <1>1, CursorsAreSequences, EmptySeq DEF IsAncestor

\* A commit behind one history is behind every history that continues it.
LEMMA AncestorsAgree ==
  ASSUME NEW a \in Cursors, NEW b \in Cursors, IsAncestor(a, b), NEW n \in 1..Len(a)
  PROVE  n \in 1..Len(b) /\ SubSeq(a, 1, n) = SubSeq(b, 1, n)
<1>1. /\ a \in Seq(Changes) /\ b \in Seq(Changes) /\ Len(a) \in Nat /\ Len(b) \in Nat
      /\ Len(a) <= Len(b) /\ SubSeq(b, 1, Len(a)) = a
  BY CursorsAreSequences DEF IsAncestor
<1>2. 1 \in 1..Len(b) /\ Len(a) \in 1..Len(b) /\ 1 \in 1..Len(a) - 1 + 1 /\ n \in 1..Len(a) - 1 + 1
  BY <1>1
<1>3. SubSeq(SubSeq(b, 1, Len(a)), 1, n) = SubSeq(b, 1 + 1 - 1, 1 + n - 1)
  BY <1>1, <1>2, SubSeqOfSubSeq
<1> QED BY <1>1, <1>3

LEMMA PrefixIsAncestor ==
  ASSUME NEW a \in Cursors, NEW n \in 0..Len(a)
  PROVE  Len(SubSeq(a, 1, n)) = n /\ IsAncestor(SubSeq(a, 1, n), a)
<1>1. a \in Seq(Changes) /\ Len(a) \in Nat /\ \A i \in 1..n : a[i] \in Changes
  BY CursorsAreSequences, ElementOfSeq
<1>2. Len(SubSeq(a, 1, n)) = n
  BY <1>1, SubSeqProperties
<1> QED BY <1>1, <1>2 DEF IsAncestor

LEMMA StampedType == ASSUME NEW ts \in SUBSET Texts PROVE Stamped(ts) \in SUBSET Texts
BY DEF Stamped

LEMMA WindowBounds ==
  ASSUME NEW from \in Cursors, NEW upto \in Cursors, IsAncestor(from, upto)
  PROVE  Window(from, upto) \in 0..Len(upto) /\ Window(from, upto) >= Len(from)
BY CursorsAreSequences, SourceAssumption DEF Window, IsAncestor
----
\* The initial records.
LEMMA IdleType ==
  /\ NoState \in StateFile /\ NoState.cursor = <<>> /\ NoState.success = NoRun
  /\ Idle \in RunRecord /\ Idle.at = "idle" /\ Idle.id = NoRun /\ Idle.texts = {}
  /\ Idle.stored = {} /\ Idle.prior = NoState /\ Idle.next = NoState
BY DEF NoState, StateFile, Cursors, Idle, RunRecord, Places

\* What the ways to move one run do to its record.
LEMMA SavingRecord ==
  ASSUME Shape, NEW p \in Procs, NEW next \in StateFile, Saving(p, next)
  PROVE  /\ run' \in [Procs -> RunRecord]
         /\ \A q \in Procs \ {p} : run'[q] = run[q]
         /\ run'[p].at = "saving" /\ run'[p].id = run[p].id /\ run'[p].next = next
         /\ run'[p].prior = NoState /\ run'[p].texts = {} /\ run'[p].stored = {}
<1> DEFINE mine == [Idle EXCEPT !.at = "saving", !.id = run[p].id, !.next = next]
<1>1. run[p] \in RunRecord /\ run[p].id \in Runs \cup {NoRun}
  BY DEF Shape, RunRecord
<1>2. /\ mine \in RunRecord /\ mine.at = "saving" /\ mine.id = run[p].id /\ mine.next = next
      /\ mine.prior = NoState /\ mine.texts = {} /\ mine.stored = {}
  BY <1>1, IdleType DEF RunRecord, Places
<1> HIDE DEF mine
<1>3. run' = [run EXCEPT ![p] = mine] BY DEF Saving, mine
<1> QED BY <1>2, <1>3 DEF Shape

LEMMA IdleRecord ==
  ASSUME Shape, NEW p \in Procs, run' = [run EXCEPT ![p] = Idle]
  PROVE  /\ run' \in [Procs -> RunRecord]
         /\ \A q \in Procs \ {p} : run'[q] = run[q]
         /\ run'[p] = Idle
BY IdleType DEF Shape

LEMMA StartRecord ==
  ASSUME Shape, NEW p \in Procs, NEW r \in Runs,
         run' = [run EXCEPT ![p] = [Idle EXCEPT !.at = "reading", !.id = r, !.prior = state]]
  PROVE  /\ run' \in [Procs -> RunRecord]
         /\ \A q \in Procs \ {p} : run'[q] = run[q]
         /\ run'[p].at = "reading" /\ run'[p].id = r /\ run'[p].prior = state
         /\ run'[p].texts = {} /\ run'[p].stored = {} /\ run'[p].next = NoState
<1> DEFINE mine == [Idle EXCEPT !.at = "reading", !.id = r, !.prior = state]
<1>1. /\ mine \in RunRecord /\ mine.at = "reading" /\ mine.id = r /\ mine.prior = state
      /\ mine.texts = {} /\ mine.stored = {} /\ mine.next = NoState
  BY IdleType DEF Shape, RunRecord, Places
<1> HIDE DEF mine
<1>2. run' = [run EXCEPT ![p] = mine] BY DEF mine
<1> QED BY <1>1, <1>2 DEF Shape

LEMMA ReadsRecord ==
  ASSUME Shape, EvidenceInv, NEW p \in Procs, NEW ts \in SUBSET Texts, NEW upto \in Cursors,
         NEW cut \in BOOLEAN, Reads(p, ts, upto, cut)
  PROVE  /\ run' \in [Procs -> RunRecord]
         /\ \A q \in Procs \ {p} : run'[q] = run[q]
         /\ run[p].at = "reading" /\ run'[p].at \in {"persisting", "committing"}
         /\ run'[p].at = "committing" => Stamped(ts) = {}
         /\ run'[p].id = run[p].id /\ run'[p].prior = run[p].prior /\ run'[p].next = run[p].next
         /\ run'[p].texts = ts /\ run'[p].upto = upto /\ run'[p].truncated = cut
         /\ run'[p].stored = run[p].stored /\ run[p].stored = {}
<1> DEFINE place == IF Stamped(ts) = {} THEN "committing" ELSE "persisting"
           mine == [run[p] EXCEPT !.at = place, !.texts = ts, !.upto = upto, !.truncated = cut]
<1>1. run[p] \in RunRecord /\ run \in [Procs -> RunRecord] BY DEF Shape
<1>2. place \in {"persisting", "committing"} /\ (place = "committing" => Stamped(ts) = {})
  OBVIOUS
<1> HIDE DEF place
<1>3. /\ mine \in RunRecord /\ mine.at = place
      /\ mine.id = run[p].id /\ mine.prior = run[p].prior /\ mine.next = run[p].next
      /\ mine.texts = ts /\ mine.upto = upto /\ mine.truncated = cut
      /\ mine.stored = run[p].stored
  BY <1>1, <1>2 DEF RunRecord, Places
<1>4. run' = [run EXCEPT ![p] = mine] /\ run[p].at = "reading"
  BY <1>1 DEF Reads, place, RunRecord
<1>5. run[p].stored = {}
  <2>1. run[p].texts = {} BY <1>4 DEF EvidenceInv, Tidy, HasRead
  <2> QED BY <2>1 DEF EvidenceInv, Tidy, Stamped
<1> HIDE DEF mine
<1> QED BY <1>1, <1>2, <1>3, <1>4, <1>5

LEMMA PutRecord ==
  ASSUME Shape, NEW p \in Procs, NEW d \in Texts, run' = [run EXCEPT ![p].stored = @ \cup {d}]
  PROVE  /\ run' \in [Procs -> RunRecord]
         /\ \A q \in Procs \ {p} : run'[q] = run[q]
         /\ run'[p].stored = run[p].stored \cup {d}
         /\ \A f \in {"at", "id", "prior", "texts", "upto", "truncated", "next"} :
              run'[p][f] = run[p][f]
<1> DEFINE mine == [run[p] EXCEPT !.stored = @ \cup {d}]
<1>1. run[p] \in RunRecord /\ run \in [Procs -> RunRecord] BY DEF Shape
<1>2. /\ mine \in RunRecord /\ mine.stored = run[p].stored \cup {d}
      /\ mine.at = run[p].at /\ mine.id = run[p].id /\ mine.prior = run[p].prior
      /\ mine.texts = run[p].texts /\ mine.upto = run[p].upto
      /\ mine.truncated = run[p].truncated /\ mine.next = run[p].next
  BY <1>1 DEF RunRecord
<1>3. run' = [run EXCEPT ![p] = mine] BY <1>1 DEF RunRecord
<1> HIDE DEF mine
<1> QED BY <1>1, <1>2, <1>3

LEMMA GotoRecord ==
  ASSUME Shape, NEW p \in Procs, NEW place \in Places, Goto(p, place)
  PROVE  /\ run' \in [Procs -> RunRecord]
         /\ \A q \in Procs \ {p} : run'[q] = run[q]
         /\ run'[p].at = place
         /\ \A f \in {"id", "prior", "texts", "upto", "truncated", "stored", "next"} :
              run'[p][f] = run[p][f]
<1> DEFINE mine == [run[p] EXCEPT !.at = place]
<1>1. run[p] \in RunRecord /\ run \in [Procs -> RunRecord] BY DEF Shape
<1>2. /\ mine \in RunRecord /\ mine.at = place
      /\ mine.stored = run[p].stored /\ mine.id = run[p].id /\ mine.prior = run[p].prior
      /\ mine.texts = run[p].texts /\ mine.upto = run[p].upto
      /\ mine.truncated = run[p].truncated /\ mine.next = run[p].next
  BY <1>1 DEF RunRecord
<1>3. run' = [run EXCEPT ![p] = mine] BY <1>1 DEF Goto, RunRecord
<1> HIDE DEF mine
<1> QED BY <1>1, <1>2, <1>3
----
(* What each step does to the run, the ledger, the manifests and the state file,  *)
(* the only parts the invariant is about.                                         *)
Others(p) == run' \in [Procs -> RunRecord] /\ \A q \in Procs \ {p} : run'[q] = run[q]
Cleared(p) == run'[p].prior = NoState /\ run'[p].texts = {} /\ run'[p].stored = {}
SameRead(p) ==
    /\ run'[p].id = run[p].id /\ run'[p].prior = run[p].prior /\ run'[p].next = run[p].next
    /\ run'[p].texts = run[p].texts /\ run'[p].upto = run[p].upto
    /\ run'[p].truncated = run[p].truncated
Calm == UNCHANGED <<kind, state, ledger, manifests, overlapped, torn>>

Still == UNCHANGED run /\ Calm
Started(p) ==
    /\ Others(p)
    /\ run[p].at = "idle" /\ run'[p].at = "reading" /\ run'[p].id \in Runs \ Used
    /\ run'[p].prior = state /\ run'[p].next = NoState
    /\ run'[p].texts = {} /\ run'[p].stored = {}
    /\ overlapped' = (overlapped \/ Running # {})
    /\ UNCHANGED <<kind, state, ledger, manifests, torn>>
JustRead(p) ==
    /\ Others(p)
    /\ run[p].at = "reading" /\ run'[p].at \in {"persisting", "committing"}
    /\ run'[p].at = "committing" => Stamped(run'[p].texts) = {}
    /\ run'[p].id = run[p].id /\ run'[p].prior = run[p].prior /\ run'[p].next = run[p].next
    /\ run'[p].stored = {}
    /\ IF kind = "git"
       THEN run'[p].upto # <<>>
            /\ Shows(run'[p].texts, run[p].prior.cursor, run'[p].upto, run'[p].truncated)
       ELSE run'[p].upto = <<>>
    /\ Calm
Stored(p) ==
    /\ Others(p) /\ SameRead(p)
    /\ run[p].at = "persisting" /\ run'[p].at = "persisting"
    /\ run'[p].stored \subseteq Stamped(run[p].texts)
    /\ Calm
Wrote(p) ==
    /\ Others(p) /\ SameRead(p)
    /\ run[p].at = "persisting" /\ run'[p].at = "committing" /\ run'[p].stored = run[p].stored
    /\ manifests' = Extend(manifests, run[p].id, Stamped(run[p].texts))
    /\ UNCHANGED <<kind, state, ledger, overlapped, torn>>
Failed(p) ==
    /\ Others(p) /\ Cleared(p)
    /\ Working(p) /\ run'[p].at = "saving"
    /\ run'[p].id = run[p].id /\ run'[p].next = run[p].prior
    /\ Calm
Committed(p) ==
    /\ Others(p) /\ Cleared(p)
    /\ run[p].at = "committing" /\ run'[p].at = "saving" /\ run'[p].id = run[p].id
    /\ \E cited \in SUBSET Stamped(run[p].texts) : Landed(p, cited)
    /\ \/ run'[p].next = Advanced(p) /\ torn' = torn
       \/ run'[p].next = run[p].prior /\ torn' = TRUE
    /\ UNCHANGED <<kind, state, manifests, overlapped>>
Saved(p) ==
    /\ Others(p)
    /\ run[p].at = "saving" /\ run'[p] = Idle /\ state' = run[p].next
    /\ UNCHANGED <<kind, ledger, manifests, overlapped, torn>>
Died(p) ==
    /\ Others(p)
    /\ run[p].at # "idle" /\ run'[p] = Idle
    /\ torn' = (torn \/ run[p].id \in DOMAIN ledger)
    /\ UNCHANGED <<kind, state, ledger, manifests, overlapped>>

Moved(p) ==
    \/ Started(p) \/ JustRead(p) \/ Stored(p) \/ Wrote(p) \/ Failed(p)
    \/ Committed(p) \/ Saved(p) \/ Died(p)

\* A folder and a page are read whole, a branch from the cursor on, all as texts a
\* source can yield.
LEMMA GitReads ==
  ASSUME Shape, EvidenceInv, NEW p \in Procs, run_git_source(p) PROVE JustRead(p)
<1> DEFINE from == run[p].prior.cursor
           cut == Len(head) - Len(from) > Limit
           ts == {<<SubSeq(head, 1, Window(from, head)), head>>}
<1>1. from \in Cursors /\ head \in Cursors /\ head \in Histories /\ head # <<>>
  BY SourceAssumption DEF Shape, RunRecord, StateFile, Cursors
<1>2. kind = "git" /\ IsAncestor(from, head) /\ Reads(p, ts, head, cut)
  BY DEF run_git_source, Window, WindowStart
<1>3. ts \in SUBSET Texts
  <2>1. Window(from, head) \in 0..Len(head) BY <1>1, <1>2, WindowBounds
  <2> QED BY <1>1, <2>1, SourceAssumption
<1>4. Shows(ts, from, head, cut) /\ cut \in BOOLEAN BY <1>2 DEF Shows
<1> HIDE DEF ts, cut
<1>5. Calm BY <1>2 DEF Reads, Calm, vaultVars
<1>6. /\ Others(p)
      /\ run[p].at = "reading" /\ run'[p].at \in {"persisting", "committing"}
      /\ run'[p].at = "committing" => Stamped(ts) = {}
      /\ run'[p].id = run[p].id /\ run'[p].prior = run[p].prior /\ run'[p].next = run[p].next
      /\ run'[p].texts = ts /\ run'[p].upto = head /\ run'[p].truncated = cut
      /\ run'[p].stored = {}
  BY <1>1, <1>2, <1>3, <1>4, ReadsRecord DEF Others
<1> HIDE DEF from
<1>7. Shows(run'[p].texts, run[p].prior.cursor, run'[p].upto, run'[p].truncated)
  BY <1>4, <1>6 DEF from
<1> QED BY <1>1, <1>2, <1>5, <1>6, <1>7 DEF JustRead

LEMMA WholeReads ==
  ASSUME Shape, EvidenceInv, NEW p \in Procs, run_folder(p) \/ run_snapshot(p)
  PROVE  JustRead(p)
<1>1. head \in Histories /\ head \in Seq(Changes) /\ Len(head) \in Nat
  BY SourceAssumption, LenProperties DEF Shape
<1>2. PICK ts \in SUBSET Texts : kind # "git" /\ Reads(p, ts, <<>>, FALSE)
  <2>1. CASE run_folder(p)
    <3>1. {<<<<>>, <<c>>>> : c \in Shown(<<<<>>, head>>)} \in SUBSET Texts
      <4>1. \A c \in Shown(<<<<>>, head>>) : \E i \in 1..Len(head) : c = head[i]
        BY EmptySeq DEF Shown
      <4> QED BY <1>1, <4>1, SourceAssumption
    <3> QED BY <2>1, <3>1 DEF run_folder
  <2>2. CASE run_snapshot(p)
    <3>1. SubSeq(head, 1, 0) = <<>> /\ 0 \in 0..Len(head) BY <1>1, SubSeqEmpty
    <3>2. {<<<<>>, head>>} \in SUBSET Texts BY <1>1, <3>1, SourceAssumption
    <3> QED BY <2>2, <3>2 DEF run_snapshot
  <2> QED BY <2>1, <2>2
<1>3. Calm BY <1>2 DEF Reads, Calm, vaultVars
<1>4. /\ Others(p)
      /\ run[p].at = "reading" /\ run'[p].at \in {"persisting", "committing"}
      /\ run'[p].at = "committing" => Stamped(ts) = {}
      /\ run'[p].id = run[p].id /\ run'[p].prior = run[p].prior /\ run'[p].next = run[p].next
      /\ run'[p].texts = ts /\ run'[p].upto = <<>> /\ run'[p].stored = {}
  <2>1. <<>> \in Cursors /\ FALSE \in BOOLEAN BY DEF Cursors
  <2> QED BY <1>2, <2>1, ReadsRecord DEF Others
<1> QED BY <1>2, <1>3, <1>4 DEF JustRead

LEMMA Effects ==
  ASSUME IInv, [Next]_vars
  PROVE  Still \/ \E p \in Procs : Moved(p)
<1>0. Shape /\ EvidenceInv /\ \A p \in Procs : run[p] \in RunRecord
  BY DEF IInv, Shape
<1>push. CASE Push BY <1>push DEF Push, Still, Calm, vaultVars
<1>disk. CASE DiskFault
  BY <1>disk DEF DiskFault, LoseObject, DamageObject, Still, Calm
<1>stutter. CASE UNCHANGED vars BY <1>stutter DEF vars, vaultVars, Still, Calm
<1>step. ASSUME NEW p \in Procs, Step(p) PROVE Moved(p)
  <2>0. run[p].prior \in StateFile /\ run[p].texts \in SUBSET Texts /\ run[p].upto \in Cursors
        /\ run[p].id \in Runs \cup {NoRun}
    BY <1>0 DEF RunRecord
  <2>start. CASE Start(p)
    <3>1. PICK r \in Runs \ Used :
             run' = [run EXCEPT ![p] = [Idle EXCEPT !.at = "reading", !.id = r, !.prior = state]]
      BY <2>start DEF Start
    <3> QED BY <1>0, <2>start, <3>1, StartRecord DEF Start, Started, Others, Moved, vaultVars
  <2>git. CASE run_git_source(p) BY <1>0, <2>git, GitReads DEF Moved
  <2>whole. CASE run_folder(p) \/ run_snapshot(p) BY <1>0, <2>whole, WholeReads DEF Moved
  <2>fail. CASE Uncommitted(p) \/ PersistFails(p) \/ CommitFails(p)
    <3>1. Saving(p, run[p].prior) /\ Working(p) /\ Calm
      BY <2>fail DEF Uncommitted, PersistFails, CommitFails, Failing, Working, Calm, vaultVars
    <3> QED BY <1>0, <2>0, <3>1, SavingRecord DEF Failed, Others, Cleared, Moved
  <2>put. CASE PutObject(p)
    <3>1. PICK d \in Stamped(run[p].texts) \ run[p].stored :
             put_object(d) /\ run' = [run EXCEPT ![p].stored = @ \cup {d}]
      BY <2>put DEF PutObject
    <3>2. d \in Texts /\ run[p].stored \subseteq Stamped(run[p].texts)
      BY <1>0, <2>0, StampedType DEF EvidenceInv, Tidy
    <3>3. Others(p) /\ SameRead(p) /\ run'[p].at = run[p].at
          /\ run'[p].stored = run[p].stored \cup {d}
      BY <1>0, <3>1, <3>2, PutRecord DEF Others, SameRead
    <3>4. Calm BY <2>put, <3>1 DEF PutObject, put_object, Calm
    <3> QED BY <2>put, <3>2, <3>3, <3>4 DEF PutObject, Stored, Moved
  <2>manifest. CASE WriteRun(p)
    <3>1. Others(p) /\ SameRead(p) /\ run'[p].at = "committing" /\ run'[p].stored = run[p].stored
      BY <1>0, <2>manifest, GotoRecord DEF WriteRun, Others, SameRead, Places
    <3> QED BY <2>manifest, <3>1 DEF WriteRun, write_run, Wrote, Moved
  <2>commit. CASE Commit(p)
    <3>1. run[p].id \in Runs BY <1>0, <2>commit DEF Commit, EvidenceInv, OwnId
    <3>2. Advanced(p) \in StateFile
      BY <2>0, <3>1 DEF Advanced, StateFile
    <3>3. Others(p) /\ Cleared(p) /\ run'[p].at = "saving" /\ run'[p].id = run[p].id
          /\ run'[p].next = Advanced(p)
      BY <1>0, <2>commit, <3>2, SavingRecord DEF Commit, Others, Cleared
    <3> QED BY <2>commit, <3>3 DEF Commit, Committed, Moved, vaultVars
  <2>untagged. CASE CommitWithoutTag(p)
    <3>1. Others(p) /\ Cleared(p) /\ run'[p].at = "saving" /\ run'[p].id = run[p].id
          /\ run'[p].next = run[p].prior
      BY <1>0, <2>0, <2>untagged, SavingRecord DEF CommitWithoutTag, Failing, Others, Cleared
    <3> QED BY <2>untagged, <3>1 DEF CommitWithoutTag, Committed, Moved, vaultVars
  <2>save. CASE Save(p)
    BY <1>0, <2>save, IdleRecord DEF Save, Saved, Others, Moved, vaultVars
  <2>die. CASE Die(p)
    BY <1>0, <2>die, IdleRecord DEF Die, Died, Others, Moved, vaultVars
  <2> QED
    BY <1>step, <2>start, <2>git, <2>whole, <2>fail, <2>put, <2>manifest, <2>commit, <2>untagged,
       <2>save, <2>die DEF Step
<1> QED BY <1>push, <1>disk, <1>stutter, <1>step DEF Next
----
\* What a commit adds to the ledger, and that it leaves the rest.
LEMMA LandedFacts ==
  ASSUME Shape, NEW p \in Procs, OwnId(p), run[p].at = "committing",
         NEW cited, Landed(p, cited)
  PROVE  LET r == run[p].id IN
         /\ r \in Runs /\ r \notin DOMAIN ledger
         /\ DOMAIN ledger' = DOMAIN ledger \cup {r}
         /\ \A q \in DOMAIN ledger : ledger'[q] = ledger[q]
         /\ ledger'[r].texts = run[p].texts /\ ledger'[r].cited = cited
         /\ ledger'[r].from = run[p].prior.cursor /\ ledger'[r].upto = run[p].upto
         /\ ledger'[r].truncated = run[p].truncated
<1> DEFINE r == run[p].id
           entry == [texts |-> run[p].texts, cited |-> cited, from |-> run[p].prior.cursor,
                     upto |-> run[p].upto, truncated |-> run[p].truncated]
<1>1. r \in Runs /\ r \notin DOMAIN ledger BY DEF OwnId, Working
<1>2. ledger' = Extend(ledger, r, entry) BY DEF Landed
<1>3. entry.texts = run[p].texts /\ entry.cited = cited /\ entry.from = run[p].prior.cursor
      /\ entry.upto = run[p].upto /\ entry.truncated = run[p].truncated
  OBVIOUS
<1> HIDE DEF entry
<1>4. /\ DOMAIN ledger' = DOMAIN ledger \cup {r} /\ ledger'[r] = entry
      /\ \A q \in DOMAIN ledger \ {r} : ledger'[q] = ledger[q]
  BY <1>2 DEF Extend
<1> QED BY <1>1, <1>3, <1>4

LEMMA ShapeStep ==
  ASSUME IInv, [Next]_vars
  PROVE  Shape'
<1>0. Shape /\ EvidenceInv BY DEF IInv
<1>runs. run' \in [Procs -> RunRecord]
  <2>1. CASE Still BY <1>0, <2>1 DEF Still, Shape
  <2>2. ASSUME NEW p \in Procs, Moved(p) PROVE run' \in [Procs -> RunRecord]
    BY <2>2 DEF Moved, Started, JustRead, Stored, Wrote, Failed, Committed, Saved, Died, Others
  <2> QED BY <2>1, <2>2, Effects
<1>files. kind' \in Kinds /\ overlapped' \in BOOLEAN /\ torn' \in BOOLEAN /\ state' \in StateFile
  <2>1. CASE Still BY <1>0, <2>1 DEF Still, Calm, Shape
  <2>2. ASSUME NEW p \in Procs, Moved(p)
        PROVE  kind' \in Kinds /\ overlapped' \in BOOLEAN /\ torn' \in BOOLEAN /\ state' \in StateFile
    <3>1. run[p].next \in StateFile BY <1>0 DEF Shape, RunRecord
    <3> QED
      BY <1>0, <2>2, <3>1 DEF Shape, Moved, Started, JustRead, Stored, Wrote, Failed, Committed,
                                  Saved, Died, Calm
  <2> QED BY <2>1, <2>2, Effects
<1>ledger. DOMAIN ledger' \subseteq Runs /\ \A r \in DOMAIN ledger' : ledger'[r] \in Entry
  <2>1. CASE UNCHANGED ledger BY <1>0, <2>1 DEF Shape
  <2>2. ASSUME NEW p \in Procs, Committed(p)
        PROVE  DOMAIN ledger' \subseteq Runs /\ \A r \in DOMAIN ledger' : ledger'[r] \in Entry
    <3>1. PICK cited \in SUBSET Stamped(run[p].texts) : Landed(p, cited)
      BY <2>2 DEF Committed
    <3>2. run[p] \in RunRecord /\ run[p].at = "committing" /\ run[p].id \in Runs
      BY <1>0, <2>2 DEF Shape, Committed, EvidenceInv, OwnId
    <3> DEFINE entry == [texts |-> run[p].texts, cited |-> cited, from |-> run[p].prior.cursor,
                         upto |-> run[p].upto, truncated |-> run[p].truncated]
    <3>3. entry \in Entry
      <4>1. cited \in SUBSET Texts BY <3>2, StampedType DEF RunRecord
      <4> QED BY <3>2, <4>1 DEF RunRecord, StateFile, Entry
    <3>4. ledger' = Extend(ledger, run[p].id, entry) BY <3>1 DEF Landed
    <3> HIDE DEF entry
    <3>5. /\ DOMAIN ledger' = DOMAIN ledger \cup {run[p].id} /\ ledger'[run[p].id] = entry
          /\ \A q \in DOMAIN ledger \ {run[p].id} : ledger'[q] = ledger[q]
      BY <3>4 DEF Extend
    <3> QED BY <1>0, <3>2, <3>3, <3>5 DEF Shape
  <2> QED
    BY <2>1, <2>2, Effects DEF Still, Moved, Started, JustRead, Stored, Wrote, Failed, Saved,
                               Died, Calm
<1>vault. VaultTypeOK'
  <2>kept. CASE UNCHANGED vaultVars BY <1>0, <2>kept DEF Shape, VaultTypeOK, vaultVars
  <2>put. ASSUME NEW p \in Procs, PutObject(p) PROVE VaultTypeOK'
    <3>1. PICK d \in Stamped(run[p].texts) : put_object(d) BY <2>put DEF PutObject
    <3>2. d \in Texts BY <1>0, StampedType DEF Shape, RunRecord
    <3>3. /\ DOMAIN Extend(objects, d, "intact") = DOMAIN objects \cup {d}
          /\ Extend(objects, d, "intact")[d] = "intact"
          /\ \A e \in DOMAIN objects \ {d} : Extend(objects, d, "intact")[e] = objects[e]
      BY DEF Extend
    <3> QED BY <1>0, <3>1, <3>2, <3>3 DEF Shape, VaultTypeOK, put_object
  <2>manifest. ASSUME NEW p \in Procs, WriteRun(p) PROVE VaultTypeOK'
    <3>1. run[p].id \in Runs /\ run[p].stored \in SUBSET Texts
      BY <1>0, <2>manifest DEF Shape, RunRecord, EvidenceInv, OwnId, WriteRun
    <3>2. /\ DOMAIN manifests' = DOMAIN manifests \cup {run[p].id}
          /\ manifests'[run[p].id] = run[p].stored
          /\ \A r \in DOMAIN manifests \ {run[p].id} : manifests'[r] = manifests[r]
      BY <2>manifest DEF WriteRun, write_run, Extend
    <3> QED BY <1>0, <2>manifest, <3>1, <3>2 DEF Shape, VaultTypeOK, WriteRun, write_run
  <2>disk. CASE DiskFault
    BY <1>0, <2>disk DEF Shape, VaultTypeOK, DiskFault, LoseObject, DamageObject
  <2> QED
    BY <2>kept, <2>put, <2>manifest, <2>disk
       DEF Next, Step, Push, Start, run_git_source, run_folder, run_snapshot,
         Reads, Uncommitted, PersistFails, CommitFails, Commit, CommitWithoutTag, Save, Die, vars
<1>faults. head' \in Histories /\ faults' \in Nat
  <2>1. CASE Push BY <1>0, <2>1 DEF Push, Shape
  <2>2. CASE DiskFault BY <1>0, <2>2 DEF DiskFault, Shape
  <2>3. CASE UNCHANGED <<head, faults>> BY <1>0, <2>3 DEF Shape
  <2> QED
    BY <2>1, <2>2, <2>3 DEF Next, Step, Start, run_git_source, run_folder, run_snapshot,
         Reads, Uncommitted, PutObject, WriteRun, PersistFails, CommitFails, Commit,
         CommitWithoutTag, Save, Die, vars
<1> QED BY <1>runs, <1>files, <1>ledger, <1>vault, <1>faults DEF Shape
----
\* A run that goes on, or ends, keeps its identifier its own.
LEMMA IdsStay ==
  ASSUME EvidenceInv, NEW p \in Procs, Others(p), UNCHANGED ledger,
         run'[p].at # "idle" => run[p].at # "idle" /\ run'[p].id = run[p].id,
         Working(p)' => Working(p)
  PROVE  \A q \in Procs : OwnId(q)'
BY DEF EvidenceInv, Others, OwnId, Working

LEMMA EvidenceStep ==
  ASSUME IInv, [Next]_vars
  PROVE  EvidenceInv' /\ LedgerKept'
<1>0. Shape /\ EvidenceInv /\ LedgerKept /\ \A q \in Procs : OwnId(q) /\ Tidy(q) /\ Persisted(q)
  BY DEF IInv, EvidenceInv
<1>still. CASE Still
  BY <1>0, <1>still DEF Still, Calm, EvidenceInv, LedgerKept, OwnId, Tidy, Persisted, Kept,
     Working, HasRead
\* While manifests and ledger stay, only the run that moves can break its part.
<1>rest. ASSUME NEW p \in Procs, Others(p), UNCHANGED <<manifests, ledger>>,
                Tidy(p)', Persisted(p)', \A q \in Procs : OwnId(q)'
         PROVE  EvidenceInv' /\ LedgerKept'
  <2>1. \A q \in Procs \ {p} : Tidy(q)' /\ Persisted(q)'
    BY <1>0, <1>rest DEF Others, Tidy, Persisted, Kept, HasRead
  <2>2. LedgerKept' BY <1>0, <1>rest DEF LedgerKept, Kept
  <2> QED BY <1>rest, <2>1, <2>2 DEF EvidenceInv
<1>started. ASSUME NEW p \in Procs, Started(p) PROVE EvidenceInv' /\ LedgerKept'
  <2>1. Tidy(p)' /\ Persisted(p)' BY <1>started DEF Started, Tidy, Persisted
  <2>2. \A q \in Procs : OwnId(q)'
    <3>1. /\ run'[p].id \in Runs /\ run'[p].id \notin DOMAIN ledger
          /\ \A q \in Procs : run'[p].id # run[q].id
      BY <1>started DEF Started, Used
    <3> QED BY <1>0, <1>started, <3>1 DEF Started, Others, OwnId, Working
  <2> QED BY <1>rest, <1>started, <2>1, <2>2 DEF Started
<1>read. ASSUME NEW p \in Procs, JustRead(p) PROVE EvidenceInv' /\ LedgerKept'
  <2>1. Tidy(p)' /\ Persisted(p)' BY <1>read DEF JustRead, Tidy, HasRead, Persisted, Kept
  <2>2. \A q \in Procs : OwnId(q)' BY <1>0, <1>read, IdsStay DEF JustRead, Working, Calm
  <2> QED BY <1>rest, <1>read, <2>1, <2>2 DEF JustRead, Calm
<1>stored. ASSUME NEW p \in Procs, Stored(p) PROVE EvidenceInv' /\ LedgerKept'
  <2>1. Tidy(p)' /\ Persisted(p)'
    BY <1>stored DEF Stored, SameRead, Tidy, HasRead, Persisted
  <2>2. \A q \in Procs : OwnId(q)' BY <1>0, <1>stored, IdsStay DEF Stored, SameRead, Working, Calm
  <2> QED BY <1>rest, <1>stored, <2>1, <2>2 DEF Stored, Calm
<1>wrote. ASSUME NEW p \in Procs, Wrote(p) PROVE EvidenceInv' /\ LedgerKept'
  <2> DEFINE id == run[p].id
  <2>1. /\ id \in DOMAIN manifests' /\ manifests'[id] = Stamped(run[p].texts)
        /\ \A r \in DOMAIN manifests \ {id} : r \in DOMAIN manifests' /\ manifests'[r] = manifests[r]
    BY <1>wrote DEF Wrote, Extend
  <2>2. \A r, ts : r # id /\ Kept(r, ts) => Kept(r, ts)'
    BY <2>1 DEF Kept
  <2>3. Tidy(p)' /\ Persisted(p)'
    BY <1>0, <1>wrote, <2>1 DEF Wrote, SameRead, Tidy, HasRead, Persisted, Kept
  <2>4. \A q \in Procs \ {p} : Tidy(q)' /\ Persisted(q)'
    <3> SUFFICES ASSUME NEW q \in Procs \ {p} PROVE Tidy(q)' /\ Persisted(q)'
      OBVIOUS
    <3>1. run'[q] = run[q] BY <1>wrote DEF Wrote, Others
    <3>2. Tidy(q)' BY <1>0, <3>1 DEF Tidy, HasRead
    <3>3. ASSUME run[q].at = "committing" PROVE Kept(run[q].id, run[q].texts)'
      <4>1. run[q].id # id BY <1>0, <1>wrote, <3>3 DEF OwnId, Wrote
      <4>2. Kept(run[q].id, run[q].texts) BY <1>0, <3>3 DEF Persisted
      <4> QED BY <2>1, <4>1, <4>2, <3>1 DEF Kept
    <3> QED BY <3>1, <3>2, <3>3 DEF Persisted, Kept
  <2>5. LedgerKept'
    <3>1. id \notin DOMAIN ledger /\ ledger' = ledger BY <1>0, <1>wrote DEF Wrote, OwnId, Working
    <3> QED BY <1>0, <2>1, <3>1 DEF LedgerKept, Kept
  <2>6. \A q \in Procs : OwnId(q)' BY <1>0, <1>wrote, IdsStay DEF Wrote, SameRead, Working
  <2> QED BY <2>3, <2>4, <2>5, <2>6 DEF EvidenceInv
<1>failed. ASSUME NEW p \in Procs, Failed(p) PROVE EvidenceInv' /\ LedgerKept'
  <2>1. Tidy(p)' /\ Persisted(p)' BY <1>failed DEF Failed, Cleared, Tidy, Persisted
  <2>2. \A q \in Procs : OwnId(q)' BY <1>0, <1>failed, IdsStay DEF Failed, Working, Calm
  <2> QED BY <1>rest, <1>failed, <2>1, <2>2 DEF Failed, Calm
<1>committed. ASSUME NEW p \in Procs, Committed(p) PROVE EvidenceInv' /\ LedgerKept'
  <2> DEFINE id == run[p].id
  <2>1. PICK cited \in SUBSET Stamped(run[p].texts) : Landed(p, cited) BY <1>committed DEF Committed
  <2>2. /\ id \in Runs /\ DOMAIN ledger' = DOMAIN ledger \cup {id}
        /\ \A r \in DOMAIN ledger : ledger'[r] = ledger[r]
        /\ ledger'[id].texts = run[p].texts /\ ledger'[id].cited = cited
    BY <1>0, <1>committed, <2>1, LandedFacts DEF Committed
  <2>3. Kept(id, run[p].texts) BY <1>0, <1>committed DEF Committed, Persisted
  <2>4. manifests' = manifests BY <1>committed DEF Committed
  <2>5. LedgerKept' BY <1>0, <2>2, <2>3, <2>4 DEF LedgerKept, Kept
  <2>6. \A q \in Procs : Tidy(q)' /\ Persisted(q)'
    BY <1>0, <1>committed, <2>4 DEF Committed, Others, Cleared, Tidy, HasRead, Persisted, Kept
  <2>7. \A q \in Procs : OwnId(q)'
    BY <1>0, <1>committed, <2>2 DEF Committed, Others, OwnId, Working
  <2> QED BY <2>5, <2>6, <2>7 DEF EvidenceInv
<1>ended. ASSUME NEW p \in Procs, Saved(p) \/ Died(p) PROVE EvidenceInv' /\ LedgerKept'
  <2>1. Others(p) /\ run'[p] = Idle /\ UNCHANGED <<manifests, ledger>>
    BY <1>ended DEF Saved, Died
  <2>2. Tidy(p)' /\ Persisted(p)' BY <2>1, IdleType DEF Tidy, Persisted
  <2>3. \A q \in Procs : OwnId(q)' BY <1>0, <2>1, IdleType, IdsStay DEF Working
  <2> QED BY <1>rest, <2>1, <2>2, <2>3
<1> QED
  BY <1>still, <1>started, <1>read, <1>stored, <1>wrote, <1>failed, <1>committed, <1>ended,
     Effects DEF Moved
----
\* What a ledger and a vault account for, they account for when they have grown.
LEMMA StaysBacked ==
  ASSUME NEW k, NEW l, NEW longer, NEW ms, NEW more, NEW s,
         \A r \in DOMAIN l : r \in DOMAIN longer /\ longer[r] = l[r],
         DOMAIN ms \subseteq DOMAIN more, BackedBy(k, l, ms, s)
  PROVE  BackedBy(k, longer, more, s)
<1>1. ASSUME NEW commit, AccountedBy(l, ms, commit) PROVE AccountedBy(longer, more, commit)
  BY <1>1 DEF AccountedBy
<1> QED BY <1>1 DEF BackedBy

LEMMA NothingToBack == ASSUME NEW k, NEW l, NEW ms PROVE BackedBy(k, l, ms, NoState)
<1>1. NoState.success = NoRun /\ NoState.cursor = <<>> BY IdleType
<1>2. 1..Len(<<>>) = {} BY EmptySeq
<1> QED BY <1>1, <1>2 DEF BackedBy

\* The state a committed run is going to save is backed: behind the cursor it
\* started from by earlier runs, and from there on by its own text or, where that
\* was cut short, by what its manifest says.
LEMMA AdvanceIsBacked ==
  ASSUME IInv, NEW p \in Procs, Committed(p)
  PROVE  BackedBy(kind, ledger', manifests, Advanced(p))
<1> DEFINE id == run[p].id
           from == run[p].prior.cursor
           upto == run[p].upto
           new == Advanced(p)
<1>0. /\ Shape /\ OwnId(p) /\ Persisted(p) /\ ReadWell(p) /\ Backed(run[p].prior)
      /\ run[p] \in RunRecord /\ run[p].at = "committing"
  BY DEF IInv, EvidenceInv, BackedInv, Shape, Committed
<1>1. PICK cited : Landed(p, cited) BY DEF Committed
<1>2. /\ id \in Runs /\ DOMAIN ledger' = DOMAIN ledger \cup {id}
      /\ \A r \in DOMAIN ledger : ledger'[r] = ledger[r]
      /\ ledger'[id].texts = run[p].texts /\ ledger'[id].from = from
      /\ ledger'[id].upto = upto /\ ledger'[id].truncated = run[p].truncated
  BY <1>0, <1>1, LandedFacts
<1>3. BackedBy(kind, ledger', manifests, run[p].prior)
  BY <1>0, <1>2, StaysBacked DEF Backed
<1>4. new.success = id /\ new.cursor = IF upto = <<>> THEN from ELSE upto
  BY DEF Advanced
<1>5. from \in Cursors /\ upto \in Cursors BY <1>0 DEF RunRecord, StateFile
<1>6. CASE kind # "git"
  BY <1>2, <1>4, <1>6 DEF BackedBy
<1>7. CASE kind = "git"
  <2>1. upto # <<>> /\ Shows(run[p].texts, from, upto, run[p].truncated)
    BY <1>0, <1>7 DEF ReadWell, HasRead
  <2>2. new.cursor = upto BY <1>4, <2>1
  <2>3. ASSUME NEW n \in 1..Len(upto) PROVE AccountedBy(ledger', manifests, SubSeq(upto, 1, n))
    <3> DEFINE commit == SubSeq(upto, 1, n)
               w == Window(from, upto)
    <3> SUFFICES AccountedBy(ledger', manifests, commit)
      OBVIOUS
    <3>1. Len(commit) = n /\ IsAncestor(commit, upto) /\ n \in Nat /\ Len(from) \in Nat
      BY <1>5, PrefixIsAncestor, CursorsAreSequences
    <3>2. CASE n <= Len(from)
      <4>1. n \in 1..Len(from) /\ IsAncestor(from, upto) BY <3>1, <3>2, <2>1 DEF Shows
      <4>2. SubSeq(from, 1, n) = commit BY <1>5, <4>1, AncestorsAgree
      <4>3. AccountedBy(ledger', manifests, SubSeq(from, 1, n))
        BY <1>3, <1>7, <4>1 DEF BackedBy
      <4> QED BY <4>2, <4>3
    <3>3. CASE n > Len(from)
      <4>1. w \in 0..Len(upto) /\ run[p].texts = {<<SubSeq(upto, 1, w), upto>>}
        BY <1>5, <2>1, WindowBounds DEF Shows
      <4>2. Len(SubSeq(upto, 1, w)) = w BY <1>5, <4>1, PrefixIsAncestor
      <4> HIDE DEF commit
      <4>3. CASE n > w
        <5> DEFINE text == <<SubSeq(upto, 1, w), upto>>
        <5>1. text \in ledger'[id].texts /\ text[1] = SubSeq(upto, 1, w) /\ text[2] = upto
          BY <1>2, <4>1
        <5> HIDE DEF text
        <5>2. Len(commit) > Len(text[1]) /\ IsAncestor(commit, text[2])
          BY <3>1, <4>2, <4>3, <5>1
        <5>3. id \in DOMAIN ledger' /\ Len(commit) > Len(ledger'[id].from)
              /\ IsAncestor(commit, ledger'[id].upto)
          BY <1>2, <3>1, <3>3
        <5> QED BY <5>1, <5>2, <5>3 DEF AccountedBy
      <4>4. CASE n <= w
        <5>1. run[p].truncated
          <6>1. w # Len(from) BY <3>1, <3>3, <4>1, <4>4
          <6>2. Len(upto) - Len(from) > Limit BY <6>1 DEF Window
          <6> QED BY <2>1, <6>2 DEF Shows
        <5>2. id \in DOMAIN manifests \/ Stamped(run[p].texts) = {}
          BY <1>0 DEF Persisted, Kept
        <5> QED BY <1>2, <3>1, <3>3, <5>1, <5>2 DEF AccountedBy
      <4>5. n > w \/ n <= w BY <3>1, <4>1
      <4> QED BY <4>3, <4>4, <4>5
    <3> QED BY <3>1, <3>2, <3>3
  <2> QED BY <1>2, <1>4, <1>7, <2>2, <2>3 DEF BackedBy
<1> QED BY <1>6, <1>7

LEMMA BackedStep ==
  ASSUME IInv, [Next]_vars
  PROVE  BackedInv'
<1>0. /\ Shape /\ EvidenceInv /\ Backed(state)
      /\ \A q \in Procs : ReadWell(q) /\ Backed(run[q].prior) /\ Backed(run[q].next)
  BY DEF IInv, BackedInv
\* Of the runs that do not move, and of the state, nothing is lost.
<1>grown. ASSUME UNCHANGED kind,
                 \A r \in DOMAIN ledger : r \in DOMAIN ledger' /\ ledger'[r] = ledger[r],
                 DOMAIN manifests \subseteq DOMAIN manifests'
          PROVE  \A s : Backed(s) => BackedBy(kind', ledger', manifests', s)
  BY <1>grown, StaysBacked DEF Backed
<1>still. CASE Still
  BY <1>0, <1>still DEF Still, Calm, BackedInv, Backed, ReadWell, HasRead
<1>rest. ASSUME NEW p \in Procs, Others(p), UNCHANGED <<kind, state>>,
                \A s : Backed(s) => BackedBy(kind', ledger', manifests', s),
                ReadWell(p)', BackedBy(kind', ledger', manifests', run'[p].prior),
                BackedBy(kind', ledger', manifests', run'[p].next)
         PROVE  BackedInv'
  <2>1. \A q \in Procs \ {p} : ReadWell(q)' BY <1>0, <1>rest DEF Others, ReadWell, HasRead
  <2>2. \A q \in Procs \ {p} : /\ BackedBy(kind', ledger', manifests', run'[q].prior)
                               /\ BackedBy(kind', ledger', manifests', run'[q].next)
    BY <1>0, <1>rest DEF Others
  <2>3. BackedBy(kind', ledger', manifests', state') BY <1>0, <1>rest
  <2> QED BY <1>rest, <2>1, <2>2, <2>3 DEF BackedInv, Backed
<1>calm. ASSUME NEW p \in Procs, Calm
         PROVE  \A s : Backed(s) => BackedBy(kind', ledger', manifests', s)
  BY <1>grown, <1>calm DEF Calm
<1>started. ASSUME NEW p \in Procs, Started(p) PROVE BackedInv'
  <2>1. ReadWell(p)' BY <1>started DEF Started, ReadWell, HasRead
  <2>2. \A s : Backed(s) => BackedBy(kind', ledger', manifests', s)
    BY <1>grown, <1>started DEF Started
  <2> QED BY <1>0, <1>rest, <1>started, <2>1, <2>2, NothingToBack DEF Started
<1>read. ASSUME NEW p \in Procs, JustRead(p) PROVE BackedInv'
  <2>1. ReadWell(p)' BY <1>read DEF JustRead, ReadWell, HasRead, Calm
  <2> QED BY <1>0, <1>rest, <1>calm, <1>read, <2>1 DEF JustRead, Calm
<1>stored. ASSUME NEW p \in Procs, Stored(p) PROVE BackedInv'
  <2>1. ReadWell(p)' BY <1>0, <1>stored DEF Stored, SameRead, ReadWell, HasRead, Calm
  <2> QED BY <1>0, <1>rest, <1>calm, <1>stored, <2>1 DEF Stored, SameRead, Calm
<1>wrote. ASSUME NEW p \in Procs, Wrote(p) PROVE BackedInv'
  <2>1. ReadWell(p)' BY <1>0, <1>wrote DEF Wrote, SameRead, ReadWell, HasRead
  <2>2. \A s : Backed(s) => BackedBy(kind', ledger', manifests', s)
    BY <1>grown, <1>wrote DEF Wrote, Extend
  <2> QED BY <1>0, <1>rest, <1>wrote, <2>1, <2>2 DEF Wrote, SameRead
<1>failed. ASSUME NEW p \in Procs, Failed(p) PROVE BackedInv'
  <2>1. ReadWell(p)' BY <1>failed DEF Failed, ReadWell, HasRead
  <2> QED BY <1>0, <1>rest, <1>calm, <1>failed, <2>1, NothingToBack DEF Failed, Cleared, Calm
<1>committed. ASSUME NEW p \in Procs, Committed(p) PROVE BackedInv'
  <2>1. ReadWell(p)' BY <1>committed DEF Committed, ReadWell, HasRead
  <2>2. \A r \in DOMAIN ledger : r \in DOMAIN ledger' /\ ledger'[r] = ledger[r]
    BY <1>0, <1>committed, LandedFacts DEF Committed, EvidenceInv
  <2>3. \A s : Backed(s) => BackedBy(kind', ledger', manifests', s)
    BY <1>grown, <1>committed, <2>2 DEF Committed
  <2>4. BackedBy(kind', ledger', manifests', run'[p].next)
    <3>1. CASE run'[p].next = Advanced(p)
      BY <1>committed, <3>1, AdvanceIsBacked DEF Committed
    <3>2. CASE run'[p].next = run[p].prior
      BY <1>0, <2>3, <3>2
    <3> QED BY <1>committed, <3>1, <3>2 DEF Committed
  <2> QED BY <1>rest, <1>committed, <2>1, <2>3, <2>4, NothingToBack DEF Committed, Cleared
<1>saved. ASSUME NEW p \in Procs, Saved(p) PROVE BackedInv'
  <2>1. \A s : Backed(s) => BackedBy(kind', ledger', manifests', s)
    BY <1>grown, <1>saved DEF Saved
  <2>2. ReadWell(p)' BY <1>saved, IdleType DEF Saved, ReadWell, HasRead
  <2>3. \A q \in Procs \ {p} : /\ ReadWell(q)'
                               /\ BackedBy(kind', ledger', manifests', run'[q].prior)
                               /\ BackedBy(kind', ledger', manifests', run'[q].next)
    BY <1>0, <1>saved, <2>1 DEF Saved, Others, ReadWell, HasRead
  <2>4. BackedBy(kind', ledger', manifests', state')
    BY <1>0, <1>saved, <2>1 DEF Saved
  <2>5. run'[p].prior = NoState /\ run'[p].next = NoState BY <1>saved, IdleType DEF Saved
  <2> QED BY <2>2, <2>3, <2>4, <2>5, NothingToBack DEF BackedInv, Backed
<1>died. ASSUME NEW p \in Procs, Died(p) PROVE BackedInv'
  <2>1. ReadWell(p)' BY <1>died, IdleType DEF Died, ReadWell, HasRead
  <2>2. \A s : Backed(s) => BackedBy(kind', ledger', manifests', s)
    BY <1>grown, <1>died DEF Died
  <2>3. run'[p].prior = NoState /\ run'[p].next = NoState BY <1>died, IdleType DEF Died
  <2> QED BY <1>rest, <1>died, <2>1, <2>2, <2>3, NothingToBack DEF Died
<1> QED
  BY <1>still, <1>started, <1>read, <1>stored, <1>wrote, <1>failed, <1>committed, <1>saved,
     <1>died, Effects DEF Moved
----
\* What a commit adds lies between the cursor it started from and the one it is
\* going to save.
LEMMA CommitGoesOn ==
  ASSUME IInv, NEW p \in Procs, Committed(p), run[p].prior = state
  PROVE  /\ IsAncestor(state.cursor, Advanced(p).cursor)
         /\ kind = "git" /\ Reached(ledger, state.cursor) /\ Apart(ledger)
              => Reached(ledger', Advanced(p).cursor) /\ Apart(ledger')
<1> DEFINE id == run[p].id
           upto == run[p].upto
           new == Advanced(p).cursor
<1>0. /\ Shape /\ OwnId(p) /\ ReadWell(p) /\ run[p] \in RunRecord /\ run[p].at = "committing"
      /\ state.cursor \in Cursors /\ upto \in Cursors
  BY DEF IInv, EvidenceInv, BackedInv, Shape, Committed, StateFile, RunRecord
<1>1. PICK cited : Landed(p, cited) BY DEF Committed
<1>2. /\ id \notin DOMAIN ledger /\ DOMAIN ledger' = DOMAIN ledger \cup {id}
      /\ \A r \in DOMAIN ledger : ledger'[r] = ledger[r]
      /\ ledger'[id].from = state.cursor /\ ledger'[id].upto = upto
  BY <1>0, <1>1, LandedFacts
<1>3. new = IF upto = <<>> THEN state.cursor ELSE upto
  BY DEF Advanced
<1>4. CASE kind # "git"
  <2>1. new = state.cursor BY <1>0, <1>3, <1>4 DEF ReadWell, HasRead
  <2> QED BY <1>0, <1>4, <2>1, AncestorOfItself
<1>5. CASE kind = "git"
  <2>1. new = upto /\ IsAncestor(state.cursor, upto)
    BY <1>0, <1>3, <1>5 DEF ReadWell, HasRead, Shows
  <2>2. Len(state.cursor) \in Nat /\ Len(upto) \in Nat /\ Len(state.cursor) <= Len(upto)
    BY <1>0, <2>1, CursorsAreSequences DEF IsAncestor
  <2>3. \A r \in DOMAIN ledger : Len(ledger[r].upto) \in Nat /\ Len(ledger[r].from) \in Nat
    BY <1>0, CursorsAreSequences DEF Shape, Entry
  <2> HIDE DEF new
  <2>4. ASSUME Reached(ledger, state.cursor), Apart(ledger)
        PROVE  Reached(ledger', new) /\ Apart(ledger')
    <3>1. \A r \in DOMAIN ledger : Len(ledger'[r].upto) <= Len(ledger'[id].from)
      BY <1>2, <2>4 DEF Reached
    <3>2. Reached(ledger', new)
      <4>1. \A r \in DOMAIN ledger : Len(ledger'[r].upto) <= Len(upto)
        BY <1>2, <2>2, <2>3, <2>4 DEF Reached
      <4>2. Len(ledger'[id].upto) <= Len(upto) BY <1>2, <2>2
      <4> QED BY <1>2, <2>1, <4>1, <4>2 DEF Reached
    <3>3. \A r, q \in DOMAIN ledger : r # q =>
            Len(ledger'[r].upto) <= Len(ledger'[q].from) \/ Len(ledger'[q].upto) <= Len(ledger'[r].from)
      BY <1>2, <2>4 DEF Apart
    <3> QED BY <1>2, <3>1, <3>2, <3>3 DEF Apart
  <2> QED BY <2>1, <2>4 DEF new
<1> QED BY <1>4, <1>5

LEMMA OnceStep ==
  ASSUME IInv, [Next]_vars
  PROVE  (\A q \in Procs : Current(q)') /\ InOneLine'
<1>0. /\ Shape /\ InOneLine /\ \A q \in Procs : Current(q)
      /\ state.cursor \in Cursors
  BY DEF IInv, Shape, StateFile
<1>still. CASE Still
  BY <1>0, <1>still DEF Still, Calm, Current, Working, InOneLine
\* When runs do not overlap, a run that is under way is alone.
<1>alone. ASSUME NEW p \in Procs, run[p].at # "idle", ~overlapped
          PROVE  \A q \in Procs \ {p} : run[q].at = "idle"
  BY <1>0, <1>alone DEF Current
\* So what is to be shown is about the run that moves.
<1>rest. ASSUME NEW p \in Procs, Others(p),
                ~overlapped' =>
                  /\ \A q \in Procs \ {p} : run[q].at = "idle"
                  /\ Working(p)' => run'[p].prior = state'
                  /\ run'[p].at = "saving" =>
                       /\ IsAncestor(state'.cursor, run'[p].next.cursor)
                       /\ run'[p].id \notin DOMAIN ledger' => run'[p].next = state',
                kind' = "git" /\ ~overlapped' /\ ~torn' =>
                  /\ Apart(ledger')
                  /\ IF run'[p].at = "saving" THEN Reached(ledger', run'[p].next.cursor)
                     ELSE Reached(ledger', state'.cursor)
         PROVE  (\A q \in Procs : Current(q)') /\ InOneLine'
  <2>1. ASSUME ~overlapped' PROVE \A q \in Procs \ {p} : run'[q].at = "idle"
    BY <1>rest, <2>1 DEF Others
  <2>2. \A q \in Procs : Current(q)' BY <1>rest, <2>1 DEF Current, Working
  <2>3. InOneLine' BY <1>rest, <2>1 DEF InOneLine
  <2> QED BY <2>2, <2>3
<1>started. ASSUME NEW p \in Procs, Started(p) PROVE (\A q \in Procs : Current(q)') /\ InOneLine'
  <2>1. ASSUME ~overlapped' PROVE ~overlapped /\ \A q \in Procs : run[q].at = "idle"
    BY <1>started, <2>1 DEF Started, Running
  <2> QED BY <1>0, <1>rest, <1>started, <2>1 DEF Started, InOneLine
\* A run that works on, or gives up: what is saved, or will be, stays.
<1>works. ASSUME NEW p \in Procs, Working(p), Others(p), Calm,
                 \/ Working(p)' /\ run'[p].prior = run[p].prior
                 \/ run'[p].at = "saving" /\ run'[p].next = run[p].prior
          PROVE  (\A q \in Procs : Current(q)') /\ InOneLine'
  <2>1. ASSUME ~overlapped
        PROVE  /\ \A q \in Procs \ {p} : run[q].at = "idle"
               /\ \A q \in Procs : run[q].at # "saving"
               /\ run[p].prior = state
    BY <1>0, <1>alone, <1>works, <2>1 DEF Working, Current
  <2>2. IsAncestor(state.cursor, state.cursor) BY <1>0, AncestorOfItself
  <2>3. UNCHANGED <<kind, state, ledger, overlapped, torn>> BY <1>works DEF Calm
  <2>4. CASE Working(p)' /\ run'[p].prior = run[p].prior
    <3>1. run'[p].at # "saving" BY <2>4 DEF Working
    <3> QED BY <1>0, <1>rest, <1>works, <2>1, <2>3, <2>4, <3>1 DEF InOneLine
  <2>5. CASE run'[p].at = "saving" /\ run'[p].next = run[p].prior
    <3>1. ~Working(p)' BY <2>5 DEF Working
    <3> QED BY <1>0, <1>rest, <1>works, <2>1, <2>2, <2>3, <2>5, <3>1 DEF InOneLine
  <2> QED BY <1>works, <2>4, <2>5
<1>wrote. ASSUME NEW p \in Procs, Wrote(p) PROVE (\A q \in Procs : Current(q)') /\ InOneLine'
  <2>1. ASSUME ~overlapped
        PROVE  /\ \A q \in Procs \ {p} : run[q].at = "idle"
               /\ \A q \in Procs : run[q].at # "saving"
               /\ run'[p].prior = state
    BY <1>0, <1>alone, <1>wrote, <2>1 DEF Wrote, SameRead, Working, Current
  <2> QED BY <1>0, <1>rest, <1>wrote, <2>1 DEF Wrote, InOneLine
<1>committed. ASSUME NEW p \in Procs, Committed(p)
              PROVE  (\A q \in Procs : Current(q)') /\ InOneLine'
  <2>1. ASSUME ~overlapped
        PROVE  /\ \A q \in Procs \ {p} : run[q].at = "idle"
               /\ \A q \in Procs : run[q].at # "saving"
               /\ run[p].prior = state
    BY <1>0, <1>alone, <1>committed, <2>1 DEF Committed, Working, Current
  <2>2. /\ Others(p) /\ run'[p].at = "saving" /\ ~Working(p)' /\ run'[p].id \in DOMAIN ledger'
        /\ UNCHANGED <<kind, state, overlapped>>
    <3>1. OwnId(p) BY DEF IInv, EvidenceInv
    <3> QED BY <1>0, <1>committed, <3>1, LandedFacts DEF Committed, Working
  <2>3. ASSUME ~overlapped
        PROVE  IsAncestor(state.cursor, run'[p].next.cursor)
    <3>1. CASE run'[p].next = Advanced(p) BY <1>committed, <2>1, <2>3, <3>1, CommitGoesOn
    <3>2. CASE run'[p].next = run[p].prior BY <1>0, <2>1, <2>3, <3>2, AncestorOfItself
    <3> QED BY <1>committed, <3>1, <3>2 DEF Committed
  <2>4. ASSUME kind = "git", ~overlapped, ~torn'
        PROVE  Apart(ledger') /\ Reached(ledger', run'[p].next.cursor)
    <3>1. run'[p].next = Advanced(p) /\ ~torn BY <1>committed, <2>4 DEF Committed
    <3>2. Reached(ledger, state.cursor) /\ Apart(ledger)
      BY <1>0, <2>1, <2>4, <3>1 DEF InOneLine
    <3> QED BY <1>committed, <2>1, <2>4, <3>1, <3>2, CommitGoesOn
  <2> QED BY <1>rest, <2>1, <2>2, <2>3, <2>4
<1>saved. ASSUME NEW p \in Procs, Saved(p) PROVE (\A q \in Procs : Current(q)') /\ InOneLine'
  <2>1. Others(p) /\ run'[p].at = "idle" /\ ~Working(p)'
    BY <1>saved, IdleType DEF Saved, Working
  <2> QED BY <1>0, <1>alone, <1>rest, <1>saved, <2>1 DEF Saved, InOneLine
<1>died. ASSUME NEW p \in Procs, Died(p) PROVE (\A q \in Procs : Current(q)') /\ InOneLine'
  <2>1. Others(p) /\ run'[p].at = "idle" /\ ~Working(p)'
    BY <1>died, IdleType DEF Died, Working
  <2>2. UNCHANGED <<kind, state, ledger, overlapped>> /\ run[p].at # "idle"
    BY <1>died DEF Died
  <2>3. ASSUME kind = "git", ~overlapped, ~torn'
        PROVE  Apart(ledger) /\ Reached(ledger, state.cursor)
    <3>1. ~torn /\ run[p].id \notin DOMAIN ledger BY <1>died, <2>3 DEF Died
    <3>2. CASE run[p].at = "saving"
      BY <1>0, <2>3, <3>1, <3>2 DEF Current, InOneLine
    <3>3. CASE run[p].at # "saving"
      <4>1. \A q \in Procs : run[q].at # "saving" BY <1>alone, <2>2, <2>3, <3>3
      <4> QED BY <1>0, <2>3, <3>1, <4>1 DEF InOneLine
    <3> QED BY <3>2, <3>3
  <2> QED BY <1>alone, <1>rest, <2>1, <2>2, <2>3
<1>others. ASSUME NEW p \in Procs, JustRead(p) \/ Stored(p) \/ Failed(p)
           PROVE  (\A q \in Procs : Current(q)') /\ InOneLine'
  BY <1>works, <1>others DEF JustRead, Stored, Failed, SameRead, Working
<1> QED
  BY <1>still, <1>started, <1>wrote, <1>committed, <1>saved, <1>died, <1>others, Effects DEF Moved
----
LEMMA InitInv == Init => IInv
<1> SUFFICES ASSUME Init PROVE IInv OBVIOUS
<1>1. /\ state = NoState /\ ledger = <<>> /\ manifests = <<>> /\ objects = <<>>
      /\ DOMAIN ledger = {} /\ DOMAIN manifests = {} /\ DOMAIN objects = {}
      /\ \A p \in Procs : run[p] = Idle
  <2>1. DOMAIN <<>> = {} OBVIOUS
  <2> QED BY <2>1 DEF Init, VaultInit
<1>2. Shape BY <1>1, IdleType DEF Init, VaultInit, Shape, VaultTypeOK
<1>3. EvidenceInv /\ LedgerKept
  BY <1>1, IdleType DEF EvidenceInv, LedgerKept, Tidy, OwnId, Persisted, Working
<1>4. BackedInv
  BY <1>1, IdleType, NothingToBack DEF BackedInv, Backed, ReadWell, HasRead
<1>5. \A p \in Procs : Current(p)
  BY <1>1, IdleType DEF Current, Working
<1>6. InOneLine
  BY <1>1, IdleType DEF InOneLine, Reached, Apart
<1> QED BY <1>2, <1>3, <1>4, <1>5, <1>6 DEF IInv

LEMMA InvStep == IInv /\ [Next]_vars => IInv'
BY ShapeStep, EvidenceStep, BackedStep, OnceStep DEF IInv

LEMMA Invariant == Spec => []IInv
BY InitInv, InvStep, PTL DEF Spec

\* Vault, state file, ledger and every run's record stay of their types.
THEOREM SourceTypeCorrect == Spec => []TypeOK
<1>1. IInv => TypeOK
  <2> SUFFICES ASSUME IInv PROVE TypeOK OBVIOUS
  <2>1. Shape /\ \A p \in Procs : Tidy(p) /\ run[p] \in RunRecord
    BY DEF IInv, EvidenceInv, Shape
  <2>2. \A p \in Procs : {run[p].prior, run[p].next} \subseteq StateFile
    BY <2>1 DEF RunRecord
  <2>3. ASSUME NEW p \in Procs
        PROVE  /\ run[p].at \in {"idle", "reading", "persisting", "committing", "saving"}
               /\ run[p].id \in Runs \cup {NoRun}
               /\ run[p].texts \subseteq Texts /\ run[p].stored \subseteq Stamped(run[p].texts)
               /\ run[p].texts # {} => run[p].at \in {"persisting", "committing"}
    BY <2>1 DEF RunRecord, Places, Tidy, HasRead
  <2> QED BY <2>1, <2>2, <2>3 DEF Shape, TypeOK, StateFile, Cursors
<1> QED BY <1>1, Invariant, PTL

\* The cursor saved is the one the last successful run reached, that run is in the
\* bundle, and its evidence was persisted first.
THEOREM CursorsAreBacked == Spec => []AdvancesAreBacked
<1>1. IInv => AdvancesAreBacked
  BY DEF IInv, BackedInv, Backed, BackedBy, LedgerKept, Kept, AdvancesAreBacked, HeldSecret
<1> QED BY <1>1, Invariant, PTL

\* No commit of the source behind the cursor is passed over without a trace,
\* whatever the limit, however the branch was rewritten and whoever died when.
THEOREM NothingIsSkipped == Spec => []NothingSkippedSilently
<1>1. IInv => NothingSkippedSilently
  <2> SUFFICES ASSUME IInv, kind = "git", NEW n \in 1..Len(state.cursor)
               PROVE  \E r \in DOMAIN ledger :
                        /\ WentOver(r, SubSeq(state.cursor, 1, n))
                        /\ \/ Showed(r, SubSeq(state.cursor, 1, n))
                           \/ ledger[r].truncated /\ (r \in DOMAIN manifests \/ HeldSecret(r))
    BY DEF NothingSkippedSilently
  <2>1. AccountedBy(ledger, manifests, SubSeq(state.cursor, 1, n))
    BY DEF IInv, BackedInv, Backed, BackedBy
  <2> QED BY <2>1 DEF AccountedBy, WentOver, Showed, HeldSecret
<1> QED BY <1>1, Invariant, PTL

\* Runs that do not overlap and are not cut off bring no commit in twice.
THEOREM NothingIsIngestedTwice == Spec => []IngestedOnce
<1>1. IInv => IngestedOnce
  <2> SUFFICES ASSUME IInv, kind = "git", ~overlapped, ~torn,
                      NEW r \in DOMAIN ledger, NEW q \in DOMAIN ledger, r # q,
                      NEW n \in (Len(ledger[r].from) + 1)..Len(ledger[r].upto),
                      WentOver(q, SubSeq(ledger[r].upto, 1, n))
               PROVE  FALSE
    BY DEF IngestedOnce
  <2>1. ledger[r].upto \in Cursors /\ Len(ledger[r].upto) \in Nat /\ Len(ledger[r].from) \in Nat
        /\ Len(ledger[q].upto) \in Nat /\ Len(ledger[q].from) \in Nat
    BY CursorsAreSequences DEF IInv, Shape, Entry
  <2>2. n \in 0..Len(ledger[r].upto) BY <2>1
  <2>3. Len(SubSeq(ledger[r].upto, 1, n)) = n BY <2>1, <2>2, PrefixIsAncestor
  <2>4. n > Len(ledger[q].from) /\ n <= Len(ledger[q].upto)
    BY <2>3 DEF WentOver, IsAncestor
  <2>5. Len(ledger[r].upto) <= Len(ledger[q].from) \/ Len(ledger[q].upto) <= Len(ledger[r].from)
    BY DEF IInv, InOneLine, Apart
  <2> QED BY <2>1, <2>2, <2>4, <2>5
<1> QED BY <1>1, Invariant, PTL

\* While runs do not overlap the cursor moves only forward along one history.
THEOREM CursorMovesForward == Spec => CursorOnlyAdvances
<1>1. IInv /\ [Next]_vars => [overlapped \/ IsAncestor(state.cursor, state'.cursor)]_vars
  <2> SUFFICES ASSUME IInv, [Next]_vars, ~overlapped
               PROVE  IsAncestor(state.cursor, state'.cursor)
    OBVIOUS
  <2>1. CASE state' = state
    <3>1. state.cursor \in Cursors BY DEF IInv, Shape, StateFile
    <3> QED BY <2>1, <3>1, AncestorOfItself
  <2>2. ASSUME NEW p \in Procs, Saved(p) PROVE IsAncestor(state.cursor, state'.cursor)
    BY <2>2 DEF IInv, Current, Saved
  <2> QED
    BY <2>1, <2>2, Effects DEF Still, Moved, Started, JustRead, Stored, Wrote, Failed, Committed,
                               Died, Calm
<1> QED BY <1>1, Invariant, PTL DEF Spec, CursorOnlyAdvances

\* evidence verify says ok exactly when nothing named is missing or damaged, and
\* what it passes can be replayed whole.
THEOREM VerifyIsTruthful == Spec => []VerifyTellsTruth
<1>1. IInv => VerifyTellsTruth
  <2> SUFFICES ASSUME IInv PROVE VerifyTellsTruth OBVIOUS
  <2>1. \A r \in DOMAIN Trailers :
          /\ r \in DOMAIN ledger /\ Cited(r) # {} /\ Trailers[r] = Cited(r)
          /\ r \in DOMAIN manifests /\ Cited(r) \subseteq manifests[r]
    BY DEF Trailers, Cited, IInv, LedgerKept, Kept
  <2>2. \A r \in DOMAIN ledger : Cited(r) # {} => r \in DOMAIN Trailers
    BY DEF Trailers
  <2>3. ASSUME verify_evidence(Trailers)
        PROVE  /\ \A r \in DOMAIN manifests : Sound(manifests[r])
               /\ \A r \in DOMAIN ledger : Sound(Cited(r))
               /\ \A r \in DOMAIN Trailers : Cited(r) \subseteq replay_run(r)
    <3>1. \A r \in DOMAIN manifests : verify_run(r) BY <2>3 DEF verify_evidence
    <3>2. \A r \in DOMAIN manifests : Sound(manifests[r]) BY <3>1 DEF verify_run, Sound
    <3>3. \A r \in DOMAIN Trailers : Sound(Cited(r))
      BY <2>1, <2>3 DEF verify_evidence, verify_commit, Sound
    <3>4. \A r \in DOMAIN ledger : Sound(Cited(r)) BY <2>2, <3>3 DEF Sound
    <3>5. \A r \in DOMAIN Trailers : Cited(r) \subseteq replay_run(r)
      BY <2>1, <3>1 DEF replay_run
    <3> QED BY <3>2, <3>4, <3>5
  <2>4. ASSUME \A r \in DOMAIN manifests : Sound(manifests[r]),
               \A r \in DOMAIN ledger : Sound(Cited(r))
        PROVE  verify_evidence(Trailers)
    <3>1. \A r \in DOMAIN manifests : verify_run(r) /\ read_run(r)
      BY <2>4 DEF Sound, verify_run, read_run, HasObjects, readable
    <3>2. \A r \in DOMAIN Trailers : verify_commit(r, Trailers[r])
      BY <2>1, <2>4, <3>1 DEF verify_commit, Sound
    <3> QED BY <3>1, <3>2 DEF verify_evidence
  <2> QED BY <2>3, <2>4 DEF VerifyTellsTruth
<1> QED BY <1>1, Invariant, PTL
================================================================================
