------------------------------- MODULE SourceRun -------------------------------
(* `kosha source run` (connectors/run.py): one configured source instance, run   *)
(* by any number of processes.  A run loads the instance's cursor, lets its      *)
(* connector read the source from there, sends what it read through the approval *)
(* gate, persists the evidence, commits to the bundle, and saves the cursor.     *)
(*                                                                               *)
(* A commit of the source repository names its whole history, so it is modelled  *)
(* as the sequence of the changes in it: a is an ancestor of b when it is a      *)
(* prefix, <<>> stands for no cursor, and a push may move the branch to any      *)
(* history, rewritten ones included.  What a run reads is a set of texts, each   *)
(* the stretch of history <<after, upto>> it shows.  The bounded list of recent  *)
(* attempts, which no run reads, is left out of the state file.                  *)
EXTENDS EvidenceVault

CONSTANTS
    Procs,      \* processes that run the instance
    Histories,  \* the histories the source's branch can have
    Changes,    \* what one commit of the source changes
    Secrets,    \* the changes whose text a secret detector matches
    Oversized,  \* the changes whose text alone is over the limit of a document
    Limit,      \* max_commits: the most commits one run of the git connector shows
    Kinds,      \* the connectors an instance may name
    MaxFaults,  \* bound: objects the disk loses or damages
    NoRun       \* no successful run yet

ASSUME SourceAssumption ==
    /\ \A h \in Histories : h \in Seq(Changes) /\ h # <<>>
    /\ Limit \in Nat \ {0}
    /\ Kinds \subseteq {"git", "folder", "url", "mcp"}
    /\ NoRun \notin Runs
    /\ \A h \in Histories :
         /\ \A n \in 0..Len(h) : <<SubSeq(h, 1, n), h>> \in Texts
         /\ \A i \in 1..Len(h) : <<<<>>, <<h[i]>>>> \in Texts

VARIABLES
    kind,       \* the connector of the instance
    head,       \* where the source's branch stands
    state,      \* the instance's state file: the cursor and the last successful run
    run,        \* process -> the run it is in: see Idle
    ledger,     \* run -> what its commit brought into the bundle
    faults,     \* objects lost or damaged so far
    overlapped, \* two runs of the instance have been under way at once
    torn        \* a run died or failed with its commit made and its cursor not saved

vars == <<vaultVars, kind, head, state, run, ledger, faults, overlapped, torn>>

NoState == [cursor |-> <<>>, success |-> NoRun]
Idle == [at |-> "idle", id |-> NoRun, prior |-> NoState, texts |-> {},
         upto |-> <<>>, truncated |-> FALSE, stored |-> {}, next |-> NoState]

IsAncestor(a, b) == Len(a) <= Len(b) /\ SubSeq(b, 1, Len(a)) = a

\* The changes a text shows, and whether the secret scan matches one of them.
Shown(t) == {t[2][i] : i \in (Len(t[1]) + 1)..Len(t[2])}
scan_text(t) == Shown(t) \cap Secrets # {}
\* A document over the limit is refused, and the run with it.
guard_text(t) == Shown(t) \cap Oversized = {}
\* bind_evidence: a text with a match goes on without evidence identity.
Stamped(ts) == {t \in ts : ~scan_text(t)}

Used == {run[p].id : p \in Procs} \cup DOMAIN ledger \cup DOMAIN manifests \cup {state.success}
Running == {p \in Procs : run[p].at # "idle"}
Goto(p, place) == run' = [run EXCEPT ![p].at = place]
Saving(p, next) == run' = [run EXCEPT ![p] = [Idle EXCEPT !.at = "saving", !.id = run[p].id,
                                                          !.next = next]]
\* Every way out of a run but success saves the state the run loaded.
Failing(p) == Saving(p, run[p].prior)
--------------------------------------------------------------------------------
Init ==
    /\ VaultInit
    /\ kind \in Kinds
    /\ head \in Histories
    /\ state = NoState
    /\ run = [p \in Procs |-> Idle]
    /\ ledger = <<>>
    /\ faults = 0 /\ overlapped = FALSE /\ torn = FALSE

\* The state file is read once, here; what the run saves is derived from it.
Start(p) ==
    /\ run[p].at = "idle"
    /\ \E r \in Runs \ Used :
         run' = [run EXCEPT ![p] = [Idle EXCEPT !.at = "reading", !.id = r, !.prior = state]]
    /\ overlapped' = (overlapped \/ Running # {})
    /\ UNCHANGED <<vaultVars, kind, head, state, ledger, faults, torn>>

\* Fault: the coverage never says that the run was cut short.
ReadsUncut(p, ts, upto, cut) ==
    /\ run[p].at = "reading"
    /\ \A t \in ts : guard_text(t)
    /\ run' = [run EXCEPT ![p].at = IF Stamped(ts) = {} THEN "committing" ELSE "persisting",
                          ![p].texts = ts, ![p].upto = upto]
    /\ UNCHANGED <<vaultVars, kind, head, state, ledger, faults, overlapped, torn>>

\* The connector's texts become a plan and the plan is approved; deciding reads
\* nothing a step of another process changes.  persist_evidence_run does nothing
\* for a run of which every text had a match.
Reads(p, ts, upto, cut) ==
    /\ run[p].at = "reading"
    /\ \A t \in ts : guard_text(t)
    /\ run' = [run EXCEPT ![p].at = IF Stamped(ts) = {} THEN "committing" ELSE "persisting",
                          ![p].texts = ts, ![p].upto = upto, ![p].truncated = cut]
    /\ UNCHANGED <<vaultVars, kind, head, state, ledger, faults, overlapped, torn>>

\* The newest Limit commits after the cursor, as one text; the cursor to save is
\* the branch's head whether or not that was all of them.
WindowStart(cursor) == IF Len(head) - Len(cursor) > Limit THEN Len(head) - Limit ELSE Len(cursor)
run_git_source(p) ==
    LET cursor == run[p].prior.cursor IN
    /\ kind = "git"
    /\ IsAncestor(cursor, head)
    /\ Reads(p, {<<SubSeq(head, 1, WindowStart(cursor)), head>>}, head,
             Len(head) - Len(cursor) > Limit)

\* The other connectors read the whole source and keep no cursor.
run_folder(p) ==
    /\ kind = "folder"
    /\ Reads(p, {<<<<>>, <<c>>>> : c \in Shown(<<<<>>, head>>)}, <<>>, FALSE)

run_snapshot(p) ==
    /\ kind \in {"url", "mcp"}
    /\ Reads(p, {<<<<>>, head>>}, <<>>, FALSE)

\* Any exception of a connector: a cursor that is no ancestor of the head any more,
\* the network, a document over the limit, a tool the server or the operator does not allow.  Or
\* a run that reads and does not commit: a dry run, a rejection, an empty plan.
Uncommitted(p) ==
    /\ run[p].at = "reading"
    /\ Failing(p)
    /\ UNCHANGED <<vaultVars, kind, head, state, ledger, faults, overlapped, torn>>

PutObject(p) ==
    /\ run[p].at = "persisting"
    /\ \E d \in Stamped(run[p].texts) \ run[p].stored :
         /\ put_object(d)
         /\ run' = [run EXCEPT ![p].stored = @ \cup {d}]
    /\ UNCHANGED <<kind, head, state, ledger, faults, overlapped, torn>>

\* Fault: the manifest is left for later.
WriteRunNot(p) ==
    /\ run[p].at = "persisting"
    /\ run[p].stored = Stamped(run[p].texts)
    /\ Goto(p, "committing")
    /\ UNCHANGED <<vaultVars, kind, head, state, ledger, faults, overlapped, torn>>

WriteRun(p) ==
    /\ run[p].at = "persisting"
    /\ run[p].stored = Stamped(run[p].texts)
    /\ write_run(run[p].id, run[p].stored)
    /\ Goto(p, "committing")
    /\ UNCHANGED <<kind, head, state, ledger, faults, overlapped, torn>>

\* A damaged object of the same digest, or one lost again before the manifest.
PersistFails(p) ==
    /\ run[p].at = "persisting"
    /\ \/ \E d \in Stamped(run[p].texts) \ run[p].stored : Conflicts(d)
       \/ run[p].stored = Stamped(run[p].texts) /\ ~HasObjects(run[p].stored)
    /\ Failing(p)
    /\ UNCHANGED <<vaultVars, kind, head, state, ledger, faults, overlapped, torn>>

\* Fault: a committed run saves the cursor it started from.
AdvancedNot(p) == [cursor |-> run[p].prior.cursor, success |-> run[p].id]

\* What a committed run saves; a connector without a cursor leaves it as it was.
Advanced(p) ==
    [cursor |-> IF run[p].upto = <<>> THEN run[p].prior.cursor ELSE run[p].upto,
     success |-> run[p].id]

\* Fault: a refused commit still moves the cursor.
CommitFailsQuietly(p) ==
    /\ run[p].at = "committing"
    /\ Saving(p, Advanced(p))
    /\ UNCHANGED <<vaultVars, kind, head, state, ledger, faults, overlapped, torn>>

\* The ingest lock is taken, or git refuses.
CommitFails(p) ==
    /\ run[p].at = "committing"
    /\ Failing(p)
    /\ UNCHANGED <<vaultVars, kind, head, state, ledger, faults, overlapped, torn>>

\* The commit cites the texts whose concepts it changes, all, some or none: a
\* text that says nothing new leaves only a log entry.
Landed(p, cited) ==
    ledger' = Extend(ledger, run[p].id,
                     [texts |-> run[p].texts, cited |-> cited, from |-> run[p].prior.cursor,
                      upto |-> run[p].upto, truncated |-> run[p].truncated])

Commit(p) ==
    /\ run[p].at = "committing"
    /\ \E cited \in SUBSET Stamped(run[p].texts) : Landed(p, cited)
    /\ Saving(p, Advanced(p))
    /\ UNCHANGED <<vaultVars, kind, head, state, faults, overlapped, torn>>

\* The commit is made and the backup tag after it fails: reported as a failure.
CommitWithoutTag(p) ==
    /\ run[p].at = "committing"
    /\ \E cited \in SUBSET Stamped(run[p].texts) : Landed(p, cited)
    /\ Failing(p)
    /\ torn' = TRUE
    /\ UNCHANGED <<vaultVars, kind, head, state, faults, overlapped>>

\* The state file is replaced by what this run derived from the one it loaded.
Save(p) ==
    /\ run[p].at = "saving"
    /\ state' = run[p].next
    /\ run' = [run EXCEPT ![p] = Idle]
    /\ UNCHANGED <<vaultVars, kind, head, ledger, faults, overlapped, torn>>

Die(p) ==
    /\ run[p].at # "idle"
    /\ run' = [run EXCEPT ![p] = Idle]
    /\ torn' = (torn \/ run[p].id \in DOMAIN ledger)
    /\ UNCHANGED <<vaultVars, kind, head, state, ledger, faults, overlapped>>
--------------------------------------------------------------------------------
Push ==
    /\ head' \in Histories \ {head}
    /\ UNCHANGED <<vaultVars, kind, state, run, ledger, faults, overlapped, torn>>

DiskFault ==
    /\ faults < MaxFaults
    /\ \E d \in DOMAIN objects : LoseObject(d) \/ DamageObject(d)
    /\ faults' = faults + 1
    /\ UNCHANGED <<kind, head, state, run, ledger, overlapped, torn>>

Step(p) ==
    \/ Start(p) \/ run_git_source(p) \/ run_folder(p) \/ run_snapshot(p)
    \/ Uncommitted(p) \/ PutObject(p) \/ WriteRun(p) \/ PersistFails(p)
    \/ Commit(p) \/ CommitWithoutTag(p) \/ CommitFails(p) \/ Save(p) \/ Die(p)

Next == Push \/ DiskFault \/ \E p \in Procs : Step(p)

Spec == Init /\ [][Next]_vars
--------------------------------------------------------------------------------
TypeOK ==
    /\ VaultTypeOK
    /\ kind \in Kinds /\ head \in Histories
    /\ state \in [cursor : Histories \cup {<<>>}, success : Runs \cup {NoRun}]
    /\ DOMAIN run = Procs
    /\ \A p \in Procs :
         /\ run[p].at \in {"idle", "reading", "persisting", "committing", "saving"}
         /\ run[p].id \in Runs \cup {NoRun}
         /\ run[p].texts \subseteq Texts /\ run[p].stored \subseteq Stamped(run[p].texts)
         /\ run[p].texts # {} => run[p].at \in {"persisting", "committing"}
         /\ {run[p].prior, run[p].next} \subseteq
              [cursor : Histories \cup {<<>>}, success : Runs \cup {NoRun}]
    /\ DOMAIN ledger \subseteq Runs
    /\ faults \in Nat /\ overlapped \in BOOLEAN /\ torn \in BOOLEAN

\* The trailers `evidence verify` finds in the bundle's history.
Cited(r) == ledger[r].cited
Trailers == [r \in {q \in DOMAIN ledger : Cited(q) # {}} |-> Cited(r)]

\* evidence verify (evidence/verify.py) says ok exactly when every text a manifest
\* or a commit names is still there with its bytes: no crash between persisting
\* and committing makes it cry wolf, no loss escapes it, and what it passes can be
\* replayed whole.
Sound(ds) == \A d \in ds : readable(d)
VerifyTellsTruth ==
    /\ verify_evidence(Trailers) <=>
         /\ \A r \in DOMAIN manifests : Sound(manifests[r])
         /\ \A r \in DOMAIN ledger : Sound(Cited(r))
    /\ verify_evidence(Trailers) => \A r \in DOMAIN Trailers : Cited(r) \subseteq replay_run(r)

\* Whether a run's texts showed a commit of the source, and whether the stretch of
\* history it went over holds it.
Showed(r, commit) == \E t \in ledger[r].texts : Len(commit) > Len(t[1]) /\ IsAncestor(commit, t[2])
WentOver(r, commit) ==
    Len(commit) > Len(ledger[r].from) /\ IsAncestor(commit, ledger[r].upto)
HeldSecret(r) == Stamped(ledger[r].texts) = {}

\* A commit of the source behind the saved cursor was shown to the bundle by some
\* run, or a manifest says that the run which went over it was cut short.  The
\* exception is a run whose text a secret detector matched: nothing it read is in
\* the vault, and so nothing there says that it was cut short.
NothingSkippedSilently ==
    kind = "git" =>
      \A n \in 1..Len(state.cursor) :
        LET commit == SubSeq(state.cursor, 1, n) IN
        \E r \in DOMAIN ledger :
          /\ WentOver(r, commit)
          /\ \/ Showed(r, commit)
             \/ ledger[r].truncated /\ (r \in DOMAIN manifests \/ HeldSecret(r))

\* When runs of an instance do not overlap and none is cut off between its commit
\* and its save, no commit of the source is brought into the bundle twice: not by
\* a failed run's retry, not after the branch was rewritten and put back.
IngestedOnce ==
    kind = "git" /\ ~overlapped /\ ~torn =>
      \A r, q \in DOMAIN ledger : r # q =>
        \A n \in (Len(ledger[r].from) + 1)..Len(ledger[r].upto) :
          ~WentOver(q, SubSeq(ledger[r].upto, 1, n))

\* The saved cursor is the one the last successful run reached, that run is in the
\* bundle, and its evidence was persisted first, unless a secret detector matched
\* all it read.
AdvancesAreBacked ==
    state.success # NoRun =>
      /\ state.success \in DOMAIN ledger
      /\ kind = "git" => state.cursor = ledger[state.success].upto
      /\ state.success \in DOMAIN manifests \/ HeldSecret(state.success)

\* While runs do not overlap the cursor only moves forward along one history:
\* failed, rejected and dry runs leave it where it is.
CursorOnlyAdvances == [][overlapped \/ IsAncestor(state.cursor, state'.cursor)]_vars
================================================================================
