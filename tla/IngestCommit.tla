------------------------------ MODULE IngestCommit -----------------------------
(***************************************************************************)
(* Ingests and restores of one bundle repository, from the read of the      *)
(* bundle to the backup tag: ingest(), commit_plan and commit_reviewed_plan *)
(* of src/kosha/pipeline/run.py, GitStore of git_store.py, and apply_restore*)
(* of recovery.py.  The repository has one working tree and one index; the  *)
(* write phase of a process runs under IngestLock, any call of it may raise,*)
(* and the process may die between any two calls, write_text's truncation   *)
(* and its write included.                                                  *)
(*                                                                          *)
(* Abstractions.  A file's content is the set of its statements or log      *)
(* lines; the empty set is a file that does not exist, Cut a file that was  *)
(* truncated.  The process itself stands for the timestamp it stamps on a   *)
(* concept and for the entry it adds to the log.  Index files are left to   *)
(* LinkGraph.  A branch is named by the process that creates it.            *)
(***************************************************************************)
EXTENDS IngestLock

CONSTANTS
  Files,       \* the concept files of the bundle and Log
  Log,         \* log.md
  Facts,       \* what a file may state
  Fact,        \* the fact each process ingests; NoFact for a restore
  Touches,     \* the files a fact is written to
  Replaces,    \* the statements of a concept a fact supersedes
  Undated,     \* the lines of a log outside its date headings
  NoFact,      \* the process restores the bundle to an earlier tag
  Cut,         \* what is in a file between open("w") and the write
  Main,        \* the branch the repository starts on
  Backup,      \* the name of the day's backup tag
  Target,      \* the tag a restore goes back to: an earlier day's, or Backup
  Seed,        \* the bundle at the start
  Earlier,     \* the bundle Target was set on
  CallsFail    \* may a git call, or a write, raise?

Restorers == {p \in Procs : Fact[p] = NoFact}
Ingesters == Procs \ Restorers

Content == Facts \cup Procs \cup {Cut}
Trees == [Files -> SUBSET Content]
Branches == Procs \cup {Main}
Tags == Procs \cup {Backup, Target}

ASSUME CommitAssumption ==
  /\ NoFact \notin Facts
  /\ Fact \in [Procs -> Facts \cup {NoFact}]
  /\ Touches \in [Facts -> SUBSET Files]
  /\ Replaces \in [Facts -> SUBSET Facts]
  /\ Undated \subseteq Facts
  /\ Cut \notin Facts \cup Procs
  /\ Main \notin Procs
  /\ Backup \notin Procs
  /\ Target \notin Procs
  /\ Seed \in [Files -> SUBSET Facts]
  /\ Earlier \in [Files -> SUBSET Facts]
  /\ \E f \in Files : Earlier[f] # {}
  /\ Target = Backup => Earlier = Seed
  /\ CallsFail \in BOOLEAN

VARIABLES
  step,       \* how far each process is
  read,       \* the working tree each ingest read before it took the lock
  plan,       \* the files of its plan that were approved
  opened,     \* the file each process has truncated and not yet written
  worktree,   \* the working tree
  index,      \* the staged tree
  head,       \* the branch checked out
  tip,        \* the tree each branch points at
  tags,       \* the tree each tag points at; processes own the safety tags
  commits     \* every commit: who made it, on which tree, and which tree it is

gitVars == <<worktree, index, head, tip, tags, commits>>
vars == <<lockVars, step, read, plan, opened, gitVars>>

\* A process that has the lock and has not ended.
Busy == {"locked", "labelled", "branched", "removed", "restored", "staged", "committed"}
Steps == {"new", "nothing", "read", "tagged", "failed"} \cup Busy

Empty == [f \in Files |-> {}]

Advance(p, s) == step' = [step EXCEPT ![p] = s]

\* Fault: a file is planned afresh, without what p read there.
PlannedFresh(p, f) == {Fact[p], p}

\* The content the plan gives file f.  append_entries keeps the dated lines and
\* adds an entry, however often it is run; apply_update adds the fact, drops the
\* paragraphs it supersedes and stamps its own time over the last one.
PlannedContent(p, f) ==
  IF f = Log THEN (read[p][f] \ (Undated \cup {Cut})) \cup {p}
             ELSE (read[p][f] \ (Replaces[Fact[p]] \cup Procs)) \cup {Fact[p], p}

\* tree with the approved files of p's plan replaced by their contents.
WithPlan(tree, p) ==
  [f \in Files |-> IF f \in plan[p] THEN PlannedContent(p, f) ELSE tree[f]]

\* p was started and has not ended.
Running(p) ==
  /\ p \in alive
  /\ step[p] \notin {"new", "nothing"}
  /\ pc[p] \notin {"refused", "released"}

Init ==
  /\ LockInit
  /\ step = [p \in Procs |-> "new"]
  /\ read = [p \in Procs |-> Empty]
  /\ plan = [p \in Procs |-> {}]
  /\ opened = [p \in Procs |-> {}]
  /\ worktree = Seed
  /\ index = Seed
  /\ head = Main
  /\ tip = [b \in Branches |-> IF b = Main THEN Seed ELSE Empty]
  /\ tags = [t \in Tags |-> CASE t = Target -> Earlier [] t = Backup -> Seed [] OTHER -> Empty]
  /\ commits = {}

\* What a step before the lock needs.
Starting(p) ==
  /\ p \in alive
  /\ step[p] = "new"
  /\ OneAtATime => \A q \in Procs : ~ Running(q)
  /\ UNCHANGED <<lockVars, opened, gitVars>>

\* load_bundle raises on a concept file without frontmatter.
Unreadable == \E f \in Files \ {Log} : Cut \in worktree[f]

\* ingest: load the bundle, build the plan and have it approved, whole or item by
\* item.  The lock is not held, and a plan of which nothing is approved ends here.
PlanIngest(p) ==
  /\ Starting(p)
  /\ p \in Ingesters
  /\ IF Unreadable
       THEN Advance(p, "nothing") /\ UNCHANGED <<read, plan>>
       ELSE \E approved \in SUBSET Touches[Fact[p]] :
              /\ read' = [read EXCEPT ![p] = worktree]
              /\ plan' = [plan EXCEPT ![p] = approved]
              /\ Advance(p, IF approved = {} THEN "nothing" ELSE "read")

\* describe_restore: HEAD is compared with the tag; no difference ends here.
PlanRestore(p) ==
  /\ Starting(p)
  /\ p \in Restorers
  /\ Advance(p, IF tip[head] = tags[Target] THEN "nothing" ELSE "read")
  /\ UNCHANGED <<read, plan>>

\* IngestLock.acquire, call by call.
Acquire(p) ==
  /\ \/ step[p] = "read" /\ pc[p] = "idle" /\ Begin(p)
     \/ Acquiring(p)
  /\ Advance(p, IF pc'[p] = "holding" THEN "locked"
                ELSE IF pc'[p] = "refused" THEN "failed" ELSE step[p])
  /\ UNCHANGED <<read, plan, opened, gitVars>>

\* What a step of the write phase needs.
Writing(p, s) ==
  /\ p \in alive
  /\ pc[p] = "holding"
  /\ step[p] = s
  /\ UNCHANGED <<lockVars, read, plan>>

\* apply_restore: create_tag, at the state the restore is about to leave.
CreateTag(p) ==
  /\ Writing(p, "locked")
  /\ p \in Restorers
  /\ tags' = [tags EXCEPT ![p] = tip[head]]
  /\ Advance(p, "labelled")
  /\ UNCHANGED <<opened, worktree, index, head, tip, commits>>

\* git switch -c: a new branch at HEAD, with the working tree and the index
\* as they are.
CreateBranch(p) ==
  /\ Writing(p, IF p \in Restorers THEN "labelled" ELSE "locked")
  /\ head' = p
  /\ tip' = [tip EXCEPT ![p] = tip[head]]
  /\ Advance(p, "branched")
  /\ UNCHANGED <<opened, worktree, index, tags, commits>>

Written(p, f) == worktree[f] = PlannedContent(p, f)

\* The loop over plan.changes: write_text opens the next file, which truncates
\* it.  The log is the last of the changes.
OpenFile(p, f) ==
  /\ Writing(p, "branched")
  /\ p \in Ingesters
  /\ opened[p] = {}
  /\ f \in plan[p]
  /\ ~ Written(p, f)
  /\ f = Log => \A g \in plan[p] \ {Log} : Written(p, g)
  /\ opened' = [opened EXCEPT ![p] = {f}]
  /\ worktree' = [worktree EXCEPT ![f] = {Cut}]
  /\ UNCHANGED <<step, index, head, tip, tags, commits>>

\* write_text writes the opened file and closes it.
WriteFile(p, f) ==
  /\ Writing(p, "branched")
  /\ p \in Ingesters
  /\ f \in opened[p]
  /\ opened' = [opened EXCEPT ![p] = {}]
  /\ worktree' = [worktree EXCEPT ![f] = PlannedContent(p, f)]
  /\ UNCHANGED <<step, index, head, tip, tags, commits>>

\* git add -- <the plan's paths>
Stage(p) ==
  /\ Writing(p, "branched")
  /\ p \in Ingesters
  /\ opened[p] = {}
  /\ index' = [f \in Files |-> IF f \in plan[p] THEN worktree[f] ELSE index[f]]
  /\ Advance(p, "staged")
  /\ UNCHANGED <<opened, worktree, head, tip, tags, commits>>

\* Fault: the loop stops after its first write.
StageEarly(p) == Stage(p) /\ \E f \in plan[p] : Written(p, f)

\* The loop has written every file of the plan.
StagePlan(p) == Stage(p) /\ \A f \in plan[p] : Written(p, f)

\* What restore_tree takes away: the files of HEAD that the tag does not have.
Removed == {f \in Files : tip[head][f] # {} /\ tags[Target][f] = {}}

\* git rm wants every path in the index, and a file that is still there to be
\* as it is at HEAD.
Removable(f) ==
  /\ index[f] # {}
  /\ worktree[f] = {} \/ (worktree[f] = tip[head][f] /\ index[f] = tip[head][f])

\* Fault: restore_tree brings the tag's files back and removes none.
RemoveNothing(p) ==
  /\ Writing(p, "branched")
  /\ p \in Restorers
  /\ Advance(p, "removed")
  /\ UNCHANGED <<opened, gitVars>>

\* restore_tree: git rm, from the working tree and from the index.
RemoveFiles(p) ==
  /\ Writing(p, "branched")
  /\ p \in Restorers
  /\ IF \A f \in Removed : Removable(f)
       THEN /\ worktree' = [f \in Files |-> IF f \in Removed THEN {} ELSE worktree[f]]
            /\ index' = [f \in Files |-> IF f \in Removed THEN {} ELSE index[f]]
            /\ Advance(p, "removed")
       ELSE Advance(p, "failed") /\ UNCHANGED <<worktree, index>>
  /\ UNCHANGED <<opened, head, tip, tags, commits>>

\* tree with the files of the tag brought back.
WithTarget(tree) ==
  [f \in Files |-> IF tags[Target][f] # {} THEN tags[Target][f] ELSE tree[f]]

\* restore_tree: git checkout <tag> -- .
CheckoutFiles(p) ==
  /\ Writing(p, "removed")
  /\ worktree' = WithTarget(worktree)
  /\ index' = WithTarget(index)
  /\ Advance(p, "restored")
  /\ UNCHANGED <<opened, head, tip, tags, commits>>

\* restore_tree: git add -A
AddAll(p) ==
  /\ Writing(p, "restored")
  /\ index' = worktree
  /\ Advance(p, "staged")
  /\ UNCHANGED <<opened, worktree, head, tip, tags, commits>>

\* git commit: the whole index, or an error when there is nothing to commit.
Commit(p) ==
  /\ Writing(p, "staged")
  /\ IF index = tip[head]
       THEN Advance(p, "failed") /\ UNCHANGED <<tip, commits>>
       ELSE /\ tip' = [tip EXCEPT ![head] = index]
            /\ commits' = commits \cup {[by |-> p, on |-> tip[head], tree |-> index]}
            /\ Advance(p, "committed")
  /\ UNCHANGED <<opened, worktree, index, head, tags>>

\* Fault: the backup tag is not forced, so the day's first ingest keeps it.
TagUnforced(p) ==
  /\ Writing(p, "committed")
  /\ Advance(p, "tagged")
  /\ UNCHANGED <<opened, gitVars>>

\* tag_daily_backup: git tag -f.  A restore moves no backup tag.
TagBackup(p) ==
  /\ Writing(p, "committed")
  /\ tags' = IF p \in Ingesters THEN [tags EXCEPT ![Backup] = tip[head]] ELSE tags
  /\ Advance(p, "tagged")
  /\ UNCHANGED <<opened, worktree, index, head, tip, commits>>

\* A git call raises GitError, or a write OSError: the file stays as it is by then.
CallFails(p) ==
  /\ CallsFail
  /\ \E s \in Busy : Writing(p, s)
  /\ Advance(p, "failed")
  /\ UNCHANGED <<opened, gitVars>>

\* __exit__: the lock is released after the last call or the one that raised.
Leave(p) ==
  /\ step[p] \in {"tagged", "failed"}
  /\ Release(p)
  /\ UNCHANGED <<step, read, plan, opened, gitVars>>

\* A process dies on the way; what it does before and after is seen by nobody.
Crash(p) == Running(p) /\ Die(p) /\ UNCHANGED <<step, read, plan, opened, gitVars>>

WritePhase(p) ==
  \/ CreateTag(p)
  \/ CreateBranch(p)
  \/ \E f \in Files : OpenFile(p, f) \/ WriteFile(p, f)
  \/ StagePlan(p)
  \/ RemoveFiles(p)
  \/ CheckoutFiles(p)
  \/ AddAll(p)
  \/ Commit(p)
  \/ TagBackup(p)
  \/ CallFails(p)
  \/ Leave(p)

Next == \E p \in Procs :
  PlanIngest(p) \/ PlanRestore(p) \/ Acquire(p) \/ WritePhase(p) \/ Crash(p)

Spec == Init /\ [][Next]_vars

\* A process that has planned runs on to its end; nobody has to start one.
FairSpec == Spec /\ \A p \in Procs : WF_vars(Acquire(p) \/ WritePhase(p))

--------------------------------------------------------------------------------
TypeOK ==
  /\ LockTypeOK
  /\ step \in [Procs -> Steps]
  /\ read \in [Procs -> Trees]
  /\ plan \in [Procs -> SUBSET Files]
  /\ opened \in [Procs -> SUBSET Files]
  /\ worktree \in Trees
  /\ index \in Trees
  /\ head \in Branches
  /\ tip \in [Branches -> Trees]
  /\ tags \in [Tags -> Trees]
  /\ commits \subseteq [by : Procs, on : Trees, tree : Trees]

\* Nothing reaches main without a human merge, whoever crashes where.
MainUntouched == tip[Main] = Seed

\* An approved plan lands as one commit: the commit of an ingest changes the
\* files of its plan, all of them, to the planned contents, and nothing else.
\* (git_store.py:9-10: "An approved ChangePlan lands as one atomic commit").
CommitIsPlan ==
  \A c \in commits : c.by \in Ingesters => c.tree = WithPlan(c.on, c.by)

\* All or nothing: a commit holds the whole approved plan, even if a call failed
\* or a process died between any two calls before it.
CommitHoldsPlan ==
  \A c \in commits : c.by \in Ingesters =>
    \A f \in plan[c.by] : c.tree[f] = PlannedContent(c.by, f)

\* What may go from file f: undated lines of the log, and of a concept its last
\* timestamp and what an approved change of that concept supersedes.
Retired(f) ==
  {Cut} \cup IF f = Log THEN Undated
             ELSE Procs \cup UNION {Replaces[Fact[q]] : q \in {i \in Ingesters : f \in plan[i]}}

Loss(c, f) == c.on[f] \ c.tree[f]

\* An ingest takes nothing away that no approved change has superseded
\* (README.md:12: "knowledge is never silently overwritten").
NothingOverwritten ==
  \A c \in commits : c.by \in Ingesters => \A f \in Files : Loss(c, f) \subseteq Retired(f)

\* The files a process left truncated when it died or its write failed.
Torn == UNION {opened[q] : q \in {i \in Procs : ~ (Running(i) /\ step[i] = "branched")}}

\* The restores that ended after their safety tag and reported no success.
HalfSteps == (Busy \ {"locked", "committed"}) \cup {"failed"}
HalfDone == {r \in Restorers : ~ Running(r) /\ step[r] \in HalfSteps}

LossesExplained ==
  \A c \in commits : c.by \in Ingesters => \A f \in Files \ Torn :
    Loss(c, f) \subseteq Retired(f) \cup UNION {tags[r][f] : r \in HalfDone}

\* When runs come one after another, and each may fail or die anywhere and be run
\* again, an ingest takes nothing away that no approved change has superseded,
\* except from a file that an earlier run left truncated, and except what a restore
\* that stopped halfway has removed, all of which is in its safety tag.  Neither
\* ingests nor restores ever move main.
IngestsOnlyAdd == MainUntouched /\ LossesExplained

\* When an ingest reports success the day's backup holds its plan, whatever runs
\* died or failed before it, at their own tag included.
BackupCoversIngest ==
  \A p \in Ingesters : Running(p) /\ step[p] = "tagged" =>
    \A f \in plan[p] : tags[Backup][f] = PlannedContent(p, f)

\* A restore is one tag away from being undone: its safety tag is the commit it
\* builds on.
SafetyTagIsParent ==
  \A c \in commits : c.by \in Restorers => tags[c.by] = c.on

\* The files of an approved plan whose ingest never came to its commit.
Leftovers == UNION {plan[q] : q \in {i \in Ingesters : step[i] \in Steps \ {"committed", "tagged"}}}

\* A restore commits the tree of its tag (git_store.py:252: "Stage the working tree
\* to exactly match ref's tree"), whatever stopped an earlier restore halfway,
\* except for files that ingests have left in the working tree.
RestoreExact ==
  [][\A p \in Restorers, f \in Files :
       step[p] = "staged" /\ step'[p] = "committed" =>
         tip'[head'][f] = tags[Target][f] \/ f \in Leftovers]_vars

\* What a restore removes from the working tree is in its safety tag
\* (recovery.py:134: "the pre-restore state is never lost").
RestoreLosesNothing ==
  [][\A p \in Restorers, f \in Files :
       step[p] \in {"branched", "removed"} /\ step'[p] # step[p] =>
         worktree[f] = worktree'[f] \/ worktree[f] = tags[p][f]]_vars

\* No ingest or restore waits for another: whatever the dead have left behind, each
\* process that goes for the lock is refused or runs to its end, unless it dies
\* (git_store.py:50-52: the lock "does not queue or wait").
EveryRunEnds == <>[](\A p \in Procs : ~ Running(p))
================================================================================
