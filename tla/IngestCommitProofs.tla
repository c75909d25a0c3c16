-------------------------- MODULE IngestCommitProofs ---------------------------
(***************************************************************************)
(* What the lock file and the commits under it guarantee for every set of   *)
(* processes, facts and files: first the lock alone (IngestLock), then the   *)
(* ingests and restores that work under it (IngestCommit).                   *)
(***************************************************************************)
EXTENDS IngestCommit, TLAPS

--------------------------------------------------------------------------------
(* The lock.                                                                *)

\* Every step of the lock keeps its variables in their types.
LEMMA LockTypeStep == ASSUME LockTypeOK, [LockNext]_lockVars PROVE LockTypeOK'
<1>1. CASE UNCHANGED lockVars
  BY <1>1 DEF lockVars, LockTypeOK
<1>2. ASSUME NEW p \in Procs,
             Begin(p) \/ Acquiring(p) \/ Release(p) \/ Die(p)
      PROVE  LockTypeOK'
  <2>begin. CASE Begin(p)
    BY <2>begin DEF Begin, Goto, LockTypeOK, Places
  <2>read_holder. CASE ReadHolder(p)
    BY <2>read_holder DEF ReadHolder, Goto, LockTypeOK, Places
  <2>check_holder. CASE CheckHolder(p)
    BY <2>check_holder DEF CheckHolder, Goto, LockTypeOK, Places
  <2>unlink. CASE Unlink(p)
    BY <2>unlink DEF Unlink, Goto, LockTypeOK, Places
  <2>create. CASE Create(p)
    BY <2>create DEF Create, Goto, LockTypeOK, Places
  <2>stamp. CASE Stamp(p)
    BY <2>stamp DEF Stamp, Goto, LockTypeOK, Places
  <2>release. CASE Release(p)
    BY <2>release DEF Release, Goto, LockTypeOK, Places
  <2>die. CASE Die(p)
    BY <2>die DEF Die, LockTypeOK
  <2> QED
    BY <1>2, <2>begin, <2>read_holder, <2>check_holder, <2>unlink, <2>create, <2>stamp, <2>release,
       <2>die DEF Acquiring
<1> QED BY <1>1, <1>2 DEF LockNext

\* The variables of the lock keep their types in every behaviour.
THEOREM LockTypeCorrect == LockSpec => []LockTypeOK
<1>1. LockInit => LockTypeOK
  BY DEF LockInit, LockTypeOK, Places
<1>2. LockTypeOK /\ [LockNext]_lockVars => LockTypeOK'
  BY LockTypeStep
<1> QED BY <1>1, <1>2, PTL DEF LockSpec

--------------------------------------------------------------------------------
(* While no process dies the lock excludes.  A process that finds a file    *)
(* never takes it for a stale one, because the PID in it is alive; so the   *)
(* only unlink is the holder's own, and the file on disk is the holder's.   *)

ExclusionInv ==
  /\ LockTypeOK
  /\ alive = Procs
  /\ \A p \in Procs : pc[p] # "unlinking"
  /\ \A p \in Procs : Holds(p) <=> file = p

\* Every call keeps the exclusion invariant when no process dies.
LEMMA ExclusionStep ==
  ASSUME ~ MayDie, ExclusionInv, [LockNext]_lockVars PROVE ExclusionInv'
<1> USE LockAssumption DEF ExclusionInv
<1>0. LockTypeOK'
  BY LockTypeStep
<1>1. CASE UNCHANGED lockVars
  BY <1>0, <1>1 DEF lockVars, Holds
<1>2. ASSUME NEW p \in Procs,
             Begin(p) \/ Acquiring(p) \/ Release(p) \/ Die(p)
      PROVE  ExclusionInv'
  <2>begin. CASE Begin(p)
    BY <1>0, <2>begin DEF Begin, Goto, LockTypeOK, Places, Holds
  <2>read_holder. CASE ReadHolder(p)
    BY <1>0, <2>read_holder DEF ReadHolder, Goto, LockTypeOK, Places, Holds
  <2>check_holder. CASE CheckHolder(p)
    BY <1>0, <2>check_holder DEF CheckHolder, Goto, LockTypeOK, Places, Holds
  <2>create. CASE Create(p)
    BY <1>0, <2>create DEF Create, Goto, LockTypeOK, Places, Holds
  <2>stamp. CASE Stamp(p)
    BY <1>0, <2>stamp DEF Stamp, Goto, LockTypeOK, Places, Holds
  <2>release. CASE Release(p)
    BY <1>0, <2>release DEF Release, Goto, LockTypeOK, Places, Holds
  <2> QED
    BY <1>2, <2>begin, <2>read_holder, <2>check_holder, <2>create, <2>stamp, <2>release
       DEF Acquiring, Unlink, Die
<1> QED BY <1>1, <1>2 DEF LockNext

\* The exclusion invariant holds in every reachable state.
LEMMA ExclusionInvariant == ASSUME ~ MayDie PROVE LockSpec => []ExclusionInv
<1>1. LockInit => ExclusionInv
  BY LockAssumption DEF LockInit, ExclusionInv, LockTypeOK, Places, Holds
<1>2. ExclusionInv /\ [LockNext]_lockVars => ExclusionInv'
  BY ExclusionStep
<1> QED BY <1>1, <1>2, PTL DEF LockSpec

\* While no process dies, at most one process holds the lock.
THEOREM Exclusion == ASSUME ~ MayDie PROVE LockSpec => []MutualExclusion
<1>1. ExclusionInv => MutualExclusion
  BY DEF ExclusionInv, MutualExclusion
<1> QED BY <1>1, ExclusionInvariant, PTL

\* While no process dies, the file on disk is the holder's own.
THEOREM FileIsTheHolders == ASSUME ~ MayDie PROVE LockSpec => []FileIsHolders
<1>1. ExclusionInv => FileIsHolders
  BY DEF ExclusionInv, FileIsHolders
<1> QED BY <1>1, ExclusionInvariant, PTL

--------------------------------------------------------------------------------
(* When processes run one after another, any of them may die anywhere and   *)
(* the only file that keeps the next one out is an empty one.  The file of  *)
(* a live process is one it holds, so a process in acquire() that meets a   *)
(* file meets a dead process's: it reads that PID and unlinks it, or reads  *)
(* nothing because there is nothing in it.                                  *)

SequentialInv ==
  /\ LockTypeOK
  /\ \A p, q \in Procs : InFlight(p) /\ InFlight(q) => p = q
  /\ file \in alive => Holds(file)
  /\ \A p \in alive :
       /\ pc[p] = "checking" => raw[p] = IF file # NoFile /\ stamped THEN file ELSE Unknown
       /\ pc[p] = "creating" => file = NoFile \/ ~ stamped

\* Every call keeps the sequential invariant when one process runs at a time.
LEMMA SequentialStep ==
  ASSUME OneAtATime, SequentialInv, [LockNext]_lockVars PROVE SequentialInv'
<1> USE LockAssumption DEF SequentialInv
<1>0. LockTypeOK'
  BY LockTypeStep
<1>1. CASE UNCHANGED lockVars
  BY <1>0, <1>1 DEF lockVars, Holds, InFlight
<1>2. ASSUME NEW p \in Procs,
             Begin(p) \/ Acquiring(p) \/ Release(p) \/ Die(p)
      PROVE  SequentialInv'
  <2>begin. CASE Begin(p)
    BY <1>0, <2>begin DEF Begin, Goto, LockTypeOK, Places, Holds, InFlight
  <2>read_holder. CASE ReadHolder(p)
    BY <1>0, <2>read_holder DEF ReadHolder, Goto, LockTypeOK, Places, Holds, InFlight
  <2>check_holder. CASE CheckHolder(p)
    BY <1>0, <2>check_holder DEF CheckHolder, Goto, LockTypeOK, Places, Holds, InFlight
  <2>unlink. CASE Unlink(p)
    BY <1>0, <2>unlink DEF Unlink, Goto, LockTypeOK, Places, Holds, InFlight
  <2>create. CASE Create(p)
    BY <1>0, <2>create DEF Create, Goto, LockTypeOK, Places, Holds, InFlight
  <2>stamp. CASE Stamp(p)
    BY <1>0, <2>stamp DEF Stamp, Goto, LockTypeOK, Places, Holds, InFlight
  <2>release. CASE Release(p)
    BY <1>0, <2>release DEF Release, Goto, LockTypeOK, Places, Holds, InFlight
  <2>die. CASE Die(p)
    BY <1>0, <2>die DEF Die, LockTypeOK, Places, Holds, InFlight
  <2> QED
    BY <1>2, <2>begin, <2>read_holder, <2>check_holder, <2>unlink, <2>create, <2>stamp, <2>release,
       <2>die DEF Acquiring
<1> QED BY <1>1, <1>2 DEF LockNext

\* A refusal, whoever crashed before it, is the work of an empty file that no
\* live process created.
THEOREM RefusalExplained ==
  ASSUME OneAtATime PROVE LockSpec => RefusedOnlyByEmptyFile
<1> USE LockAssumption
<1>1. LockInit => SequentialInv
  BY DEF LockInit, SequentialInv, LockTypeOK, Places, Holds, InFlight
<1>2. SequentialInv /\ [LockNext]_lockVars => SequentialInv'
  BY SequentialStep
<1> DEFINE Explained ==
      \A p \in Procs : pc[p] # "refused" /\ pc'[p] = "refused" =>
        ~ stamped /\ file \notin alive
<1>3. SequentialInv /\ [LockNext]_lockVars => [Explained]_lockVars
  <2> SUFFICES ASSUME SequentialInv, LockNext PROVE Explained
    BY DEF lockVars
  <2> SUFFICES ASSUME NEW p \in Procs, pc[p] # "refused", pc'[p] = "refused"
               PROVE  ~ stamped /\ file \notin alive
    OBVIOUS
  <2>1. Create(p) /\ file # NoFile
    BY DEF LockNext, Acquiring, Begin, ReadHolder, CheckHolder, Unlink, Create, Stamp,
           Release, Die, Goto, SequentialInv, LockTypeOK
  <2> QED BY <2>1 DEF Create, SequentialInv, LockTypeOK, Holds, InFlight
<1> QED BY <1>1, <1>2, <1>3, PTL DEF LockSpec, RefusedOnlyByEmptyFile

--------------------------------------------------------------------------------
(* The writers.                                                             *)

\* What a process may do next.
Does(p) == PlanIngest(p) \/ PlanRestore(p) \/ Acquire(p) \/ WritePhase(p) \/ Crash(p)

\* A step of a process changes the lock as IngestLock allows, or not at all.
LEMMA StepsOnLock == ASSUME [Next]_vars PROVE [LockNext]_lockVars
<1>1. CASE UNCHANGED vars
  BY <1>1 DEF vars
<1>2. ASSUME NEW p \in Procs, Does(p) PROVE [LockNext]_lockVars
  <2>1. CASE PlanIngest(p) \/ PlanRestore(p)
    BY <2>1 DEF PlanIngest, PlanRestore, Starting
  <2>2. CASE Acquire(p)
    BY <2>2 DEF Acquire, LockNext
  <2>3. CASE WritePhase(p)
    BY <2>3 DEF WritePhase, CreateTag, CreateBranch, OpenFile, WriteFile, StagePlan, Stage, RemoveFiles,
                CheckoutFiles, AddAll, Commit, TagBackup, CallFails, Writing, Leave, LockNext
  <2>4. CASE Crash(p)
    BY <2>4 DEF Crash, LockNext
  <2> QED BY <1>2, <2>1, <2>2, <2>3, <2>4 DEF Does
<1> QED BY <1>1, <1>2 DEF Next, Does

\* A plan turns a tree into a tree.
LEMMA PlanTypes ==
  ASSUME TypeOK, NEW p \in Ingesters
  PROVE  /\ Fact[p] \in Facts
         /\ Touches[Fact[p]] \subseteq Files
         /\ \A f \in Files : PlannedContent(p, f) \in SUBSET Content
<1>1. p \in Procs /\ Fact[p] \in Facts
  BY CommitAssumption DEF Ingesters, Restorers
<1>2. Touches[Fact[p]] \subseteq Files
  BY <1>1, CommitAssumption
<1>3. \A f \in Files : read[p][f] \in SUBSET Content
  BY <1>1 DEF TypeOK, Trees
<1> QED BY <1>1, <1>2, <1>3 DEF PlannedContent, Content

\* Every call of an ingest or a restore keeps the types.
LEMMA CommitTypeStep == ASSUME TypeOK, [Next]_vars PROVE TypeOK'
<1> USE CommitAssumption
<1>0. LockTypeOK'
  BY StepsOnLock, LockTypeStep DEF TypeOK
<1>1. CASE UNCHANGED vars
  BY <1>0, <1>1 DEF vars, gitVars, TypeOK
<1>2. ASSUME NEW p \in Procs, Does(p) PROVE TypeOK'
  <2>plan_ingest. CASE PlanIngest(p)
    <3>1. p \in Ingesters /\ Touches[Fact[p]] \subseteq Files
      BY <2>plan_ingest, PlanTypes DEF PlanIngest
    <3> QED
      BY <1>0, <2>plan_ingest, <3>1 DEF PlanIngest, Starting, Advance, Steps, Busy, gitVars, TypeOK
  <2>plan_restore. CASE PlanRestore(p)
    BY <1>0, <2>plan_restore DEF PlanRestore, Starting, Advance, Steps, Busy, gitVars, TypeOK
  <2>acquire. CASE Acquire(p)
    BY <1>0, <2>acquire DEF Acquire, Advance, Steps, Busy, gitVars, TypeOK
  <2>create_tag. CASE CreateTag(p)
    BY <1>0, <2>create_tag DEF CreateTag, Writing, Advance, Steps, Busy, Branches, Tags, TypeOK
  <2>create_branch. CASE CreateBranch(p)
    BY <1>0, <2>create_branch DEF CreateBranch, Writing, Advance, Steps, Busy, Branches, TypeOK
  <2>open_file. ASSUME NEW f \in Files, OpenFile(p, f) PROVE TypeOK'
    <3>1. worktree' \in Trees /\ opened' \in [Procs -> SUBSET Files]
      BY <2>open_file DEF OpenFile, TypeOK, Trees, Content
    <3> QED BY <1>0, <2>open_file, <3>1 DEF OpenFile, Writing, TypeOK
  <2>write_file. ASSUME NEW f \in Files, WriteFile(p, f) PROVE TypeOK'
    <3>1. PlannedContent(p, f) \in SUBSET Content
      BY <2>write_file, PlanTypes DEF WriteFile
    <3>2. worktree' \in Trees /\ opened' \in [Procs -> SUBSET Files]
      BY <2>write_file, <3>1 DEF WriteFile, TypeOK, Trees
    <3> QED BY <1>0, <2>write_file, <3>2 DEF WriteFile, Writing, TypeOK
  <2>stage_plan. CASE StagePlan(p)
    <3>1. index' \in Trees
      BY <2>stage_plan DEF StagePlan, Stage, TypeOK, Trees
    <3> QED BY <1>0, <2>stage_plan, <3>1 DEF StagePlan, Stage, Writing, Advance, Steps, Busy, TypeOK
  <2>remove_files. CASE RemoveFiles(p)
    <3>1. worktree' \in Trees /\ index' \in Trees
      BY <2>remove_files DEF RemoveFiles, TypeOK, Trees
    <3> QED BY <1>0, <2>remove_files, <3>1 DEF RemoveFiles, Writing, Advance, Steps, Busy, TypeOK
  <2>checkout. CASE CheckoutFiles(p)
    <3>1. \A t \in Trees : WithTarget(t) \in Trees
      BY DEF WithTarget, TypeOK, Trees, Tags
    <3> QED BY <1>0, <2>checkout, <3>1 DEF CheckoutFiles, Writing, Advance, Steps, Busy, TypeOK
  <2>add_all. CASE AddAll(p)
    BY <1>0, <2>add_all DEF AddAll, Writing, Advance, Steps, Busy, TypeOK
  <2>commit. CASE Commit(p)
    <3>1. tip' \in [Branches -> Trees] /\ commits' \subseteq [by : Procs, on : Trees, tree : Trees]
      BY <2>commit DEF Commit, TypeOK
    <3> QED BY <1>0, <2>commit, <3>1 DEF Commit, Writing, Advance, Steps, Busy, TypeOK
  <2>tag_backup. CASE TagBackup(p)
    BY <1>0, <2>tag_backup DEF TagBackup, Writing, Advance, Steps, Tags, TypeOK
  <2>call_fails. CASE CallFails(p)
    BY <1>0, <2>call_fails DEF CallFails, Writing, Advance, Steps, gitVars, TypeOK
  <2>leave. CASE Leave(p) \/ Crash(p)
    BY <1>0, <2>leave DEF Leave, Crash, gitVars, TypeOK
  <2> QED
    BY <1>2, <2>plan_ingest, <2>plan_restore, <2>acquire, <2>create_tag, <2>create_branch,
       <2>open_file, <2>write_file, <2>stage_plan, <2>remove_files, <2>checkout, <2>add_all,
       <2>commit, <2>tag_backup, <2>call_fails, <2>leave DEF Does, WritePhase
<1> QED BY <1>1, <1>2 DEF Next, Does

\* The repository starts in a typed state.
LEMMA CommitTypeInit == Init => TypeOK
<1> SUFFICES ASSUME Init PROVE TypeOK
  OBVIOUS
<1>1. LockTypeOK
  BY DEF Init, LockInit, LockTypeOK, Places
<1>2. Empty \in Trees /\ Seed \in Trees /\ Earlier \in Trees
  BY CommitAssumption DEF Empty, Trees, Content
<1>3. tags \in [Tags -> Trees]
  BY <1>2 DEF Init
<1> QED BY <1>1, <1>2, <1>3, CommitAssumption DEF Init, TypeOK, Steps, Branches

\* The state of the repository and of its processes keeps its types.
THEOREM CommitTypeCorrect == Spec => []TypeOK
<1>1. TypeOK /\ [Next]_vars => TypeOK'
  BY CommitTypeStep
<1> QED BY <1>1, CommitTypeInit, PTL DEF Spec

--------------------------------------------------------------------------------
(* Main is never committed to: a process commits only after it has created  *)
(* and checked out a branch of its own, and nothing checks main out again.  *)

\* Between the creation of a branch and the commit.
Midway == {"branched", "removed", "restored", "staged"}

MainInv ==
  /\ TypeOK
  /\ tip[Main] = Seed
  /\ head = Main => \A p \in Procs : step[p] \notin Midway

\* No call moves the main branch.
LEMMA MainStep == ASSUME MainInv, [Next]_vars PROVE MainInv'
<1> USE CommitAssumption
<1>0. TypeOK /\ TypeOK'
  BY CommitTypeStep DEF MainInv
<1>1. CASE UNCHANGED vars
  BY <1>0, <1>1 DEF vars, gitVars, MainInv
<1>2. ASSUME NEW p \in Procs, Does(p) PROVE MainInv'
  <2>plan. CASE PlanIngest(p) \/ PlanRestore(p)
    BY <1>0, <2>plan DEF PlanIngest, PlanRestore, Starting, Advance, gitVars, MainInv, Midway, TypeOK
  <2>acquire. CASE Acquire(p)
    BY <1>0, <2>acquire DEF Acquire, Advance, gitVars, MainInv, Midway, TypeOK
  <2>create_tag. CASE CreateTag(p)
    BY <1>0, <2>create_tag DEF CreateTag, Writing, Advance, MainInv, Midway, TypeOK
  <2>create_branch. CASE CreateBranch(p)
    BY <1>0, <2>create_branch DEF CreateBranch, Branches, MainInv, TypeOK
  <2>files. ASSUME NEW f \in Files, OpenFile(p, f) \/ WriteFile(p, f) PROVE MainInv'
    BY <1>0, <2>files DEF OpenFile, WriteFile, Writing, MainInv, TypeOK
  <2>stage_plan. CASE StagePlan(p)
    BY <1>0, <2>stage_plan DEF StagePlan, Stage, Writing, Advance, MainInv, Midway, TypeOK
  <2>restore. CASE RemoveFiles(p) \/ CheckoutFiles(p) \/ AddAll(p)
    BY <1>0, <2>restore DEF RemoveFiles, CheckoutFiles, AddAll, Writing, Advance, MainInv, Midway, TypeOK
  <2>commit. CASE Commit(p)
    BY <1>0, <2>commit DEF Commit, Writing, Advance, Branches, MainInv, Midway, TypeOK
  <2>end. CASE TagBackup(p) \/ CallFails(p)
    BY <1>0, <2>end DEF TagBackup, CallFails, Writing, Advance, gitVars, MainInv, Midway, TypeOK
  <2>leave. CASE Leave(p) \/ Crash(p)
    BY <1>0, <2>leave DEF Leave, Crash, gitVars, MainInv
  <2> QED
    BY <1>2, <2>plan, <2>acquire, <2>create_tag, <2>create_branch, <2>files, <2>stage_plan,
       <2>restore, <2>commit, <2>end, <2>leave DEF Does, WritePhase
<1> QED BY <1>1, <1>2 DEF Next, Does

\* No ingest and no restore moves main, under any interleaving, any crash and
\* even when two processes believe they hold the lock.
THEOREM MainStaysUntouched == Spec => []MainUntouched
<1>1. Init => MainInv
  BY CommitTypeInit, CommitAssumption DEF Init, MainInv, Branches, Midway
<1>2. MainInv /\ [Next]_vars => MainInv'
  BY MainStep
<1>3. MainInv => MainUntouched
  BY DEF MainInv, MainUntouched
<1> QED BY <1>1, <1>2, <1>3, PTL DEF Spec

--------------------------------------------------------------------------------
(* While no process dies and no call fails the write phases are exclusive,  *)
(* so what one of them finds in the working tree and in the index is the    *)
(* commit it builds on, and what it commits is its own plan.                *)

\* The calls of acquire().
Locking == {"reading", "checking", "unlinking", "creating", "stamping"}

\* The working tree and the index are the commit that is checked out.
Clean == worktree = tip[head] /\ index = tip[head]

\* p has created its branch and written some of its files.
BranchedOK(p) ==
  /\ index = tip[head]
  /\ \A f \in opened[p] : p \in Ingesters /\ f \in plan[p]
  /\ \A f, g \in opened[p] : f = g
  /\ \A f \in Files : worktree[f] # tip[head][f] =>
       p \in Ingesters /\ f \in plan[p] /\ (Written(p, f) \/ f \in opened[p])

\* p has staged its plan, or the tree it restores.
StagedOK(p) == worktree = index /\ (p \in Ingesters => index = WithPlan(tip[head], p))

CommittedOK(p) == \A f \in plan[p] : tip[head][f] = PlannedContent(p, f)

PhaseOK(p) ==
  /\ step[p] \in Busy => pc[p] = "holding"
  /\ pc[p] \in Locking => step[p] = "read"
  /\ step[p] = "branched" => BranchedOK(p)
  /\ step[p] # "branched" => opened[p] = {}
  /\ step[p] = "staged" => StagedOK(p)
  /\ step[p] = "committed" /\ p \in Ingesters => CommittedOK(p)
  /\ step[p] \in {"removed", "restored"} => p \in Restorers
  /\ step[p] \in Midway \cup {"labelled"} /\ p \in Restorers => tags[p] = tip[head]

CleanInv ==
  /\ TypeOK
  /\ ExclusionInv
  /\ \A p \in Procs : PhaseOK(p)
  /\ (\A p \in Procs : step[p] \notin Midway) => Clean
  /\ \A c \in commits : step[c.by] \in {"committed", "tagged"}
  /\ CommitIsPlan
  /\ SafetyTagIsParent

\* The lock is held by one process, so the write phase is one process's own.
LEMMA Alone ==
  ASSUME CleanInv, NEW p \in Procs, NEW q \in Procs, pc[p] = "holding",
         step[q] \in Busy \/ pc[q] \in {"stamping", "holding"}
  PROVE  q = p
<1>1. Holds(p) /\ Holds(q)
  BY DEF CleanInv, ExclusionInv, PhaseOK, Holds
<1> QED BY <1>1 DEF CleanInv, ExclusionInv

\* A process that takes no step and whose plan, repository and tag are left
\* alone is where it was.
LEMMA OthersKeep ==
  ASSUME TypeOK, NEW q \in Procs, PhaseOK(q), pc'[q] = pc[q], step'[q] = step[q],
         read'[q] = read[q], plan'[q] = plan[q], opened'[q] = opened[q],
         step[q] \in Busy => UNCHANGED <<worktree, index, head, tip, tags>>
  PROVE  PhaseOK(q)'
<1>1. \A f \in Files : PlannedContent(q, f)' = PlannedContent(q, f)
  BY DEF PlannedContent
<1>2. ASSUME UNCHANGED <<worktree, index, head, tip, tags>> PROVE PhaseOK(q)'
  <2>1. BranchedOK(q)' <=> BranchedOK(q)
    BY <1>1, <1>2 DEF BranchedOK, Written
  <2>2. StagedOK(q)' <=> StagedOK(q)
    BY <1>1, <1>2 DEF StagedOK, WithPlan
  <2>3. CommittedOK(q)' <=> CommittedOK(q)
    BY <1>2 DEF CommittedOK, PlannedContent
  <2> QED BY <1>2, <2>1, <2>2, <2>3 DEF PhaseOK
<1> QED BY <1>2 DEF PhaseOK, Busy, Midway

\* The commits made so far are judged as before while the plans and the safety
\* tags of those who made them stay.
LEMMA CommitsKeep ==
  ASSUME TypeOK, CommitIsPlan, SafetyTagIsParent, commits' = commits,
         \A c \in commits : read'[c.by] = read[c.by] /\ plan'[c.by] = plan[c.by] /\ tags'[c.by] = tags[c.by]
  PROVE  CommitIsPlan' /\ SafetyTagIsParent'
<1>1. ASSUME NEW c \in commits PROVE WithPlan(c.on, c.by)' = WithPlan(c.on, c.by)
  BY <1>1 DEF WithPlan, PlannedContent
<1> QED BY <1>1 DEF CommitIsPlan, SafetyTagIsParent

\* Outside the write phase of p every process keeps its phase.
LEMMA PhasesKeep ==
  ASSUME CleanInv, NEW p \in Procs, pc[p] = "holding", read' = read, plan' = plan,
         \A q \in Procs \ {p} : step'[q] = step[q] /\ pc'[q] = pc[q] /\ opened'[q] = opened[q],
         PhaseOK(p)'
  PROVE  \A q \in Procs : PhaseOK(q)'
<1>1. SUFFICES ASSUME NEW q \in Procs, q # p PROVE PhaseOK(q)'
  OBVIOUS
<1>2. step[q] \notin Busy
  BY <1>1, Alone
<1> QED BY <1>1, <1>2, OthersKeep DEF CleanInv

\* The parts of the invariant that a call of the write phase can disturb: the
\* phase of the process that makes it, the state nobody works on, and the
\* commits with their tags.
WriteInv(p) ==
  /\ PhaseOK(p)
  /\ step[p] \notin Midway => Clean
  /\ \A c \in commits : step[c.by] \in {"committed", "tagged"}
  /\ CommitIsPlan
  /\ SafetyTagIsParent

\* What p finds when it makes a call of its write phase.
LEMMA WriteStarts ==
  ASSUME CleanInv, NEW p \in Procs, pc[p] = "holding", step[p] \in Busy
  PROVE  /\ PhaseOK(p)
         /\ step[p] \notin Midway => Clean
         /\ \A q \in Procs \ {p} : step[q] \notin Busy /\ pc[q] # "holding"
<1>1. \A q \in Procs \ {p} : step[q] \notin Busy /\ pc[q] # "holding"
  BY Alone
<1>2. step[p] \notin Midway => Clean
  BY <1>1 DEF CleanInv, Busy, Midway
<1> QED BY <1>1, <1>2 DEF CleanInv

\* CreateTag and CreateBranch start from a clean state, which the first one tags.
LEMMA BranchingKeeps ==
  ASSUME CleanInv, TypeOK', NEW p \in Procs, CreateTag(p) \/ CreateBranch(p) PROVE WriteInv(p)'
<1> USE CommitAssumption
<1>1. /\ step[p] \in {"locked", "labelled"} /\ pc[p] = "holding" /\ UNCHANGED <<pc, read, plan, opened>>
      /\ \A q \in Procs \ {p} : step'[q] = step[q]
      /\ commits' = commits
  BY DEF CreateTag, CreateBranch, Writing, Advance, lockVars, CleanInv, TypeOK
<1>2. PhaseOK(p) /\ Clean
  BY <1>1, WriteStarts DEF Busy, Midway
<1>3. \A c \in commits : c.by \in Procs /\ c.by # p
  BY <1>1 DEF CleanInv, TypeOK
<1>4. CASE CreateTag(p)
  <2> USE <1>4 DEF CreateTag, Writing, Advance
  <2>1. step'[p] = "labelled" /\ tags'[p] = tip[head] /\ \A t \in Tags : t # p => tags'[t] = tags[t]
    BY DEF CleanInv, TypeOK, Tags
  <2>2. PhaseOK(p)'
    BY <1>1, <1>2, <2>1 DEF PhaseOK, Midway, Locking
  <2>3. CommitIsPlan' /\ SafetyTagIsParent'
    BY <1>1, <1>3, <2>1, CommitsKeep DEF CleanInv, Tags
  <2> QED BY <1>1, <1>2, <1>3, <2>2, <2>3 DEF WriteInv, CleanInv, Clean
<1>5. CASE CreateBranch(p)
  <2> USE <1>5 DEF CreateBranch, Writing, Advance
  <2>1. step'[p] = "branched" /\ tags' = tags
    BY DEF CleanInv, TypeOK
  <2>2. tip'[head'] = tip[head] /\ worktree' = tip'[head'] /\ index' = tip'[head']
    BY <1>2 DEF CleanInv, TypeOK, Branches, Clean
  <2>3. p \in Restorers => tags'[p] = tip'[head']
    BY <1>2, <2>2 DEF PhaseOK
  <2>4. PhaseOK(p)'
    BY <1>1, <1>2, <2>1, <2>2, <2>3 DEF PhaseOK, BranchedOK, Locking, Restorers
  <2>5. CommitIsPlan' /\ SafetyTagIsParent'
    BY <1>1, <2>1, CommitsKeep DEF CleanInv
  <2> QED BY <1>1, <1>3, <2>1, <2>4, <2>5 DEF WriteInv, CleanInv, Midway
<1> QED BY <1>4, <1>5

\* OpenFile and WriteFile change a file of the plan, in the end to its content.
LEMMA FilesKeep ==
  ASSUME CleanInv, TypeOK', NEW p \in Procs, NEW f \in Files, OpenFile(p, f) \/ WriteFile(p, f)
  PROVE  WriteInv(p)'
<1>1. /\ step[p] = "branched" /\ pc[p] = "holding" /\ p \in Ingesters
      /\ UNCHANGED <<pc, step, read, plan, index, head, tip, tags, commits>>
      /\ \A g \in Files \ {f} : worktree'[g] = worktree[g]
  BY DEF OpenFile, WriteFile, Writing, lockVars, CleanInv, TypeOK, Trees
<1>2. BranchedOK(p)
  BY <1>1 DEF CleanInv, PhaseOK
<1>3. \A g \in Files : PlannedContent(p, g)' = PlannedContent(p, g)
  BY <1>1 DEF PlannedContent
<1>4. /\ f \in plan[p] /\ opened'[p] \subseteq {f}
      /\ f \in opened'[p] \/ Written(p, f)'
      /\ \A g \in opened[p] : g = f \/ g \in opened'[p]
  <2>1. CASE OpenFile(p, f)
    BY <1>1, <2>1 DEF OpenFile, CleanInv, TypeOK
  <2>2. CASE WriteFile(p, f)
    <3>1. f \in plan[p] /\ \A g \in opened[p] : g = f
      BY <1>2, <2>2 DEF WriteFile, BranchedOK
    <3> QED BY <1>1, <1>3, <2>2, <3>1 DEF WriteFile, Written, CleanInv, TypeOK, Trees
  <2> QED BY <2>1, <2>2
<1>5. BranchedOK(p)'
  BY <1>1, <1>2, <1>3, <1>4 DEF BranchedOK, Written, Ingesters, Restorers
<1>6. PhaseOK(p)'
  BY <1>1, <1>5 DEF CleanInv, PhaseOK, Ingesters, Restorers
<1>7. CommitIsPlan' /\ SafetyTagIsParent'
  BY <1>1, CommitsKeep DEF CleanInv
<1> QED BY <1>1, <1>6, <1>7 DEF WriteInv, CleanInv, Midway

\* StagePlan stages the whole plan and nothing else.
LEMMA StagePlanKeeps ==
  ASSUME CleanInv, TypeOK', NEW p \in Procs, StagePlan(p) PROVE WriteInv(p)'
<1> USE DEF StagePlan, Stage, Writing, Advance, lockVars
<1>1. step[p] = "branched" /\ BranchedOK(p) /\ p \in Ingesters
  BY DEF CleanInv, PhaseOK
<1>2. step'[p] = "staged" /\ \A q \in Procs \ {p} : step'[q] = step[q]
  BY DEF CleanInv, TypeOK
<1>3. index' = WithPlan(tip[head], p)
  BY <1>1 DEF BranchedOK, WithPlan, Written, CleanInv, TypeOK, Trees
<1>4. worktree' = index'
  <2>1. \A f \in Files : worktree[f] = index'[f]
    BY <1>1 DEF BranchedOK
  <2> QED BY <2>1 DEF CleanInv, TypeOK, Trees
<1>5. WithPlan(tip[head], p)' = WithPlan(tip[head], p)
  BY DEF WithPlan, PlannedContent
<1>6. PhaseOK(p)'
  BY <1>1, <1>2, <1>3, <1>4, <1>5 DEF CleanInv, PhaseOK, StagedOK, Locking, Ingesters, Restorers
<1>7. CommitIsPlan' /\ SafetyTagIsParent'
  BY CommitsKeep DEF CleanInv
<1>8. \A c \in commits : c.by # p
  BY <1>1 DEF CleanInv
<1> QED BY <1>2, <1>6, <1>7, <1>8 DEF WriteInv, CleanInv, TypeOK, Midway

\* git rm, checkout and add -A end with what they leave in the working tree
\* staged, and git rm fails on a clean state.
LEMMA RestoreKeeps ==
  ASSUME CleanInv, TypeOK', NEW p \in Procs, RemoveFiles(p) \/ CheckoutFiles(p) \/ AddAll(p)
  PROVE  WriteInv(p)'
<1>1. /\ step[p] \in {"branched", "removed", "restored"} /\ pc[p] = "holding"
      /\ p \in Restorers /\ p \notin Ingesters
      /\ UNCHANGED <<pc, read, plan, opened, head, tip, tags, commits>>
  BY DEF RemoveFiles, CheckoutFiles, AddAll, Writing, lockVars, CleanInv, PhaseOK, Ingesters
<1>2. PhaseOK(p)
  BY DEF CleanInv
<1>3. /\ step'[p] \in {"removed", "restored", "staged", "failed"}
      /\ step'[p] = "staged" => worktree' = index'
      /\ step'[p] = "failed" => step[p] = "branched" /\ UNCHANGED <<worktree, index>>
      /\ \A q \in Procs \ {p} : step'[q] = step[q]
  BY DEF RemoveFiles, CheckoutFiles, AddAll, Writing, Advance, CleanInv, TypeOK
<1>4. opened[p] = {} \/ step[p] = "branched"
  BY <1>2 DEF PhaseOK
<1>5. step[p] = "branched" => Clean /\ opened[p] = {}
  <2>1. step[p] = "branched" => index = tip[head] /\ \A f \in Files : worktree[f] = tip[head][f]
    BY <1>1, <1>2 DEF PhaseOK, BranchedOK
  <2>2. step[p] = "branched" => opened[p] = {}
    BY <1>1, <1>2 DEF PhaseOK, BranchedOK
  <2> QED BY <2>1, <2>2 DEF Clean, CleanInv, TypeOK, Trees
<1>6. PhaseOK(p)'
  BY <1>1, <1>2, <1>3, <1>4, <1>5 DEF PhaseOK, StagedOK, Locking, Busy, Midway, Ingesters, Restorers
<1>7. CommitIsPlan' /\ SafetyTagIsParent'
  BY <1>1, CommitsKeep DEF CleanInv
<1>8. \A c \in commits : c.by \in Procs /\ c.by # p
  BY <1>1 DEF CleanInv, TypeOK
<1>9. step'[p] \notin Midway => Clean'
  BY <1>1, <1>3, <1>5 DEF Midway, Clean
<1> QED BY <1>1, <1>3, <1>6, <1>7, <1>8, <1>9 DEF WriteInv, CleanInv

\* Commit commits what was staged, on the commit the plan was laid over.
LEMMA CommitKeeps ==
  ASSUME CleanInv, TypeOK', NEW p \in Procs, Commit(p) PROVE WriteInv(p)'
<1> USE DEF Commit, Writing, Advance, lockVars
<1>1. step[p] = "staged" /\ pc[p] = "holding" /\ StagedOK(p) /\ PhaseOK(p)
  BY DEF CleanInv, PhaseOK
<1>2. step'[p] \in {"committed", "failed"} /\ \A q \in Procs \ {p} : step'[q] = step[q]
  BY DEF CleanInv, TypeOK
<1>3. \A f \in Files : PlannedContent(p, f)' = PlannedContent(p, f)
  BY DEF PlannedContent
<1>4. \A c \in commits : c.by \in Procs /\ c.by # p
  BY <1>1 DEF CleanInv, TypeOK
<1>5. CASE index = tip[head]
  <2>moved. commits' = commits /\ tip' = tip /\ step'[p] = "failed"
    BY <1>5 DEF CleanInv, TypeOK
  <2>clean. Clean'
    BY <1>1, <1>5, <2>moved DEF Clean, StagedOK
  <2>phase. PhaseOK(p)'
    BY <1>1, <2>moved DEF PhaseOK, Busy, Locking, Midway
  <2>plans. CommitIsPlan' /\ SafetyTagIsParent'
    BY <2>moved, CommitsKeep DEF CleanInv
  <2> QED BY <1>2, <1>4, <2>moved, <2>clean, <2>phase, <2>plans DEF WriteInv, CleanInv
<1>6. CASE index # tip[head]
  <2> DEFINE new == [by |-> p, on |-> tip[head], tree |-> index]
  <2>moved. commits' = commits \cup {new} /\ step'[p] = "committed"
    BY <1>6 DEF CleanInv, TypeOK
  <2>tip. tip'[head'] = index
    BY <1>6 DEF CleanInv, TypeOK
  <2>clean. Clean'
    BY <1>1, <2>tip DEF Clean, StagedOK
  <2>staged. p \in Ingesters => index = WithPlan(tip[head], p)
    BY <1>1 DEF StagedOK
  <2>committed. p \in Ingesters => CommittedOK(p)'
    BY <1>3, <2>tip, <2>staged DEF CommittedOK, WithPlan, CleanInv, TypeOK
  <2>phase. PhaseOK(p)'
    BY <1>1, <2>moved, <2>committed DEF PhaseOK, Locking, Midway, Ingesters, Restorers
  <2>plans. CommitIsPlan'
    <3> SUFFICES ASSUME NEW c \in commits', c.by \in Ingesters
                 PROVE c.tree = WithPlan(c.on, c.by)'
      BY DEF CommitIsPlan
    <3>1. WithPlan(c.on, c.by)' = WithPlan(c.on, c.by)
      BY DEF WithPlan, PlannedContent
    <3>2. CASE c \in commits
      BY <3>1, <3>2 DEF CommitIsPlan, CleanInv
    <3>3. CASE c = new
      BY <2>staged, <3>1, <3>3
    <3> QED BY <2>moved, <3>2, <3>3
  <2>tagged. SafetyTagIsParent'
    BY <1>1, <2>moved DEF SafetyTagIsParent, PhaseOK, Midway, CleanInv, Restorers
  <2> QED
    BY <1>2, <1>4, <2>moved, <2>clean, <2>phase, <2>plans, <2>tagged DEF WriteInv, CleanInv
<1> QED BY <1>5, <1>6

\* TagBackup moves nothing but the backup.
LEMMA TagBackupKeeps ==
  ASSUME CleanInv, TypeOK', NEW p \in Procs, TagBackup(p) PROVE WriteInv(p)'
<1> USE CommitAssumption DEF TagBackup, Writing, Advance, lockVars
<1>1. step[p] = "committed" /\ pc[p] = "holding" /\ PhaseOK(p) /\ Clean
  BY WriteStarts DEF Busy, Midway
<1>2. step'[p] = "tagged" /\ \A q \in Procs \ {p} : step'[q] = step[q]
  BY DEF CleanInv, TypeOK
<1>3. \A t \in Procs : tags'[t] = tags[t]
  BY DEF CleanInv, TypeOK, Tags
<1>4. PhaseOK(p)'
  BY <1>1, <1>2 DEF PhaseOK, Busy, Locking, Midway
<1>5. \A c \in commits : c.by \in Procs
  BY DEF CleanInv, TypeOK
<1>6. CommitIsPlan' /\ SafetyTagIsParent'
  BY <1>3, <1>5, CommitsKeep DEF CleanInv
<1>7. Clean'
  BY <1>1 DEF Clean
<1> QED BY <1>2, <1>4, <1>5, <1>6, <1>7 DEF WriteInv, CleanInv

\* Leave gives the lock back and disturbs nothing.
LEMMA LeaveKeeps ==
  ASSUME ~ MayDie, CleanInv, TypeOK', ExclusionInv', NEW p \in Procs, Leave(p) PROVE CleanInv'
<1>1. /\ UNCHANGED <<step, read, plan, opened, worktree, index, head, tip, tags, commits>>
      /\ step[p] \in {"tagged", "failed"} /\ pc'[p] = "released"
      /\ \A q \in Procs \ {p} : pc'[q] = pc[q]
  BY DEF Leave, Release, Goto, gitVars, CleanInv, TypeOK, LockTypeOK
<1>2. PhaseOK(p)'
  BY <1>1 DEF CleanInv, PhaseOK, Busy, Locking, Midway
<1>3. \A q \in Procs : PhaseOK(q)'
  BY <1>1, <1>2, OthersKeep DEF CleanInv
<1>4. CommitIsPlan' /\ SafetyTagIsParent'
  BY <1>1, CommitsKeep DEF CleanInv
<1> QED BY <1>1, <1>3, <1>4 DEF CleanInv, Clean

\* Every call of the write phase keeps the invariant.
LEMMA WriteKeeps ==
  ASSUME ~ MayDie, ~ CallsFail, CleanInv, TypeOK', ExclusionInv', NEW p \in Procs, WritePhase(p)
  PROVE  CleanInv'
<1>1. CASE Leave(p)
  BY <1>1, LeaveKeeps
<1>2. CASE ~ Leave(p)
  <2>1. ~ CallFails(p)
    BY DEF CallFails
  <2>2. WriteInv(p)'
    BY <1>2, <2>1, BranchingKeeps, FilesKeep, StagePlanKeeps, RestoreKeeps, CommitKeeps, TagBackupKeeps
       DEF WritePhase
  <2>3. /\ pc[p] = "holding" /\ read' = read /\ plan' = plan /\ pc' = pc
        /\ \A q \in Procs \ {p} : step'[q] = step[q] /\ opened'[q] = opened[q]
    BY <1>2, <2>1 DEF WritePhase, CreateTag, CreateBranch, OpenFile, WriteFile, StagePlan, Stage,
                RemoveFiles, CheckoutFiles, AddAll, Commit, TagBackup, Writing, Advance, lockVars,
                gitVars, CleanInv, TypeOK
  <2>4. \A q \in Procs : PhaseOK(q)'
    BY <2>2, <2>3, PhasesKeep DEF WriteInv
  <2> QED BY <2>2, <2>4 DEF WriteInv, CleanInv
<1> QED BY <1>1, <1>2

\* Every step keeps the invariant while no process dies and no call fails.
LEMMA CleanStep == ASSUME ~ MayDie, ~ CallsFail, CleanInv, [Next]_vars PROVE CleanInv'
<1> USE CommitAssumption
<1>0. TypeOK' /\ ExclusionInv'
  BY CommitTypeStep, StepsOnLock, ExclusionStep DEF CleanInv
<1>1. CASE UNCHANGED vars
  <2>1. \A q \in Procs : PhaseOK(q)'
    BY <1>1, OthersKeep DEF CleanInv, vars, gitVars, lockVars
  <2>2. CommitIsPlan' /\ SafetyTagIsParent'
    BY <1>1, CommitsKeep DEF CleanInv, vars, gitVars, lockVars
  <2> QED BY <1>0, <1>1, <2>1, <2>2 DEF CleanInv, Clean, vars, gitVars
<1>2. ASSUME NEW p \in Procs, PlanIngest(p) \/ PlanRestore(p) PROVE CleanInv'
  <2>facts. /\ UNCHANGED <<pc, opened, worktree, index, head, tip, tags, commits>>
            /\ step[p] = "new" /\ step'[p] \in {"nothing", "read"}
            /\ \A q \in Procs \ {p} : step'[q] = step[q] /\ read'[q] = read[q] /\ plan'[q] = plan[q]
    BY <1>2 DEF PlanIngest, PlanRestore, Starting, Advance, gitVars, lockVars, CleanInv, TypeOK
  <2>phases. ASSUME NEW q \in Procs PROVE PhaseOK(q)'
    <3>1. CASE q = p
      BY <2>facts, <3>1 DEF CleanInv, PhaseOK, Busy, Midway
    <3>2. CASE q # p
      BY <2>facts, <3>2, OthersKeep DEF CleanInv
    <3> QED BY <3>1, <3>2
  <2>plans. CommitIsPlan' /\ SafetyTagIsParent'
    BY <2>facts, CommitsKeep DEF CleanInv, TypeOK
  <2>clean. (\A q \in Procs : step'[q] \notin Midway) => Clean'
    BY <2>facts DEF CleanInv, Clean, Midway
  <2>past. \A c \in commits' : step'[c.by] \in {"committed", "tagged"}
    BY <2>facts DEF CleanInv, TypeOK
  <2> QED BY <1>0, <2>phases, <2>plans, <2>clean, <2>past DEF CleanInv
<1>3. ASSUME NEW p \in Procs, Acquire(p) PROVE CleanInv'
  <2>facts. /\ UNCHANGED <<read, plan, opened, worktree, index, head, tip, tags, commits>>
            /\ step[p] = "read" /\ step'[p] \in {"read", "locked", "failed"}
            /\ \A q \in Procs \ {p} : step'[q] = step[q] /\ pc'[q] = pc[q]
            /\ pc'[p] = "holding" <=> step'[p] = "locked"
            /\ pc'[p] \in Locking => step'[p] = "read"
    BY <1>3 DEF Acquire, Acquiring, Begin, ReadHolder, CheckHolder, Unlink, Create, Stamp, Goto,
                Advance, gitVars, CleanInv, TypeOK, LockTypeOK, PhaseOK, Locking
  <2>phases. ASSUME NEW q \in Procs PROVE PhaseOK(q)'
    <3>1. CASE q = p
      BY <2>facts, <3>1 DEF CleanInv, PhaseOK, Busy, Midway
    <3>2. CASE q # p
      BY <2>facts, <3>2, OthersKeep DEF CleanInv
    <3> QED BY <3>1, <3>2
  <2>plans. CommitIsPlan' /\ SafetyTagIsParent'
    BY <2>facts, CommitsKeep DEF CleanInv
  <2>clean. (\A q \in Procs : step'[q] \notin Midway) => Clean'
    BY <2>facts DEF CleanInv, Clean, Midway
  <2>past. \A c \in commits' : step'[c.by] \in {"committed", "tagged"}
    BY <2>facts DEF CleanInv, TypeOK
  <2> QED BY <1>0, <2>phases, <2>plans, <2>clean, <2>past DEF CleanInv
<1>4. ASSUME NEW p \in Procs, WritePhase(p) PROVE CleanInv'
  BY <1>0, <1>4, WriteKeeps
<1>5. ASSUME NEW p \in Procs, Crash(p) PROVE CleanInv'
  BY <1>5 DEF Crash, Die
<1> QED BY <1>1, <1>2, <1>3, <1>4, <1>5 DEF Next

\* The invariant holds in every reachable state when no process dies or fails.
LEMMA CleanInvariant == ASSUME ~ MayDie, ~ CallsFail PROVE Spec => []CleanInv
<1>1. Init => CleanInv
  <2> SUFFICES ASSUME Init PROVE CleanInv
    OBVIOUS
  <2>exclusion. ExclusionInv
    BY LockAssumption DEF Init, LockInit, ExclusionInv, LockTypeOK, Places, Holds
  <2>phases. \A p \in Procs : PhaseOK(p)
    BY DEF Init, LockInit, PhaseOK, Busy, Locking, Midway
  <2>clean. Clean
    BY DEF Init, Clean, Branches
  <2>plans. CommitIsPlan /\ SafetyTagIsParent
    BY DEF Init, CommitIsPlan, SafetyTagIsParent
  <2>past. \A c \in commits : step[c.by] \in {"committed", "tagged"}
    BY DEF Init
  <2> QED BY <2>exclusion, <2>phases, <2>clean, <2>plans, <2>past, CommitTypeInit DEF CleanInv
<1>2. CleanInv /\ [Next]_vars => CleanInv'
  BY CleanStep
<1> QED BY <1>1, <1>2, PTL DEF Spec

\* While no process dies and no call fails, the commit of an ingest is exactly its
\* approved plan, laid over the commit it builds on, however the runs interleave.
THEOREM CommitsArePlans == ASSUME ~ MayDie, ~ CallsFail PROVE Spec => []CommitIsPlan
<1>1. CleanInv => CommitIsPlan
  BY DEF CleanInv
<1> QED BY <1>1, CleanInvariant, PTL

\* While no process dies and no call fails, a restore's safety tag is the commit it
\* builds on, however the runs interleave.
THEOREM RestoresAreReversible == ASSUME ~ MayDie, ~ CallsFail PROVE Spec => []SafetyTagIsParent
<1>1. CleanInv => SafetyTagIsParent
  BY DEF CleanInv
<1> QED BY <1>1, CleanInvariant, PTL

\* The processes of IngestCommit use the lock as IngestLock says they do, so
\* what is proved of the lock holds of them.
THEOREM UsesTheLock == Spec => LockSpec
<1>1. Init => LockInit
  BY DEF Init
<1>2. [Next]_vars => [LockNext]_lockVars
  BY StepsOnLock
<1> QED BY <1>1, <1>2, PTL DEF Spec, LockSpec

\* While no process dies, at most one ingest or restore is in its write phase.
THEOREM WritersExclude == ASSUME ~ MayDie PROVE Spec => []MutualExclusion
  BY UsesTheLock, Exclusion, PTL

--------------------------------------------------------------------------------
(* When the runs come one after another, any of them may die or fail between *)
(* any two calls and leave a working tree and an index in any state on the   *)
(* way.  The next one reads that state into its plan before it writes, so    *)
(* step by step nothing is lost between what is committed, what is staged    *)
(* and what is in the working tree, but for what Kept names and for the      *)
(* files that were left truncated.                                           *)

\* One run at a time; a run that goes for the lock has planned; a process that has
\* not started has planned nothing.
Solo == \A p, q \in Procs : Running(p) /\ Running(q) => p = q
LocksToWrite == \A p \in Procs : pc[p] \in Locking => step[p] = "read"
Fresh == \A p \in Procs : step[p] = "new" => plan[p] = {} /\ opened[p] = {}
CommitsEnded == \A c \in commits : step[c.by] \in {"committed", "tagged", "failed"}

\* What a file may lose with an explanation: a change of it was approved, or a
\* restore has tagged it and is under way or has stopped.
HalfWay == {r \in Restorers : step[r] \in HalfSteps}
Kept(f) == Retired(f) \cup UNION {tags[r][f] : r \in HalfWay}

\* The index loses nothing the commit has, and the working tree nothing the index has.
Staging == \A f \in Files \ Torn : tip[head][f] \subseteq index[f] \cup Kept(f)
Growing == \A f \in Files : index[f] \subseteq worktree[f] \cup Kept(f) \/ \E q \in Procs : f \in opened[q]

\* What p read lost nothing the index has.
ReadAll(p) == \A f \in Files \ Torn : index[f] \subseteq read[p][f] \cup Kept(f)

RunOK(p) ==
  /\ p \in Ingesters /\ step[p] \in {"read", "locked", "branched"} => ReadAll(p)
  /\ p \in Ingesters /\ step[p] = "staged" => \A f \in plan[p] : index[f] = PlannedContent(p, f)
  /\ p \in Ingesters /\ step[p] = "committed" => \A f \in plan[p] : tip[head][f] = PlannedContent(p, f)
  /\ p \in Ingesters /\ step[p] = "tagged" => \A f \in plan[p] : tags[Backup][f] = PlannedContent(p, f)
  /\ p \in Restorers /\ step[p] \in Midway \cup {"labelled"} => tags[p] = tip[head]
  /\ p \in Restorers /\ step[p] = "staged" => index = worktree
  /\ \A f, g \in opened[p] : f = g /\ f \in plan[p] /\ p \in Ingesters /\ step[p] \in {"branched", "failed"}
  /\ step[p] \in {"removed", "restored"} => p \in Restorers

CrashInv ==
  /\ TypeOK /\ Solo /\ LocksToWrite /\ Fresh /\ CommitsEnded
  /\ \A p \in Procs : Running(p) => RunOK(p)
  /\ Staging /\ Growing /\ LossesExplained
  /\ CommitHoldsPlan /\ SafetyTagIsParent

\* A step is one of the process that runs, or of one that starts while none runs,
\* and leaves alone what belongs to the others.
LEMMA StepIsOwn ==
  ASSUME OneAtATime, CrashInv, NEW p \in Procs, Does(p)
  PROVE  /\ \A q \in Procs \ {p} :
              /\ step'[q] = step[q] /\ pc'[q] = pc[q] /\ read'[q] = read[q]
              /\ plan'[q] = plan[q] /\ opened'[q] = opened[q] /\ tags'[q] = tags[q]
         /\ alive' \subseteq alive /\ alive \ {p} \subseteq alive'
         /\ Running(p) \/ (step[p] = "new" /\ \A q \in Procs : ~ Running(q))
         /\ step[p] # "new" => read'[p] = read[p] /\ plan'[p] = plan[p]
         /\ step[p] # "locked" => tags'[p] = tags[p]
         /\ step[p] = "failed" => step'[p] = "failed" /\ opened'[p] = opened[p]
         /\ step[p] = "tagged" => step'[p] = "tagged"
         /\ step[p] = "committed" => step'[p] \in {"committed", "tagged", "failed"}
         /\ pc'[p] \in Locking => step'[p] = "read"
         /\ step'[p] # "new"
<1> USE CommitAssumption
<1>1. CASE PlanIngest(p) \/ PlanRestore(p)
  BY <1>1 DEF PlanIngest, PlanRestore, Starting, Advance, lockVars, gitVars, CrashInv, LocksToWrite, TypeOK
<1>2. CASE Acquire(p)
  BY <1>2 DEF Acquire, Acquiring, Begin, ReadHolder, CheckHolder, Unlink, Create, Stamp, Goto,
              Advance, gitVars, CrashInv, LocksToWrite, TypeOK, LockTypeOK, Locking, Running
<1>3. CASE WritePhase(p) /\ ~ Leave(p)
  <2>1. /\ p \in alive /\ pc[p] = "holding" /\ step[p] \in Busy
        /\ UNCHANGED <<alive, pc, read, plan>>
        /\ \A q \in Procs \ {p} : step'[q] = step[q] /\ opened'[q] = opened[q]
    BY <1>3 DEF WritePhase, CreateTag, CreateBranch, OpenFile, WriteFile, StagePlan, Stage, RemoveFiles,
                CheckoutFiles, AddAll, Commit, TagBackup, CallFails, Writing, Advance, lockVars, gitVars,
                Busy, CrashInv, TypeOK
  <2>2. \A q \in Procs : q # p \/ step[p] # "locked" => tags'[q] = tags[q]
    BY <1>3 DEF WritePhase, CreateTag, CreateBranch, OpenFile, WriteFile, StagePlan, Stage, RemoveFiles,
                CheckoutFiles, AddAll, Commit, TagBackup, CallFails, Writing, gitVars, CrashInv, TypeOK, Tags
  <2>3. /\ step'[p] # "new"
        /\ step[p] = "committed" => step'[p] \in {"committed", "tagged", "failed"}
    BY <1>3, <2>1 DEF WritePhase, CreateTag, CreateBranch, OpenFile, WriteFile, StagePlan, Stage, RemoveFiles,
                CheckoutFiles, AddAll, Commit, TagBackup, CallFails, Writing, Advance, Busy, CrashInv, TypeOK
  <2>4. Running(p)
    BY <2>1 DEF Running, Busy
  <2> QED BY <2>1, <2>2, <2>3, <2>4 DEF Busy, Locking
<1>4. CASE Leave(p) \/ Crash(p)
  BY <1>4 DEF Leave, Crash, Release, Die, Goto, Running, gitVars, CrashInv, LocksToWrite, TypeOK,
              LockTypeOK, Locking
<1> QED BY <1>1, <1>2, <1>3, <1>4 DEF Does

\* What was torn, approved or tagged by a stopped restore stays so.
LEMMA ExplanationsStay ==
  ASSUME OneAtATime, CrashInv, NEW p \in Procs, Does(p)
  PROVE  /\ Torn \subseteq Torn'
         /\ HalfDone \subseteq HalfDone' /\ \A r \in HalfDone : tags'[r] = tags[r]
         /\ \A f \in Files : Retired(f) \subseteq Retired(f)'
<1>1. \A q \in Procs : ~ (Running(q) /\ step[q] = "branched") /\ opened[q] # {} =>
        ~ (Running(q) /\ step[q] = "branched")' /\ opened'[q] = opened[q]
  BY StepIsOwn DEF Running, CrashInv, RunOK, Fresh
<1>2. \A r \in Restorers : ~ Running(r) /\ step[r] \in HalfSteps =>
        ~ Running(r)' /\ step'[r] = step[r] /\ tags'[r] = tags[r]
  BY StepIsOwn DEF Running, HalfSteps, Busy, Restorers
<1>3. \A i \in Ingesters : plan[i] \subseteq plan'[i]
  BY StepIsOwn DEF CrashInv, Fresh, Ingesters
<1>4. Torn \subseteq Torn'
  BY <1>1 DEF Torn
<1>5. HalfDone \subseteq HalfDone'
  BY <1>2 DEF HalfDone, Restorers
<1>6. \A r \in HalfDone : tags'[r] = tags[r]
  BY <1>2 DEF HalfDone
<1>7. \A f \in Files : Retired(f) \subseteq Retired(f)'
  BY <1>3 DEF Retired, Ingesters, Restorers
<1> QED BY <1>4, <1>5, <1>6, <1>7

\* What may be lost with an explanation grows, until a restore comes to its commit.
LEMMA KeptGrows ==
  ASSUME OneAtATime, CrashInv, NEW p \in Procs, Does(p), p \in Ingesters \/ step'[p] # "committed"
  PROVE  \A f \in Files : Kept(f) \subseteq Kept(f)'
<1>1. p \in Restorers /\ step[p] \in HalfSteps => step'[p] \in HalfSteps
  BY DEF Does, PlanIngest, PlanRestore, Starting, Acquire, Acquiring, Begin, ReadHolder, CheckHolder,
         Unlink, Create, Stamp, WritePhase, CreateTag, CreateBranch, OpenFile, WriteFile, StagePlan,
         Stage, RemoveFiles, CheckoutFiles, AddAll, Commit, TagBackup, CallFails, Leave, Crash, Writing,
         Advance, HalfSteps, Busy, Ingesters, CrashInv, LocksToWrite, Locking, TypeOK
<1>2. \A r \in HalfWay : r \in HalfWay' /\ tags'[r] = tags[r]
  BY <1>1, StepIsOwn DEF HalfWay, HalfSteps, Busy, Restorers
<1> QED BY <1>2, ExplanationsStay DEF Kept

\* What is true of a commit stays true of it.
Settled(c) ==
  /\ step[c.by] \in {"committed", "tagged", "failed"}
  /\ c.by \in Restorers => tags[c.by] = c.on
  /\ c.by \in Ingesters =>
       /\ \A f \in plan[c.by] : c.tree[f] = PlannedContent(c.by, f)
       /\ \A f \in Files \ Torn : Loss(c, f) \subseteq Retired(f) \cup UNION {tags[r][f] : r \in HalfDone}

LEMMA OldCommits ==
  ASSUME OneAtATime, CrashInv, NEW p \in Procs, Does(p), NEW c \in commits
  PROVE  Settled(c)'
<1>1. /\ c.by \in Procs /\ step[c.by] \in {"committed", "tagged", "failed"}
      /\ read'[c.by] = read[c.by] /\ plan'[c.by] = plan[c.by] /\ tags'[c.by] = tags[c.by]
  BY StepIsOwn DEF CrashInv, CommitsEnded, TypeOK
<1>2. step'[c.by] \in {"committed", "tagged", "failed"}
  BY <1>1, StepIsOwn
<1>3. c.by \in Restorers => tags'[c.by] = c.on
  BY <1>1 DEF CrashInv, SafetyTagIsParent
<1>4. ASSUME c.by \in Ingesters
      PROVE  \A f \in plan'[c.by] : c.tree[f] = PlannedContent(c.by, f)'
  BY <1>1, <1>4 DEF CrashInv, CommitHoldsPlan, PlannedContent
<1>5. ASSUME c.by \in Ingesters, NEW f \in Files \ Torn'
      PROVE  Loss(c, f) \subseteq Retired(f)' \cup UNION {tags'[r][f] : r \in HalfDone'}
  <2>1. Loss(c, f) \subseteq Retired(f) \cup UNION {tags[r][f] : r \in HalfDone}
    BY <1>5, ExplanationsStay DEF CrashInv, LossesExplained
  <2> QED BY <2>1, ExplanationsStay
<1> QED BY <1>2, <1>3, <1>4, <1>5 DEF Settled, Loss, Ingesters, Restorers

\* The parts of the invariant that only a commit can disturb, and those about the
\* processes that do not move.
LEMMA Carried ==
  ASSUME OneAtATime, CrashInv, NEW p \in Procs, Does(p)
  PROVE  /\ Solo' /\ LocksToWrite' /\ Fresh'
         /\ \A q \in Procs : Running(q)' => q = p
         /\ (\A c \in commits' : Settled(c)') =>
              CommitsEnded' /\ LossesExplained' /\ CommitHoldsPlan' /\ SafetyTagIsParent'
<1>1. \A q \in Procs : Running(q)' => q = p
  BY StepIsOwn DEF Running, CrashInv, Solo
<1>2. Solo' /\ LocksToWrite' /\ Fresh'
  BY <1>1, StepIsOwn DEF CrashInv, Solo, LocksToWrite, Fresh
<1>3. (\A c \in commits' : Settled(c)') =>
        CommitsEnded' /\ LossesExplained' /\ CommitHoldsPlan' /\ SafetyTagIsParent'
  BY DEF Settled, CommitsEnded, LossesExplained, CommitHoldsPlan, SafetyTagIsParent
<1> QED BY <1>1, <1>2, <1>3

\* What is left to show of a step.
Remains(p) == (Running(p) => RunOK(p)) /\ Staging /\ Growing

LEMMA RemainsSuffices ==
  ASSUME OneAtATime, CrashInv, TypeOK', NEW p \in Procs, Does(p),
         \A c \in commits' \ commits : Settled(c)', Remains(p)'
  PROVE  CrashInv'
<1>1. \A c \in commits' : Settled(c)'
  BY OldCommits
<1> QED BY <1>1, Carried DEF CrashInv, Remains

\* The file a process has open is torn if the process does not run.
LEMMA OthersAreTorn ==
  ASSUME CrashInv, NEW p \in Procs, \A q \in Procs : Running(q) => q = p,
         NEW q \in Procs \ {p}, NEW f \in opened[q]
  PROVE  f \in Torn
  BY DEF Torn

\* A step that moves neither tree and stays where the commits are.
LEMMA StandsStill ==
  ASSUME OneAtATime, CrashInv, NEW p \in Procs, Does(p),
         UNCHANGED <<worktree, index, opened>>, tip'[head'] = tip[head],
         p \in Ingesters \/ step'[p] # "committed"
  PROVE  Staging' /\ Growing'
  BY KeptGrows, ExplanationsStay DEF CrashInv, Staging, Growing

LEMMA ReadAllStays ==
  ASSUME OneAtATime, CrashInv, NEW p \in Procs, Does(p), p \in Ingesters,
         UNCHANGED <<read, index>>, ReadAll(p)
  PROVE  ReadAll(p)'
  BY KeptGrows, ExplanationsStay DEF ReadAll

LEMMA PlanRemains ==
  ASSUME OneAtATime, CrashInv, TypeOK', NEW p \in Procs, PlanIngest(p) \/ PlanRestore(p)
  PROVE  Remains(p)'
<1> USE CommitAssumption
<1>1. /\ Does(p) /\ step[p] = "new" /\ UNCHANGED <<pc, opened, worktree, index, head, tip, tags>>
      /\ \A q \in Procs : ~ Running(q)
      /\ step'[p] \in {"read", "nothing"}
      /\ step'[p] = "read" /\ p \in Ingesters => read'[p] = worktree
  BY DEF Does, PlanIngest, PlanRestore, Starting, Advance, lockVars, gitVars, CrashInv, TypeOK, Restorers, Ingesters
<1>2. Staging' /\ Growing'
  BY <1>1, StandsStill
<1>3. opened'[p] = {}
  BY <1>1 DEF CrashInv, Fresh
<1>4. ASSUME step'[p] = "read", p \in Ingesters
      PROVE  ReadAll(p)'
  <2> SUFFICES ASSUME NEW f \in Files \ Torn'
               PROVE  index[f] \subseteq worktree[f] \cup Kept(f)'
    BY <1>1, <1>4 DEF ReadAll
  <2>1. f \notin Torn /\ Kept(f) \subseteq Kept(f)'
    BY <1>1, ExplanationsStay, KeptGrows
  <2>2. \A q \in Procs : f \notin opened[q]
    BY <1>1, <2>1 DEF Torn
  <2> QED BY <2>1, <2>2 DEF CrashInv, Growing
<1>5. Running(p)' => RunOK(p)'
  BY <1>1, <1>3, <1>4 DEF Running, RunOK, Midway
<1> QED BY <1>2, <1>5 DEF Remains

LEMMA AcquireRemains ==
  ASSUME OneAtATime, CrashInv, TypeOK', NEW p \in Procs, Acquire(p)
  PROVE  Remains(p)'
<1> USE CommitAssumption
<1>1. /\ Does(p) /\ UNCHANGED <<read, plan, opened, worktree, index, head, tip, tags>>
      /\ p \in alive /\ step[p] = "read" /\ pc[p] \notin {"refused", "released"}
      /\ step'[p] \in {"read", "locked", "failed"}
      /\ step'[p] = "failed" => pc'[p] = "refused"
  BY DEF Does, Acquire, Acquiring, Begin, ReadHolder, CheckHolder, Unlink, Create, Stamp, Goto, Advance,
         gitVars, CrashInv, LocksToWrite, Locking, TypeOK, LockTypeOK
<1>2. Running(p) /\ RunOK(p)
  BY <1>1 DEF Running, CrashInv
<1>3. Staging' /\ Growing'
  BY <1>1, StandsStill
<1>4. p \in Ingesters => ReadAll(p)'
  BY <1>1, <1>2, ReadAllStays DEF RunOK
<1>5. \A f \in Files : f \notin opened[p]
  BY <1>1, <1>2 DEF RunOK
<1>6. opened'[p] = {}
  BY <1>1, <1>5 DEF CrashInv, TypeOK
<1>7. Running(p)' => RunOK(p)'
  BY <1>1, <1>4, <1>6 DEF Running, RunOK, Midway
<1> QED BY <1>3, <1>7 DEF Remains

\* What every step of the write phase may use.
LEMMA WriterRuns ==
  ASSUME CrashInv, NEW p \in Procs, NEW s \in Busy, Writing(p, s)
  PROVE  /\ Running(p) /\ RunOK(p) /\ step[p] = s
         /\ UNCHANGED <<pc, read, plan>>
         /\ \A q \in Procs : Running(q) => q = p
         /\ s # "branched" => opened[p] = {}
         /\ \A q \in Procs \ {p} : opened[q] \subseteq Torn
<1>1. Running(p) /\ step[p] = s /\ UNCHANGED <<pc, read, plan>>
  BY DEF Writing, Running, Busy, lockVars
<1>2. RunOK(p) /\ \A q \in Procs : Running(q) => q = p
  BY <1>1 DEF CrashInv, Solo
<1>3. s # "branched" => opened[p] = {}
  BY <1>1, <1>2 DEF RunOK, Busy, CrashInv, TypeOK
<1> QED BY <1>1, <1>2, <1>3, OthersAreTorn

LEMMA BranchRemains ==
  ASSUME OneAtATime, CrashInv, TypeOK', NEW p \in Procs, CreateTag(p) \/ CreateBranch(p)
  PROVE  Remains(p)'
<1> USE CommitAssumption
<1>1. /\ Does(p) /\ UNCHANGED <<read, plan, opened, worktree, index>> /\ tip'[head'] = tip[head]
      /\ \/ /\ Writing(p, "locked") /\ p \in Restorers /\ step'[p] = "labelled" /\ tags'[p] = tip[head]
         \/ /\ Writing(p, "labelled") /\ p \in Restorers /\ step'[p] = "branched" /\ tags' = tags
         \/ /\ Writing(p, "locked") /\ p \in Ingesters /\ step'[p] = "branched" /\ tags' = tags
  BY DEF Does, WritePhase, CreateTag, CreateBranch, Writing, Advance, CrashInv, TypeOK, Tags, Branches,
         Ingesters, Restorers
<1>2. /\ RunOK(p) /\ opened[p] = {} /\ step[p] \in {"locked", "labelled"}
      /\ step[p] = "labelled" => p \in Restorers
  BY <1>1, WriterRuns DEF Busy
<1>3. Staging' /\ Growing'
  BY <1>1, StandsStill
<1>4. p \in Ingesters => ReadAll(p)'
  BY <1>1, <1>2, ReadAllStays DEF RunOK, Ingesters, Writing
<1>5. RunOK(p)'
  BY <1>1, <1>2, <1>4 DEF RunOK, Midway, Ingesters, Writing
<1> QED BY <1>3, <1>5 DEF Remains

LEMMA OpenRemains ==
  ASSUME OneAtATime, CrashInv, TypeOK', NEW p \in Procs, NEW f \in Files, OpenFile(p, f)
  PROVE  Remains(p)'
<1> USE CommitAssumption
<1>1. /\ Does(p) /\ Writing(p, "branched") /\ p \in Ingesters /\ f \in plan[p] /\ opened[p] = {}
      /\ UNCHANGED <<step, read, plan, index, head, tip, tags>>
      /\ opened'[p] = {f} /\ \A q \in Procs \ {p} : opened'[q] = opened[q]
      /\ \A g \in Files \ {f} : worktree'[g] = worktree[g]
  BY DEF Does, WritePhase, OpenFile, Writing, CrashInv, TypeOK, Trees
<1>2. RunOK(p) /\ step[p] = "branched"
  BY <1>1, WriterRuns DEF Busy
<1>3. \A g \in Files : Kept(g) \subseteq Kept(g)'
  BY <1>1, KeptGrows
<1>4. Staging'
  BY <1>1, <1>3, ExplanationsStay DEF CrashInv, Staging
<1>5. Growing'
  BY <1>1, <1>3 DEF CrashInv, Growing
<1>6. ReadAll(p)'
  BY <1>1, <1>2, ReadAllStays DEF RunOK
<1>7. RunOK(p)'
  BY <1>1, <1>2, <1>6 DEF RunOK, Midway, Ingesters
<1> QED BY <1>4, <1>5, <1>7 DEF Remains

\* What a planned file loses of what was read there, the plan explains.
LEMMA PlanExplains ==
  ASSUME TypeOK, NEW p \in Ingesters, NEW f \in plan[p]
  PROVE  read[p][f] \ PlannedContent(p, f) \subseteq Retired(f)
<1>1. CASE f = Log
  BY <1>1 DEF PlannedContent, Retired
<1>2. CASE f # Log
  <2>1. Replaces[Fact[p]] \in {Replaces[Fact[q]] : q \in {i \in Ingesters : f \in plan[i]}}
    OBVIOUS
  <2> QED BY <1>2, <2>1 DEF PlannedContent, Retired
<1> QED BY <1>1, <1>2

LEMMA WriteRemains ==
  ASSUME OneAtATime, CrashInv, TypeOK', NEW p \in Procs, NEW f \in Files, WriteFile(p, f)
  PROVE  Remains(p)'
<1> USE CommitAssumption
<1>1. /\ Does(p) /\ Writing(p, "branched") /\ p \in Ingesters /\ f \in opened[p]
      /\ UNCHANGED <<step, read, plan, index, head, tip, tags>>
      /\ opened'[p] = {} /\ \A q \in Procs \ {p} : opened'[q] = opened[q]
      /\ worktree'[f] = PlannedContent(p, f)
      /\ \A g \in Files \ {f} : worktree'[g] = worktree[g]
  BY DEF Does, WritePhase, WriteFile, Writing, CrashInv, TypeOK, Trees
<1>2. RunOK(p) /\ step[p] = "branched" /\ Running(p) /\ \A q \in Procs : Running(q) => q = p
  BY <1>1, WriterRuns DEF Busy
<1>3. \A g \in Files : Kept(g) \subseteq Kept(g)'
  BY <1>1, KeptGrows
<1>4. Staging'
  BY <1>1, <1>3, ExplanationsStay DEF CrashInv, Staging
<1>5. Growing'
  <2> SUFFICES ASSUME NEW g \in Files, \A q \in Procs : g \notin opened'[q]
               PROVE  index[g] \subseteq worktree'[g] \cup Kept(g)'
    BY <1>1 DEF Growing
  <2>1. CASE g # f
    <3>1. g \notin opened[p]
      BY <1>1, <1>2, <2>1 DEF RunOK
    <3>2. \A q \in Procs : g \notin opened[q]
      BY <1>1, <3>1
    <3> QED BY <1>1, <1>3, <2>1, <3>2 DEF CrashInv, Growing
  <2>2. CASE g = f
    <3>1. f \notin Torn
      <4>1. \A i \in Procs : ~ (Running(i) /\ step[i] = "branched") => f \notin opened[i]
        BY <1>1, <1>2, <2>2
      <4> QED BY <4>1 DEF Torn
    <3>2. index[f] \subseteq read[p][f] \cup Kept(f)
      BY <1>1, <1>2, <3>1 DEF RunOK, ReadAll
    <3>3. read[p][f] \ PlannedContent(p, f) \subseteq Kept(f)
      BY <1>1, <1>2, PlanExplains DEF RunOK, CrashInv, Kept
    <3> QED BY <1>1, <1>3, <2>2, <3>2, <3>3
  <2> QED BY <2>1, <2>2
<1>6. ReadAll(p)'
  BY <1>1, <1>2, ReadAllStays DEF RunOK
<1>7. RunOK(p)'
  BY <1>1, <1>2, <1>6 DEF RunOK, Midway, Ingesters
<1> QED BY <1>4, <1>5, <1>7 DEF Remains

LEMMA StageRemains ==
  ASSUME OneAtATime, CrashInv, TypeOK', NEW p \in Procs, StagePlan(p)
  PROVE  Remains(p)'
<1> USE CommitAssumption
<1>1. /\ Does(p) /\ Writing(p, "branched") /\ p \in Ingesters /\ opened[p] = {}
      /\ UNCHANGED <<read, plan, opened, worktree, head, tip, tags>>
      /\ step'[p] = "staged"
      /\ \A f \in plan[p] : worktree[f] = PlannedContent(p, f)
      /\ \A f \in Files : index'[f] = IF f \in plan[p] THEN worktree[f] ELSE index[f]
      /\ plan[p] \subseteq Files
  BY DEF Does, WritePhase, StagePlan, Stage, Written, Writing, Advance, CrashInv, TypeOK
<1>2. \A q \in Procs \ {p} : opened[q] \subseteq Torn
  BY <1>1, WriterRuns DEF Busy
<1>3. \A f \in Files : Kept(f) \subseteq Kept(f)'
  BY <1>1, KeptGrows
<1>4. Staging'
  <2> SUFFICES ASSUME NEW f \in Files \ Torn'
               PROVE  tip[head][f] \subseteq index'[f] \cup Kept(f)'
    BY <1>1 DEF Staging
  <2>1. f \notin Torn
    BY <1>1, ExplanationsStay
  <2>2. \A q \in Procs : f \notin opened[q]
    BY <1>1, <1>2, <2>1
  <2>3. tip[head][f] \subseteq index[f] \cup Kept(f) /\ index[f] \subseteq worktree[f] \cup Kept(f)
    BY <2>1, <2>2 DEF CrashInv, Staging, Growing
  <2> QED BY <1>1, <1>3, <2>3
<1>5. Growing'
  BY <1>1, <1>3 DEF CrashInv, Growing
<1>6. \A f \in plan'[p] : index'[f] = PlannedContent(p, f)'
  BY <1>1 DEF PlannedContent
<1>7. RunOK(p)'
  BY <1>1, <1>6 DEF RunOK, Midway, Ingesters
<1> QED BY <1>4, <1>5, <1>7 DEF Remains

\* A restore may take everything away: it is in its safety tag.
LEMMA RestoreRemains ==
  ASSUME OneAtATime, CrashInv, TypeOK', NEW p \in Procs,
         RemoveFiles(p) \/ CheckoutFiles(p) \/ AddAll(p)
  PROVE  Remains(p)'
<1> USE CommitAssumption
<1>1. /\ Does(p) /\ Writing(p, step[p]) /\ step[p] \in {"branched", "removed", "restored"}
      /\ UNCHANGED <<read, plan, opened, head, tip, tags>>
      /\ step'[p] \in {"removed", "restored", "staged", "failed"}
      /\ step'[p] = "staged" => index' = worktree'
  BY DEF Does, WritePhase, RemoveFiles, CheckoutFiles, AddAll, Writing, Advance, CrashInv, TypeOK
<1>2. RunOK(p)
  BY <1>1, WriterRuns DEF Busy
<1>3. p \in Restorers /\ tags[p] = tip[head] /\ p \in HalfWay'
  <2>1. p \in Restorers
    BY <1>1, <1>2 DEF RunOK, RemoveFiles, CheckoutFiles, AddAll, Writing
  <2> QED BY <1>1, <1>2, <2>1 DEF RunOK, Midway, HalfWay, HalfSteps, Busy, Restorers
<1>4. \A f \in Files : f \notin opened[p] /\ Kept(f) \subseteq Kept(f)'
  BY <1>1, <1>2, <1>3, KeptGrows DEF RunOK, Ingesters
<1>5. opened[p] = {}
  BY <1>4 DEF CrashInv, TypeOK
<1>6. Staging'
  BY <1>1, <1>3 DEF Staging, Kept
<1>7. Growing'
  <2>1. \A f \in Files :
          \/ index'[f] = worktree'[f]
          \/ index'[f] = index[f] /\ worktree'[f] = worktree[f]
    BY DEF RemoveFiles, CheckoutFiles, AddAll, WithTarget
  <2> QED BY <1>1, <1>4, <2>1 DEF CrashInv, Growing
<1>8. RunOK(p)'
  BY <1>1, <1>3, <1>5 DEF RunOK, Ingesters, Restorers
<1> QED BY <1>6, <1>7, <1>8 DEF Remains

\* The commit takes the index: the plan is in it, and so is everything the commit
\* before it had, but for what an approved change or a stopped restore explains.
LEMMA CommitKeepsCrashInv ==
  ASSUME OneAtATime, CrashInv, TypeOK', NEW p \in Procs, Commit(p)
  PROVE  CrashInv'
<1> USE CommitAssumption
<1>1. /\ Does(p) /\ Writing(p, "staged")
      /\ UNCHANGED <<read, plan, opened, worktree, index, head, tags>>
  BY DEF Does, WritePhase, Commit, Writing
<1>2. /\ RunOK(p) /\ opened[p] = {} /\ step[p] = "staged"
      /\ \A q \in Procs : Running(q) => q = p
  BY <1>1, WriterRuns DEF Busy
<1>failed. CASE index = tip[head]
  <2>1. UNCHANGED <<tip, commits>> /\ step'[p] = "failed"
    BY <1>failed DEF Commit, Advance, CrashInv, TypeOK
  <2>2. Staging' /\ Growing'
    BY <1>1, <2>1, StandsStill
  <2>3. RunOK(p)'
    BY <1>1, <1>2, <2>1 DEF RunOK, Midway, Ingesters, Restorers
  <2>4. Remains(p)'
    BY <2>2, <2>3 DEF Remains
  <2> QED BY <1>1, <2>1, <2>4, RemainsSuffices
<1>moved. CASE index # tip[head]
  <2> DEFINE new == [by |-> p, on |-> tip[head], tree |-> index]
  <2>1. commits' = commits \cup {new} /\ step'[p] = "committed" /\ tip'[head'] = index
    BY <1>1, <1>moved DEF Commit, Advance, CrashInv, TypeOK
  <2>2. Staging'
    BY <1>1, <2>1 DEF Staging
  <2>3. Growing'
    <3>1. CASE p \in Ingesters
      BY <1>1, <3>1, KeptGrows DEF CrashInv, Growing
    <3>2. CASE p \in Restorers
      BY <1>1, <1>2, <3>2 DEF RunOK, Growing
    <3> QED BY <3>1, <3>2 DEF Ingesters
  <2>4. RunOK(p)'
    BY <1>1, <1>2, <2>1 DEF RunOK, Midway, Ingesters, Restorers, PlannedContent
  <2>5. ASSUME NEW c \in {new}
        PROVE  Settled(c)'
    <3>0. c.by = p /\ c.on = tip[head] /\ c.tree = index
      OBVIOUS
    <3> HIDE DEF new
    <3>1. p \in Restorers => tags'[p] = c.on
      BY <1>1, <1>2, <3>0 DEF RunOK, Midway
    <3>2. ASSUME p \in Ingesters
          PROVE  \A f \in plan'[p] : c.tree[f] = PlannedContent(p, f)'
      BY <1>1, <1>2, <3>0, <3>2 DEF RunOK, PlannedContent
    <3>3. ASSUME p \in Ingesters, NEW f \in Files \ Torn'
          PROVE  Loss(c, f) \subseteq Retired(f)' \cup UNION {tags'[r][f] : r \in HalfDone'}
      <4>1. Loss(c, f) \subseteq Kept(f)
        BY <1>1, <3>0, ExplanationsStay DEF CrashInv, Staging, Loss
      <4>2. \A r \in HalfWay : r \in HalfDone
        BY <1>2, <3>3 DEF HalfWay, HalfDone, Ingesters, Restorers
      <4>3. Kept(f) \subseteq Retired(f)' \cup UNION {tags'[r][f] : r \in HalfDone'}
        BY <1>1, <4>2, ExplanationsStay DEF Kept
      <4> QED BY <4>1, <4>3
    <3>4. step'[p] \in {"committed", "tagged", "failed"}
      BY <2>1
    <3> QED BY <3>0, <3>1, <3>2, <3>3, <3>4 DEF Settled, Loss, Ingesters, Restorers
  <2>6. Remains(p)'
    BY <2>2, <2>3, <2>4 DEF Remains
  <2> HIDE DEF new
  <2>7. \A c \in commits' \ commits : Settled(c)'
    BY <2>1, <2>5
  <2> QED BY <1>1, <2>6, <2>7, RemainsSuffices
<1> QED BY <1>failed, <1>moved

LEMMA EndRemains ==
  ASSUME OneAtATime, CrashInv, TypeOK', NEW p \in Procs,
         TagBackup(p) \/ CallFails(p) \/ Leave(p) \/ Crash(p)
  PROVE  Remains(p)'
<1> USE CommitAssumption
<1>1. /\ Does(p) /\ UNCHANGED <<read, plan, opened, worktree, index, head, tip>>
      /\ step'[p] # "committed" \/ Leave(p) \/ Crash(p)
  BY DEF Does, WritePhase, TagBackup, CallFails, Leave, Crash, Writing, Advance, gitVars, CrashInv, TypeOK
<1>2. Leave(p) \/ Crash(p) => step' = step
  BY DEF Leave, Crash
<1>3. Staging' /\ Growing'
  <2>1. \A f \in Files : Kept(f) \subseteq Kept(f)'
    BY <1>1, <1>2, KeptGrows, ExplanationsStay, StepIsOwn DEF Kept, HalfWay, HalfSteps, Busy, Restorers
  <2> QED BY <1>1, <2>1, ExplanationsStay DEF CrashInv, Staging, Growing
<1>4. CASE TagBackup(p)
  <2>1. RunOK(p) /\ opened[p] = {} /\ step'[p] = "tagged"
    BY <1>4, WriterRuns DEF TagBackup, Busy, Advance, CrashInv, TypeOK
  <2>2. p \in Ingesters => tags'[Backup] = tip[head] /\ \A f \in plan[p] : tip[head][f] = PlannedContent(p, f)
    BY <1>4, <2>1 DEF TagBackup, Writing, RunOK, CrashInv, TypeOK, Tags
  <2>3. RunOK(p)'
    BY <1>1, <2>1, <2>2 DEF RunOK, Midway, Ingesters, PlannedContent
  <2> QED BY <1>3, <2>3 DEF Remains
<1>5. CASE CallFails(p)
  <2>1. /\ RunOK(p) /\ step'[p] = "failed"
    BY <1>5, WriterRuns DEF CallFails, Advance, CrashInv, TypeOK
  <2>2. RunOK(p)'
    BY <1>1, <2>1 DEF RunOK, Midway, Ingesters
  <2> QED BY <1>3, <2>2 DEF Remains
<1>6. CASE Leave(p) \/ Crash(p)
  <2>1. ~ Running(p)'
    BY <1>6 DEF Leave, Crash, Release, Die, Goto, Running, CrashInv, TypeOK, LockTypeOK
  <2> QED BY <1>3, <2>1 DEF Remains
<1> QED BY <1>4, <1>5, <1>6

LEMMA CrashStep == ASSUME OneAtATime, CrashInv, [Next]_vars PROVE CrashInv'
<1>1. TypeOK'
  BY CommitTypeStep DEF CrashInv
<1>2. CASE Next
  <2>1. PICK p \in Procs : Does(p)
    BY <1>2 DEF Next, Does
  <2>2. CASE Commit(p)
    BY <1>1, <2>2, CommitKeepsCrashInv
  <2>3. CASE ~ Commit(p)
    <3>1. commits' = commits
      BY <2>1, <2>3 DEF Does, PlanIngest, PlanRestore, Starting, Acquire, WritePhase, CreateTag, CreateBranch,
            OpenFile, WriteFile, StagePlan, Stage, RemoveFiles, CheckoutFiles, AddAll, TagBackup, CallFails,
            Leave, Crash, gitVars
    <3>2. Remains(p)'
      BY <1>1, <2>1, <2>3, PlanRemains, AcquireRemains, BranchRemains, OpenRemains, WriteRemains,
         StageRemains, RestoreRemains, EndRemains DEF Does, WritePhase
    <3> QED BY <1>1, <2>1, <3>1, <3>2, RemainsSuffices
  <2> QED BY <2>2, <2>3
<1>3. CASE UNCHANGED vars
  <2> USE <1>3 DEF vars, lockVars, gitVars
  <2>1. Solo' /\ LocksToWrite' /\ Fresh' /\ CommitsEnded'
    BY DEF CrashInv, Solo, LocksToWrite, Fresh, CommitsEnded, Running
  <2>2. Torn' = Torn /\ HalfDone' = HalfDone /\ HalfWay' = HalfWay
    BY DEF Torn, HalfDone, HalfWay, Running
  <2>3. \A f \in Files : Kept(f)' = Kept(f) /\ Retired(f)' = Retired(f)
    BY <2>2 DEF Kept, Retired
  <2>4. \A p \in Procs : Running(p)' => RunOK(p)'
    <3> SUFFICES ASSUME NEW p \in Procs, Running(p)' PROVE RunOK(p)'
      OBVIOUS
    <3>1. RunOK(p) /\ p \in Procs
      BY DEF CrashInv, Running
    <3>2. ReadAll(p) => ReadAll(p)'
      BY <2>2, <2>3 DEF ReadAll
    <3>3. \A f \in Files : PlannedContent(p, f)' = PlannedContent(p, f)
      BY DEF PlannedContent
    <3> QED BY <3>1, <3>2, <3>3, <1>1 DEF CrashInv, TypeOK, RunOK, Midway
  <2>5. Staging' /\ Growing'
    BY <2>2, <2>3 DEF CrashInv, Staging, Growing
  <2>6. LossesExplained'
    BY <2>2, <2>3 DEF CrashInv, LossesExplained, Loss
  <2>7. CommitHoldsPlan' /\ SafetyTagIsParent'
    BY DEF CrashInv, CommitHoldsPlan, SafetyTagIsParent, PlannedContent
  <2> QED BY <1>1, <2>1, <2>4, <2>5, <2>6, <2>7 DEF CrashInv
<1> QED BY <1>2, <1>3

LEMMA CrashInvariant == ASSUME OneAtATime PROVE Spec => []CrashInv
<1>1. Init => CrashInv
  <2> SUFFICES ASSUME Init PROVE CrashInv
    OBVIOUS
  <2>1. TypeOK
    BY CommitTypeInit
  <2>2. \A p \in Procs : step[p] = "new" /\ pc[p] = "idle" /\ plan[p] = {} /\ opened[p] = {} /\ ~ Running(p)
    BY DEF Init, LockInit, Running
  <2>3. commits = {} /\ index = worktree /\ tip[head] = index
    BY CommitAssumption DEF Init, Branches
  <2>4. Staging /\ Growing
    BY <2>3 DEF Staging, Growing
  <2> QED
    BY <2>1, <2>2, <2>3, <2>4 DEF CrashInv, Solo, LocksToWrite, Fresh, CommitsEnded, LossesExplained,
         CommitHoldsPlan, SafetyTagIsParent, Locking
<1> QED BY <1>1, CrashStep, PTL DEF Spec

\* A commit holds the whole approved plan of its ingest, whichever runs died
\* or failed before it and wherever they did.
THEOREM CommitsHoldPlans == ASSUME OneAtATime PROVE Spec => []CommitHoldsPlan
<1>1. CrashInv => CommitHoldsPlan
  BY DEF CrashInv
<1> QED BY <1>1, CrashInvariant, PTL

\* Over runs that come one after another, each of which may die or fail
\* between any two calls and inside a write, an ingest loses only what an approved
\* change superseded, what was in a file a run left truncated, and what a stopped
\* restore has in its safety tag.  Main stays where it was.
THEOREM IngestsAlwaysOnlyAdd == ASSUME OneAtATime PROVE Spec => []IngestsOnlyAdd
<1>1. CrashInv /\ MainUntouched => IngestsOnlyAdd
  BY DEF CrashInv, IngestsOnlyAdd
<1> QED BY <1>1, CrashInvariant, MainStaysUntouched, PTL

\* A restore that comes to its commit has its safety tag on what it replaces, also
\* after runs that died or failed.
THEOREM RestoresStayReversible == ASSUME OneAtATime PROVE Spec => []SafetyTagIsParent
<1>1. CrashInv => SafetyTagIsParent
  BY DEF CrashInv
<1> QED BY <1>1, CrashInvariant, PTL

\* The day's backup holds the plan of every ingest that reports success, also after
\* runs that died or failed at their own tag.
THEOREM BackupsCover == ASSUME OneAtATime PROVE Spec => []BackupCoversIngest
<1>1. CrashInv => BackupCoversIngest
  BY DEF CrashInv, RunOK, BackupCoversIngest, Ingesters
<1> QED BY <1>1, CrashInvariant, PTL
--------------------------------------------------------------------------------
(* What a restore commits.  A file that no ingest left behind is staged      *)
(* where it is in the working tree, and committed or in the tag where it is  *)
(* staged, so what git rm has to take away is what HEAD has and the tag has  *)
(* not.  The tag moves at most to what has just been committed.              *)

Traced ==
  \A f \in Files \ Leftovers :
    /\ worktree[f] # {} => index[f] # {}
    /\ index[f] # {} => tip[head][f] # {} \/ tags[Target][f] # {}

Cleared == \A f \in Files \ Leftovers : tags[Target][f] = {} => worktree[f] = {}
BroughtBack == \A f \in Files : tags[Target][f] # {} => worktree[f] = tags[Target][f]

Restoring(p) ==
  /\ step[p] = "committed" => index = tip[head]
  /\ p \in Restorers /\ step[p] \in {"removed", "restored", "staged"} => Cleared
  /\ p \in Restorers /\ step[p] \in {"restored", "staged"} => BroughtBack

RestoreInv == CrashInv /\ Traced /\ \A p \in Procs : Running(p) => Restoring(p)

\* What is left to show of a step: the other processes do not run.
Tracks(p) == Traced /\ (Running(p) => Restoring(p))

\* Only the commit of an ingest takes files out of what is left behind.
LEMMA LeftoversStay ==
  ASSUME OneAtATime, CrashInv, TypeOK', NEW p \in Procs, Does(p),
         step'[p] = "committed" => p \in Restorers \/ step[p] = "committed"
  PROVE  Leftovers \subseteq Leftovers'
<1> USE CommitAssumption
<1>1. p \in Ingesters /\ step[p] \notin {"committed", "tagged"} => step'[p] \notin {"committed", "tagged"}
  BY DEF Does, PlanIngest, PlanRestore, Starting, Acquire, Acquiring, Begin, ReadHolder, CheckHolder,
         Unlink, Create, Stamp, WritePhase, CreateTag, CreateBranch, OpenFile, WriteFile, StagePlan,
         Stage, RemoveFiles, CheckoutFiles, AddAll, Commit, TagBackup, CallFails, Leave, Crash, Writing,
         Advance, Ingesters, CrashInv, LocksToWrite, Locking, TypeOK
<1>2. \A i \in Ingesters : plan[i] \subseteq plan'[i]
  BY StepIsOwn DEF CrashInv, Fresh, Ingesters
<1>3. \A i \in Ingesters : step[i] \notin {"committed", "tagged"} => step'[i] \in Steps \ {"committed", "tagged"}
  BY <1>1, StepIsOwn DEF TypeOK, Ingesters
<1> QED BY <1>2, <1>3 DEF Leftovers, Ingesters, Restorers

\* A step that moves no tree and no tag a restore goes to.
LEMMA QuietTracks ==
  ASSUME OneAtATime, CrashInv, Traced, TypeOK', NEW p \in Procs,
         \/ PlanIngest(p) \/ PlanRestore(p) \/ Acquire(p) \/ CreateTag(p) \/ CreateBranch(p)
         \/ CallFails(p) \/ Leave(p) \/ Crash(p)
  PROVE  Tracks(p)'
<1> USE CommitAssumption
<1>1. Does(p)
  BY DEF Does, WritePhase
<1>2. /\ UNCHANGED <<worktree, index>> /\ tip'[head'] = tip[head] /\ tags'[Target] = tags[Target]
  BY DEF PlanIngest, PlanRestore, Starting, Acquire, CreateTag, CreateBranch, CallFails, Leave, Crash,
         Writing, gitVars, CrashInv, TypeOK, Branches, Tags
<1>3. step'[p] = "committed" => step[p] = "committed"
  BY DEF PlanIngest, PlanRestore, Starting, Acquire, Acquiring, Begin, ReadHolder, CheckHolder, Unlink,
         Create, Stamp, CreateTag, CreateBranch, CallFails, Leave, Crash, Writing, Advance, CrashInv,
         LocksToWrite, Locking, TypeOK
<1>4. Traced'
  BY <1>1, <1>2, <1>3, LeftoversStay DEF Traced
<1>5. Running(p)' => step'[p] \notin {"committed", "removed", "restored", "staged"}
  <2>1. CASE Leave(p) \/ Crash(p)
    BY <2>1 DEF Leave, Crash, Release, Die, Goto, Running, CrashInv, TypeOK, LockTypeOK
  <2>2. CASE Acquire(p)
    BY <2>2 DEF Acquire, Acquiring, Begin, ReadHolder, CheckHolder, Unlink, Create, Stamp, Advance,
                CrashInv, LocksToWrite, Locking, TypeOK
  <2>3. CASE PlanIngest(p) \/ PlanRestore(p) \/ CreateTag(p) \/ CreateBranch(p) \/ CallFails(p)
    BY <2>3 DEF PlanIngest, PlanRestore, Starting, CreateTag, CreateBranch, CallFails, Writing, Advance,
                CrashInv, TypeOK
  <2> QED BY <2>1, <2>2, <2>3
<1> QED BY <1>4, <1>5 DEF Tracks, Restoring

\* An ingest writes and stages files of its own plan.
LEMMA WriteTracks ==
  ASSUME OneAtATime, CrashInv, Traced, TypeOK', NEW p \in Procs,
         StagePlan(p) \/ \E f \in Files : OpenFile(p, f) \/ WriteFile(p, f)
  PROVE  Tracks(p)'
<1> USE CommitAssumption
<1>1. /\ Does(p) /\ p \in Ingesters /\ step[p] = "branched" /\ step'[p] \in {"branched", "staged"}
      /\ plan'[p] = plan[p] /\ UNCHANGED <<head, tip, tags>>
  BY DEF Does, WritePhase, StagePlan, Stage, OpenFile, WriteFile, Writing, Advance, CrashInv, TypeOK
<1>2. \A f \in Files : f \notin plan[p] => worktree'[f] = worktree[f] /\ index'[f] = index[f]
  <2>1. CASE StagePlan(p)
    BY <2>1 DEF StagePlan, Stage
  <2>2. ASSUME NEW f \in Files, OpenFile(p, f) \/ WriteFile(p, f)
        PROVE  <1>2
    <3>1. f \in plan[p] /\ index' = index
      BY <1>1, <2>2, WriterRuns DEF OpenFile, WriteFile, RunOK, Busy
    <3>2. \A g \in Files \ {f} : worktree'[g] = worktree[g]
      BY <2>2 DEF OpenFile, WriteFile, CrashInv, TypeOK, Trees
    <3> QED BY <3>1, <3>2
  <2> QED BY <2>1, <2>2
<1>3. plan[p] \subseteq Leftovers'
  BY <1>1 DEF Leftovers, Ingesters, Restorers, Steps, Busy
<1>4. Traced'
  BY <1>1, <1>2, <1>3, LeftoversStay DEF Traced
<1> QED BY <1>1, <1>4 DEF Tracks, Restoring, Ingesters

\* A restore takes away what HEAD has beyond the tag, and brings the tag's files back.
LEMMA RestoreTracks ==
  ASSUME OneAtATime, CrashInv, Traced, TypeOK', NEW p \in Procs, Running(p) => Restoring(p),
         RemoveFiles(p) \/ CheckoutFiles(p) \/ AddAll(p)
  PROVE  Tracks(p)'
<1> USE CommitAssumption
<1>1. /\ Does(p) /\ Writing(p, step[p]) /\ step[p] \in {"branched", "removed", "restored"}
      /\ UNCHANGED <<head, tip, tags>>
  BY DEF Does, WritePhase, RemoveFiles, CheckoutFiles, AddAll, Writing
<1>2. Running(p) /\ RunOK(p) /\ Restoring(p)
  BY <1>1, WriterRuns DEF Busy
<1>3. p \in Restorers
  BY <1>1, <1>2 DEF RunOK, RemoveFiles, CheckoutFiles, AddAll, Writing
<1>4. Leftovers \subseteq Leftovers'
  BY <1>1, <1>3, LeftoversStay
<1>5. CASE RemoveFiles(p) /\ step'[p] = "failed"
  <2>1. UNCHANGED <<worktree, index>>
    BY <1>5 DEF RemoveFiles, Advance, CrashInv, TypeOK
  <2> QED BY <1>1, <1>4, <1>5, <2>1 DEF Traced, Tracks, Restoring
<1>6. CASE RemoveFiles(p) /\ step'[p] # "failed"
  <2>1. /\ step'[p] = "removed"
        /\ \A f \in Files : worktree'[f] = IF f \in Removed THEN {} ELSE worktree[f]
        /\ \A f \in Files : index'[f] = IF f \in Removed THEN {} ELSE index[f]
    BY <1>6 DEF RemoveFiles, Advance, CrashInv, TypeOK
  <2>2. Traced'
    BY <1>1, <1>4, <2>1 DEF Traced
  <2>3. Cleared'
    BY <1>1, <1>4, <2>1 DEF Cleared, Traced, Removed
  <2> QED BY <2>1, <2>2, <2>3 DEF Tracks, Restoring
<1>7. CASE CheckoutFiles(p)
  <2>1. /\ step[p] = "removed" /\ step'[p] = "restored"
        /\ \A f \in Files : worktree'[f] = IF tags[Target][f] # {} THEN tags[Target][f] ELSE worktree[f]
        /\ \A f \in Files : index'[f] = IF tags[Target][f] # {} THEN tags[Target][f] ELSE index[f]
    BY <1>7 DEF CheckoutFiles, WithTarget, Writing, Advance, CrashInv, TypeOK
  <2>2. Traced'
    BY <1>1, <1>4, <2>1 DEF Traced
  <2>3. Cleared' /\ BroughtBack'
    BY <1>1, <1>2, <1>3, <1>4, <2>1 DEF Restoring, Cleared, BroughtBack
  <2> QED BY <2>1, <2>2, <2>3 DEF Tracks, Restoring
<1>8. CASE AddAll(p)
  <2>1. step[p] = "restored" /\ step'[p] = "staged" /\ index' = worktree /\ worktree' = worktree
    BY <1>8 DEF AddAll, Writing, Advance, CrashInv, TypeOK
  <2>2. Traced'
    BY <1>1, <1>4, <2>1 DEF Traced
  <2>3. Cleared' /\ BroughtBack'
    BY <1>1, <1>2, <1>3, <1>4, <2>1 DEF Restoring, Cleared, BroughtBack
  <2> QED BY <2>1, <2>2, <2>3 DEF Tracks, Restoring
<1> QED BY <1>5, <1>6, <1>7, <1>8

\* A planned file has something in it, so a commit leaves nothing untraced, and the
\* backup tag then moves to that commit.
LEMMA CommitTracks ==
  ASSUME OneAtATime, CrashInv, Traced, TypeOK', NEW p \in Procs, Running(p) => Restoring(p),
         Commit(p) \/ TagBackup(p)
  PROVE  Tracks(p)'
<1> USE CommitAssumption
<1>1. /\ Does(p) /\ UNCHANGED <<worktree, index, head, plan>>
      /\ Running(p) /\ RunOK(p) /\ Restoring(p)
  BY WriterRuns DEF Does, WritePhase, Commit, TagBackup, Writing, Busy
<1>2. CASE Commit(p) /\ index = tip[head]
  <2>1. UNCHANGED <<tip, tags>> /\ step'[p] = "failed" /\ step[p] = "staged"
    BY <1>2 DEF Commit, Writing, Advance, CrashInv, TypeOK
  <2>2. Leftovers \subseteq Leftovers'
    BY <1>1, <2>1, LeftoversStay
  <2> QED BY <1>1, <2>1, <2>2 DEF Traced, Tracks, Restoring
<1>3. CASE Commit(p) /\ index # tip[head]
  <2>1. tip'[head'] = index' /\ tags' = tags /\ step'[p] = "committed" /\ step[p] = "staged"
    BY <1>1, <1>3 DEF Commit, Writing, Advance, CrashInv, TypeOK
  <2>2. \A f \in Files \ Leftovers' : f \notin Leftovers \/ (p \in Ingesters /\ f \in plan[p])
    <3>1. \A i \in Ingesters \ {p} : plan'[i] = plan[i] /\ step'[i] = step[i]
      BY <1>1, StepIsOwn DEF Ingesters
    <3> QED BY <3>1 DEF Leftovers, Ingesters, Restorers
  <2>3. p \in Ingesters => \A f \in plan[p] : index[f] # {}
    BY <1>1, <2>1 DEF RunOK, PlannedContent
  <2>4. Traced'
    BY <1>1, <2>1, <2>2, <2>3 DEF Traced
  <2> QED BY <2>1, <2>4 DEF Tracks, Restoring
<1>4. CASE TagBackup(p)
  <2>1. /\ tip' = tip /\ step[p] = "committed" /\ step'[p] = "tagged"
        /\ tags'[Target] \in {tags[Target], tip[head]} /\ index = tip[head]
    BY <1>1, <1>4 DEF TagBackup, Writing, Advance, Restoring, CrashInv, TypeOK, Tags
  <2>2. Leftovers \subseteq Leftovers'
    BY <1>1, <2>1, LeftoversStay
  <2>3. Traced'
    BY <1>1, <2>1, <2>2 DEF Traced
  <2> QED BY <2>1, <2>3 DEF Tracks, Restoring
<1> QED BY <1>2, <1>3, <1>4

LEMMA RestoreStep == ASSUME OneAtATime, RestoreInv, [Next]_vars PROVE RestoreInv'
<1>1. TypeOK' /\ CrashInv'
  BY CommitTypeStep, CrashStep DEF RestoreInv, CrashInv
<1>2. CASE Next
  <2>1. PICK p \in Procs : Does(p)
    BY <1>2 DEF Next, Does
  <2>2. Tracks(p)'
    BY <1>1, <2>1, QuietTracks, WriteTracks, RestoreTracks, CommitTracks DEF Does, WritePhase, RestoreInv
  <2>3. \A q \in Procs : Running(q)' => q = p
    BY <2>1, Carried DEF RestoreInv
  <2> QED BY <1>1, <2>2, <2>3 DEF RestoreInv, Tracks
<1>3. CASE UNCHANGED vars
  BY <1>1, <1>3 DEF vars, lockVars, gitVars, RestoreInv, Traced, Leftovers, Running, Restoring, Cleared,
       BroughtBack
<1> QED BY <1>2, <1>3

LEMMA RestoreInvariant == ASSUME OneAtATime PROVE Spec => []RestoreInv
<1>1. Init => Traced /\ \A p \in Procs : ~ Running(p)
  <2> SUFFICES ASSUME Init PROVE Traced /\ \A p \in Procs : ~ Running(p)
    OBVIOUS
  <2>1. index = worktree /\ tip[head] = index /\ \A p \in Procs : step[p] = "new"
    BY CommitAssumption DEF Init, Branches
  <2> QED BY <2>1 DEF Traced, Running
<1>2. Init /\ CrashInv => RestoreInv
  BY <1>1 DEF RestoreInv
<1> QED BY <1>2, RestoreStep, CrashInvariant, PTL DEF Spec

\* A restore commits the tree of its tag, but for files that ingests have left in the
\* working tree, whatever runs failed or died before it, restores between their three
\* git calls included.
THEOREM RestoresAreExact == ASSUME OneAtATime PROVE Spec => RestoreExact
<1> DEFINE ExactStep ==
      \A p \in Restorers, f \in Files :
        step[p] = "staged" /\ step'[p] = "committed" =>
          tip'[head'][f] = tags[Target][f] \/ f \in Leftovers
<1>1. RestoreInv /\ [Next]_vars => [ExactStep]_vars
  <2> SUFFICES ASSUME RestoreInv, Next, NEW p \in Restorers, NEW f \in Files,
                      step[p] = "staged", step'[p] = "committed"
               PROVE  tip'[head'][f] = tags[Target][f] \/ f \in Leftovers
    BY DEF vars
  <2>1. PICK q \in Procs : Does(q)
    BY DEF Next, Does
  <2>2. q = p
    BY <2>1, StepIsOwn DEF RestoreInv, Restorers
  <2>3. Commit(p)
    BY <2>1, <2>2 DEF Does, PlanIngest, PlanRestore, Starting, Acquire, Acquiring, Begin, ReadHolder,
       CheckHolder, Unlink, Create, Stamp, WritePhase, CreateTag, CreateBranch, OpenFile, WriteFile,
       StagePlan, Stage, RemoveFiles, CheckoutFiles, AddAll, TagBackup, CallFails, Leave, Crash,
       Writing, Advance, RestoreInv, CrashInv, LocksToWrite, Locking, TypeOK
  <2>4. tip'[head'] = index
    BY <2>3 DEF Commit, Advance, RestoreInv, CrashInv, TypeOK
  <2>5. Running(p) /\ RunOK(p) /\ Restoring(p)
    BY <2>3, WriterRuns DEF Commit, Busy, RestoreInv, Restorers
  <2> QED BY <2>4, <2>5 DEF RunOK, Restoring, Cleared, BroughtBack
<1> QED BY <1>1, RestoreInvariant, PTL DEF Spec, RestoreExact
================================================================================
