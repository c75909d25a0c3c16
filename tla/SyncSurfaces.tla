------------------------------ MODULE SyncSurfaces ------------------------------
(* `kosha sync` (cli.py, sync/): public documents whose generated parts are        *)
(* rendered from the repository's own sources.  A writing command first decides    *)
(* whether it can skip its work, from the state file the last one left: the        *)
(* commit it ran at and a digest of every file of the repository.  Authors edit,   *)
(* commit and check out meanwhile.                                                 *)
(* The sources are one version, and a surface the version it was rendered from; *)
(* the digest of the repository is then the pair of them.  The two commands differ *)
(* only in the surface they write: that of docs is kept, that of status is not.    *)
(* Kosha runs from its own checkout: what renders is the sources as they were when *)
(* the command started.                                                            *)
EXTENDS Integers, Sequences

CONSTANTS
    Versions,   \* what the sources may say
    Edited,     \* a surface somebody wrote by hand
    Rows,       \* the rows, one per command, tool or resource, that each of them has
    Whole,      \* what is compared whole: the synopsis and the fallback files of each
    Missing,    \* no state file
    Torn,       \* a state file whose writing was cut off
    MaxCommits  \* bound: commits of the repository

ASSUME SyncAssumption ==
    /\ Edited \notin Versions /\ MaxCommits \in Nat \ {0}
    /\ DOMAIN Rows = Versions \cup {Edited} /\ DOMAIN Whole = DOMAIN Rows

Commands == {"docs", "status"}
NoHead == 0     \* the commit a state file of an older release does not name

VARIABLES
    sources,    \* the sources in the working tree
    surface,    \* the surface docs writes, in the working tree
    commits,    \* the trees committed so far
    head,       \* the commit checked out
    state_file, \* Missing, Torn, or [command, git_head, snapshot, mixed]
    touched,    \* whether a source is newer than a state that names no commit
    syncing     \* the writing command under way: see NoSync

syncVars == <<sources, surface, commits, head, state_file, touched, syncing>>

\* rendering is the version of the sources the process was started with, mixed
\* whether the working tree changed under it.
NoSync == [at |-> "idle", command |-> "docs", rendering |-> Edited, mixed |-> FALSE]
Tree == [sources |-> sources, surface |-> surface]
--------------------------------------------------------------------------------
\* Every file of the repository except the state file and .git.
content_snapshot == Tree
Dirty == commits[head].sources # sources

source_changes_since(git_head) == commits[git_head].sources # commits[head].sources \/ Dirty

\* Fault: the sources decide alone.
DecideBySources(state) ==
    IF state.git_head = NoHead THEN ~touched
    ELSE IF state.git_head = head THEN ~Dirty ELSE ~source_changes_since(state.git_head)

\* Whether there is nothing to do: the content is the recorded one, and no source
\* changed since, by its date, in the working tree, or between the two commits.
decide_sync(state) ==
    /\ content_snapshot = state.snapshot
    /\ IF state.git_head = NoHead THEN ~touched
       ELSE IF state.git_head = head THEN ~Dirty ELSE ~source_changes_since(state.git_head)

Skips(command) ==
    /\ state_file \notin {Missing, Torn}
    /\ state_file.command = command
    /\ decide_sync(state_file)
--------------------------------------------------------------------------------
SyncInit ==
    /\ sources \in Versions
    /\ surface \in {sources, Edited}
    /\ commits = <<Tree>> /\ head = 1
    /\ state_file \in {Missing} \cup
         {[command |-> c, git_head |-> NoHead, snapshot |-> Tree, mixed |-> surface = Edited] : c \in Commands}
    /\ touched = FALSE
    /\ syncing = NoSync

\* A state file that does not parse stops every writing command.
StartSync(command) ==
    /\ syncing.at = "idle" /\ state_file # Torn
    /\ ~Skips(command)
    /\ syncing' = [at |-> "writing", command |-> command, rendering |-> sources, mixed |-> FALSE]
    /\ UNCHANGED <<sources, surface, commits, head, state_file, touched>>

WriteSurfaces ==
    /\ syncing.at = "writing"
    /\ surface' = IF syncing.command = "docs" THEN syncing.rendering ELSE surface
    /\ syncing' = [syncing EXCEPT !.at = "recording"]
    /\ UNCHANGED <<sources, commits, head, state_file, touched>>

\* The documents of a command are written one by one.  One that dies, or finds a
\* marker missing, leaves some old and some new: no version's rendering.
DieSyncing ==
    /\ syncing.at # "idle"
    /\ \/ UNCHANGED surface
       \/ syncing.at = "writing" /\ syncing.command = "docs" /\ surface' = Edited
    /\ syncing' = NoSync
    /\ UNCHANGED <<sources, commits, head, state_file, touched>>

\* The state is written again only if the content or the command is a new one: after
\* a commit of the same content the recorded commit stays the old one.
SaveSyncState ==
    /\ syncing.at = "recording"
    /\ LET saves == ~(/\ state_file # Missing
                      /\ content_snapshot = state_file.snapshot
                      /\ syncing.command = state_file.command)
           state == [command |-> syncing.command, git_head |-> head,
                     snapshot |-> content_snapshot, mixed |-> syncing.mixed]
       IN \/ /\ state_file' = IF saves THEN state ELSE state_file
             /\ touched' = (touched /\ ~saves)
          \/ saves /\ state_file' = Torn /\ touched' = FALSE   \* it dies in the write
    /\ syncing' = NoSync
    /\ UNCHANGED <<sources, surface, commits, head>>

RemoveState ==
    /\ syncing.at = "idle" /\ state_file # Missing
    /\ state_file' = Missing /\ touched' = FALSE
    /\ UNCHANGED <<sources, surface, commits, head, syncing>>

Undated == state_file \notin {Missing, Torn} /\ state_file.git_head = NoHead
Disturbed == syncing' = [syncing EXCEPT !.mixed = syncing.at # "idle"]

EditSources(version) ==
    /\ version # sources /\ sources' = version
    /\ touched' = Undated
    /\ Disturbed
    /\ UNCHANGED <<surface, commits, head, state_file>>

EditSurface ==
    /\ surface' = Edited
    /\ Disturbed
    /\ UNCHANGED <<sources, commits, head, state_file, touched>>

CommitTree ==
    /\ Len(commits) < MaxCommits /\ Tree # commits[head]
    /\ commits' = Append(commits, Tree) /\ head' = Len(commits')
    /\ UNCHANGED <<sources, surface, state_file, touched, syncing>>

\* Another commit, or the same one with what is uncommitted thrown away.
CheckOut(commit) ==
    /\ Tree # commits[commit]
    /\ head' = commit
    /\ sources' = commits[commit].sources /\ surface' = commits[commit].surface
    /\ touched' = (touched \/ (Undated /\ sources' # sources))
    /\ Disturbed
    /\ UNCHANGED <<commits, state_file>>

SyncNext ==
    \/ \E command \in Commands : StartSync(command)
    \/ EditSurface \/ WriteSurfaces \/ DieSyncing \/ SaveSyncState \/ RemoveState
    \/ \E version \in Versions : EditSources(version)
    \/ CommitTree
    \/ \E commit \in DOMAIN commits : CheckOut(commit)

SyncSpec == SyncInit /\ [][SyncNext]_syncVars
--------------------------------------------------------------------------------
\* The rows the program would render now: the commands of the parser, and the tools
\* and resources of the server, read from its source.
live_cli_commands == Rows[sources]
live_mcp_rows == Rows[sources]

\* A document passes when it holds every row; the synopsis and the fallback files
\* are compared whole.
check_cli_reference == live_cli_commands \subseteq Rows[surface] /\ Whole[sources] = Whole[surface]
check_mcp_integration_doc == live_mcp_rows \subseteq Rows[surface]
check_fallback_artifacts == Whole[surface] = Whole[sources]
check_traversal_surfaces == check_mcp_integration_doc /\ check_fallback_artifacts

\* `kosha sync check`: a checker that raises counts as a mismatch.
run_sync_check == check_cli_reference /\ check_traversal_surfaces

\* A sync command that skips its work would have changed nothing: its surface is
\* what the sources render to, whatever was edited, committed, checked out, thrown
\* away or cut off since the state was recorded (sync/decision.py: decide_sync),
\* unless the working tree changed while that state's own command ran.
SkipsAreCurrent ==
    Skips("docs") /\ ~state_file.mixed => surface = sources

\* A surface that passes the check is what the sources render to ("generated surfaces
\* match source-of-truth data", sync/check.py: render_sync_check_text).  The code
\* breaks it: the row of a removed command or tool passes for ever.
CheckedMeansCurrent == run_sync_check => surface = sources

\* A command run again on a tree nobody touched has nothing left to do ("No-op
\* decisions for low-churn sync runs", sync/decision.py:1).  The code breaks it: once
\* the sources are committed the recorded commit is never moved up to theirs.
SecondRunSkips ==
    [][\A command \in Commands :
         /\ SaveSyncState /\ state_file' # Torn
         /\ syncing.command = command /\ ~syncing.mixed /\ ~Dirty
         => Skips(command)']_syncVars
================================================================================
