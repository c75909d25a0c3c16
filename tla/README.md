# Kosha in TLA+

Kosha is a verifiable maintenance layer for OKF knowledge bundles: it ingests
sources, merges what they say into concepts claim by claim, commits the result
on a branch of its own, and serves the bundle to agents over MCP and HTTP. This
directory holds a specification of the parts of it where order, failure and
history matter, the TLC configurations that check them on small instances, and
theorems that TLAPS proves for every size. Source paths below are relative to
`src/src/kosha/`, documents and tests to `src/`; line numbers are of the commit
beside this directory.

    tlasany M.tla                              parse
    tlc -workers 2 -config X.cfg M             check one run of PROJECT.json
    tlapm M.tla                                check the proofs of *Proofs.tla

Contents: [1 the system](#1-the-system), [2 the modules](#2-the-modules),
[3 the runs](#3-the-runs), [4 where code and documents disagree](#4-where-code-and-documents-disagree),
[5 the proofs](#5-the-proofs), [6 what is not modelled](#6-what-is-not-modelled).

## 1. The system

| Component | State | Operations | Module |
|---|---|---|---|
| Claim layer (`merge/claims.py`, `contradiction/*`, `pipeline/writer.py`) | the claims of each concept, in memory | mint, supersede, reconcile, project the body | ClaimLayer, ClaimLedger |
| Pipeline, planning (`extract.py`, `dedup/*`, `plan/*`, `approve/*`, `pipeline/run.py`) | the working concept set of one run | extract, deduplicate, merge, route, decide | IngestPlanning |
| Pipeline, writing; git store (`pipeline/run.py`, `git_store.py`) | lock file, working tree, index, HEAD, branches, tags | acquire/release, create_branch, commit, restore_tree, tags | IngestLock, IngestCommit |
| Recovery (`recovery.py`) | none of its own | restore to a backup, reindex | IngestCommit, LinkGraph |
| Linking, index files (`link/*`, `indexlog/index.py`) | the managed sections and index.md files | crosslink, regenerate, follow_links, list_index | LinkGraph |
| OKF files, validation (`okf/*`, `validate.py`, `indexlog/log.py`) | the files of a bundle | parse, serialise, validate, append to the log | OkfFiles |
| Review queue (`approve/queue.py`) | a file of queued reviews | enqueue, record_decision | ReviewQueue |
| Connectors (`connectors/*`), evidence vault (`evidence/*`) | a cursor per source; objects and manifests | run_source_instance, put_object, write_run, verify, replay | SourceRun, EvidenceVault |
| MCP connector (`connectors/mcp.py`) | none | list the tools, authorise, call | McpSource |
| Gap ledger (`gaps/*`) | a file of knowledge gaps | merge_events, answer, invalidate, mark_stale | GapLedger |
| Audit export (`audit/export.py`, `gaps/produce.py`) | the commit messages | write, read back, report | AuditTrail |
| Live serving (`server/registry.py`, `server/revision.py`) | active registrations, health, errors, activation events | start-up, refresh, call_tool | LiveServing |
| Watcher (`server/watcher.py`) | a thread and a stop event | start, stop, poll, callback | BundleWatcher, LiveServing |
| HTTP server (`server/http.py`) | a connection's stream | the endpoints | HttpConnection, AgentReads |
| MCP (`mcp/*`) | subscriptions | tools, resources, notify_activation | AgentReads, LinkGraph |
| Documentation sync (`sync/*`) | a state file, generated documents | docs, status, check | SyncSurfaces |
| Calibration, Gate-0 benchmark (`bench/*`) | thresholds, a recorded verdict | fit, measure, publish | Calibration, GateZero |

Components share state in three places, and that is where the difficulties are:

* **The bundle directory** is read by an ingest before it takes the lock, written
  by it under the lock, read three times by every refresh of a server that takes
  no lock at all, and edited by people. Nobody holds it still.
* **The git repository** has one working tree, one index and one HEAD. The lock
  serialises the write phases, but what a crashed process leaves there is
  inherited by the next.
* **Files of the operator** (the gap ledger, the review queue, a source's cursor, the
  evidence vault, the sync state) are read whole and written whole by commands that
  overlap and may die; only the review queue is locked.

**Claims**, on the other hand, live only as long as the process that merged them:
what is written out is their projection, a body.

What makes each part correct:

* Claim layer: nothing asserted is ever dropped or rewritten; the body shows the
  current claims and only those; every loser is explained; a conflict is settled
  or escalated; dates hand over without gap or overlap.
* Planning: nothing that a person should have seen goes in unseen, whatever else the
  run did to the same concept; no paragraph of a source and none of the bundle is
  lost on the way; the commit message accounts for what the commit did.
* Lock and commit: one writer at a time; one plan, one commit; nothing lost
  across a crash, a failing call or a retry without a reason one can name; the starting
  branch is untouched; a backup that covers what was reported; a restore that ends
  in the tag's tree and can be undone.
* Links and files: linking settles; once an ingest or a reindex has gone through
  undisturbed an agent can walk to every concept, whatever happened before; what is
  written conforms to the format whatever was there.
* Sources and evidence: the cursor moves only past what was committed, nothing is
  skipped in silence and nothing ingested twice, and `evidence verify` tells the
  truth. Gap ledger and review queue: no decision undone, no update lost by a lock
  that was held. Audit: the report says of a commit what happened.
* Live serving: an answer is labelled with the revision it came from; a failure
  is visible and harmless; the server catches up with the disk; subscribers hear;
  nobody learns about a bundle he is not cleared for; a connection stays in step.
* Sync, calibration, Gate-0: skipped work is up to date; a threshold does what it was
  fitted for; a GO is earned.

## 2. The modules

Each component is a module with its variables, its initial states, an action per
operation or per step that others can come between, and its properties at the end.
Names are those of the source where TLA+ allows. A comment beginning "Fault:" marks
a variant of the definition after it that a plausible bug would be; it is part of no
specification (see the end of section 3). Theorems live in modules named `...Proofs`:
those on the claim layer, the commits and their lock, live serving and source runs in
one of their component's name (what a concept's reader sees in ClaimProjectionProofs),
those on IngestPlanning, LinkGraph, AuditTrail and Calibration in PlanningProofs, those
on BundleWatcher, AgentReads, HttpConnection and McpSource in ServerProofs, and those on
GapLedger, ReviewQueue, SyncSurfaces and GateZero in OperatorFilesProofs.

### ClaimLedger, ClaimLayer, MCClaimLayer, ClaimLayerProofs, ClaimProjectionProofs

`ClaimLedger` is what a reader is promised: an append-only set of identities,
some of them live. An identity is asserted once, goes live beside the others, in
the place of exactly one, or never; it is never dropped and never comes back.

`ClaimLayer` is the code. One concept has a list `claims`; `BeginMerge` enters
`apply_update` with a draft, and each turn of its loop takes one paragraph:

| Action | Code |
|---|---|
| `Init` | `hydrate_claims`: the body read from the disk becomes incumbent claims |
| `BeginMerge` | the entry of `apply_update`, `writer.py:73-91` |
| `Reassert` | verbatim paragraph, skipped, `writer.py:94-96` |
| `Revise` | targeted supersede, `writer.py:97-115` and `supersede_claim` |
| `AppendClaim` | `reconcile` without a conflict |
| `ResolveTemporal` | the later effective date wins, `escalate.py:102-113` |
| `ResolveForIncoming` | the incoming source outranks, `escalate.py:115-126` |
| `ResolveForIncumbent` | the incumbent outranks: recorded, not applied, `escalate.py:128-136` |
| `Escalate` | a tie: recorded, handed to the plan, `policy.py:82-86` |

`current_claims`, `effective_claims`, `in_force`, `render_body`, `_find` and
`_replace` are operators. The loop of `current_claims` is the recursive function
`WalkFrom`; `WalkEnds` says it terminates, and is a guard of every turn because a
merge that calls a projection that does not return goes nowhere.

Left open: which claim the targeter picks and which conflict is found first (any),
and what the judge says (the relation `Conflicts`, which need not be symmetric).
A date is a number on the clock of `asserted_at`. `apply_update` never dates a
paragraph; dated ones are direct calls of `reconcile`, which is a public operation
with its own tests, and only the `verdict` run has dates. `in_force` is half-open as
in `temporal.py`, and `WindowsHandOver` asks it about the day of the handover.

`RepeatedParagraphs` says whether one source may state the same paragraph twice at
one instant. The code does not forbid it and the run `restated` shows what follows;
every other run, and the theorems that say so, assume it does not happen, which
is the assumption under which identities are unique. The claims of an earlier
process are gone: `Init` is a re-seeded concept, and its rank and history of before
are no property the code could keep.

### IngestLock

`class IngestLock`, one action per file-system call: `Begin` (is there a file?),
`ReadHolder`, `CheckHolder` (`os.kill(pid, 0)`), `Unlink`, `Create`
(`O_CREAT|O_EXCL`), `Stamp` (the PID is written), `Release`, and `Die`, a crash
or an exit. The file is known by the process that created it, because `os.open`
keeps the inode when another process unlinks the name. PIDs are not reused while
a file names one. IngestLock is both a specification of its own (`LockSpec`, used
by `lock_reclaim` and the lock's theorems) and the part of IngestCommit that takes
and gives back the lock; `UsesTheLock` proves that IngestCommit implements it.

### IngestCommit, MCIngestCommit, IngestCommitProofs

Extends IngestLock with the repository. `PlanIngest` (`ingest`) and `PlanRestore`
(`describe_restore`) read it without the lock; `Acquire` is the lock, call by call; then

| Action | Code |
|---|---|
| `CreateTag` | the safety tag of a restore, `recovery.py:143` |
| `CreateBranch` | `git switch -c` at HEAD |
| `OpenFile`, `WriteFile` | the two halves of `write_text`, which truncates and then writes, `run.py:507`; the log comes last |
| `StagePlan` | `git add --` the plan's paths |
| `RemoveFiles`, `CheckoutFiles`, `AddAll` | the three git calls of `restore_tree`, `git_store.py:264-266` |
| `Commit` | `git commit` of the whole index, or its refusal |
| `TagBackup` | `git tag -f` |
| `CallFails` | any of these calls raises, `GitStore._git`, or a write does; the lock is released |
| `Leave`, `Crash` | `__exit__`; a death between any two calls |

A plan is approved whole or item by item (`PlanIngest` picks any part of it), and may wait
for that as long as it likes: the reviewed path (`commit_reviewed_plan`) and the dry run
followed by a commit differ in nothing else.

A file's content is the set of its statements and stamps. What an ingest plans for a
file (`PlannedContent`) is not always more than what it read: `apply_update` drops the
paragraphs the fact supersedes (`Replaces`) and stamps its own time over the last one,
`append_entries` drops lines that no date heads (`Undated`) and adds an entry each
time, on a retry too. A truncated file (`Cut`) reads as an empty log, and as a concept
that does not load (`Unreadable`). What goes into a plan is IngestPlanning; index
files are LinkGraph's.

### IngestPlanning

What `ingest` decides before anything is written. `BeginIngest` loads the bundle
into `_Accumulator`; `StartDraft` is one section of a document, resolved to a
concept by `resolve_draft` against the index built *before* the loop and, between
the thresholds, by the adjudicator's answer (`Verdicts`); `MergeStatement` merges a
paragraph into it (`create_concept`, `apply_update`: added, the same, revised,
resolved or escalated); `Raise` is each way a run ends without a plan. `Plans`
are the plans it may end with: the relinked concepts, the indexes and the log, as rows
(`ConceptChanges`, `IndexChange`, `LogChange`). `DecideWhole` asks about the plan where
its routing requires that, and commits it or not; `DecideItems` asks about its items
and commits the approved ones. `route_change` is the table of lanes, an operator.

`_ChangeMeta` is the record `meta[c]`: confidence, impact, contradiction, evidence
of the last draft that went into `c`. A second draft that resolves to the same concept
starts it afresh (`FreshMeta`), as `_apply` does, and the properties must hold in
spite of that; one does not (`ReplacementsAreSkimmed`, section 4). `route_change` has
no case for `Impact.HIGH` and `force_block`, which nothing in the package produces. Left
open: which concept is nearest and how near, what the adjudicator and the targeter
answer, which changed concepts linking touches. A claim is a
paragraph and who said it.

### LinkGraph

The files as the graph they draw. A plan (`LinkPlans`) merges a paragraph, relinks
everything (`crosslink`: `strip_managed_sections`, `discover_relations`,
`compute_backlinks`, `apply_links`) and names the bodies and index files it finds
changed (`Changed`). `IngestDraft` writes it whole and at once; `PlanDraft` leaves it
waiting and `CommitDraft` writes what a reviewer approved of it, over whatever other
ingests, authors and reindexes have made of the bundle by then. `Author` and `Delete`
are a person's edits, which may leave sections behind or text after them;
`describe_reindex` and `apply_reindex` are the two halves of `kosha recover reindex`, and
`ReindexRaises` the `KeyError` for a directory that is gone. `settled` says whether the
last of these was an ingest that wrote its whole plan as it made it, or a reindex that
nothing overtook: `WalkFindsAll` promises the walk for these, and nothing after a plan
that was approved in part or overtaken. `list_index` and `follow_links` are what a
server answers. `walk_indexes` is an agent's walk down from the root index, the least
set that is `ClosedDown`: what is listed in an index it has reached it reaches too.
Ids are paths, so that directories nest. Index drift is told by the concepts an index
lists; their titles and descriptions are left out.

### OkfFiles

The validator, the loader and the writer as three readings of the same files: one
concept's front matter of each kind the three tell apart, `index.md`, and `log.md` as
its lines. `WriteIngest` is `serialize_concept`, `regenerate_index` and `append_entries`
(`_parse_log` and `_render_log`), of which a reviewer may approve some (`Approvals`); the
edits are an author's.

### ReviewQueue

`ReviewQueue` with `flock`: `Read` takes the lock and loads, `Enqueue` and `Decide`
change the list in memory, `Truncate` and `WriteAndUnlock` are the two halves of
`_write_state`, which rewrites in place, `DieHolding` a death that frees the lock
and may leave half a file (`whole`). A decision on an item that is not there
(`UnknownItem`) writes the list back as it was read and raises. `told` remembers what a
reviewer was told.

### GapLedger

Every command loads, changes and saves the whole file: `Begin`, then `Scan`
(`merge_events` of a report's events) or `Resolve` (answer, invalidate, mark stale),
then `SaveLedger` through a temporary file, or `DieUnsaved`. There is no lock, so a
client records (`stale`) whether the file changed after its load.

### EvidenceVault, SourceRun, MCSourceRun, SourceRunProofs

`EvidenceVault` is the store: `put_object`, `write_run`, `read_object` with its digest
check, `verify_evidence`, `replay_run`; `LoseObject` and `DamageObject` are the disk.
`SourceRun` extends it with `run_source_instance`, by any number of processes:

| Action | Code |
|---|---|
| `Start` | load the state file, `run.py:69-92` |
| `run_git_source` | `commit_range` from the cursor, cut at the limit, `connectors/git.py` |
| `run_folder`, `run_snapshot` | the connectors that keep no cursor |
| `Uncommitted` | rejected, empty or dry run: the loaded state is saved again |
| `PutObject`, `WriteRun`, `PersistFails` | `persist_evidence_run`, object by object, then the manifest |
| `Commit`, `CommitFails`, `CommitWithoutTag` | `commit_plan`, and its failure before and after the commit |
| `Save` | the state file, with the new cursor or the one that was loaded |
| `Die`, `Push`, `DiskFault` | a crash, a (possibly rewriting) push to the source, a lost object |

A commit of the source names its whole history, so histories are sequences and
"is an ancestor of" is "is a prefix of".

### McpSource

A run that lists a server's tools (`ListTools`), checks what the configuration permits
(`Permits`: not destructive, and read-only or pinned by the digest of its schema),
calls (`_call_tool`) and stages the answer (`Stage`) or stops (`Abandon`), while the
server (`ServerChanges`) and the operator (`OperatorEdits`) change their minds. What
becomes of the evidence is SourceRun's.

### AuditTrail

`CommitIngest` writes a plan into a commit message (`change_lines`, evidence and
reviewer lines). `CommitByHand` is anybody's commit: its message may hold those of two
other commits, which may hold others, under a subject of its own or the first one's;
`Squash` replaces the last two commits by one that keeps both messages.
`parse_commit_message` reads them back as a list of changes; `build_report`,
`gaps_from_compliance_report`, `Summary`, `to_json` and `to_markdown` are operators over
the history. The totals count a list, the gaps a set of keys, as in the code: a path
that one message names twice is one gap and two in the totals, and `AuditTellsHistory`
says so.

### LiveServing, LiveServingProofs

`BundleRegistry` with its start-up, its refreshes from the polling watcher and from
HTTP threads, and its tool calls. The directory may be rewritten between any two
steps (`Write`). `Begin`, `Hash`, `Load`, `Validate`, `Index` are the stages of
`refresh()`, each of which may also fail; `Unchanged`, `Activate` and `Fail` are
its three locked endings; `StartLoad` and `StartActivate` are the two passes of
the start-up; `Ask` and `Answer` are the two ends of `call_tool`. Content is a
number and its hash is the same number, so two equal hashes mean equal content.

`Reverts` lets a directory come to hold what it held before (git checkout does
that); `QuietStart` keeps the disk still during start-up.

### BundleWatcher

`start`, `stop` (which joins for five seconds and forgets: `StopReturns` may orphan a
thread) and the loop (`Poll`, `Callback`, `CallbackRaises`, `LoopEnds`) of any number
of threads, with refreshes elsewhere between a thread's own refresh and its look at
the event log. A refresh is one step here.

### AgentReads

What a caller can learn: `StartServer` labels the bundles, `Answered` is `call_tool`
with its order of checks, `handle_get` and `handle_post` the HTTP endpoints,
`read_resource` and `authorize_subscription` the `kosha://` surfaces. Then the subscriptions:
`Subscribe`, `Unsubscribe`, `Disconnect`, and a notification URI by URI and session by
session (`RefreshAndNotify`, `ReachUri`, `Send`, `SendFails`, `Rest`, `Forget`), since
sessions come and go between the awaits.

### HttpConnection

One keep-alive connection with pipelined requests. `ReadHead` takes the next head off
the stream, `ReadBody` what the endpoint reads of the body, `Misread` is what
`http.server` does with anything else: 400 or 501, and the connection ends. A body that
happens to be a request itself is left out. Outcomes of the registry are part of a request.

### SyncSurfaces

`StartSync` (skipped when `decide_sync` says so: the content snapshot is the recorded
one and no source changed since, in the working tree, between the two commits, or by
its date), `WriteSurfaces`, `SaveSyncState`, `DieSyncing`, and
authors who edit, commit and check out between any two. The `check_*` functions are
operators.

### Calibration, GateZero

`Calibration`: `CalibrateThresholds`, `CalibrateCutoff` and `EvaluateDedup` over any
scores of labelled pairs; a score is a whole number of units and a threshold a
number of half units. The fitting actions require labels of both kinds (`Labelled`),
because the code raises on others; `Candidates` are the cutoffs a fit tries. `GateZero`: a run measured step by step (safety, `_run_safety`;
drift before, during and after growth, `MeasureStart`, `GrowOnce`, `MeasureEnd`;
fidelity, `_run_fidelity`), its verdict (`Report`), and the way of that verdict into the
documents (`RecordVerdict`, `render_gate_status_row`, `write_gate0_status`). What models answer is any
choice, and a comparison of equal fractions may fall either way.

### MCParts

Thirteen of the modules share no state with one another, so one model checks them one
after another: the variable `part` says which moves and the others stay as they
start. A state of the run is therefore a state of one part.

How they compose: SourceRun extends EvidenceVault, IngestCommit extends IngestLock.
The other borders are data: IngestPlanning's plan is what IngestCommit writes and what
AuditTrail writes down; ClaimLayer is the merge inside IngestPlanning, in full, for one
concept; LiveServing's refresh is one step of BundleWatcher and AgentReads;
McpSource is one connector of SourceRun.

## 3. The runs

Passing runs, with the distinct states TLC finds:

| Run | Configuration | States | Question |
|---|---|---|---|
| `claims` | MCClaimLayer | 12,357 | Do merges keep chains, projection and explanations, and refine the ledger? |
| `verdict` | MCClaimLayerVerdict | 78,242 | Is the merge's verdict honest over drafts of three paragraphs, and do validity windows hand over? |
| `commit` | MCIngestCommit | 136,013 | Two ingests, approved in whole or in part, and a restore interleaved: exclusion, one plan per commit |
| `commit_crash` | IngestCommitCrash | 1,143,494 | An ingest, its retry and a restore, one after another in any order, failing or dying anywhere: whole plans, losses explained, a restore to the tag's tree, an untouched main, the backup, no waiting |
| `serving` | LiveServing | 1,792,396 | Two bundles, two refreshers, a reader, a changing disk: do the records agree, are answers labelled right? |
| `settles` | LiveServingSettles | 9,584 | Does the server catch up? |
| `sources` | MCSourceRun | 1.2 million | Two processes run one source over a branch that grows and is rewritten, fail, die and are rejected: skipped, doubled, backed, verified? |
| `parts` | MCParts | 540,315 | The thirteen parts below |

The properties of `parts` and what each would catch:

| Part | States | Property | What goes wrong without it |
|---|---|---|---|
| gap ledger | 19,647 | `GapsOnlyGrow` | a scan reopens a settled gap or drops one |
| review queue | 12,155 | `QueueConsistent`, `QueueOnlyGrows` | a change waits twice, a decision somebody was told of is not there, a rewrite loses one |
| watcher | 16,400 | `WatcherReports` | two threads poll, an event is reported twice, after a newer one, or never |
| link graph | 37,770 | `LinkingSettles`, `WalkFindsAll` | relinking changes its own output; a concept cannot be reached from the root index |
| planning | 100,664 | `NothingUnreviewed`, `NothingDropped`, `CommitAccounts` | the second draft of a run hides what the first one met; a paragraph is lost; the message does not account for the commit |
| agent reads | 97,320 | `SubscribersHear`, `AccessHolds` | a session that leaves keeps another from being told; a refusal tells what is there |
| sync | 127,650 | `SkipsAreCurrent` | a command skips its work although its surface is stale |
| audit | 49,994 | `AuditTellsHistory` | the report or the gaps differ from what was committed, for squashed, quoted and repeated messages too |
| OKF files | 6,216 | `WritesConform` | an ingest over a hand-made index or log leaves one that fails validation, loses an entry, or spoils a valid bundle when approved in part |
| HTTP | 5,848 | `StaysInStep` | an answer belongs to another request |
| MCP connector | 18,060 | `CallsAuthorised` | an answer is staged though the server never offered the tool in a permitted form |
| calibration | 3,239 | `CalibrationSeparates` | a fitted threshold joins a known-different pair unasked, or a better cutoff exists |
| Gate-0 | 45,352 | `GoIsEarned` | a GO without the criterion, or a published one without a GO |

### Bounds

*Claims*: two paragraphs are the fewest that let one
turn see the other's effect, and three the fewest in which a tie, a win and a
revision meet (`verdict`); with three statements of which two pairs conflict one
claim can lose on both sides; three ranks cover lower, equal and higher (`claims`),
and where the ranks do not matter two suffice (`verdict`); `MaxClaims` leaves room
for two drafts to follow one another. Two dates, beside no date, make two versions
one of which takes effect later, and the day of the handover is one of the two. *Commit*:
two ingests share one file (`log`) and have one each, one of which does not exist yet
and one of which the restore removes; the third process is the restore. With crashes
one concept and the log are enough, since files meet only in a plan; two processes show
what the second inherits from the first, and a retry, an ingest between a crash and
its retry, or a restore between them, takes the third; a restore that is run again
after one that stopped halfway is left to the theorems of section 5, which hold for any
processes. *Serving*: one refresh per thread can be
stale with respect to the other's; two bundles are what a swap of the shared
dictionary could mix up; two or three writes let the disk leave and come back.
*Sources*: two processes overlap in every way two can; two runs that commit are a run
and its successor or retry; a limit of one commit a run makes every run of two commits a
cut one; one change holds a secret, one is too large to read, one branch is rewritten;
one disk fault is a loss `verify` must notice. *Parts*: two clients, users or
threads are the fewest that race; two concepts link to and replace one another; an
ingest of two paragraphs lets the second draft meet the first one's concept, with three
statements one of which conflicts, one revises and one is a secret; one plan waits for
its review while ingests, edits and reindexes go by, is made on a bundle nobody has
edited since, and is decided before a second thing overtakes it (`PlanBound` of
MCParts, for TLC only); two commits are squashed, and one by hand quotes both and
ends the history (`HistoryBound`); three requests let a body that was left unread do harm to a later
one; one same and three different pairs put scores on both sides, and equal ones
across; two contradictions, two routing cases and one or two ingests reach each
threshold of the verdict from both sides.

All counters are bounded by named constants (`MaxTime`, `MaxParagraphs`, `MaxClaims`,
`MaxWrites`, `MaxFaults`, `MaxItems`, `MaxRecords`, `MaxActivations`, `MaxMerges`,
`MaxIngests`, `MaxCommits`, `MaxTrail`, `MaxLines`, `MaxSent`), which stand in guards and
in types only. Deadlock is not checked because every process may be done, refused or dead.

`commit` interleaves processes that live, `commit_crash` kills processes
that run one after another (`OneAtATime`), because interleaving and crashes together break
the lock itself (`lock_reclaim`), and with it everything that rests on it. `sources` has
both; its history variables `overlapped` and `torn` say when which happened, and
`IngestedOnce` promises something only for runs that do not overlap and are not
cut off between commit and save.

### Fairness

`IngestCommit!FairSpec`: weak fairness on the steps of a process that has
planned, since a running process runs on; nothing is assumed about starting one, and
death is always possible, since a step that the dead cannot take is not enabled.
`LiveServing!FairSpec`: weak fairness on the start-up, on the steps of a refresh that
has begun, and on the watcher's next poll, because its loop polls until `stop()`;
HTTP refreshes are not fair, nobody has to send one. The watcher takes the bundles of
a pass in any order and all of them before the next pass. `ServerCatchesUp` further
relies on a bounded number of writes (`MaxWrites`), which is the premise "once the
disk is left alone", and on contents that never come back (`Reverts = FALSE`); with
reverts it is false, because a refresh can find the old revision on the disk that it is
serving and miss what was there in between and what it loaded from it. The other
modules state no fairness: their commands need not be run, and nothing in them waits.

### Seeded faults

Every property of a passing run is shown to fail for a plausible fault of the code:
PROJECT.json pairs each property with a "Fault:" operator, and TLC must refute the
property when the definition that follows the operator is replaced by it.

## 4. Where code and documents disagree

Four runs end in a violation of one sentence of the repository, which PROJECT.json
quotes:

| Run | Property | What happens |
|---|---|---|
| `restated` | ProjectionTerminates | a, then c revising it, then a again in one draft: two claims share an id, the chain is a cycle and `current_claims` never returns |
| `lock_reclaim` | MutualExclusion | two processes reclaim one stale file, and the second unlinks the first one's new lock |
| `stale_plan` | NothingOverwritten | the plan was built before the lock; the second of two ingests overwrites the log of the first |
| `gap_bricked` | LedgerStaysReadable | `gap answer` stores a reference the model refuses (`model_copy` runs no validator), and no later command can load the ledger |

The modules state further promises of the documents that the code does not keep. TLC
refutes each when it is named, alone, in the configuration given:

| Property | Configuration | What happens |
|---|---|---|
| ClaimLayer `ConflictsSurfaced` (invariant) | MCClaimLayer | a paragraph that contradicts two claims settles with one and leaves the other in force, unreported |
| ClaimLayer `HistoryAnswers` (invariant) | MCClaimLayerVerdict | the version in force on an earlier day is superseded, `effective_claims` looks at current claims only, and the question for that day has no answer |
| IngestCommit `CommitIsPlan` (invariant) | IngestCommitCrash | what a crash or a failed commit left staged is in the next commit |
| IngestCommit `NothingOverwritten` (invariant) | IngestCommitCrash | an ingest dies after `write_text` has truncated log.md (`run.py:507`), and the next one reads an empty log and commits one without its history; a restore that stopped halfway leaves the tag's tree, or files removed, for the next ingest to commit |
| IngestCommit `RestoreLosesNothing` (property) | IngestCommitCrash | a restore overwrites uncommitted output that the safety tag does not hold |
| LiveServing `UnchangedMeansServed` (property) | LiveServingSettles, `Reverts = TRUE` | the directory changed between hash and load, and came back: wrong content under the right revision |
| LiveServing `ActivatedIsValid` (property) | LiveServing, `Conformant = {0}` | validation reads the directory again and may pass something other than what was loaded |
| LiveServing `NeverFalselyCurrent` (invariant) | LiveServingSettles, `QuietStart = FALSE` | a write between load and hash at start-up is never noticed |
| IngestPlanning `CitationsKept` (property) | MCParts | a body that is merged again cites only the claims of that run: hydrated claims carry no source (`writer.py:50-70`; `docs/system_design.md:172`) |
| IngestPlanning `ReplacementsAreSkimmed` (property) | MCParts | a draft replaces a paragraph, a second one of the run only adds to the same concept and takes over its row (`run.py:351`): the loss is committed in the AUTO lane, meant for "isolated create, additive claim, link/index/log regen" (`approve/autonomy.py:7`) |
| LinkGraph `AuthoredTextKept` (property) | MCParts | text after the managed sections is cut at the next relink (`link/edits.py:33-39`) |
| LinkGraph `ServedBacklinksTrue` (invariant) | MCParts | the served `out_links` are parsed from the whole body, Backlinks section included, so the reverse edge counts as a forward one (`okf/parse.py:99`; `tests/link/test_edits.py:69`) |
| LinkGraph `SectionsAgree` (invariant) | MCParts | an ingest rewrites a file when its links differ from the parsed ones, which count its Backlinks, so a file whose edges changed may stay as it was (`run.py:382-416`) |
| SyncSurfaces `SecondRunSkips` (property) | MCParts | the state is saved only when content or command changed, so once the sources are committed `sync docs` never skips again (`cli.py:1175-1189`) |
| SyncSurfaces `CheckedMeansCurrent` (invariant) | MCParts | the row of a removed command or tool passes the check for ever |
| AuditTrail `OthersUnstructured` (invariant) | MCParts | a squash or a hand-made commit that is no ingest quotes one, and is reported with its changes, though such a commit is to be "reported, unstructured" (`audit/export.py:263-265`, `289`) |
| AuditTrail `EveryFileReported` (invariant) | MCParts | a path with a blank matches no change line (`export.py:49`) |
| OkfFiles `ValidMeansLoadable` (invariant) | MCParts | ill-typed fields pass `validate_bundle` and are refused by `parse_concept`; a blank type is the other way round (`docs/authoring-bundles.md:137`) |
| HttpConnection `AlwaysInStep` (invariant) | MCParts | a POST to an unknown endpoint or tool path, a GET, and a tool call without a length leave their body unread; the next request is answered 400 or 501 and the connection ends (`http.py:76-113`, `166-184`) |
| Calibration `HighIsAbove` (invariant) | MCParts | with `--margin 0` and touching classes the upper threshold is the highest different pair, which is joined unasked (`calibrate.py:12`) |
| GateZero `GrowthAsPromised` (invariant) | MCParts | "at least 90% add a concept" is rounded down and counts concepts: 45 of 51 pass (`runner.py:105-112`) |
| GateZero `LocalNeverPublished` (invariant) | MCParts | a run of fewer than fifty ingests with local providers is a NO-GO that renders, though a verdict "is only valid when real providers are configured" (`status.py:42-43`) |

Met while reading the code, and visible in a module's guards or comments rather than
as a property:

* *Planning.* `_apply` overwrites a concept's `_ChangeMeta` at the second draft, which
  is why NothingUnreviewed is worth stating. Sections titled Log or Index collide with
  the plan's own rows, two sections that create one id collide, and a split that returns
  its section as it was recurses: each makes the ingest raise. With `--yes` and
  `--review-queue` blocked items are committed and queued too. Reviewed item by item,
  the index and log of a rejected concept can still be approved.
* *Sources.* A run in which a secret was matched, approved with `--yes`, commits without
  evidence and moves its cursor. A commit too large to read makes every git run fail
  until it leaves the window. State is kept by `instance_id` alone; `source run` does not
  look at `enabled`; a failed run saves what it loaded, over what another saved since.
* *Audit.* Gap ids carry the commit's hash, so a rebase reopens answered gaps; in a
  squashed commit a path that both messages name counts twice in the totals, with one
  gap, and the last reviewer stands for all.
* *Failing calls.* A commit that git refuses, or a tag that fails after the commit,
  leaves the ingest's branch checked out and, for the first, its files staged; the error
  says nothing of either.
* *Reindex.* The plan is described outside the lock; a directory that is deleted before
  it is applied raises after some files were written.
* *Sync.* `docs` and `status` share one state file; a torn one stops every writing
  command; what is edited between rendering and the snapshot is recorded as current; a
  section without its end marker swallows the next.
* *Claims on a served bundle* are minted at every call, so a history by claim id always
  fails there and the temporal filter never applies (`docs/mcp-integration.md:113`).
* *Serving.* `refresh_and_notify`, `BundleWatcher` and `discard_session` have no caller in
  the package, and refreshes over HTTP or by the watcher tell no subscriber. An MCP server
  may change a tool between listing and call. `gap scan` catches only
  `GapLedgerCorruptionError`.
* *Other.* `parse_verdict` reads "incompatible" and "inconsistent" as no conflict
  (`detect.py:257-268`); the release script validates the working tree and tags HEAD;
  log lines before the first date are dropped at the next ingest, and a heading with an
  impossible date makes every ingest raise.

## 5. The proofs

| Theorem | Says | Assumes |
|---|---|---|
| ClaimLayerProofs `TypeCorrect` | types | nothing |
| `ChainsStayLinear`, `NothingIsOverwritten` | `ChainsLinear`, `NoSilentOverwrite` | no repeated paragraphs |
| `RefinesLedger` | ClaimLayer implements ClaimLedger | no repeated paragraphs |
| `LosersAreExplained`, `VerdictsAreHonest`, `WindowsAlwaysHandOver` | `LosersExplained`, `OutcomeHonest`, `WindowsHandOver` | no repeated paragraphs |
| ClaimProjectionProofs `BodiesAreFaithful`, `ParagraphsAlwaysStay` | `ProjectionFaithful`, `ParagraphsStay` | no repeated paragraphs |
| `BodiesAlwaysRender` | `ProjectionTerminates` | no repeated paragraphs |
| IngestCommitProofs `LockTypeCorrect`, `CommitTypeCorrect` | types | nothing |
| `Exclusion`, `FileIsTheHolders` | `MutualExclusion`, `FileIsHolders` of the lock | nobody dies |
| `RefusalExplained` | `RefusedOnlyByEmptyFile` | one run after another |
| `UsesTheLock` | IngestCommit implements IngestLock | nothing |
| `MainStaysUntouched` | `MainUntouched` | nothing |
| `WritersExclude` | `MutualExclusion` | nobody dies |
| `CommitsArePlans`, `RestoresAreReversible` | `CommitIsPlan`, `SafetyTagIsParent` | nobody dies and no call fails |
| `CommitsHoldPlans`, `IngestsAlwaysOnlyAdd`, `BackupsCover` | `CommitHoldsPlan`, `IngestsOnlyAdd`, `BackupCoversIngest` | one run after another, any may fail or die |
| `RestoresStayReversible`, `RestoresAreExact` | `SafetyTagIsParent`, `RestoreExact` | one run after another, any may fail or die |
| PlanningProofs `NothingGoesUnreviewed`, `NothingIsDropped`, `CommitsAlwaysAccount` | `NothingUnreviewed`, `NothingDropped`, `CommitAccounts` | nothing |
| `LinkingAlwaysSettles`, `WalksFindAll` | `LinkingSettles`, `WalkFindsAll` | nothing |
| `AuditAlwaysTells` | `AuditTellsHistory` | nothing |
| `CalibrationAlwaysSeparates` | `CalibrationSeparates` | nothing |
| LiveServingProofs `ServingTypeCorrect` | types | nothing |
| `NoActivationLost`, `FailureIsExplained`, `RecordsAlwaysAgree` | `HistoryEndsInServed`, `HealthExplained`, both as `RecordsAgree` | nothing |
| `AnswersBearTheirRevision` | `AnswersConsistent` | nothing |
| ServerProofs `WatcherAlwaysReports` | `WatcherReports` | nothing |
| `ConnectionStaysInStep` | `StaysInStep` | nothing |
| `SubscribersAlwaysHear`, `AccessAlwaysHolds` | `SubscribersHear`, `AccessHolds` | nothing |
| `AnswersAreAuthorised` | `CallsAuthorised` | nothing |
| OperatorFilesProofs `LedgerWellFormed`, `LedgerOnlyGrows` | types and resolutions, `GapsOnlyGrow` | nothing |
| `QueueNeverShrinks`, `QueueStaysConsistent` | `QueueOnlyGrows`, `QueueConsistent` | nothing |
| `SkipsAlwaysCurrent` | `SkipsAreCurrent` | nothing |
| `GoIsAlwaysEarned` | `GoIsEarned` | nothing |
| SourceRunProofs `SourceTypeCorrect` | types | nothing |
| `CursorsAreBacked`, `NothingIsSkipped` | `AdvancesAreBacked`, `NothingSkippedSilently` | nothing |
| `NothingIsIngestedTwice`, `CursorMovesForward` | `IngestedOnce`, `CursorOnlyAdvances` | nothing |
| `VerifyIsTruthful` | `VerifyTellsTruth` | nothing |

Beyond the assumptions in the last column the theorems use only the named ASSUME
of the module: constants have their types, special values differ from ordinary
ones, and what the code holds in memory is finite (a plan's changes, the labelled pairs).
A score lies between `-One` and `One`, as a cosine does. The assumptions of the last
column are not there to make a proof go through: `restated`, `lock_reclaim`,
`stale_plan` and `CommitIsPlan` under IngestCommitCrash show what happens without them. The arguments:

* **Claims.** `ChainInv` is types, `ChainsLinear`, and freshness: no identity the rest
  of the draft will mint is in the ledger yet. Freshness is why the invariant is
  inductive: `ChainsLinear` alone does not say that the next claim's identity is new,
  and without it an append could create a second successor or a cycle. The draft's
  paragraphs differ from each other and from what the source stated at this instant when
  the merge begins, and each turn uses one up. `NoSilentOverwrite` and the refinement
  follow step by step, from the uniqueness of identities: `_replace` and
  `supersede_claim` change exactly one position. What the verdict says is read against
  the claims the merge began with (`before`), which stay the first of the ledger
  (`VerdictInv`); and a window is closed by a supersede and nothing else (`WindowInv`),
  so a claim that comes later never finds one closed for it already.
* **Projection.** The loops of `current_claims` and `claim_chain` go from claim to claim
  and collect where they have been. In a linear ledger `NextOf`, a turn of the first
  loop, goes to a later position, and `PrevOf`, a turn of the second, leads back. So a
  walk meets no claim twice and stops (`WalkStops`, `BackStops`), and asked from
  anywhere it visits the same chain (`RootReaches`, `HeadOfRoot`). The model writes a
  loop as a recursive function of the number of turns; `IterationExists` proves that
  there is such a function, and `CountingUp` is the induction on turns, for sets of
  numbers. `ParagraphsAlwaysStay` adds that a step leaves every root a root
  (`RootStays`) and changes the walk of one.
* **Lock.** `ExclusionInv` says, with nobody dying, that a process which holds the lock
  is the file's creator and that nobody is about to unlink, because a PID that was read
  is the PID of a live process. `SequentialInv` says, with processes one after another,
  that a file in the way belongs to the process in flight or to a dead one.
* **Main.** A commit lands on the branch that is checked out, and whoever holds the lock
  past `branched` has checked out a branch that is not `Main`. The invariant says so of
  every process that may commit; it survives two holders of the lock and any crash,
  since no step checks `Main` out again.
* **Commits without deaths and failures.** `CleanInv` says what the repository looks like at each
  point of the one write phase under way: between write phases working tree, index and
  the tip of the checked-out branch are equal (`Clean`); on a new branch only the
  working tree differs, by files of the plan (`BranchedOK`); once staged the index is
  the tip with the plan (`StagedOK`); once committed the tip is (`CommittedOK`). None of
  the properties is inductive without it: that a commit is the plan needs an index that
  was clean before `git add`, which the previous process left, and that the previous
  process was alone needs `ExclusionInv` of the lock, which carries over because the
  steps of IngestCommit are steps or stutters of IngestLock (`StepsOnLock`).
* **Commits with deaths.** A process that died or failed leaves the working tree and the
  index in any state on the way, so nothing is clean. What remains is an order: from
  `tip[head]` to the index (`Staging`), and from the index to the working tree
  (`Growing`), a file only loses what an approved plan retires or what a restore on its
  way has in its safety tag (`Kept`), unless somebody left it truncated (`Torn`). `RunOK`
  says of the run under way, which is the only one (`Solo`), that what it read misses
  nothing of the index either (`ReadAll`); that what it staged, then committed, then
  tagged is its plan; and of a restore that its safety tag is the commit it leaves.
  `CrashInv` is these with the properties of the commits made so far: what a commit loses
  is what `Staging` lets go, it holds the whole plan by `RunOK`, and nobody else tags
  before its success. It is inductive because a planned content misses, of what was
  read, no more than `Retired`, which is where `apply_update` and `append_entries` enter.
* **Restores.** What `git rm` takes away is computed from HEAD, whatever an earlier run
  left in the working tree. `Traced` is why that suffices: a file that no ingest left
  behind is staged if it is in the working tree, and committed or in the tag if it is
  staged. So after `git rm` nothing the tag lacks is there (`Cleared`), and after `git
  checkout` what it has is (`BroughtBack`). A stopped restore keeps `Traced` as it is; a
  commit keeps it because a planned file is never empty, and the backup tag because what
  it moves to is what is staged. The next restore may therefore start anywhere.
* **Plan.** `LastIsCited`: the record of a concept cites the last document that went
  into it, which is all that remains of a draft once a second one has overwritten it.
  `BodiesExplained`: what was merged is in the body, flagged, or replaced by what
  conflicts with it or revises it. With the shapes of bodies and records (`PlanShape`)
  each property is one of the plan about to be committed, and only the two decisions
  commit (`OnlyDecisionsCommit`).
* **Links.** What `apply_links` writes depends on the prose, which it does not touch
  (`EverythingSettles`): linking again finds the same, on any files at all. `GraphInv` is
  what makes the walk inductive: while `settled` is not `edit` every index lists what is
  there (`Indexed`); a plan that waits and was not overtaken would make it so, written
  whole (`Completes`); and a reindex that was described and not overtaken names every
  directory whose index does not. Nothing is claimed after an edit, or after a plan that
  was approved in part or overtaken. That the walk finds every concept: of the
  directories above a concept that it did not reach, were there any, take the topmost;
  its parent was reached and lists it (`WalkedDownTo`, `WalkedFiles`).
* **Audit.** `TrailInv`: every commit is `Faithful`, its lines are those that tell of its
  plans and of nothing else, one reviewer line being the last. An ingest's message is
  (`IngestFaithful`), and joining two faithful ones gives one (`QuotingFaithful`), so
  squashes of squashes are. Reading back what was written gives what was written, line
  by line (`LineRead`) and then for a message and a history (`MessageRead`, `TrailRead`).
  Gap keys differ where commit or path does (`KeysApart`); a gap has a change in the
  list it stands for, and one only if no path is named twice, so the totals are never
  below the gaps and equal to them in that case (`GapsCounted`).
* **Calibration.** `FitInv`: what is fitted is the fit of the scores, which never
  change. Labelled pairs are finite, so there is a highest different and a lowest same
  pair, and the clamped and widened thresholds lie on their sides of them
  (`ThresholdsSeparate`). A cutoff is as good as its calls, and every cutoff calls like
  one of those that were tried: the next score above it, or the end
  (`CandidatesSuffice`, `AroundSuffices`).
* **Serving.** `ServingInv` adds to the three properties that nothing refreshes before
  the registry is up, that a failing attempt has a stage, and that what is served, and
  what a reader is working on, was activated.
* **Watcher.** `RunsRemembered`: unless one was given up, a thread that lives is the one
  the watcher knows, of which there is one. `Reported`: what a thread handed over is
  increasing and older than what it is about to hand over, and while it waits it reaches
  as far as the last activation it made.
* **HTTP.** The stream is a chain of heads and bodies in the order they were sent
  (`Chained`); either the next piece is the one the server expects and everything before
  was answered in turn (`InStep`), or a request that was not framed has been read and
  all up to it were (`OutOfStep`), which nothing undoes.
* **Agent reads.** `NoneForgotten`: who stayed subscribed was told, is being told, or
  subscribes to a URI that is still to come; it is what a session that leaves between
  two awaits could break. `OnlyAuthorised` says of subscriptions and notices what the
  labels allow; and a denied bundle answers as an absent one does (`DeniedAlike`).
* **MCP connector.** The invariant follows the authorisation through the run: a
  permitted offer that is there now has been seen (`SeenNow`), so one that was listed
  has (`SeenListed`), and only a permitted listing leads to a call (`CalledPermitted`).
* **Gap ledger.** `HoldsFile`: a client that is about to save, and whose file has not
  changed since it loaded it, holds a ledger that keeps what the file has. Without it
  the save could put back anything. That loads, merges and resolutions keep a ledger is
  a lemma on the operators (`Keeps` is reflexive and transitive).
* **Review queue.** `Locked`: who is in the queue holds the lock, alone, and what it has
  read is still what the file says, because nobody else writes. `Prepared`: what it will
  write extends that, is consistent, and has what it will tell. Both properties are then
  those of the list about to be written.
* **Sync.** `RecordsRendered`: a snapshot that a docs command recorded, and no edit got
  into, is one of sources with the surface rendered from them. `RendersSources` is what
  makes it so: an undisturbed command renders the sources as they are, and once it has
  written the surface says so.
* **Gate-0.** `HeadsTell`: as long as every fidelity ingest went to the paragraph it
  should, the concept states the latest figure and the gold one; after one that did not,
  the gold text is gone or a statement too many stays for ever. That is why one
  misplaced ingest fails the run. Of a finished run the verdict is linked to the
  figures; a comparison of equals may fall either way, so the verdict is earned up to
  that (`ComparisonSays`).
* **Sources.** Three layers. `EvidenceInv` and `LedgerKept`: identifiers of runs under
  way are their own, and before a run commits its manifest names exactly what it read.
  `BackedInv`: every state, the saved one and those that runs have loaded or will save,
  names a run that is in the bundle, and every commit behind its cursor is accounted for
  (shown by a text, or in a run that says it was cut); it holds of the next state
  because `ReadWell` says that a git run shows the end of the stretch it goes over and
  says so when that is not all. `Current` and `InOneLine` are conditional on runs that
  do not overlap, and on none cut off: the run under way started from what is saved, and
  what was ingested lies behind the cursor, stretch by stretch (`Apart`), which is why a
  retry or a rewritten branch brings nothing in twice. The lemma `Effects` lists what
  any step may change, so that each layer is proved action by action against a few
  cases.

Only model-checked are `WritesConform` (`_parse_log` and `_render_log` flatten and sort
sequences with recursive operators of the library, whose theorems the provers cannot
instantiate) and the liveness properties `EveryRunEnds` and `ServerCatchesUp`, with
ENABLED beyond the prover's reach. Only proved are `NoSilentOverwrite`, which
`ImplementsLedger` says in another way, and `SafetyTagIsParent`. Neither a run nor a
theorem says anything of commits by runs that interleave and die, where the lock itself
fails. Where a proof needed an induction over data, such as a walk along a chain or down the
directories, it takes a smallest counterexample instead, by the
well-foundedness of the naturals.

## 6. What is not modelled

PROJECT.json lists every component with its status. Left out, and why:

* **Text.** YAML, Markdown, prompts, HTML extraction, secret patterns and rendering
  (`approve/render.py`, `dedup/audit.py`, the JSON of the CLI) are functions of their input. What they tell
  apart, where a property needs it, is a set or a relation: which files load,
  which texts hold a secret, which statements conflict.
* **Clients.** Fetching, language models and embeddings: their answers are any answer.
* **Views.** Lineage and reconstruction (`merge/lineage.py`, `merge/reconstruct.py`) read claims that
  are minted for the call, and keep nothing. `mcp/fallback.py`, `agent_fragment` and the
  README table of `status_surfaces` generate static text like the surface in SyncSurfaces;
  `public_claims` looks for phrases.
* **Scheduled ingest** (`ingest/watch.py`): one loop of run and sleep; `run_pending` has no
  caller in the package.
* **Telemetry and release**: best-effort logging; read-only checks and a tag.
* **Benchmarks** other than the two above measure once and decide nothing.
* **Of what is modelled**: a PID that is reused while a lock file names it; a bundle
  read torn by a concurrent writer (a read is one instant); branch names and safety tags
  that collide within a second (`run.py:501`).
