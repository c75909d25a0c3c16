-------------------------------- MODULE MCParts --------------------------------
(* Thirteen parts of Kosha that share no state, checked one at a time in one run:     *)
(* part says which of them moves, and the others stay as they start.              *)
EXTENDS GapLedger, ReviewQueue, BundleWatcher, LinkGraph, IngestPlanning, AgentReads,
        SyncSurfaces, AuditTrail, OkfFiles, HttpConnection, McpSource, Calibration, GateZero, TLC

\* One part moves at a time, so two pairs of names serve them all: a1 and a2 are
\* the ledger's clients, the queue's users, the watcher's threads, the sessions and the concepts
\* an ingest plans for, b1 and b2 its documents, the gaps, the queued paths, the
\* bundles that are read and two pairs of texts that differ.
CONSTANTS a1, a2, b1, b2, ref, p1, p2, s1, s2, s3, id1, id2

VARIABLE part

MCClients == {a1, a2}
MCGapIds == {b1, b2}
MCReferences == {ref}
MCTimes == 0..1
MCUsers == {a1, a2}
MCPaths == {b1, b2}
MCThreads == {a1, a2}
\* Two concepts, one two directories down, that link to one another; a concept with
\* p2 is related to one with p1, and not the other way round.
MCConceptIds == {<<"x">>, <<"d", "e", "z">>}
MCProse == {p1, p2}
MCMentions == (p1 :> {<<"x">>}) @@ (p2 :> {<<"d", "e", "z">>})
MCOverlap == {<<p1, p1>>, <<p2, p1>>}
\* The third paragraph holds a secret and revises either of the two that conflict.
MCConflicts == {<<s1, s2>>}
MCRevises == {<<s1, s3>>, <<s2, s3>>}
\* Both bundles hold one of the ids that are asked for.
MCHas == [b \in {b1, b2} |-> {id1}]
\* The second version drops a nested command, so that its synopsis is the first's.
MCRows == (s1 :> {p1, p2}) @@ (s2 :> {p1}) @@ (Edited :> {})
MCWhole == (s1 :> p1) @@ (s2 :> p1) @@ (Edited :> p2)
\* A tool call that is answered, one without a length, one that raises, a refresh
\* with a body that is denied and one without, a GET, and a POST to nowhere.
Request(to, length, body, means) == [to |-> to, length |-> length, body |-> body, means |-> means]
MCRequests ==
    {Request("tool", "right", TRUE, "ok"), Request("tool", "absent", FALSE, "ok"),
     Request("tool", "right", TRUE, "raises"), Request("refresh", "right", TRUE, "denied"),
     Request("refresh", "absent", FALSE, "ok"), Request("get", "absent", FALSE, "ok"),
     Request("other", "right", TRUE, "ok")}
\* A score below zero, two apart by no more than the margin doubled, and the highest.
MCScores == {-1, 0, 1, 3}
MCOne == 3
MCSymmetry == Permutations({a1, a2}) \cup Permutations({b1, b2})

allVars == <<gapVars, queueVars, watchVars, graphVars, planVars, readVars, syncVars, trail, fileVars,
             httpVars, mcpVars, fitVars, gateVars, part>>

PlanAtRest == disk = <<>> /\ listed = {} /\ run = NoRun /\ commit = NoCommit /\ ingests = 0
ReadsAtRest ==
    /\ access = [b \in Bundles |-> Open]
    /\ subscribed = {} /\ connected = {} /\ notice = NoNotice

\* The parts at rest start in one state each, the part that moves in all of its own.
MCInit ==
    /\ part \in {"gaps", "queue", "watcher", "graph", "planning", "reads", "sync", "audit", "files",
                "http", "mcp", "fit", "gate"}
    /\ GapInit
    /\ QueueInit
    /\ WatchInit /\ (part # "watcher" => ~dirty)
    /\ GraphInit
    /\ IF part = "planning" THEN PlanInit ELSE PlanAtRest
    /\ IF part = "reads" THEN ReadInit ELSE ReadsAtRest
    /\ SyncInit /\ (part # "sync" => sources = s1 /\ surface = s1 /\ state_file = Missing)
    /\ TrailInit
    /\ FilesInit /\ (part # "files" => front = "good" /\ index = "version")
    /\ HttpInit
    /\ GateInit
    /\ FitInit /\ (part # "fit" => score = [p \in Pairs |-> MCOne])
    /\ McpInit /\ (part # "mcp" => offer = NotOffered /\ config = NoCall.with)

GapsMove ==
    /\ part = "gaps" /\ GapNext
    /\ UNCHANGED <<queueVars, watchVars, graphVars, planVars, readVars, syncVars, trail, fileVars,
                   httpVars, mcpVars, fitVars, gateVars, part>>
QueueMoves ==
    /\ part = "queue" /\ QueueNext
    /\ UNCHANGED <<gapVars, watchVars, graphVars, planVars, readVars, syncVars, trail, fileVars,
                   httpVars, mcpVars, fitVars, gateVars, part>>
WatcherMoves ==
    /\ part = "watcher" /\ WatchNext
    /\ UNCHANGED <<gapVars, queueVars, graphVars, planVars, readVars, syncVars, trail, fileVars,
                   httpVars, mcpVars, fitVars, gateVars, part>>
\* A plan waits only if it was made on a settled bundle, and what overtakes it comes
\* once and is no reindex.
PlanBound ==
    /\ pending.at = "idle" /\ pending'.at = "planned" => settled # "edit"
    /\ pending.stale => pending'.at = "idle"
    /\ pending'.at = "planned" => reindex'.at = "idle"
GraphMoves ==
    /\ part = "graph" /\ GraphNext /\ PlanBound
    /\ UNCHANGED <<gapVars, queueVars, watchVars, planVars, readVars, syncVars, trail, fileVars,
                   httpVars, mcpVars, fitVars, gateVars, part>>
IngestPlans ==
    /\ part = "planning" /\ PlanNext
    /\ UNCHANGED <<gapVars, queueVars, watchVars, graphVars, readVars, syncVars, trail, fileVars,
                   httpVars, mcpVars, fitVars, gateVars, part>>
AgentsRead ==
    /\ part = "reads" /\ ReadNext
    /\ UNCHANGED <<gapVars, queueVars, watchVars, graphVars, planVars, syncVars, trail, fileVars,
                   httpVars, mcpVars, fitVars, gateVars, part>>
DocsSync ==
    /\ part = "sync" /\ SyncNext
    /\ UNCHANGED <<gapVars, queueVars, watchVars, graphVars, planVars, readVars, trail, fileVars,
                   httpVars, mcpVars, fitVars, gateVars, part>>
\* Nothing is committed after a commit by hand.
HistoryBound == \A k \in DOMAIN trail : trail[k].by = "ingest"
HistoryGrows ==
    /\ part = "audit" /\ TrailNext /\ HistoryBound
    /\ UNCHANGED <<gapVars, queueVars, watchVars, graphVars, planVars, readVars, syncVars, fileVars,
                   httpVars, mcpVars, fitVars, gateVars, part>>
FilesChange ==
    /\ part = "files" /\ FilesNext
    /\ UNCHANGED <<gapVars, queueVars, watchVars, graphVars, planVars, readVars, syncVars, trail,
                   httpVars, mcpVars, fitVars, gateVars, part>>

AllButConnections ==
    <<gapVars, queueVars, watchVars, graphVars, planVars, readVars, syncVars, trail, fileVars, part>>
RequestsArrive == part = "http" /\ HttpNext /\ UNCHANGED <<AllButConnections, mcpVars, fitVars, gateVars>>
ToolsAreCalled == part = "mcp" /\ McpNext /\ UNCHANGED <<AllButConnections, httpVars, fitVars, gateVars>>
ThresholdsAreFitted ==
    part = "fit" /\ FitNext /\ UNCHANGED <<AllButConnections, httpVars, mcpVars, gateVars>>
GateIsMeasured ==
    part = "gate" /\ GateNext /\ UNCHANGED <<AllButConnections, httpVars, mcpVars, fitVars>>

MCNext ==
    \/ GapsMove \/ QueueMoves \/ WatcherMoves \/ GraphMoves \/ IngestPlans
    \/ AgentsRead \/ DocsSync \/ HistoryGrows \/ FilesChange
    \/ RequestsArrive \/ ToolsAreCalled \/ ThresholdsAreFitted \/ GateIsMeasured
MCSpec == MCInit /\ [][MCNext]_allVars
================================================================================
