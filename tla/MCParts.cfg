\* The gap ledger with two clients and two gaps, the review queue with two users
\* and two paths, the watcher with two threads and four activations, the graph with
\* two concepts, two paragraphs and a plan that waits for its review,
\* an ingest of two paragraphs into any bundle of two concepts, two sessions that
\* subscribe to the list and to a concept of either of two bundles, a repository of
\* two commits, a history of two commits, squashed or not, and one by hand, a log of
\* three lines, three requests on a connection, a tool with two schemas,
\* thresholds fitted to one pair that is the same and three that differ, and a
\* benchmark of two contradictions, two notes and one or two ingests.
SPECIFICATION MCSpec
CONSTANTS
    a1 = a1
    a2 = a2
    b1 = b1
    b2 = b2
    ref = ref
    p1 = p1
    p2 = p2
    ConceptIds <- MCConceptIds
    Prose <- MCProse
    Mentions <- MCMentions
    Overlap <- MCOverlap
    Unset = Unset
    Clients <- MCClients
    GapIds <- MCGapIds
    References <- MCReferences
    Rejected = {}
    Times <- MCTimes
    Users <- MCUsers
    Paths <- MCPaths
    MaxItems = 3
    MaxRecords = 2
    Threads <- MCThreads
    MaxActivations = 4
    s1 = s1
    s2 = s2
    s3 = s3
    Concepts = {a1, a2}
    Statements = {s1, s2, s3}
    Docs = {b1, b2}
    Bundle = Bundle
    Conflicts <- MCConflicts
    Revises <- MCRevises
    Secrets = {s3}
    Ranks = {0, 1}
    BlockBelow = 40
    SkimBelow = 90
    Index = Index
    Log = Log
    MaxMerges = 2
    MaxIngests = 1
    Sessions = {a1, a2}
    Bundles = {b1, b2}
    Labels = {"staff", "board"}
    Clearance = {"staff"}
    Open = Open
    Nowhere = Nowhere
    id1 = id1
    id2 = id2
    ReadIds = {id1, id2}
    Has <- MCHas
    Shapes = {"concept"}
    Versions = {s1, s2}
    Edited = Edited
    Rows <- MCRows
    Whole <- MCWhole
    Missing = Missing
    Torn = Torn
    MaxCommits = 2
    ChangedPaths = {p1, p2}
    Spaced = {p2}
    Reviewers = {id1}
    NoReviewer = NoReviewer
    Blank = Blank
    Multiline = Multiline
    Unclassified = Unclassified
    MaxTrail = 2
    Days = {1, 2}
    Notes = {ref}
    BadDay = BadDay
    Heading = Heading
    Text = Text
    MaxLines = 3
    Requests <- MCRequests
    MaxSent = 3
    Schemas = {s1, s2}
    Absent = Absent
    Unpinned = Unpinned
    SamePairs = {ref}
    DifferentPairs = {s1, b1, b2}
    Scores <- MCScores
    One <- MCOne
    Margins = {0, 1}
    Contradictions = 2
    UpdateCases = {p1}
    CreateCases = {p2}
    IngestCounts = {1, 2}
    MinIngests = 2
    SafetyMargin = 50
    DriftTolerance = 50
    MinGrowth = 90
    Gold = Gold
SYMMETRY MCSymmetry
INVARIANTS
    QueueConsistent
    WatcherReports
    LinkingSettles
    WalkFindsAll
    SubscribersHear
    AccessHolds
    SkipsAreCurrent
    AuditTellsHistory
    StaysInStep
    CallsAuthorised
    CalibrationSeparates
    GoIsEarned
PROPERTIES
    GapsOnlyGrow
    QueueOnlyGrows
    NothingUnreviewed
    NothingDropped
    CommitAccounts
    WritesConform
CHECK_DEADLOCK FALSE
