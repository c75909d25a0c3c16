\* Two processes run one instance over a branch that grows and is rewritten, with a
\* limit of one commit a run.
SPECIFICATION Spec
CONSTANTS
    p1 = p1
    p2 = p2
    r1 = r1
    r2 = r2
    a = a
    b = b
    s = s
    o = o
    NoRun = none
    none = none
    Procs <- MCProcs
    Runs <- MCRuns
    Changes <- MCChanges
    Secrets <- MCSecrets
    Oversized <- MCOversized
    Histories <- MCHistories
    Texts <- MCTexts
    Limit = 1
    Kinds = {"git", "folder", "url"}
    MaxFaults = 1
SYMMETRY MCSymmetry
INVARIANTS
    VerifyTellsTruth
    NothingSkippedSilently
    IngestedOnce
    AdvancesAreBacked
CHECK_DEADLOCK FALSE
