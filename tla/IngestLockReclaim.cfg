SPECIFICATION LockSpec
CONSTANTS
  Procs = {p1, p2, p3}
  NoFile = NoFile
  Unknown = Unknown
  MayDie = TRUE
  OneAtATime = FALSE
INVARIANT MutualExclusion
CHECK_DEADLOCK FALSE
