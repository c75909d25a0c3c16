SPECIFICATION FairSpec
CONSTANTS
  p1 = p1  p2 = p2  r1 = r1
  x = x  y = y
  fx = fx  fy = fy  seed = seed  old = old  loose = loose
  Procs <- MCRetryProcs
  NoFile = NoFile
  Unknown = Unknown
  MayDie = TRUE
  OneAtATime = TRUE
  CallsFail = TRUE
  Files <- MCTwoFiles
  Log = Log
  Facts <- MCFacts
  Fact <- MCRetry
  Touches <- MCTwoTouches
  Replaces <- MCReplaces
  Undated <- MCUndated
  NoFact = NoFact
  Cut = Cut
  Main = Main
  Backup = Backup
  Target = Target
  Seed <- MCTwoSeed
  Earlier <- MCTwoEarlier
INVARIANTS CommitHoldsPlan IngestsOnlyAdd BackupCoversIngest
PROPERTIES EveryRunEnds RefusedOnlyByEmptyFile RestoreExact
CHECK_DEADLOCK FALSE
