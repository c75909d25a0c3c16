SPECIFICATION Spec
CONSTANTS
  p1 = p1  p2 = p2  r1 = r1
  x = x  y = y
  fx = fx  fy = fy  seed = seed  old = old  loose = loose
  Procs <- MCProcs
  NoFile = NoFile
  Unknown = Unknown
  MayDie = FALSE
  OneAtATime = FALSE
  CallsFail = FALSE
  Files <- MCFiles
  Log = Log
  Facts <- MCFacts
  Fact <- MCFact
  Touches <- MCTouches
  Replaces <- MCReplaces
  Undated <- MCUndated
  NoFact = NoFact
  Cut = Cut
  Main = Main
  Backup = Backup
  Target = Target
  Seed <- MCSeed
  Earlier <- MCEarlier
INVARIANTS MutualExclusion CommitIsPlan
CHECK_DEADLOCK FALSE
