SPECIFICATION FairSpec
CONSTANTS
  Bundles = {b1}
  Threads = {watcher, http}
  Watchers = {watcher}
  Readers = {}
  Contents = {0, 1, 2, 3}
  Loadable = {0, 2, 3}
  Conformant = {3}
  Initial = 0
  None = None
  QuietStart = TRUE
  MayFail = FALSE
  Reverts = FALSE
  MaxWrites = 3
PROPERTY ServerCatchesUp
CHECK_DEADLOCK FALSE
