SPECIFICATION Spec
CONSTANTS
  Bundles = {b1, b2}
  Threads = {watcher, http}
  Watchers = {watcher}
  Readers = {reader}
  Contents = {0, 1}
  Loadable = {0, 1}
  Conformant = {0, 1}
  Initial = 0
  None = None
  QuietStart = TRUE
  MayFail = TRUE
  Reverts = TRUE
  MaxWrites = 2
INVARIANTS RecordsAgree AnswersConsistent
CHECK_DEADLOCK FALSE
