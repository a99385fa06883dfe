SPECIFICATION Spec
CONSTANTS
  MaxThreads = 3
  Creators = {0}
  Lockers = {}
  MaxLocks = 0
  DestroyEarly = FALSE
  FailIsHeld = TRUE
  SwitchWindow = TRUE
  NullRetval = {FALSE}
INVARIANT OnlyCurrentRuns
