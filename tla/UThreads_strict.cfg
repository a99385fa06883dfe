SPECIFICATION TimerSpec
CONSTANTS
  MaxThreads = 4
  Creators = {0}
  Lockers = {1, 2, 3}
  MaxLocks = 1
  DestroyEarly = TRUE
  FailIsHeld = FALSE
  SwitchWindow = FALSE
  NullRetval = {FALSE}
INVARIANT MutualExclusion
INVARIANT DestroyedIsIdle
PROPERTY ReadyRunsWhileArmed
