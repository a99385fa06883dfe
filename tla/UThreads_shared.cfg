SPECIFICATION FairSpec
CONSTANTS
  MaxThreads = 4
  Creators = {0}
  Lockers = {1, 2, 3}
  MaxLocks = 1
  DestroyEarly = FALSE
  FailIsHeld = TRUE
  SwitchWindow = FALSE
  NullRetval = {TRUE, FALSE}
INVARIANT TypeOK
INVARIANT OnlyCurrentRuns
INVARIANT BlockedIffWaiting
INVARIANT NoWaiterOnFreeMutex
INVARIANT LockHasOwner
INVARIANT StacksInUseAreLive
INVARIANT SlotIsId
INVARIANT JoinedValueOrPreempted
INVARIANT SearchTerminates
PROPERTY JoinReturns
