SPECIFICATION FairSpec
CONSTANTS
  Count = 3
  MaxBatches = 3
  Preemptive = {TRUE, FALSE}
INVARIANT NoEarlyPass
INVARIANT IdleIsReset
PROPERTY OneSerialUnpreempted
PROPERTY WaitReturnsUnpreempted
