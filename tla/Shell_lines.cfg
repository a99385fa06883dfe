SPECIFICATION Spec
CONSTANTS
  Scripts <- TwoLines
  Capacity = 1
  MaxStages = 3
  MaxRuns = 3
INVARIANT NoDescriptorLeft
INVARIANT PipelineDelivers
INVARIANT LinesRunOnce
PROPERTY LineFinishes
PROPERTY ZombiesReaped
CHECK_DEADLOCK FALSE
