\* One slot through three generations, raced for by two producers and two executors.
SPECIFICATION Spec
CONSTANTS
  p1 = p1
  p2 = p2
  e1 = e1
  e2 = e2
  r1 = r1
  r2 = r2
  Producers <- TwoProducers
  Executors <- TwoExecutors
  Retirers <- OneRetirer
  SlotCount = 1
  MaxU64 = 5
  HintRange = 1
  MaxJobs = 3
  FailingOps = {"data", "invalidate"}
  SubmitOnce = TRUE
SYMMETRY Symmetric
INVARIANTS
  SingleWriter
  GpuOwnsRunningSlots
  TimelineBelongsToGeneration
  MarkNeverRefused
  NoSlotLost
  RingInvariant
PROPERTIES
  PublishedImmutable
  SequenceSteps
  RefinesOwnership
CHECK_DEADLOCK FALSE
