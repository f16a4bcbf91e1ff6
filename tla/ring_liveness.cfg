\* One slot, two generations, every call finishes: published slots come back.
SPECIFICATION FairSpec
CONSTANTS
  p1 = p1
  p2 = p2
  e1 = e1
  e2 = e2
  r1 = r1
  r2 = r2
  Producers <- TwoProducers
  Executors <- OneExecutor
  Retirers <- OneRetirer
  SlotCount = 1
  MaxU64 = 3
  HintRange = 1
  MaxJobs = 2
  FailingOps = {"data"}
  SubmitOnce = TRUE
PROPERTIES
  PublishedIsRetired
  ClaimReturns
CHECK_DEADLOCK FALSE
