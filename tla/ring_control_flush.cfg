\* The flush of the published header may fail.
SPECIFICATION Spec
CONSTANTS
  p1 = p1
  p2 = p2
  e1 = e1
  e2 = e2
  r1 = r1
  r2 = r2
  Producers <- OneProducer
  Executors <- OneExecutor
  Retirers <- OneRetirer
  SlotCount = 1
  MaxU64 = 3
  HintRange = 1
  MaxJobs = 2
  FailingOps = {"control"}
  SubmitOnce = TRUE
INVARIANTS
  AbandonedUnpublished
CHECK_DEADLOCK FALSE
