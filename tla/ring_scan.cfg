\* Two slots, two producers scanning them, either flush may fail.
SPECIFICATION Spec
CONSTANTS
  p1 = p1
  p2 = p2
  e1 = e1
  e2 = e2
  r1 = r1
  r2 = r2
  Producers <- TwoProducers
  Executors <- OneExecutor
  Retirers <- OneRetirer
  SlotCount = 2
  MaxU64 = 3
  HintRange = 2
  MaxJobs = 1
  FailingOps = {"data", "control"}
  SubmitOnce = TRUE
SYMMETRY Symmetric
INVARIANTS
  NoFalseRingFull
CHECK_DEADLOCK FALSE
