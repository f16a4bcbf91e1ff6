\* Two threads retire the same generation.
SPECIFICATION Spec
CONSTANTS
  p1 = p1
  p2 = p2
  e1 = e1
  e2 = e2
  r1 = r1
  r2 = r2
  Producers <- TwoProducers
  Executors <- OneExecutor
  Retirers <- TwoRetirers
  SlotCount = 1
  MaxU64 = 5
  HintRange = 1
  MaxJobs = 3
  FailingOps = {}
  SubmitOnce = TRUE
SYMMETRY Symmetric
PROPERTIES
  SequenceSteps
CHECK_DEADLOCK FALSE
