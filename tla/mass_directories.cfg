\* The host may lose the never-synced directories of a fresh store.
SPECIFICATION Spec
CONSTANTS
  w1 = w1
  w2 = w2
  r1 = r1
  Writers <- TwoWriters
  Readers <- OneReader
  MaxU64 = 4
  MaxLength = 1
  MaxCrashes = 2
  DirectoriesDurable = FALSE
INVARIANTS
  AckedIsDurable
CHECK_DEADLOCK FALSE
