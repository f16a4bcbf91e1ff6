\* Two writers, one reader, three object IDs, two crashes.
SPECIFICATION Spec
CONSTANTS
  w1 = w1
  w2 = w2
  r1 = r1
  Writers <- TwoWriters
  Readers <- OneReader
  MaxU64 = 4
  MaxLength = 1
  MaxCrashes = 2
  DirectoriesDurable = TRUE
SYMMETRY Symmetric
INVARIANTS
  AckedIsDurable
  AcceptedReadsSucceed
  StoreInvariant
PROPERTIES
  PublishedObjectsStay
  RefinesImmutableStore
CHECK_DEADLOCK FALSE
