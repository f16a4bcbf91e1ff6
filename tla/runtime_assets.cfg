\* Two owners, one reader, two names.
SPECIFICATION Spec
CONSTANTS
  o1 = o1
  o2 = o2
  t1 = t1
  a = a
  b = b
  x = x
  y = y
  Owners <- TwoOwners
  Readers <- OneReader
  Names <- TwoNames
  Bytes <- TwoBytes
  Contents <- EmptyFullShort
  ChunkBytes = 2
  MaxLength = 3
SYMMETRY Symmetric
INVARIANTS
  GetIsOneVersion
  AssetsInvariant
PROPERTIES
  RefinesAssetMap
CHECK_DEADLOCK FALSE
