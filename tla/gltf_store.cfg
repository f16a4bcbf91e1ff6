\* Two revisions, the first perhaps from an old database; two derivers of one name.
SPECIFICATION Spec
CONSTANTS
  a1 = a1
  a2 = a2
  t1 = t1
  t2 = t2
  x = x
  y = y
  mesh = mesh
  Assets <- TwoAssets
  Documents <- PoseAndVertices
  Names <- OneName
  Provenances <- TwoProvenances
  Artefacts <- ThreeArtefacts
  Derivers <- TwoDerivers
  Verdicts <- ThreeVerdicts
  Bytes <- TwoBytes
  ChunkBytes = 2
  MaxLength = 3
  MaxRevision = 2
  MaxDecisions = 1
SYMMETRY Symmetric
INVARIANTS
  BlobsAreExact
  ReferencesResolve
  LatestIsLast
  EveryRecordTracked
  DecisionsStay
  AnswersAreTrue
  GltfInvariant
PROPERTIES
  RevisionsStay
  RefinesImmutableStore
CHECK_DEADLOCK FALSE
