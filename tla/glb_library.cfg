\* Two threads dump three GLBs under two asset IDs; one loads the parts.
SPECIFICATION Spec
CONSTANTS
  w1 = w1
  w2 = w2
  r1 = r1
  a = a
  j1 = j1
  j2 = j2
  b1 = b1
  NoRow = NoRow
  Writers <- TwoWriters
  Readers <- OneReader
  Letters <- OneLetter
  Spellings <- SixSpellings
  Glbs <- ThreeGlbs
SYMMETRY Symmetric
INVARIANTS
  PartsAgree
  ReadsAgree
  SpellingsFindAssets
CHECK_DEADLOCK FALSE
