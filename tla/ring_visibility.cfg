\* The second of two slots: a header and two lines of payload, two generations.
SPECIFICATION Spec
CONSTANTS
  LineBytes = 2
  Word = 64
  Slot = 1
  SlotCount = 2
  SlotStride = 6
  Sizes <- FourSizes
  MaxGeneration = 1
  Absent = Absent
INVARIANTS
  VisibilityInvariant
  HeaderArrives
  SequenceNeverAheadOfData
PROPERTIES
  ImplementsSharedSlot
CHECK_DEADLOCK FALSE
