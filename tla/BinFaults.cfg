SPECIFICATION Spec
CONSTANTS
  SECSIZ = 2
  UWord = 65536
  Byte = {0, 1}
  None = None
  MaxSector = 3
  ReadSizes = {3}
  Data <- Alt4
  Seeks <- BackAndForth
  Modes = {0, 1}
  Stats = TRUE
  Faults <- FirstTwo
INVARIANTS DirtyOwned
PROPERTIES DirtyKept ReadOnlyKept
