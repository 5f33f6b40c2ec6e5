SPECIFICATION Spec
CONSTANTS
  SECSIZ = 2
  Byte = {0, 10, 13, 26, 97, 98}
  CR = 13
  LF = 10
  EOFCHAR = 26
  None = None
  MaxSector = 3
  ReadSizes = {3}
  Data <- FewTexts
  Seeks <- Rewind
  Modes = {1}
  Stats = TRUE
  Rewinds = TRUE
  Faults <- SecondBad
INVARIANT DirtyOwned
PROPERTIES CountedIsWritten DirtyKept
