SPECIFICATION Spec
CONSTANTS
  SECSIZ = 2
  Byte = {0, 10, 13, 26, 97, 98}
  CR = 13
  LF = 10
  EOFCHAR = 26
  None = None
  MaxSector = 3
  ReadSizes = {1, 3}
  Data <- FewTexts
  Seeks <- BothEnds
  Modes = {0, 1}
  Stats = FALSE
  Rewinds = TRUE
  Faults <- NoFaults
PROPERTY SeekEndAtEnd
