SPECIFICATION Spec
CONSTANTS
  SECSIZ = 2
  Byte = {0, 10, 13, 26, 97, 98}
  CR = 13
  LF = 10
  EOFCHAR = 26
  None = None
  MaxSector = 3
  ReadSizes = {0, 1, 3}
  Data <- Texts
  Seeks <- BothEnds
  Modes = {0, 1}
  Stats = FALSE
  Rewinds = FALSE
  Faults <- NoFaults
INVARIANTS TypeOK
PROPERTIES ImplementsTextFile
