SPECIFICATION Spec
CONSTANTS
  SECSIZ = 2
  UWord = 65536
  Byte = {0, 1}
  None = None
  MaxSector = 2
  ReadSizes = {1, 2}
  Data <- Single
  Seeks <- Rewind
  Modes = {0, 1}
  Stats = FALSE
  Faults <- NoFaults
PROPERTY ReadsWhatIsThere
