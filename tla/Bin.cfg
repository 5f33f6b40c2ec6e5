SPECIFICATION TwoSpec
CONSTANTS
  SECSIZ = 2
  UWord = 65536
  Byte = {0, 1}
  None = None
  MaxSector = 3
  ReadSizes = {1, 2, 3, 4, 5}
  Data <- Data5
  Seeks <- AllSeeks
  Modes = {0, 1}
  Stats = FALSE
  Faults <- NoFaults
INVARIANTS TypeOK SeeksCoherent HiwaterCovers
PROPERTIES ImplementsByteFile
