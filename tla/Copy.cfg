SPECIFICATION Spec
CONSTANTS
  SECSIZ = 2
  UWord = 65536
  Byte = {0, 1}
  None = None
  MaxSector = 3
  Chunks = {1, 2, 3, 5}
  Faults = {{}, {0}, {1}}
INVARIANTS TypeOK AssertionsHold Copied SourceKept
PROPERTIES Terminates
CHECK_DEADLOCK FALSE
