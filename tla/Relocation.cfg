SPECIFICATION Spec
CONSTANTS
  TextSize = 4
  DataStart = 6
  DataSize = 6
  BssSize = 4
  MAX_RELOCS = 3
  MaxProgram = 16
  UInt32 = 64
  Elfs <- MCElfs
  Tables <- MCTables
INVARIANTS TypeOK InArray TableFills PointersMoved SavedAsLoaded
CHECK_DEADLOCK FALSE
