SPECIFICATION Spec
CONSTANTS
  UWord = 7
  SECSIZ = 4
  Bytesized = 3
  Char = {"a", "cr", "lf", "eof", "dollar"}
  CR = "cr"
  LF = "lf"
  EOFCHAR = "eof"
  DOLLAR = "dollar"
  In = In
  Out = Out
  Lst = Lst
  Scripts <- MCScripts
  ReadSizes = {1, 2, 3, 4}
  Data <- MCData
INVARIANTS TypeOK InputKept OutputLined
