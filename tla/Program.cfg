SPECIFICATION Spec
CONSTANTS
  Half = 16
  End = 3
  Gap = 2
  Stacks = {8, 11}
  Incrs <- MCIncrs
  Breaks = {2, 3, 6, 7, 31}
  Grows = {3}
  TailMax = 8
  ProgName <- MCProgName
  Lines <- MCLines
  Worked <- MCWorked
  Hungry <- MCHungry
  NameLen = 2
  TypeLen = 1
  PassLen = 1
  TokLen = 3
  MaxUser = 1
  Channel = {1, 2}
  Parsed <- MCParsed
  Plain <- MCPlain
  DirSize = 2
  Disks <- MCDisks
INVARIANTS TypeOK ArgvAsTyped NamesRead
PROPERTIES GrantsApart UserKept OnlyThere ServedAtHome
CHECK_DEADLOCK FALSE
