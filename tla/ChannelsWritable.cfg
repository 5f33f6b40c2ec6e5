SPECIFICATION Spec
CONSTANTS
  MAXCCBS = 3
  File = {f1, f2}
  BadName = bad
  CON = con
  LST = lst
  NoFile = nofile
  DirSize = 1
INVARIANT WritableAsAsked
CHECK_DEADLOCK TRUE
