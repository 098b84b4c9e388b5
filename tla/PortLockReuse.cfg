SPECIFICATION Spec
CONSTANTS
  Procs = {p1, p2}
  Inodes = {i1, i2, i3}
  NoFile = NoFile
  Empty = Empty
  MaxCalls = 2
  ReadOnly = {}
  Crashes = TRUE
  IOErrors = FALSE
  RetriedLinks = FALSE
  PidsReused = TRUE
  TimelyWrite = TRUE
  Signals = FALSE
INVARIANT NotSeenUnfinished
CHECK_DEADLOCK FALSE
