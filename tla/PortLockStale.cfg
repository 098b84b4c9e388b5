SPECIFICATION FairSpec
CONSTANTS
  Procs = {p1, p2, p3}
  Inodes = {i1, i2, i3}
  NoFile = NoFile
  Empty = Empty
  MaxCalls = 1
  ReadOnly = {p1}
  Crashes = FALSE
  IOErrors = FALSE
  RetriedLinks = TRUE
  PidsReused = FALSE
  TimelyWrite = FALSE
  Signals = TRUE
PROPERTY StaleLockBroken
CHECK_DEADLOCK FALSE
