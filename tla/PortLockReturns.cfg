SPECIFICATION FairSpec
CONSTANTS
  Procs = {p1, p2}
  Inodes = {i1, i2, i3}
  NoFile = NoFile
  Empty = Empty
  MaxCalls = 2
  ReadOnly = {p1}
  Crashes = TRUE
  IOErrors = TRUE
  RetriedLinks = FALSE
  PidsReused = TRUE
  TimelyWrite = FALSE
  Signals = TRUE
PROPERTY CallsReturn
CHECK_DEADLOCK FALSE
