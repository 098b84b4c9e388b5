SPECIFICATION Spec
CONSTANTS
  Procs = {p1, p2, p3}
  Inodes = {i1, i2, i3, i4}
  NoFile = NoFile
  Empty = Empty
  MaxCalls = 1
  ReadOnly = {}
  Crashes = FALSE
  IOErrors = FALSE
  RetriedLinks = FALSE
  PidsReused = FALSE
  TimelyWrite = TRUE
  Signals = TRUE
INVARIANT MutualExclusion
CHECK_DEADLOCK FALSE
