SPECIFICATION Spec
CONSTANTS
  Procs = {p1, p2, p3}
  Inodes = {i1, i2, i3, i4}
  NoFile = NoFile
  Empty = Empty
  MaxCalls = 1
  ReadOnly = {}
  Crashes = TRUE
  IOErrors = FALSE
  RetriedLinks = TRUE
  PidsReused = FALSE
  TimelyWrite = TRUE
  Signals = FALSE
INVARIANTS MutualExclusion HolderOwnsFile NoOrphanLock
CHECK_DEADLOCK FALSE
