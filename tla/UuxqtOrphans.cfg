SPECIFICATION XqtSpec
CONSTANTS
  Uuxqts = {"u1", "u2"}
  XqtFiles = {"x1", "x2"}
  MaxUuxqts = 2
  XqtCrashes = 1
  Orphans = TRUE
INVARIANT UuxqtsApart
CHECK_DEADLOCK FALSE
