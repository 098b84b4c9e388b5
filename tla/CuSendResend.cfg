SPECIFICATION Spec
CONSTANTS
  Printable = {"a", "b"}
  Files <- TextFiles
  Settings <- CheckedModes
  cCuvar_resend = 2
  ChunkSize = 2
  NewlineEcho <- ReturnNewline
  KillEcho <- ReturnNewline
  MaxLost = 2
  MaxUnheard = 0
  TimelyEcho = TRUE
  Signals = FALSE
INVARIANTS
  ResendsAsOften
CHECK_DEADLOCK FALSE
