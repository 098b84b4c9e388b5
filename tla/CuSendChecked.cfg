SPECIFICATION Spec
CONSTANTS
  Printable = {"a", "b"}
  Files <- TextFiles
  Settings <- CheckedModes
  cCuvar_resend = 3
  ChunkSize = 2
  NewlineEcho <- ReturnNewline
  KillEcho <- ReturnNewline
  MaxLost = 3
  MaxUnheard = 0
  TimelyEcho = TRUE
  Signals = TRUE
PROPERTIES
  IsLineTransfer
CHECK_DEADLOCK FALSE
