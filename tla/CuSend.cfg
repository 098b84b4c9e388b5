SPECIFICATION FairSpec
CONSTANTS
  Printable = {"a", "b"}
  Files <- Everything
  Settings <- AllModes
  cCuvar_resend = 2
  ChunkSize = 2
  NewlineEcho <- ReturnNewline
  KillEcho <- OnlyNewline
  MaxLost = 2
  MaxUnheard = 1
  TimelyEcho = TRUE
  Signals = TRUE
INVARIANTS
  ArrivesUnchanged
  EchoesFound
  EveryLineArrives
PROPERTY SendReturns
CHECK_DEADLOCK FALSE
