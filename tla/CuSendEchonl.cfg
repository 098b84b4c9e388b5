SPECIFICATION Spec
CONSTANTS
  Printable = {"a", "b", ">"}
  Files <- TextFiles
  Settings <- PromptModes
  cCuvar_resend = 3
  ChunkSize = 2
  NewlineEcho <- AnswerPrompt
  KillEcho <- ReturnNewline
  MaxLost = 1
  MaxUnheard = 0
  TimelyEcho = TRUE
  Signals = FALSE
INVARIANTS
  EchoesFound
CHECK_DEADLOCK FALSE
