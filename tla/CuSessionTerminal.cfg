SPECIFICATION Spec
CONSTANTS
  UserModes = {u1, u2}
  PromptMayFail = FALSE
  TakeMayTimeOut = TRUE
  Debugging = TRUE
INVARIANTS
  TerminalGivenBack
  ShellOwnsTerminal
CHECK_DEADLOCK FALSE
