SPECIFICATION Spec
CONSTANTS
  UserModes = {u1}
  PromptMayFail = TRUE
  TakeMayTimeOut = FALSE
  Debugging = FALSE
INVARIANT TerminalGivenBack
CHECK_DEADLOCK FALSE
