SPECIFICATION Spec
CONSTANTS
  UserModes = {u1}
  PromptMayFail = FALSE
  TakeMayTimeOut = TRUE
  Debugging = TRUE
INVARIANTS
  TstpRemembered
  TransferCanBeInterrupted
CHECK_DEADLOCK FALSE
