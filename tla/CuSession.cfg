SPECIFICATION Spec
CONSTANTS
  UserModes = {u1, u2}
  PromptMayFail = TRUE
  TakeMayTimeOut = FALSE
  Debugging = FALSE
INVARIANTS
  KeysReachRemote
  TransferCanBeInterrupted
  NoStaleInterrupt
  ChildToldToEnd
PROPERTY UsesCopyControl
CHECK_DEADLOCK FALSE
