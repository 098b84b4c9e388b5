SPECIFICATION Spec
CONSTANTS
  BufSize = 1
  MaxBytes = 1
  MaxUnread = 1
  TakeMayTimeOut = TRUE
INVARIANT
  ConnectedMeansCopying
CHECK_DEADLOCK FALSE
