SPECIFICATION Spec
CONSTANTS
  BufSize = 2
  MaxBytes = 2
  MaxUnread = 2
  TakeMayTimeOut = FALSE
INVARIANT
  ShownInOrder
CHECK_DEADLOCK FALSE
