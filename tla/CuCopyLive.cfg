SPECIFICATION FairSpec
CONSTANTS
  BufSize = 2
  MaxBytes = 2
  MaxUnread = 2
  TakeMayTimeOut = TRUE
PROPERTIES
  CopyCallsReturn
  FinishReturns
CHECK_DEADLOCK FALSE
