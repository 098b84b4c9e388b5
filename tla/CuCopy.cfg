SPECIFICATION Spec
CONSTANTS
  BufSize = 2
  MaxBytes = 3
  MaxUnread = 3
  TakeMayTimeOut = FALSE
INVARIANTS
  CommandOwnsPort
  ConnectedMeansCopying
  WritesWhatWasRead
PROPERTY
  ImplementsCopyControl
CHECK_DEADLOCK FALSE
