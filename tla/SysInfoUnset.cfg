SPECIFICATION FilesSpec
CONSTANTS
  SysFiles <- SomeSysFiles
  Asked = {"s1", "s3"}
  MaxAsked = 2
  UnsetIsZero = FALSE
  Day = 3
  Days = 1
  Values = {1, 2}
  Retries = {0, 1}
  MaxStrings = 3
  FirstEnd = 1
  SignalOrder <- TwoSignals
  LogCalls = 2
  LogArrivals = 2
  WorkFiles = 2
  CommandLists <- SomeLists
  MidScan = FALSE
  Sessions = 1
  Uuxqts = {"u1", "u2"}
  XqtFiles = {"x1", "x2"}
  MaxUuxqts = 2
  XqtCrashes = 1
  Orphans = FALSE
INVARIANT SystemAsSaid
CHECK_DEADLOCK FALSE
