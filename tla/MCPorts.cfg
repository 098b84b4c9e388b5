SPECIFICATION PortsSpec
CONSTANTS
  Files <- SomeFiles
  Stale <- Leftovers
  Eofreads <- Prompts
  LittleEndian = TRUE
  WriteErrors = TRUE
  Signals = TRUE
  Byte = {0, 1}
  CRECBUFLEN = 5
  MaxRead = 3
  MinLimit = 2
  ZeroLimit = 2
  PortNames = {"p1", "p2", "pipe", "own"}
  Lines = {"tty1", "tty2"}
  Speeds = {12, 24}
  Natural <- NaturalSettings
  OpensAtLock = TRUE
  PortFiles <- SomePortFiles
  Commands <- SomeCommands
  PipeRoom = 1
  Output = 2
INVARIANTS
  PortsTypeOK
  RoomToReceive
  TakenFile
  ConnConsistent
  LockCoversUse
  SettingsKept
  PortAsAsked
  SpawnSafe
PROPERTIES
  IsQueue
  ReadReturns
  SpawnReturns
CHECK_DEADLOCK FALSE
