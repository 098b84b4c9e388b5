SPECIFICATION TableSpec
CONSTANTS
  MaxCalls = 6
INVARIANTS
  RunsWhatIsAsked
CHECK_DEADLOCK FALSE
