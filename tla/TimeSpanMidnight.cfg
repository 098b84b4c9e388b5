SPECIFICATION SpanSpec
CONSTANTS
  Day = 3
  Days = 1
  Values = {1, 2}
  Retries = {0, 1}
  MaxStrings = 3
  FirstEnd = 0
INVARIANT SpansMean
CHECK_DEADLOCK FALSE
