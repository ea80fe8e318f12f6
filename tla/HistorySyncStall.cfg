SPECIFICATION BacklogSpec
CONSTANTS
  a = a
  b = b
  Records = {a, b}
  Ts <- DenseTs
  PageSize = 1
  InitWidth = 16
  Lookback = 1
  Day = 1
  MaxSyncPages = 4
  MaxPartitionPages = 1
  MaxSweepPages = 1
  FirstClock = 16
  MaxClock = 18
  SettleBy = 0
  MaxDisturbances = 0
PROPERTIES BackfillAdvances
CHECK_DEADLOCK FALSE
