SPECIFICATION LiveSpec
CONSTANTS
  a = a
  b = b
  Records = {a, b}
  Ts <- HalvedTs
  PageSize = 1
  InitWidth = 4
  Lookback = 1
  Day = 1
  MaxSyncPages = 5
  MaxPartitionPages = 1
  MaxSweepPages = 2
  FirstClock = 4
  MaxClock = 6
  SettleBy = 4
  MaxDisturbances = 3
INVARIANTS CheckpointSound SweepCursorBehind ReceiptsBackedByCheckpoint
PROPERTIES Monotone ImplementsReplica EventuallyStored
CHECK_DEADLOCK FALSE
