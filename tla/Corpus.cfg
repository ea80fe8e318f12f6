SPECIFICATION LiveSpec
CONSTANTS
  Records <- MCRecords
  Time <- MCTime
  Parsed <- MCParsed
  OldParsed <- MCOldParsed
  FirstParsed <- MCFirstParsed
  Peer <- MCPeer
  FirstPeer <- MCFirstPeer
  NoPeer = "no peer"
  CardPage = 1
  RecordPage = 2
  CommitPage = 2
  Nonces = {1, 2, 3}
  Found <- MCFound
  MinRatings = 3
  MaxPromoted = 1
  Cases = {"c1", "c2"}
  MaxLabels = 2
  Workloads <- MCWorkloads
INVARIANTS
  TablesExact
  ReadyComplete
  RejectedNotPromoted
  ActiveSnapshot
  RouteLineage
  MemoryAsEvaluated
PROPERTIES
  OpenReturns
CHECK_DEADLOCK FALSE
