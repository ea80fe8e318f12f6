SPECIFICATION BothSpec
CONSTANTS
  None = None
  Torn = Torn
  owner = owner
  other = other
  b1 = b1
  b2 = b2
  Records = 3
  Bodies = {b1, b2}
  Size <- Sizes
  PageRecords = 2
  PageBytes = 2
  PackFrames = 2
  PackRecords = 3
  PackBytes = 2
  RecordInterval = 2
  ByteInterval = 4
  MaxCrashes = 2
INVARIANTS
  PackedNoncesUnique
  ResumeFindsAll
  RefusedForOnePack
  AcksSynced
  NeverCorrupt
PROPERTIES
  KeyFirst
  ExpiredErased
