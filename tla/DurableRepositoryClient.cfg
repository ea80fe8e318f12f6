SPECIFICATION Spec
CONSTANTS
  None = None
  Torn = Torn
  owner = owner
  other = other
  b1 = b1
  b2 = b2
  Procs = {owner, other}
  Owner = owner
  Bodies = {b1, b2}
  Batches = 1
  MaxKeys = 2
  MaxCrashes = 2
  Client = "retrying"
SYMMETRY BodySymmetry
INVARIANTS
  NoncesUnique
  CommittedWhole
  AcksSurvive
  PublishedVisible
PROPERTIES
  RecordFixed
