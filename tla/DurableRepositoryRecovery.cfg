SPECIFICATION Spec
CONSTANTS
  None = None
  Torn = Torn
  owner = owner
  other = other
  b1 = b1
  b2 = b2
  Procs = {owner, other}
  Owner = owner
  Bodies = {b1}
  Batches = 1
  MaxKeys = 1
  MaxCrashes = 1
  Client = "product"
INVARIANTS
  RecoveryConverges
