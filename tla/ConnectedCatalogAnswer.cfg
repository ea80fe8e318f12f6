SPECIFICATION LoadSpec
CONSTANTS
  e = e
  d1 = d1
  d2 = d2
  p = p
  q = q
  Sources = {e, d1, d2}
  Provider <- AllProviders
  Connection <- AllConnections
  Procs = {p, q}
  Servers = {q}
  WalLimit = 0
  MaxKey = 2
  MaxPages = 2
  MaxRebuild = 0
  MaxFaults = 0
INVARIANTS AnswersCurrentSources
