SPECIFICATION LoadSpec
CONSTANTS
  e = e
  d1 = d1
  d2 = d2
  p = p
  q = q
  Sources = {e, d1, d2}
  Provider <- AllProviders
  Connection <- AllConnections
  Procs = {p, q}
  Servers = {q}
  WalLimit = 0
  MaxKey = 3
  MaxPages = 2
  MaxRebuild = 1
  MaxFaults = 2
INVARIANTS
  CorpusOpens
  CredentialListed
  DeliversCurrentSources
  CoverageMatchesSnapshot
PROPERTIES CommandsEnd
