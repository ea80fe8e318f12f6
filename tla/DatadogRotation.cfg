SPECIFICATION Spec
CONSTANTS
  indexes = indexes
  flex = flex
  Tiers = {indexes, flex}
  Gens = {1, 2, 3}
INVARIANTS ScopeCurrent MixedServesNothing RestoredWhole ReportTrue
SYMMETRY TierSymmetry
CHECK_DEADLOCK FALSE
