CONSTANTS
  k1 = k1
  k2 = k2
  Keys = {k1, k2}
  Configs <- PruneConfigs
SPECIFICATION Spec
SYMMETRY KeySymmetry
INVARIANTS
  PruneHarmless
