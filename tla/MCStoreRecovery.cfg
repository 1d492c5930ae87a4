CONSTANTS
  k1 = k1
  k2 = k2
  Keys = {k1, k2}
  Configs <- RecoveryConfigs
SPECIFICATION Spec
SYMMETRY KeySymmetry
INVARIANTS
  TypeOK RecoveryExact
PROPERTIES
  ImplementsDurableMap ArtifactsImmutable
