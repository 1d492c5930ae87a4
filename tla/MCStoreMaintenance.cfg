CONSTANTS
  k1 = k1
  k2 = k2
  Keys = {k1, k2}
  Configs <- MaintenanceConfigs
SPECIFICATION Spec
SYMMETRY KeySymmetry
INVARIANTS
  RecoveryExact PublicationsNeverRejected OptimizeConverges
  SchemaMatchesDocuments IteratorSnapshotRetained
PROPERTIES
  DurableDocIDsNeverReused
