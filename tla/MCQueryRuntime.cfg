SPECIFICATION FairSpec
CONSTANTS
  q1 = q1
  q2 = q2
  None = None
  Queries = {q1, q2}
  Copies = 2
  Configs <- WritableConfigs
INVARIANTS
  TypeOK RefsExact LeasedRuntimesFrozen SnapshotsCurrent QueriesServed CloseReleasesAll
PROPERTIES
  CloseCompletes
CHECK_DEADLOCK FALSE
