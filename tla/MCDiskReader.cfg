SPECIFICATION FairSpec
CONSTANTS
  Readers = {1, 2, 3}
  Rings = {r1, r2}
  Configs <- MCConfigs
  MaxRequests = 2
  MaxTries = 1
  MaxFaults = 1
  None = None
INVARIANTS
  TypeOK KernelOwnsStaging ReadReturnsOwnData PoolExact
PROPERTIES
  ReadsEnd
CHECK_DEADLOCK FALSE
