SPECIFICATION FairSpec
CONSTANTS
  Readers = {1, 2, 3}
  Rings = {r1, r2}
  Configs <- MCFallback
  MaxRequests = 2
  MaxTries = 1
  MaxFaults = 1
  None = None
PROPERTIES
  RuntimeErrorClosesEveryRing
CHECK_DEADLOCK FALSE
