CONSTANTS
  Handles = {h1, h2}
  Readers = {r1}
  Payloads = {p1}
  SyncEvery = 2
  MaxLSN = 2
SPECIFICATION Spec
INVARIANTS
  CloseSyncsCompleteRecords
