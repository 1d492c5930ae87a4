SPECIFICATION Spec
CONSTANTS
  q1 = q1
  q2 = q2
  None = None
  Queries = {q1, q2}
  Copies = 2
  Configs <- ReadOnlyConfigs
INVARIANTS
  BorrowedReadsMapped
CHECK_DEADLOCK FALSE
