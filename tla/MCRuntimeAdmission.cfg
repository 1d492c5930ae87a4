CONSTANTS
  Tasks = {t1, t2, t3}
  Limits = {0, 2}
  Amounts = {1, 2, 3}
  Slots <- TwoQueries
  MaxMemory = 4
  MaxCalls = 4
SPECIFICATION Spec
CHECK_DEADLOCK FALSE
INVARIANTS
  TypeOK
  AccountsExact
  NoLostWakeUp
PROPERTIES
  CallsEnd
