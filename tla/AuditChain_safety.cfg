CONSTANTS
  Transactions = {t1, t2, t3, t4}
  Serializable = {t4}
  Retention = 0
  PurgeLimit = 1
  MaxNumber = 4
  MaxClock = 2
SPECIFICATION ChainSpec
INVARIANTS
  ChainTypeOK
  FalseAlarmsHaveACause
  AnyLossIsSeen
SYMMETRY MCSymmetry
CHECK_DEADLOCK FALSE
