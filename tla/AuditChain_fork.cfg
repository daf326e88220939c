CONSTANTS
  Transactions = {t1, t2, t3}
  Serializable = {}
  Retention = 0
  PurgeLimit = 1
  MaxNumber = 3
  MaxClock = 0
SPECIFICATION ChainSpec
INVARIANTS
  NoFork
SYMMETRY MCSymmetry
CHECK_DEADLOCK FALSE
