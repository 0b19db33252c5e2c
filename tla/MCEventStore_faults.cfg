SPECIFICATION FairSpec
CONSTANTS
  N = 3
  Size <- Mixed
  Ignite <- FirstForeign
  OverflowSize = 1
  MaxIn = 3
  MaxSize = 3
  Window = 1
  AvgSize = 1
  MaxInTxn = 2
  Word = 16
  MaxFaults = 2
CHECK_DEADLOCK FALSE
INVARIANTS TypeOK Accounted TxnInv AtMostOneTxnAtRisk SizeTellsEmpty
PROPERTIES Stores AdmitsWithinLimit Settles
