SPECIFICATION Spec
CONSTANTS
  N = 4
  Size <- Mixed
  Ignite <- AllIgnite
  OverflowSize = 1
  MaxIn = 9
  MaxSize = 6
  Window = 1
  AvgSize = 1
  MaxInTxn = 2
  Word = 64
  MaxFaults = 0
INVARIANT SizeIsReal
CHECK_DEADLOCK FALSE
