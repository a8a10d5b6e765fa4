\* GetHistoryForKey over ranges of the two-block chain.
CONSTANTS
  Bytes = {0, 1}
  HashLen = 2
  Inputs <- MC_Inputs
  Functions <- MC_Functions
  Chain <- MC_Chain
  Pruned = {}
  MaxSize = 2
  Nil = Nil
  Panic = Panic

SPECIFICATION Spec
CHECK_DEADLOCK FALSE
PROPERTY HistoryReadable
