\* PutState of one key, then the values of the other keys.
CONSTANTS
  Bytes = {0, 1}
  HashLen = 2
  Inputs <- MC_Inputs
  Functions <- MC_Functions
  Chain <- MC_Chain
  Pruned = {}
  MaxSize = 2
  Nil = Nil
  Panic = Panic

SPECIFICATION Spec
CHECK_DEADLOCK FALSE
PROPERTY KeysDoNotAlias
