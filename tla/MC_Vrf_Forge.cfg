CONSTANTS
  P <- MCP
  B <- MCB
  N <- MCN
  G <- MCG
  Bits <- MCBits
  Keys <- MCKeys
  Msgs <- MCMsgs
  ForgeScalars <- MCAnyScalars
  Nil = Nil
  Panic = Panic
SPECIFICATION Spec
INVARIANT VerifierNeverPanics
