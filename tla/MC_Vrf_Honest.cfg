CONSTANTS
  P <- MCP
  B <- MCB
  N <- MCN
  G <- MCG
  Bits <- MCBits
  Keys <- MCKeys
  Msgs <- MCMsgs
  ForgeScalars <- MCCanonicalScalars
  Nil = Nil
  Panic = Panic
SPECIFICATION Spec
PROPERTY HonestProofsVerify
