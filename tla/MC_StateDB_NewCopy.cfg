\* NewCopy of a view, then operations on either one.
CONSTANTS
  Addrs = {a1}
  Keys = {}
  Codes = {}
  Hashes = {}
  Views = {v0, v1}
  View0 = v0
  NoCode = NoCode
  NoObj = NoObj
  Ripemd = {a1}
  Nil = Nil
  Corrupt = Corrupt
  NoErr = NoErr
  ErrRead = ErrRead
  ErrWrite = ErrWrite
  MaxBalance = 1
  MaxNonce = 1
  MaxValue = 1
  PdxValues = {0}
  Amounts = {0, 1}
  MaxJournal = 2
  MaxRevisions = 0
  MaxRefund = 1
  ReadFailures = FALSE
  WriteFailures = FALSE
  InitRecords <- MC_InitRecords

SPECIFICATION SpecNewCopy
PROPERTY ViewsIndependent
