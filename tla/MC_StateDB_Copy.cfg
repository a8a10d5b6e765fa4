\* Three views: Copy of a view mid-transaction, and copies of copies.
CONSTANTS
  Addrs = {a1}
  Keys = {}
  Codes = {}
  Hashes = {}
  Views = {v0, v1, v2}
  View0 = v0
  NoCode = NoCode
  NoObj = NoObj
  Ripemd = {a1}
  Nil = Nil
  Corrupt = Corrupt
  NoErr = NoErr
  ErrRead = ErrRead
  ErrWrite = ErrWrite
  MaxBalance = 1
  MaxNonce = 0
  MaxValue = 1
  PdxValues = {0}
  Amounts = {1}
  MaxJournal = 1
  MaxRevisions = 0
  MaxRefund = 0
  ReadFailures = FALSE
  WriteFailures = FALSE
  InitRecords <- MC_InitRecords

SPECIFICATION SpecCopy
INVARIANT DirtyObjectsBacked
PROPERTY CopyPreservesView
