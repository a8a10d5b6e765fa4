\* A root holding a record that does not decode.
CONSTANTS
  Addrs = {a1}
  Keys = {k1}
  Codes = {}
  Hashes = {h1}
  Views = {v0}
  View0 = v0
  NoCode = NoCode
  NoObj = NoObj
  Ripemd = {a1}
  Nil = Nil
  Corrupt = Corrupt
  NoErr = NoErr
  ErrRead = ErrRead
  ErrWrite = ErrWrite
  MaxBalance = 1
  MaxNonce = 1
  MaxValue = 1
  PdxValues = {0}
  Amounts = {0, 1}
  MaxJournal = 2
  MaxRevisions = 2
  MaxRefund = 1
  ReadFailures = FALSE
  WriteFailures = FALSE
  InitRecords <- MC_InitRecordsCorrupt

SPECIFICATION Spec
PROPERTY CorruptRecordSurfaces
