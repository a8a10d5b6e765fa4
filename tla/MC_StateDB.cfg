\* One view: setters, the journal, revisions and Finalise, without storage failures
\* (ripemd, whose touch survives a revert, is in the failures and ripemd runs).
CONSTANTS
  Addrs = {a1}
  Keys = {k1}
  Codes = {}
  Hashes = {h1}
  Views = {v0}
  View0 = v0
  NoCode = NoCode
  NoObj = NoObj
  Ripemd = {}
  Nil = Nil
  Corrupt = Corrupt
  NoErr = NoErr
  ErrRead = ErrRead
  ErrWrite = ErrWrite
  MaxBalance = 1
  MaxNonce = 0
  MaxValue = 1
  PdxValues = {0}
  Amounts = {0, 1}
  MaxJournal = 2
  MaxRevisions = 2
  MaxRefund = 1
  ReadFailures = FALSE
  WriteFailures = FALSE
  InitRecords <- MC_InitRecords

SPECIFICATION Spec
INVARIANT TypeOK
INVARIANT CacheAgreesWithTrie
INVARIANT RevisionStackWellFormed
PROPERTY RevertRestoresSnapshot
PROPERTY FinaliseRemovesTouchedEmpty
PROPERTY ImplementsStateView
