SPECIFICATION Spec
CONSTANTS
  u1 = u1
  u2 = u2
  a = a
  b = b
  r1 = r1
  r2 = r2
  Charges = {a, b}
  Excluded = Excluded
  Requests = {r1, r2}
  NoUpload = NoUpload
  NoRequest = NoRequest
  Uploads = {u1, u2}
  ChecksumOf <- AgainChecksums
  RetentionOf <- Retentions
  RowsOf <- AgainRows
  Yields <- AnyPoint
  Faults <- AllFaults
SYMMETRY RequestSymmetry
INVARIANTS UniqueFingerprints NoGapInCopies DeletedIsGone NoOrphanSource
