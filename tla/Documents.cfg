SPECIFICATION FairIntake
CONSTANTS
  Uploads = {1, 2}
  Reviews = {r1, r2}
  Sources = {"d1"}
  Faults = {"unlink", "database", "crash"}
  NoUpload = 0
  NoSource = "no source"
  Files = {f1, f2}
  MaxFiles = 2
  Bytes <- SameBytes
INVARIANTS OneRowPerDocument NoOrphanSource SourceKept SourcesSettle OneAtATime CompleteIsReviewable
PROPERTIES RefinesLedger RunsEnd
