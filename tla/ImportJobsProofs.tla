-------------------------- MODULE ImportJobsProofs --------------------------
(***************************************************************************)
(* What TLAPS proves of ImportJobs, for every number of statements and of  *)
(* requests, every content and every choice of Yields and Faults.          *)
(***************************************************************************)
EXTENDS ImportJobs, FiniteSetTheorems, TLAPS

-----------------------------------------------------------------------------
(* Numbering the rows.                                                     *)

\* A row's occurrence number is a natural number.
LEMMA OccurrenceType ==
  ASSUME NEW rows, NEW i \in Nat
  PROVE  Occurrence(rows, i) \in Nat
<1> DEFINE S == {j \in 1..i : rows[j] = rows[i]}
<1>1. IsFiniteSet(1..i) /\ S \in SUBSET (1..i)
  BY FS_Interval
<1>2. IsFiniteSet(S)
  BY <1>1, FS_Subset
<1> QED
  BY <1>2, FS_CardinalityType DEF Occurrence

\* Whatever the form posts, its fingerprints are pairs of a charge and a number.
LEMMA FingerprintsType ==
  ASSUME NEW u \in Uploads, NEW edits \in RowEdits(RowsOf[u])
  PROVE  FingerprintTransactions(edits) \subseteq Charges \X Nat
<1>1. DOMAIN RowsOf[u] \subseteq Nat
  BY ImportAssumption
<1>2. edits \in [DOMAIN RowsOf[u] -> Charges \cup {Excluded}]
  BY DEF RowEdits
<1>3. ASSUME NEW i \in Included(edits)
      PROVE  Fingerprint(edits, i) \in Charges \X Nat
  <2>1. i \in Nat /\ edits[i] \in Charges
    BY <1>1, <1>2 DEF Included
  <2> QED
    BY <2>1, OccurrenceType DEF Fingerprint
<1> QED
  BY <1>3 DEF FingerprintTransactions

-----------------------------------------------------------------------------
(* Type correctness.                                                       *)

LEMMA NoSuchUpload == NoUpload \notin Uploads
BY ImportAssumption

\* The records a handler can be in are handler records.
LEMMA HandlerTypes ==
  /\ Idle \in Handlers
  /\ \A p \in Points, u \in Uploads, s \in Statuses \cup {"none"} :
       Holding(p, u, s) \in Handlers
BY DEF Idle, Holding, Handlers, Points, UploadPoints, LoopPoints

LEMMA InitType == Init => TypeOK
BY HandlerTypes DEF Init, TypeOK, TablesOK, HandlersOK, Idle

\* Unlinking moves its handler on or ends it: the handlers stay well formed.
LEMMA UnlinkHandlers ==
  ASSUME TypeOK, NEW r \in Requests, NEW p \in LoopPoints, NEW gone, NEW stuck,
         gone \in {Moved(r, q) : q \in LoopPoints},
         stuck \in {Moved(r, q) : q \in LoopPoints} \cup {Idle},
         Unlink(r, p, gone, stuck)
  PROVE  HandlersOK'
<1>1. req[r].job \in Uploads /\ req[r].seen \in Statuses \cup {"none"}
  BY DEF TypeOK, HandlersOK, Handlers, Unlink, LoopPoints, Idle
<1>2. ASSUME NEW next \in {Moved(r, q) : q \in LoopPoints} \cup {Idle},
             Step(r, p, next)
      PROVE  HandlersOK'
  <2>1. next \in Handlers
    BY <1>1, <1>2, HandlerTypes DEF Moved, Points
  <2>2. IF next.at = "idle" THEN next = Idle ELSE next.job \in Uploads
    BY <1>1, <1>2 DEF Moved, Holding, Idle, LoopPoints
  <2>3. req' = [req EXCEPT ![r] = next] /\ turn' \in {NoRequest, r}
    BY <1>2 DEF Step
  <2> QED
    BY <2>1, <2>2, <2>3 DEF TypeOK, HandlersOK
<1> QED
  BY <1>2 DEF Unlink

\* Every step keeps TypeOK: one step of the proof per action of a handler.
LEMMA AdvanceType ==
  ASSUME TypeOK, NEW r \in Requests, Advance(r)
  PROVE  TypeOK'
<1> USE NoSuchUpload DEF TypeOK, TablesOK, HandlersOK, Step, ThreadStep,
            Handlers, Idle, Holding, Moved,
            Points, UploadPoints, LoopPoints, Statuses, Active, Committed, Canceled
<1>1. CASE ResumeExisting(r)
  BY <1>1 DEF ResumeExisting, DiscardUpload
<1>2. CASE RejectSource(r)
  BY <1>2 DEF RejectSource, DiscardUpload
<1>3. CASE InsertFails(r)
  BY <1>3 DEF InsertFails, DiscardUpload
<1>4. CASE MatchNothing(r)
  BY <1>4 DEF MatchNothing
<1>5. CASE InsertJob(r)
  <2>1. TablesOK'
    BY <1>5 DEF InsertJob
  <2>2. HandlersOK'
    BY <1>5 DEF InsertJob
  <2> QED
    BY <2>1, <2>2
<1>6. CASE RefuseMapping(r)
  BY <1>6 DEF RefuseMapping
<1>7. CASE ReadForMapping(r)
  BY <1>7 DEF ReadForMapping
<1>8. CASE WriteMapping(r)
  BY <1>8 DEF WriteMapping
<1>9. CASE RefuseCommit(r)
  BY <1>9 DEF RefuseCommit
<1>10. CASE Post(r)
  <2>1. TablesOK'
    BY <1>10 DEF Post
  <2>2. HandlersOK'
    BY <1>10 DEF Post
  <2> QED
    BY <2>1, <2>2
<1>11. CASE PostConflict(r)
  BY <1>11 DEF PostConflict
<1>12. CASE KeepSource(r)
  BY <1>12 DEF KeepSource
<1>13. CASE DeleteCommitted(r)
  <2>1. TablesOK'
    BY <1>13 DEF DeleteCommitted, Unlink
  <2>2. HandlersOK'
    BY <1>13, UnlinkHandlers DEF DeleteCommitted
  <2> QED
    BY <2>1, <2>2
<1>14. CASE RecordCommittedGone(r)
  BY <1>14 DEF RecordCommittedGone
<1>15. CASE RecordCommittedStuck(r)
  BY <1>15 DEF RecordCommittedStuck
<1>16. CASE CancelWithoutSource(r)
  BY <1>16 DEF CancelWithoutSource
<1>17. CASE DeleteCanceled(r)
  <2>1. TablesOK'
    BY <1>17 DEF DeleteCanceled, Unlink
  <2>2. HandlersOK'
    BY <1>17, UnlinkHandlers DEF DeleteCanceled
  <2> QED
    BY <2>1, <2>2
<1>18. CASE RecordCanceledGone(r)
  BY <1>18 DEF RecordCanceledGone
<1>19. CASE RecordCanceledStuck(r)
  BY <1>19 DEF RecordCanceledStuck
<1>20. CASE RetryWithoutSource(r)
  BY <1>20 DEF RetryWithoutSource, FinalStatus
<1>21. CASE DeleteAgain(r)
  <2>1. TablesOK'
    BY <1>21 DEF DeleteAgain, Unlink
  <2>2. HandlersOK'
    BY <1>21, UnlinkHandlers DEF DeleteAgain
  <2> QED
    BY <2>1, <2>2
<1>22. CASE RecordRetry(r)
  BY <1>22 DEF RecordRetry, FinalStatus
<1>23. CASE DatabaseFails(r)
  BY <1>23 DEF DatabaseFails, WritePoints
<1>24. CASE PrepareAny(r)
  <2>1. req[r].job \in Uploads
    BY <1>24 DEF PrepareAny
  <2>2. PICK edits \in RowEdits(RowsOf[req[r].job]) : PrepareCommit(r, edits)
    BY <1>24 DEF PrepareAny
  <2>3. NewFingerprints(edits) \subseteq Charges \X Nat
    BY <2>1, <2>2, FingerprintsType DEF NewFingerprints
  <2> QED
    BY <2>2, <2>3 DEF PrepareCommit
<1> QED
  BY <1>1, <1>2, <1>3, <1>4, <1>5, <1>6, <1>7, <1>8, <1>9, <1>10, <1>11, <1>12, <1>13, <1>14, <1>15, <1>16, <1>17, <1>18, <1>19, <1>20, <1>21, <1>22, <1>23, <1>24 DEF Advance, Upload, Map, Commit, Cancel, Retry

LEMMA StartType ==
  ASSUME TypeOK, NEW r \in Requests, NEW u \in Uploads, Start(r, u)
  PROVE  TypeOK'
<1> USE NoSuchUpload DEF TypeOK, TablesOK, HandlersOK, Step, ThreadStep,
            Handlers, Idle, Holding, Moved,
            Points, UploadPoints, LoopPoints, Statuses, Active, Committed, Canceled,
            CleanupFailed
<1>1. CASE SaveUpload(r, u)
  BY <1>1 DEF SaveUpload
<1>2. CASE LoadForMapping(r, u)
  BY <1>2 DEF LoadForMapping
<1>3. CASE LoadForCommit(r, u)
  BY <1>3 DEF LoadForCommit
<1>4. CASE LoadForCancel(r, u)
  BY <1>4 DEF LoadForCancel
<1>5. CASE LoadForRetry(r, u)
  BY <1>5 DEF LoadForRetry
<1> QED
  BY <1>1, <1>2, <1>3, <1>4, <1>5 DEF Start

LEMMA CrashType == TypeOK /\ Crash => TypeOK'
BY DEF TypeOK, TablesOK, HandlersOK, Crash, Handlers, Idle, Points

LEMMA NextType == TypeOK /\ [Next]_vars => TypeOK'
<1>1. TypeOK /\ UNCHANGED vars => TypeOK'
  BY DEF TypeOK, TablesOK, HandlersOK, vars
<1> QED
  BY <1>1, AdvanceType, StartType, CrashType DEF Next

\* TypeOK holds in every reachable state.
THEOREM TypeCorrect == Spec => []TypeOK
BY InitType, NextType, PTL DEF Spec

-----------------------------------------------------------------------------
(* Unique fingerprints.                                                    *)

\* No interleaving of commits gives two transactions the same fingerprint.
THEOREM FingerprintsUnique == Spec => []UniqueFingerprints
<1>1. Init => UniqueFingerprints
  BY DEF Init, UniqueFingerprints
<1>2. UniqueFingerprints /\ [Next]_vars => UniqueFingerprints'
  <2> SUFFICES ASSUME UniqueFingerprints, [Next]_vars
               PROVE  UniqueFingerprints'
    OBVIOUS
  <2>1. ASSUME NEW r \in Requests, Post(r)
        PROVE  UniqueFingerprints'
    BY <2>1 DEF Post, UniqueConstraintHolds, Known, UniqueFingerprints
  <2>2. CASE UNCHANGED ledger
    BY <2>2 DEF UniqueFingerprints
  <2>3. ASSUME NEW r \in Requests, Advance(r), ~Post(r)
        PROVE  UNCHANGED ledger
    BY <2>3 DEF Advance, Upload, Map, Commit, Cancel, Retry, ResumeExisting, RejectSource, InsertFails, MatchNothing, InsertJob, RefuseMapping, ReadForMapping, WriteMapping, RefuseCommit, PostConflict, KeepSource, DeleteCommitted, RecordCommittedGone, RecordCommittedStuck, CancelWithoutSource, DeleteCanceled, RecordCanceledGone, RecordCanceledStuck, RetryWithoutSource, DeleteAgain, RecordRetry, DatabaseFails, PrepareAny, DiscardUpload, Unlink, PrepareCommit
  <2>4. ASSUME NEW r \in Requests, NEW u \in Uploads, Start(r, u)
        PROVE  UNCHANGED ledger
    BY <2>4 DEF Start, SaveUpload, LoadForMapping, LoadForCommit, LoadForCancel, LoadForRetry
  <2> QED
    BY <2>1, <2>2, <2>3, <2>4 DEF Next, Crash, vars
<1> QED
  BY <1>1, <1>2, PTL DEF Spec

-----------------------------------------------------------------------------
(* The deleted flag.                                                       *)

\* A handler past a successful unlink still finds the file gone.
GoneInv ==
  /\ DeletedIsGone
  /\ \A r \in Requests :
       req[r].at \in {"sourceGone", "cancelGone", "retryGone"} =>
         file[req[r].job] = "gone"

LEMMA GoneAdvance ==
  ASSUME TypeOK, GoneInv, NEW r \in Requests, Advance(r)
  PROVE  GoneInv'
<1> USE NoSuchUpload DEF TypeOK, TablesOK, HandlersOK, Step, ThreadStep,
            Handlers, Idle, Holding, Moved,
            Points, UploadPoints, LoopPoints,
            GoneInv, DeletedIsGone
<1>1. CASE ResumeExisting(r)
  BY <1>1 DEF ResumeExisting, DiscardUpload
<1>2. CASE RejectSource(r)
  BY <1>2 DEF RejectSource, DiscardUpload
<1>3. CASE InsertFails(r)
  BY <1>3 DEF InsertFails, DiscardUpload
<1>4. CASE MatchNothing(r)
  BY <1>4 DEF MatchNothing
<1>5. CASE InsertJob(r)
  BY <1>5 DEF InsertJob
<1>6. CASE RefuseMapping(r)
  BY <1>6 DEF RefuseMapping
<1>7. CASE ReadForMapping(r)
  BY <1>7 DEF ReadForMapping
<1>8. CASE WriteMapping(r)
  BY <1>8 DEF WriteMapping
<1>9. CASE RefuseCommit(r)
  BY <1>9 DEF RefuseCommit
<1>10. CASE Post(r)
  BY <1>10 DEF Post
<1>11. CASE PostConflict(r)
  BY <1>11 DEF PostConflict
<1>12. CASE KeepSource(r)
  BY <1>12 DEF KeepSource
<1>13. CASE DeleteCommitted(r)
  BY <1>13 DEF DeleteCommitted, Unlink
<1>14. CASE RecordCommittedGone(r)
  BY <1>14 DEF RecordCommittedGone
<1>15. CASE RecordCommittedStuck(r)
  BY <1>15 DEF RecordCommittedStuck
<1>16. CASE CancelWithoutSource(r)
  BY <1>16 DEF CancelWithoutSource
<1>17. CASE DeleteCanceled(r)
  BY <1>17 DEF DeleteCanceled, Unlink
<1>18. CASE RecordCanceledGone(r)
  BY <1>18 DEF RecordCanceledGone
<1>19. CASE RecordCanceledStuck(r)
  BY <1>19 DEF RecordCanceledStuck
<1>20. CASE RetryWithoutSource(r)
  BY <1>20 DEF RetryWithoutSource
<1>21. CASE DeleteAgain(r)
  BY <1>21 DEF DeleteAgain, Unlink
<1>22. CASE RecordRetry(r)
  BY <1>22 DEF RecordRetry
<1>23. CASE DatabaseFails(r)
  BY <1>23 DEF DatabaseFails, WritePoints
<1>24. CASE PrepareAny(r)
  BY <1>24 DEF PrepareAny, PrepareCommit
<1> QED
  BY <1>1, <1>2, <1>3, <1>4, <1>5, <1>6, <1>7, <1>8, <1>9, <1>10, <1>11, <1>12, <1>13, <1>14, <1>15, <1>16, <1>17, <1>18, <1>19, <1>20, <1>21, <1>22, <1>23, <1>24 DEF Advance, Upload, Map, Commit, Cancel, Retry

LEMMA GoneStart ==
  ASSUME TypeOK, GoneInv, NEW r \in Requests, NEW u \in Uploads, Start(r, u)
  PROVE  GoneInv'
<1> USE NoSuchUpload DEF TypeOK, TablesOK, HandlersOK, Step, ThreadStep,
            Handlers, Idle, Holding, Moved,
            Points, UploadPoints, LoopPoints,
            GoneInv, DeletedIsGone
<1>1. CASE SaveUpload(r, u)
  BY <1>1 DEF SaveUpload
<1>2. CASE LoadForMapping(r, u)
  BY <1>2 DEF LoadForMapping
<1>3. CASE LoadForCommit(r, u)
  BY <1>3 DEF LoadForCommit
<1>4. CASE LoadForCancel(r, u)
  BY <1>4 DEF LoadForCancel
<1>5. CASE LoadForRetry(r, u)
  BY <1>5 DEF LoadForRetry
<1> QED
  BY <1>1, <1>2, <1>3, <1>4, <1>5 DEF Start

\* A source recorded as deleted is off the disk, in every interleaving.
THEOREM DeletedIsTruthful == Spec => []DeletedIsGone
<1>1. Init => GoneInv
  BY DEF Init, Idle, TypeOK, TablesOK, HandlersOK, Step, ThreadStep, Handlers, Idle, Holding, Moved,
            Points, UploadPoints, LoopPoints,
            GoneInv, DeletedIsGone
<1>2. TypeOK /\ GoneInv /\ [Next]_vars => GoneInv'
  <2>1. TypeOK /\ GoneInv /\ Crash => GoneInv'
    BY DEF Crash, TypeOK, TablesOK, HandlersOK, Step, ThreadStep,
            Handlers, Idle, Holding, Moved,
            Points, UploadPoints, LoopPoints,
            GoneInv, DeletedIsGone
  <2>2. TypeOK /\ GoneInv /\ UNCHANGED vars => GoneInv'
    BY DEF vars, TypeOK, TablesOK, HandlersOK, Step, ThreadStep,
            Handlers, Idle, Holding, Moved,
            Points, UploadPoints, LoopPoints,
            GoneInv, DeletedIsGone
  <2> QED
    BY <2>1, <2>2, GoneAdvance, GoneStart DEF Next
<1>3. GoneInv => DeletedIsGone
  BY DEF GoneInv
<1> QED
  BY <1>1, <1>2, <1>3, TypeCorrect, PTL DEF Spec

-----------------------------------------------------------------------------
(* Ownership of private files.                                             *)

\* Only an upload handler works on a statement that has no job row yet.
OwnedInv ==
  /\ NoOrphanSource
  /\ \A r \in Requests : req[r].at \in LoopPoints => status[req[r].job] # "none"

LEMMA OwnedAdvance ==
  ASSUME TypeOK, OwnedInv, NEW r \in Requests, Advance(r)
  PROVE  OwnedInv'
<1> USE NoSuchUpload DEF TypeOK, TablesOK, HandlersOK, Step, ThreadStep,
            Handlers, Idle, Holding, Moved,
            Points, UploadPoints, LoopPoints,
            Statuses, Active, Committed, Canceled, CleanupFailed, FinalStatus,
            OwnedInv, NoOrphanSource,
            InFlight
<1>1. CASE ResumeExisting(r)
  BY <1>1 DEF ResumeExisting, DiscardUpload
<1>2. CASE RejectSource(r)
  BY <1>2 DEF RejectSource, DiscardUpload
<1>3. CASE InsertFails(r)
  BY <1>3 DEF InsertFails, DiscardUpload
<1>4. CASE MatchNothing(r)
  BY <1>4 DEF MatchNothing
<1>5. CASE InsertJob(r)
  BY <1>5 DEF InsertJob
<1>6. CASE RefuseMapping(r)
  BY <1>6 DEF RefuseMapping
<1>7. CASE ReadForMapping(r)
  BY <1>7 DEF ReadForMapping
<1>8. CASE WriteMapping(r)
  BY <1>8 DEF WriteMapping
<1>9. CASE RefuseCommit(r)
  BY <1>9 DEF RefuseCommit
<1>10. CASE Post(r)
  BY <1>10 DEF Post
<1>11. CASE PostConflict(r)
  BY <1>11 DEF PostConflict
<1>12. CASE KeepSource(r)
  BY <1>12 DEF KeepSource
<1>13. CASE DeleteCommitted(r)
  BY <1>13 DEF DeleteCommitted, Unlink
<1>14. CASE RecordCommittedGone(r)
  BY <1>14 DEF RecordCommittedGone
<1>15. CASE RecordCommittedStuck(r)
  BY <1>15 DEF RecordCommittedStuck
<1>16. CASE CancelWithoutSource(r)
  BY <1>16 DEF CancelWithoutSource
<1>17. CASE DeleteCanceled(r)
  BY <1>17 DEF DeleteCanceled, Unlink
<1>18. CASE RecordCanceledGone(r)
  BY <1>18 DEF RecordCanceledGone
<1>19. CASE RecordCanceledStuck(r)
  BY <1>19 DEF RecordCanceledStuck
<1>20. CASE RetryWithoutSource(r)
  BY <1>20 DEF RetryWithoutSource
<1>21. CASE DeleteAgain(r)
  BY <1>21 DEF DeleteAgain, Unlink
<1>22. CASE RecordRetry(r)
  BY <1>22 DEF RecordRetry
<1>23. CASE DatabaseFails(r)
  BY <1>23 DEF DatabaseFails, WritePoints
<1>24. CASE PrepareAny(r)
  BY <1>24 DEF PrepareAny, PrepareCommit
<1> QED
  BY <1>1, <1>2, <1>3, <1>4, <1>5, <1>6, <1>7, <1>8, <1>9, <1>10, <1>11, <1>12, <1>13, <1>14, <1>15, <1>16, <1>17, <1>18, <1>19, <1>20, <1>21, <1>22, <1>23, <1>24 DEF Advance, Upload, Map, Commit, Cancel, Retry

LEMMA OwnedStart ==
  ASSUME TypeOK, OwnedInv, NEW r \in Requests, NEW u \in Uploads, Start(r, u)
  PROVE  OwnedInv'
<1> USE NoSuchUpload DEF TypeOK, TablesOK, HandlersOK, Step, ThreadStep,
            Handlers, Idle, Holding, Moved,
            Points, UploadPoints, LoopPoints,
            Statuses, Active, Committed, Canceled, CleanupFailed, FinalStatus,
            OwnedInv, NoOrphanSource,
            InFlight
<1>1. CASE SaveUpload(r, u)
  BY <1>1 DEF SaveUpload
<1>2. CASE LoadForMapping(r, u)
  BY <1>2 DEF LoadForMapping
<1>3. CASE LoadForCommit(r, u)
  BY <1>3 DEF LoadForCommit
<1>4. CASE LoadForCancel(r, u)
  BY <1>4 DEF LoadForCancel
<1>5. CASE LoadForRetry(r, u)
  BY <1>5 DEF LoadForRetry
<1> QED
  BY <1>1, <1>2, <1>3, <1>4, <1>5 DEF Start

\* A stored file has a job row, an upload working on it, or a cut-short handler.
THEOREM SourcesAreOwned == Spec => []NoOrphanSource
<1>1. Init => OwnedInv
  BY DEF Init, Idle, TypeOK, TablesOK, HandlersOK, Step, ThreadStep, Handlers, Idle, Holding, Moved,
            Points, UploadPoints, LoopPoints,
            Statuses, Active, Committed, Canceled, CleanupFailed, FinalStatus,
            OwnedInv, NoOrphanSource,
            InFlight
<1>2. TypeOK /\ OwnedInv /\ [Next]_vars => OwnedInv'
  <2>1. TypeOK /\ OwnedInv /\ Crash => OwnedInv'
    BY DEF Crash, TypeOK, TablesOK, HandlersOK, Step, ThreadStep,
            Handlers, Idle, Holding, Moved,
            Points, UploadPoints, LoopPoints,
            Statuses, Active, Committed, Canceled, CleanupFailed, FinalStatus,
            OwnedInv, NoOrphanSource,
            InFlight
  <2>2. TypeOK /\ OwnedInv /\ UNCHANGED vars => OwnedInv'
    BY DEF vars, TypeOK, TablesOK, HandlersOK, Step, ThreadStep,
            Handlers, Idle, Holding, Moved,
            Points, UploadPoints, LoopPoints,
            Statuses, Active, Committed, Canceled, CleanupFailed, FinalStatus,
            OwnedInv, NoOrphanSource,
            InFlight
  <2> QED
    BY <2>1, <2>2, OwnedAdvance, OwnedStart DEF Next
<1>3. OwnedInv => NoOrphanSource
  BY DEF OwnedInv
<1> QED
  BY <1>1, <1>2, <1>3, TypeCorrect, PTL DEF Spec

-----------------------------------------------------------------------------
(* Retained sources.  The event loop is not given up between the check of  *)
(* a source and the status it justifies.                                   *)

LEMMA NoSuchRequest == NoRequest \notin Requests
BY ImportAssumption

Uninterrupted == Yields \cap {"prepared", "canceling", "retrying"} = {}

\* An upload still at work has its statement to itself.
UploadsApart ==
  /\ \A u \in Uploads : file[u] = "unused" => status[u] = "none"
  /\ \A r \in Requests :
       req[r].at \in UploadPoints =>
         /\ status[req[r].job] = "none"
         /\ file[req[r].job] = "stored"
         /\ \A q \in Requests \ {r} : req[q].at \in UploadPoints => req[q].job # req[r].job

\* What a handler that holds the turn has read is still so.
TurnHeld ==
  \A r \in Requests :
    /\ req[r].at \in LoopPoints => status[req[r].job] # "none"
    /\ req[r].at \in {"prepared", "canceling", "retrying"} => turn = r
    /\ req[r].at = "prepared" => file[req[r].job] = "stored"
    /\ req[r].at = "canceling" => status[req[r].job] \in Active
    /\ req[r].at = "retrying" => status[req[r].job] \in CleanupFailed
    /\ req[r].at = "retrying" => status[req[r].job] = req[r].seen

\* The source of a committed statement is removed only if that was chosen.
RetentionRead ==
  /\ \A u \in Uploads :
       status[u] = "committed_cleanup_failed" => RetentionOf[u] # "retain"
  /\ \A r \in Requests :
       /\ req[r].at \in {"sourceGone", "sourceStuck"} => RetentionOf[req[r].job] # "retain"
       /\ req[r].at \in {"retrying", "retryGone"} /\ req[r].seen = "committed_cleanup_failed" =>
            RetentionOf[req[r].job] # "retain"

KeptInv == RetainedSourceKept /\ UploadsApart /\ TurnHeld /\ RetentionRead

LEMMA KeptAdvance ==
  ASSUME Uninterrupted, TypeOK, KeptInv, NEW r \in Requests, Advance(r)
  PROVE  KeptInv'
<1> USE NoSuchUpload, NoSuchRequest DEF Uninterrupted, TypeOK, TablesOK, HandlersOK, Step, ThreadStep,
            Handlers, Idle, Holding, Moved, Points, UploadPoints, LoopPoints,
            Statuses, Active, Committed, Canceled, CleanupFailed, FinalStatus,
            KeptInv, RetainedSourceKept, UploadsApart, TurnHeld, RetentionRead
<1>1. CASE ResumeExisting(r)
  <2>1. RetainedSourceKept'
    BY <1>1 DEF ResumeExisting, DiscardUpload
  <2>2. UploadsApart'
    BY <1>1 DEF ResumeExisting, DiscardUpload
  <2>3. TurnHeld'
    BY <1>1 DEF ResumeExisting, DiscardUpload
  <2>4. RetentionRead'
    BY <1>1 DEF ResumeExisting, DiscardUpload
  <2> QED
    BY <2>1, <2>2, <2>3, <2>4
<1>2. CASE RejectSource(r)
  <2>1. RetainedSourceKept'
    BY <1>2 DEF RejectSource, DiscardUpload
  <2>2. UploadsApart'
    BY <1>2 DEF RejectSource, DiscardUpload
  <2>3. TurnHeld'
    BY <1>2 DEF RejectSource, DiscardUpload
  <2>4. RetentionRead'
    BY <1>2 DEF RejectSource, DiscardUpload
  <2> QED
    BY <2>1, <2>2, <2>3, <2>4
<1>3. CASE InsertFails(r)
  <2>1. RetainedSourceKept'
    BY <1>3 DEF InsertFails, DiscardUpload
  <2>2. UploadsApart'
    BY <1>3 DEF InsertFails, DiscardUpload
  <2>3. TurnHeld'
    BY <1>3 DEF InsertFails, DiscardUpload
  <2>4. RetentionRead'
    BY <1>3 DEF InsertFails, DiscardUpload
  <2> QED
    BY <2>1, <2>2, <2>3, <2>4
<1>4. CASE MatchNothing(r)
  <2>1. RetainedSourceKept'
    BY <1>4 DEF MatchNothing
  <2>2. UploadsApart'
    BY <1>4 DEF MatchNothing
  <2>3. TurnHeld'
    BY <1>4 DEF MatchNothing
  <2>4. RetentionRead'
    BY <1>4 DEF MatchNothing
  <2> QED
    BY <2>1, <2>2, <2>3, <2>4
<1>5. CASE InsertJob(r)
  <2>1. RetainedSourceKept'
    BY <1>5 DEF InsertJob
  <2>2. UploadsApart'
    BY <1>5 DEF InsertJob
  <2>3. TurnHeld'
    BY <1>5 DEF InsertJob
  <2>4. RetentionRead'
    BY <1>5 DEF InsertJob
  <2> QED
    BY <2>1, <2>2, <2>3, <2>4
<1>6. CASE RefuseMapping(r)
  <2>1. RetainedSourceKept'
    BY <1>6 DEF RefuseMapping
  <2>2. UploadsApart'
    BY <1>6 DEF RefuseMapping
  <2>3. TurnHeld'
    BY <1>6 DEF RefuseMapping
  <2>4. RetentionRead'
    BY <1>6 DEF RefuseMapping
  <2> QED
    BY <2>1, <2>2, <2>3, <2>4
<1>7. CASE ReadForMapping(r)
  <2>1. RetainedSourceKept'
    BY <1>7 DEF ReadForMapping
  <2>2. UploadsApart'
    BY <1>7 DEF ReadForMapping
  <2>3. TurnHeld'
    BY <1>7 DEF ReadForMapping
  <2>4. RetentionRead'
    BY <1>7 DEF ReadForMapping
  <2> QED
    BY <2>1, <2>2, <2>3, <2>4
<1>8. CASE WriteMapping(r)
  <2>1. RetainedSourceKept'
    BY <1>8 DEF WriteMapping
  <2>2. UploadsApart'
    BY <1>8 DEF WriteMapping
  <2>3. TurnHeld'
    BY <1>8 DEF WriteMapping
  <2>4. RetentionRead'
    BY <1>8 DEF WriteMapping
  <2> QED
    BY <2>1, <2>2, <2>3, <2>4
<1>9. CASE RefuseCommit(r)
  <2>1. RetainedSourceKept'
    BY <1>9 DEF RefuseCommit
  <2>2. UploadsApart'
    BY <1>9 DEF RefuseCommit
  <2>3. TurnHeld'
    BY <1>9 DEF RefuseCommit
  <2>4. RetentionRead'
    BY <1>9 DEF RefuseCommit
  <2> QED
    BY <2>1, <2>2, <2>3, <2>4
<1>10. CASE Post(r)
  <2>1. RetainedSourceKept'
    BY <1>10 DEF Post
  <2>2. UploadsApart'
    BY <1>10 DEF Post
  <2>3. TurnHeld'
    BY <1>10 DEF Post
  <2>4. RetentionRead'
    BY <1>10 DEF Post
  <2> QED
    BY <2>1, <2>2, <2>3, <2>4
<1>11. CASE PostConflict(r)
  <2>1. RetainedSourceKept'
    BY <1>11 DEF PostConflict
  <2>2. UploadsApart'
    BY <1>11 DEF PostConflict
  <2>3. TurnHeld'
    BY <1>11 DEF PostConflict
  <2>4. RetentionRead'
    BY <1>11 DEF PostConflict
  <2> QED
    BY <2>1, <2>2, <2>3, <2>4
<1>12. CASE KeepSource(r)
  <2>1. RetainedSourceKept'
    BY <1>12 DEF KeepSource
  <2>2. UploadsApart'
    BY <1>12 DEF KeepSource
  <2>3. TurnHeld'
    BY <1>12 DEF KeepSource
  <2>4. RetentionRead'
    BY <1>12 DEF KeepSource
  <2> QED
    BY <2>1, <2>2, <2>3, <2>4
<1>13. CASE DeleteCommitted(r)
  <2>1. RetainedSourceKept'
    BY <1>13 DEF DeleteCommitted, Unlink
  <2>2. UploadsApart'
    BY <1>13 DEF DeleteCommitted, Unlink
  <2>3. TurnHeld'
    BY <1>13 DEF DeleteCommitted, Unlink
  <2>4. RetentionRead'
    BY <1>13 DEF DeleteCommitted, Unlink
  <2> QED
    BY <2>1, <2>2, <2>3, <2>4
<1>14. CASE RecordCommittedGone(r)
  <2>1. RetainedSourceKept'
    BY <1>14 DEF RecordCommittedGone
  <2>2. UploadsApart'
    BY <1>14 DEF RecordCommittedGone
  <2>3. TurnHeld'
    BY <1>14 DEF RecordCommittedGone
  <2>4. RetentionRead'
    BY <1>14 DEF RecordCommittedGone
  <2> QED
    BY <2>1, <2>2, <2>3, <2>4
<1>15. CASE RecordCommittedStuck(r)
  <2>1. RetainedSourceKept'
    BY <1>15 DEF RecordCommittedStuck
  <2>2. UploadsApart'
    BY <1>15 DEF RecordCommittedStuck
  <2>3. TurnHeld'
    BY <1>15 DEF RecordCommittedStuck
  <2>4. RetentionRead'
    BY <1>15 DEF RecordCommittedStuck
  <2> QED
    BY <2>1, <2>2, <2>3, <2>4
<1>16. CASE CancelWithoutSource(r)
  <2>1. RetainedSourceKept'
    BY <1>16 DEF CancelWithoutSource
  <2>2. UploadsApart'
    BY <1>16 DEF CancelWithoutSource
  <2>3. TurnHeld'
    BY <1>16 DEF CancelWithoutSource
  <2>4. RetentionRead'
    BY <1>16 DEF CancelWithoutSource
  <2> QED
    BY <2>1, <2>2, <2>3, <2>4
<1>17. CASE DeleteCanceled(r)
  <2>1. RetainedSourceKept'
    BY <1>17 DEF DeleteCanceled, Unlink
  <2>2. UploadsApart'
    BY <1>17 DEF DeleteCanceled, Unlink
  <2>3. TurnHeld'
    BY <1>17 DEF DeleteCanceled, Unlink
  <2>4. RetentionRead'
    BY <1>17 DEF DeleteCanceled, Unlink
  <2> QED
    BY <2>1, <2>2, <2>3, <2>4
<1>18. CASE RecordCanceledGone(r)
  <2>1. RetainedSourceKept'
    BY <1>18 DEF RecordCanceledGone
  <2>2. UploadsApart'
    BY <1>18 DEF RecordCanceledGone
  <2>3. TurnHeld'
    BY <1>18 DEF RecordCanceledGone
  <2>4. RetentionRead'
    BY <1>18 DEF RecordCanceledGone
  <2> QED
    BY <2>1, <2>2, <2>3, <2>4
<1>19. CASE RecordCanceledStuck(r)
  <2>1. RetainedSourceKept'
    BY <1>19 DEF RecordCanceledStuck
  <2>2. UploadsApart'
    BY <1>19 DEF RecordCanceledStuck
  <2>3. TurnHeld'
    BY <1>19 DEF RecordCanceledStuck
  <2>4. RetentionRead'
    BY <1>19 DEF RecordCanceledStuck
  <2> QED
    BY <2>1, <2>2, <2>3, <2>4
<1>20. CASE RetryWithoutSource(r)
  <2>1. RetainedSourceKept'
    BY <1>20 DEF RetryWithoutSource
  <2>2. UploadsApart'
    BY <1>20 DEF RetryWithoutSource
  <2>3. TurnHeld'
    BY <1>20 DEF RetryWithoutSource
  <2>4. RetentionRead'
    BY <1>20 DEF RetryWithoutSource
  <2> QED
    BY <2>1, <2>2, <2>3, <2>4
<1>21. CASE DeleteAgain(r)
  <2>1. RetainedSourceKept'
    BY <1>21 DEF DeleteAgain, Unlink
  <2>2. UploadsApart'
    BY <1>21 DEF DeleteAgain, Unlink
  <2>3. TurnHeld'
    BY <1>21 DEF DeleteAgain, Unlink
  <2>4. RetentionRead'
    BY <1>21 DEF DeleteAgain, Unlink
  <2> QED
    BY <2>1, <2>2, <2>3, <2>4
<1>22. CASE RecordRetry(r)
  <2>1. RetainedSourceKept'
    BY <1>22 DEF RecordRetry
  <2>2. UploadsApart'
    BY <1>22 DEF RecordRetry
  <2>3. TurnHeld'
    BY <1>22 DEF RecordRetry
  <2>4. RetentionRead'
    BY <1>22 DEF RecordRetry
  <2> QED
    BY <2>1, <2>2, <2>3, <2>4
<1>23. CASE DatabaseFails(r)
  <2>1. RetainedSourceKept'
    BY <1>23 DEF DatabaseFails, WritePoints
  <2>2. UploadsApart'
    BY <1>23 DEF DatabaseFails, WritePoints
  <2>3. TurnHeld'
    BY <1>23 DEF DatabaseFails, WritePoints
  <2>4. RetentionRead'
    BY <1>23 DEF DatabaseFails, WritePoints
  <2> QED
    BY <2>1, <2>2, <2>3, <2>4
<1>24. CASE PrepareAny(r)
  <2>1. RetainedSourceKept'
    BY <1>24 DEF PrepareAny, PrepareCommit, SourceReadable
  <2>2. UploadsApart'
    BY <1>24 DEF PrepareAny, PrepareCommit, SourceReadable
  <2>3. TurnHeld'
    BY <1>24 DEF PrepareAny, PrepareCommit, SourceReadable
  <2>4. RetentionRead'
    BY <1>24 DEF PrepareAny, PrepareCommit, SourceReadable
  <2> QED
    BY <2>1, <2>2, <2>3, <2>4
<1> QED
  BY <1>1, <1>2, <1>3, <1>4, <1>5, <1>6, <1>7, <1>8, <1>9, <1>10, <1>11, <1>12, <1>13, <1>14, <1>15, <1>16, <1>17, <1>18, <1>19, <1>20, <1>21, <1>22, <1>23, <1>24 DEF Advance, Upload, Map, Commit, Cancel, Retry

LEMMA KeptStart ==
  ASSUME Uninterrupted, TypeOK, KeptInv, NEW r \in Requests, NEW u \in Uploads, Start(r, u)
  PROVE  KeptInv'
<1> USE NoSuchUpload, NoSuchRequest DEF Uninterrupted, TypeOK, TablesOK, HandlersOK, Step, ThreadStep,
            Handlers, Idle, Holding, Moved, Points, UploadPoints, LoopPoints,
            Statuses, Active, Committed, Canceled, CleanupFailed, FinalStatus,
            KeptInv, RetainedSourceKept, UploadsApart, TurnHeld, RetentionRead
<1>1. CASE SaveUpload(r, u)
  <2>1. RetainedSourceKept'
    BY <1>1 DEF SaveUpload
  <2>2. UploadsApart'
    BY <1>1 DEF SaveUpload
  <2>3. TurnHeld'
    BY <1>1 DEF SaveUpload
  <2>4. RetentionRead'
    BY <1>1 DEF SaveUpload
  <2> QED
    BY <2>1, <2>2, <2>3, <2>4
<1>2. CASE LoadForMapping(r, u)
  <2>1. RetainedSourceKept'
    BY <1>2 DEF LoadForMapping
  <2>2. UploadsApart'
    BY <1>2 DEF LoadForMapping
  <2>3. TurnHeld'
    BY <1>2 DEF LoadForMapping
  <2>4. RetentionRead'
    BY <1>2 DEF LoadForMapping
  <2> QED
    BY <2>1, <2>2, <2>3, <2>4
<1>3. CASE LoadForCommit(r, u)
  <2>1. RetainedSourceKept'
    BY <1>3 DEF LoadForCommit
  <2>2. UploadsApart'
    BY <1>3 DEF LoadForCommit
  <2>3. TurnHeld'
    BY <1>3 DEF LoadForCommit
  <2>4. RetentionRead'
    BY <1>3 DEF LoadForCommit
  <2> QED
    BY <2>1, <2>2, <2>3, <2>4
<1>4. CASE LoadForCancel(r, u)
  <2>1. RetainedSourceKept'
    BY <1>4 DEF LoadForCancel
  <2>2. UploadsApart'
    BY <1>4 DEF LoadForCancel
  <2>3. TurnHeld'
    BY <1>4 DEF LoadForCancel
  <2>4. RetentionRead'
    BY <1>4 DEF LoadForCancel
  <2> QED
    BY <2>1, <2>2, <2>3, <2>4
<1>5. CASE LoadForRetry(r, u)
  <2>1. RetainedSourceKept'
    BY <1>5 DEF LoadForRetry
  <2>2. UploadsApart'
    BY <1>5 DEF LoadForRetry
  <2>3. TurnHeld'
    BY <1>5 DEF LoadForRetry
  <2>4. RetentionRead'
    BY <1>5 DEF LoadForRetry
  <2> QED
    BY <2>1, <2>2, <2>3, <2>4
<1> QED
  BY <1>1, <1>2, <1>3, <1>4, <1>5 DEF Start

\* As long as no handler awaits between checking a source and writing the
\* status, a retained source survives every commit, cancelation, retry, fault
\* and crash around it.
THEOREM RetainedIsKept ==
  ASSUME Uninterrupted
  PROVE  Spec => []RetainedSourceKept
<1>1. Init => KeptInv
  BY NoSuchUpload DEF Init, Idle, KeptInv, RetainedSourceKept, UploadsApart, TurnHeld, RetentionRead,
     Committed, UploadPoints, LoopPoints
<1>2. TypeOK /\ KeptInv /\ [Next]_vars => KeptInv'
  <2>1. TypeOK /\ KeptInv /\ Crash => KeptInv'
    BY DEF Crash, Idle, KeptInv, RetainedSourceKept, UploadsApart, TurnHeld, RetentionRead,
       UploadPoints, LoopPoints
  <2>2. TypeOK /\ KeptInv /\ UNCHANGED vars => KeptInv'
    BY DEF vars, KeptInv, RetainedSourceKept, UploadsApart, TurnHeld, RetentionRead
  <2> QED
    BY <2>1, <2>2, KeptAdvance, KeptStart DEF Next
<1>3. KeptInv => RetainedSourceKept
  BY DEF KeptInv
<1> QED
  BY <1>1, <1>2, <1>3, TypeCorrect, PTL DEF Spec

-----------------------------------------------------------------------------
(* Settled sources.                                                        *)

\* A handler awaits only its form.
FormsYield == Yields \subseteq {"mapping", "reviewed"}

\* A statement that is being uploaded has no job yet.
JobsApart ==
  \A r \in Requests :
    /\ req[r].at \in UploadPoints =>
         /\ status[req[r].job] = "none"
         /\ \A q \in Requests \ {r} : req[q].at \in UploadPoints => req[q].job # req[r].job
         /\ file[req[r].job] # "unused"
    /\ req[r].at \in LoopPoints => status[req[r].job] # "none"

\* The handler that holds the turn knows its job.
StatusHeld ==
  /\ \A u \in Uploads : file[u] = "unused" => status[u] = "none"
  /\ \A r \in Requests :
       /\ req[r].at \in LoopPoints \ {"mapping", "reviewed"} => turn = r
       /\ req[r].at \in {"posted", "sourceGone", "sourceStuck"} => status[req[r].job] = "committed"
       /\ req[r].at \in {"sourceStuck", "cancelStuck"} => ~deleted[req[r].job]

\* A job is settled, or the commit that settles it is going on.
SettledOrWorked ==
  \A u \in Uploads :
    \/ SettledSource(u)
    \/ u \in interrupted
    \/ \E r \in Requests :
         req[r].job = u /\ req[r].at \in {"posted", "sourceGone", "sourceStuck"}

SettleInv == JobsApart /\ StatusHeld /\ SettledOrWorked

LEMMA SettleAdvance ==
  ASSUME FormsYield, TypeOK, SettleInv, NEW r \in Requests, Advance(r)
  PROVE  SettleInv'
<1> USE NoSuchUpload, NoSuchRequest DEF FormsYield, TypeOK, TablesOK, HandlersOK, Step, ThreadStep,
            Handlers, Idle, Holding, Moved, Points, UploadPoints, LoopPoints,
            Statuses, Active, Committed, Canceled, CleanupFailed, FinalStatus,
            SettleInv, JobsApart, StatusHeld, SettledOrWorked, SettledSource
<1>1. CASE ResumeExisting(r)
  <2>1. JobsApart'
    BY <1>1 DEF ResumeExisting, DiscardUpload
  <2>2. StatusHeld'
    BY <1>1 DEF ResumeExisting, DiscardUpload
  <2>3. SettledOrWorked'
    BY <1>1 DEF ResumeExisting, DiscardUpload
  <2> QED
    BY <2>1, <2>2, <2>3
<1>2. CASE RejectSource(r)
  <2>1. JobsApart'
    BY <1>2 DEF RejectSource, DiscardUpload
  <2>2. StatusHeld'
    BY <1>2 DEF RejectSource, DiscardUpload
  <2>3. SettledOrWorked'
    BY <1>2 DEF RejectSource, DiscardUpload
  <2> QED
    BY <2>1, <2>2, <2>3
<1>3. CASE InsertFails(r)
  <2>1. JobsApart'
    BY <1>3 DEF InsertFails, DiscardUpload
  <2>2. StatusHeld'
    BY <1>3 DEF InsertFails, DiscardUpload
  <2>3. SettledOrWorked'
    BY <1>3 DEF InsertFails, DiscardUpload
  <2> QED
    BY <2>1, <2>2, <2>3
<1>4. CASE MatchNothing(r)
  <2>1. JobsApart'
    BY <1>4 DEF MatchNothing
  <2>2. StatusHeld'
    BY <1>4 DEF MatchNothing
  <2>3. SettledOrWorked'
    BY <1>4 DEF MatchNothing
  <2> QED
    BY <2>1, <2>2, <2>3
<1>5. CASE InsertJob(r)
  <2>1. JobsApart'
    BY <1>5 DEF InsertJob
  <2>2. StatusHeld'
    BY <1>5 DEF InsertJob
  <2>3. SettledOrWorked'
    BY <1>5 DEF InsertJob
  <2> QED
    BY <2>1, <2>2, <2>3
<1>6. CASE RefuseMapping(r)
  <2>1. JobsApart'
    BY <1>6 DEF RefuseMapping
  <2>2. StatusHeld'
    BY <1>6 DEF RefuseMapping
  <2>3. SettledOrWorked'
    BY <1>6 DEF RefuseMapping
  <2> QED
    BY <2>1, <2>2, <2>3
<1>7. CASE ReadForMapping(r)
  <2>1. JobsApart'
    BY <1>7 DEF ReadForMapping
  <2>2. StatusHeld'
    BY <1>7 DEF ReadForMapping
  <2>3. SettledOrWorked'
    BY <1>7 DEF ReadForMapping
  <2> QED
    BY <2>1, <2>2, <2>3
<1>8. CASE WriteMapping(r)
  <2>1. JobsApart'
    BY <1>8 DEF WriteMapping
  <2>2. StatusHeld'
    BY <1>8 DEF WriteMapping
  <2>3. SettledOrWorked'
    BY <1>8 DEF WriteMapping
  <2> QED
    BY <2>1, <2>2, <2>3
<1>9. CASE RefuseCommit(r)
  <2>1. JobsApart'
    BY <1>9 DEF RefuseCommit
  <2>2. StatusHeld'
    BY <1>9 DEF RefuseCommit
  <2>3. SettledOrWorked'
    BY <1>9 DEF RefuseCommit
  <2> QED
    BY <2>1, <2>2, <2>3
<1>10. CASE Post(r)
  <2>1. JobsApart'
    BY <1>10 DEF Post
  <2>2. StatusHeld'
    BY <1>10 DEF Post
  <2>3. SettledOrWorked'
    BY <1>10 DEF Post
  <2> QED
    BY <2>1, <2>2, <2>3
<1>11. CASE PostConflict(r)
  <2>1. JobsApart'
    BY <1>11 DEF PostConflict
  <2>2. StatusHeld'
    BY <1>11 DEF PostConflict
  <2>3. SettledOrWorked'
    BY <1>11 DEF PostConflict
  <2> QED
    BY <2>1, <2>2, <2>3
<1>12. CASE KeepSource(r)
  <2>1. JobsApart'
    BY <1>12 DEF KeepSource
  <2>2. StatusHeld'
    BY <1>12 DEF KeepSource
  <2>3. SettledOrWorked'
    BY <1>12 DEF KeepSource
  <2> QED
    BY <2>1, <2>2, <2>3
<1>13. CASE DeleteCommitted(r)
  <2>1. JobsApart'
    <3>1. req[r].at = "posted" /\ req'[r].at \in {"sourceGone", "sourceStuck"}
      BY <1>13 DEF DeleteCommitted, Unlink
    <3>2. req'[r].job = req[r].job /\ \A q \in Requests \ {r} : req'[q] = req[q]
      BY <1>13 DEF DeleteCommitted, Unlink
    <3>3. status' = status /\ \A u \in Uploads : file[u] # "unused" => file'[u] # "unused"
      BY <1>13 DEF DeleteCommitted, Unlink
    <3>4. \A q \in Requests : req[q].at \in UploadPoints \cup LoopPoints => req[q].job \in Uploads
      OBVIOUS
    <3> QED
      BY <3>1, <3>2, <3>3, <3>4
  <2>2. StatusHeld'
    BY <1>13 DEF DeleteCommitted, Unlink
  <2>3. SettledOrWorked'
    BY <1>13 DEF DeleteCommitted, Unlink
  <2> QED
    BY <2>1, <2>2, <2>3
<1>14. CASE RecordCommittedGone(r)
  <2>1. JobsApart'
    BY <1>14 DEF RecordCommittedGone
  <2>2. StatusHeld'
    BY <1>14 DEF RecordCommittedGone
  <2>3. SettledOrWorked'
    BY <1>14 DEF RecordCommittedGone
  <2> QED
    BY <2>1, <2>2, <2>3
<1>15. CASE RecordCommittedStuck(r)
  <2>1. JobsApart'
    BY <1>15 DEF RecordCommittedStuck
  <2>2. StatusHeld'
    BY <1>15 DEF RecordCommittedStuck
  <2>3. SettledOrWorked'
    BY <1>15 DEF RecordCommittedStuck
  <2> QED
    BY <2>1, <2>2, <2>3
<1>16. CASE CancelWithoutSource(r)
  <2>1. JobsApart'
    BY <1>16 DEF CancelWithoutSource
  <2>2. StatusHeld'
    BY <1>16 DEF CancelWithoutSource
  <2>3. SettledOrWorked'
    BY <1>16 DEF CancelWithoutSource
  <2> QED
    BY <2>1, <2>2, <2>3
<1>17. CASE DeleteCanceled(r)
  <2>1. JobsApart'
    <3>1. /\ req[r].at = "canceling" /\ req[r].job \in Uploads
          /\ status' = status
          /\ file' = [file EXCEPT ![req[r].job] = "gone"] \/ file' = file
      BY <1>17 DEF DeleteCanceled, Unlink
    <3>2. PICK p \in LoopPoints : req' = [req EXCEPT ![r] = Moved(r, p)]
      BY <1>17 DEF DeleteCanceled, Unlink
    <3> QED
      BY <3>1, <3>2
  <2>2. StatusHeld'
    BY <1>17 DEF DeleteCanceled, Unlink
  <2>3. SettledOrWorked'
    BY <1>17 DEF DeleteCanceled, Unlink
  <2> QED
    BY <2>1, <2>2, <2>3
<1>18. CASE RecordCanceledGone(r)
  <2>1. JobsApart'
    BY <1>18 DEF RecordCanceledGone
  <2>2. StatusHeld'
    BY <1>18 DEF RecordCanceledGone
  <2>3. SettledOrWorked'
    BY <1>18 DEF RecordCanceledGone
  <2> QED
    BY <2>1, <2>2, <2>3
<1>19. CASE RecordCanceledStuck(r)
  <2>1. JobsApart'
    BY <1>19 DEF RecordCanceledStuck
  <2>2. StatusHeld'
    BY <1>19 DEF RecordCanceledStuck
  <2>3. SettledOrWorked'
    BY <1>19 DEF RecordCanceledStuck
  <2> QED
    BY <2>1, <2>2, <2>3
<1>20. CASE RetryWithoutSource(r)
  <2>1. JobsApart'
    BY <1>20 DEF RetryWithoutSource
  <2>2. StatusHeld'
    BY <1>20 DEF RetryWithoutSource
  <2>3. SettledOrWorked'
    BY <1>20 DEF RetryWithoutSource
  <2> QED
    BY <2>1, <2>2, <2>3
<1>21. CASE DeleteAgain(r)
  <2>1. JobsApart'
    <3>1. req[r].at = "retrying" /\ req'[r].at \in {"retryGone", "idle"}
      BY <1>21 DEF DeleteAgain, Unlink
    <3>2. /\ req'[r].at # "idle" => req'[r].job = req[r].job
          /\ \A q \in Requests \ {r} : req'[q] = req[q]
      BY <1>21 DEF DeleteAgain, Unlink
    <3>3. status' = status /\ \A u \in Uploads : file[u] # "unused" => file'[u] # "unused"
      BY <1>21 DEF DeleteAgain, Unlink
    <3>4. \A q \in Requests : req[q].at \in UploadPoints \cup LoopPoints => req[q].job \in Uploads
      OBVIOUS
    <3> QED
      BY <3>1, <3>2, <3>3, <3>4
  <2>2. StatusHeld'
    <3>1. req[r].at = "retrying" /\ req'[r].at \in {"retryGone", "idle"}
      BY <1>21 DEF DeleteAgain, Unlink
    <3>2. /\ \A q \in Requests \ {r} : req'[q] = req[q]
          /\ req'[r].at = "retryGone" => turn' = r
          /\ turn \in {NoRequest, r}
      BY <1>21 DEF DeleteAgain, Unlink
    <3>3. /\ UNCHANGED <<status, deleted>>
          /\ \A u \in Uploads : file'[u] = "unused" => file[u] = "unused"
      BY <1>21 DEF DeleteAgain, Unlink
    <3> QED
      BY <3>1, <3>2, <3>3
  <2>3. SettledOrWorked'
    BY <1>21 DEF DeleteAgain, Unlink
  <2> QED
    BY <2>1, <2>2, <2>3
<1>22. CASE RecordRetry(r)
  <2>1. JobsApart'
    BY <1>22 DEF RecordRetry
  <2>2. StatusHeld'
    BY <1>22 DEF RecordRetry
  <2>3. SettledOrWorked'
    BY <1>22 DEF RecordRetry
  <2> QED
    BY <2>1, <2>2, <2>3
<1>23. CASE DatabaseFails(r)
  <2>1. JobsApart'
    BY <1>23 DEF DatabaseFails, WritePoints
  <2>2. StatusHeld'
    BY <1>23 DEF DatabaseFails, WritePoints
  <2>3. SettledOrWorked'
    BY <1>23 DEF DatabaseFails, WritePoints
  <2> QED
    BY <2>1, <2>2, <2>3
<1>24. CASE PrepareAny(r)
  <2>1. JobsApart'
    BY <1>24 DEF PrepareAny, PrepareCommit, SourceReadable
  <2>2. StatusHeld'
    BY <1>24 DEF PrepareAny, PrepareCommit, SourceReadable
  <2>3. SettledOrWorked'
    BY <1>24 DEF PrepareAny, PrepareCommit, SourceReadable
  <2> QED
    BY <2>1, <2>2, <2>3
<1> QED
  BY <1>1, <1>2, <1>3, <1>4, <1>5, <1>6, <1>7, <1>8, <1>9, <1>10, <1>11, <1>12, <1>13, <1>14, <1>15, <1>16, <1>17, <1>18, <1>19, <1>20, <1>21, <1>22, <1>23, <1>24 DEF Advance, Upload, Map, Commit, Cancel, Retry

LEMMA SettleStart ==
  ASSUME FormsYield, TypeOK, SettleInv, NEW r \in Requests, NEW u \in Uploads, Start(r, u)
  PROVE  SettleInv'
<1> USE NoSuchUpload, NoSuchRequest DEF FormsYield, TypeOK, TablesOK, HandlersOK, Step, ThreadStep,
            Handlers, Idle, Holding, Moved, Points, UploadPoints, LoopPoints,
            Statuses, Active, Committed, Canceled, CleanupFailed, FinalStatus,
            SettleInv, JobsApart, StatusHeld, SettledOrWorked, SettledSource
<1>1. CASE SaveUpload(r, u)
  <2>1. JobsApart'
    BY <1>1 DEF SaveUpload
  <2>2. StatusHeld'
    BY <1>1 DEF SaveUpload
  <2>3. SettledOrWorked'
    BY <1>1 DEF SaveUpload
  <2> QED
    BY <2>1, <2>2, <2>3
<1>2. CASE LoadForMapping(r, u)
  <2>1. JobsApart'
    BY <1>2 DEF LoadForMapping
  <2>2. StatusHeld'
    BY <1>2 DEF LoadForMapping
  <2>3. SettledOrWorked'
    BY <1>2 DEF LoadForMapping
  <2> QED
    BY <2>1, <2>2, <2>3
<1>3. CASE LoadForCommit(r, u)
  <2>1. JobsApart'
    BY <1>3 DEF LoadForCommit
  <2>2. StatusHeld'
    BY <1>3 DEF LoadForCommit
  <2>3. SettledOrWorked'
    BY <1>3 DEF LoadForCommit
  <2> QED
    BY <2>1, <2>2, <2>3
<1>4. CASE LoadForCancel(r, u)
  <2>1. JobsApart'
    BY <1>4 DEF LoadForCancel
  <2>2. StatusHeld'
    BY <1>4 DEF LoadForCancel
  <2>3. SettledOrWorked'
    BY <1>4 DEF LoadForCancel
  <2> QED
    BY <2>1, <2>2, <2>3
<1>5. CASE LoadForRetry(r, u)
  <2>1. JobsApart'
    BY <1>5 DEF LoadForRetry
  <2>2. StatusHeld'
    BY <1>5 DEF LoadForRetry
  <2>3. SettledOrWorked'
    BY <1>5 DEF LoadForRetry
  <2> QED
    BY <2>1, <2>2, <2>3
<1> QED
  BY <1>1, <1>2, <1>3, <1>4, <1>5 DEF Start

\* As long as handlers await only their forms, a job that nobody works on and
\* whose handlers were not cut short tells the truth about its source.
THEOREM SourcesAreSettled ==
  ASSUME FormsYield
  PROVE  Spec => []SourcesSettle
<1>1. Init => SettleInv
  BY NoSuchUpload DEF Init, Idle, SettleInv, JobsApart, StatusHeld, SettledOrWorked, SettledSource,
     CleanupFailed, UploadPoints, LoopPoints
<1>2. TypeOK /\ SettleInv /\ [Next]_vars => SettleInv'
  <2>1. TypeOK /\ SettleInv /\ Crash => SettleInv'
    BY DEF Crash, Idle, SettleInv, JobsApart, StatusHeld, SettledOrWorked, SettledSource,
       UploadPoints, LoopPoints
  <2>2. TypeOK /\ SettleInv /\ UNCHANGED vars => SettleInv'
    BY DEF vars, SettleInv, JobsApart, StatusHeld, SettledOrWorked, SettledSource
  <2> QED
    BY <2>1, <2>2, SettleAdvance, SettleStart DEF Next
<1>3. SettleInv => SourcesSettle
  BY DEF SettleInv, SettledOrWorked, SourcesSettle, InFlight
<1> QED
  BY <1>1, <1>2, <1>3, TypeCorrect, PTL DEF Spec

-----------------------------------------------------------------------------
(* Numbered copies.  The rows of one charge are numbered from one without  *)
(* holes, wherever they stand and whatever the member left out.            *)

\* The rows up to row i that carry its charge.
CopiesUpTo(rows, i) == {j \in 1..i : rows[j] = rows[i]}

LEMMA CopiesFinite ==
  ASSUME NEW rows, NEW i \in Nat
  PROVE  /\ IsFiniteSet(CopiesUpTo(rows, i))
         /\ Occurrence(rows, i) = Cardinality(CopiesUpTo(rows, i))
         /\ Occurrence(rows, i) \in Nat
<1>1. IsFiniteSet(1..i) /\ CopiesUpTo(rows, i) \in SUBSET (1..i)
  BY FS_Interval DEF CopiesUpTo
<1>2. IsFiniteSet(CopiesUpTo(rows, i))
  BY <1>1, FS_Subset
<1> QED
  BY <1>2, FS_CardinalityType DEF Occurrence, CopiesUpTo

\* A later copy has a larger number.
LEMMA OccurrenceGrows ==
  ASSUME NEW rows, NEW i \in Nat \ {0}, NEW j \in Nat \ {0}, i < j, rows[i] = rows[j]
  PROVE  Occurrence(rows, i) < Occurrence(rows, j)
<1>1. CopiesUpTo(rows, i) \in SUBSET CopiesUpTo(rows, j)
  BY DEF CopiesUpTo
<1>2. j \in CopiesUpTo(rows, j) /\ j \notin CopiesUpTo(rows, i)
  BY DEF CopiesUpTo
<1>3. /\ Cardinality(CopiesUpTo(rows, i)) <= Cardinality(CopiesUpTo(rows, j))
      /\ Cardinality(CopiesUpTo(rows, i)) # Cardinality(CopiesUpTo(rows, j))
  BY <1>1, <1>2, CopiesFinite, FS_Subset
<1> QED
  BY <1>3, CopiesFinite

LEMMA OccurrencePositive ==
  ASSUME NEW rows, NEW i \in Nat \ {0}
  PROVE  Occurrence(rows, i) \in Nat \ {0}
<1>1. i \in CopiesUpTo(rows, i)
  BY DEF CopiesUpTo
<1> QED
  BY <1>1, CopiesFinite, FS_EmptySet

\* Every number up to that of a copy is the number of a copy before it.
LEMMA OccurrencesDense ==
  ASSUME NEW rows, NEW i \in Nat \ {0}, NEW m \in 1..Occurrence(rows, i)
  PROVE  \E j \in 1..i : rows[j] = rows[i] /\ Occurrence(rows, j) = m
<1> DEFINE S == CopiesUpTo(rows, i)
           T == 1..Occurrence(rows, i)
           f == [j \in S |-> Occurrence(rows, j)]
<1>1. IsFiniteSet(T) /\ Cardinality(T) = Cardinality(S)
  BY CopiesFinite, FS_Interval
<1>2. ASSUME NEW j \in S
      PROVE  j \in Nat \ {0} /\ j <= i /\ rows[j] = rows[i] /\ Occurrence(rows, j) \in T
  <2>1. j \in Nat \ {0} /\ j <= i /\ rows[j] = rows[i]
    BY DEF CopiesUpTo
  <2>2. Occurrence(rows, j) \in Nat \ {0} /\ Occurrence(rows, i) \in Nat
    BY <2>1, OccurrencePositive
  <2>3. j = i \/ Occurrence(rows, j) < Occurrence(rows, i)
    BY <2>1, OccurrenceGrows
  <2> QED
    BY <2>1, <2>2, <2>3
<1>3. f \in [S -> T]
  BY <1>2
<1>4. ASSUME NEW j \in S, NEW k \in S, f[j] = f[k]
      PROVE  j = k
  <2>1. Occurrence(rows, j) = Occurrence(rows, k) /\ Occurrence(rows, j) \in Nat
    BY <1>4, <1>2
  <2>2. j \in Nat \ {0} /\ k \in Nat \ {0} /\ rows[j] = rows[k]
    BY <1>2
  <2>3. ~(j < k) /\ ~(k < j)
    BY <2>1, <2>2, OccurrenceGrows
  <2> QED
    BY <2>2, <2>3
<1>5. f \in Injection(S, T)
  BY <1>3, <1>4 DEF Injection, IsInjective
<1>6. f \in Surjection(S, T)
  BY <1>1, <1>5, FS_Injection
<1>7. \E j \in S : f[j] = m
  BY <1>6 DEF Surjection
<1> QED
  BY <1>2, <1>7

\* The fingerprints of a statement's rows, as numbered copies.
LEMMA NumberedRows ==
  ASSUME NEW u \in Uploads, NEW edits \in RowEdits(RowsOf[u])
  PROVE  /\ IsFiniteSet(FingerprintTransactions(edits))
         /\ \A f \in FingerprintTransactions(edits) :
              /\ f[2] \in Nat \ {0}
              /\ \A m \in 1..f[2] : <<f[1], m>> \in FingerprintTransactions(edits)
<1> DEFINE n == Len(RowsOf[u])
           F == FingerprintTransactions(edits)
<1>1. n \in Nat /\ DOMAIN RowsOf[u] = 1..n
  BY ImportAssumption
<1>2. edits \in [1..n -> Charges \cup {Excluded}]
  BY <1>1 DEF RowEdits
<1>3. Included(edits) \in SUBSET (1..n)
  BY <1>2 DEF Included
<1>4. IsFiniteSet(Included(edits))
  <2>1. IsFiniteSet(1..n)
    BY <1>1, FS_Interval
  <2> QED
    BY <1>3, <2>1, FS_Subset
<1>5. IsFiniteSet(F)
  <2> DEFINE g == [i \in Included(edits) |-> Fingerprint(edits, i)]
  <2>1. g \in Surjection(Included(edits), F)
    BY DEF Surjection, FingerprintTransactions
  <2> QED
    BY <1>4, <2>1, FS_Surjection
<1>6. ASSUME NEW f \in F
      PROVE  /\ f[2] \in Nat \ {0}
             /\ \A m \in 1..f[2] : <<f[1], m>> \in F
  <2>1. PICK i \in Included(edits) : f = Fingerprint(edits, i)
    BY DEF FingerprintTransactions
  <2>2. i \in 1..n /\ i \in Nat \ {0} /\ edits[i] # Excluded
    BY <1>1, <1>3, <2>1 DEF Included
  <2>3. f[1] = edits[i] /\ f[2] = Occurrence(edits, i)
    BY <2>1 DEF Fingerprint
  <2>4. ASSUME NEW m \in 1..f[2]
        PROVE  <<f[1], m>> \in F
    <3>1. PICK j \in 1..i : edits[j] = edits[i] /\ Occurrence(edits, j) = m
      BY <2>2, <2>3, OccurrencesDense
    <3>2. j \in Included(edits)
      BY <1>1, <1>2, <2>2, <3>1 DEF Included
    <3>3. Fingerprint(edits, j) = <<f[1], m>>
      BY <2>3, <3>1 DEF Fingerprint
    <3> QED
      BY <3>2, <3>3 DEF FingerprintTransactions
  <2> QED
    BY <2>2, <2>3, <2>4, OccurrencePositive
<1> QED
  BY <1>5, <1>6

\* Only a commit writes the ledger, and only its preparation fills a batch.
LEMMA OnlyPostWrites ==
  ASSUME [Next]_vars
  PROVE  UNCHANGED ledger \/ \E r \in Requests : Post(r)
<1>1. ASSUME NEW r \in Requests, Advance(r), ~Post(r)
      PROVE  UNCHANGED ledger
  BY <1>1 DEF Advance, Upload, Map, Commit, Cancel, Retry, ResumeExisting, RejectSource, InsertFails, MatchNothing, InsertJob, RefuseMapping, ReadForMapping, WriteMapping, RefuseCommit, PostConflict, KeepSource, DeleteCommitted, RecordCommittedGone, RecordCommittedStuck, CancelWithoutSource, DeleteCanceled, RecordCanceledGone, RecordCanceledStuck, RetryWithoutSource, DeleteAgain, RecordRetry, DatabaseFails, PrepareAny, DiscardUpload, Unlink, PrepareCommit
<1>2. ASSUME NEW r \in Requests, NEW u \in Uploads, Start(r, u)
      PROVE  UNCHANGED ledger
  BY <1>2 DEF Start, SaveUpload, LoadForMapping, LoadForCommit, LoadForCancel, LoadForRetry
<1> QED
  BY <1>1, <1>2 DEF Next, Crash, vars

LEMMA OnlyPrepareFills ==
  ASSUME TypeOK, [Next]_vars, NEW q \in Requests
  PROVE  \/ req'[q].batch \in {{}, req[q].batch}
         \/ /\ req[q].job \in Uploads
            /\ \E edits \in RowEdits(RowsOf[req[q].job]) : PrepareCommit(q, edits)
<1> USE DEF TypeOK, HandlersOK, Idle, Holding, Moved
<1>1. ASSUME NEW r \in Requests, NEW p, NEW next, Step(r, p, next) \/ ThreadStep(r, p, next),
             next.batch = {}
      PROVE  req'[q].batch \in {{}, req[q].batch}
  BY <1>1 DEF Step, ThreadStep
<1>2. ASSUME NEW r \in Requests, Upload(r)
      PROVE  req'[q].batch \in {{}, req[q].batch}
  BY <1>2 DEF Upload, ResumeExisting, RejectSource, MatchNothing, InsertJob, InsertFails,
              DiscardUpload, ThreadStep
<1>3. ASSUME NEW r \in Requests, Map(r)
      PROVE  req'[q].batch \in {{}, req[q].batch}
  BY <1>3 DEF Map, RefuseMapping, ReadForMapping, WriteMapping, Step
<1>4. ASSUME NEW r \in Requests, Commit(r), ~PrepareAny(r)
      PROVE  req'[q].batch \in {{}, req[q].batch}
  BY <1>4 DEF Commit, RefuseCommit, Post, PostConflict, KeepSource, DeleteCommitted,
              RecordCommittedGone, RecordCommittedStuck, Unlink, Step
<1>5. ASSUME NEW r \in Requests, Cancel(r) \/ Retry(r) \/ DatabaseFails(r)
      PROVE  req'[q].batch \in {{}, req[q].batch}
  BY <1>5 DEF Cancel, CancelWithoutSource, DeleteCanceled, RecordCanceledGone,
              RecordCanceledStuck, Retry, RetryWithoutSource, DeleteAgain, RecordRetry,
              DatabaseFails, Unlink, Step
<1>6. ASSUME NEW r \in Requests, NEW u \in Uploads, Start(r, u)
      PROVE  req'[q].batch \in {{}, req[q].batch}
  BY <1>6 DEF Start, SaveUpload, LoadForMapping, LoadForCommit, LoadForCancel, LoadForRetry,
              Step, ThreadStep
<1>7. ASSUME NEW r \in Requests, PrepareAny(r)
      PROVE  \/ req'[q].batch \in {{}, req[q].batch}
             \/ /\ req[q].job \in Uploads
                /\ \E edits \in RowEdits(RowsOf[req[q].job]) : PrepareCommit(q, edits)
  <2>1. CASE q = r
    BY <1>7, <2>1 DEF PrepareAny
  <2>2. CASE q # r
    BY <1>7, <2>2 DEF PrepareAny, PrepareCommit, Step
  <2> QED
    BY <2>1, <2>2
<1> QED
  BY <1>2, <1>3, <1>4, <1>5, <1>6, <1>7 DEF Next, Advance, Crash, vars

\* What is known, and what a handler is about to add to it, leaves no number
\* out; both are finite.
NumberedInv ==
  /\ IsFiniteSet(Known)
  /\ \A f \in Known :
       f[2] \in Nat \ {0} /\ \A m \in 1..f[2] : <<f[1], m>> \in Known
  /\ \A r \in Requests :
       /\ IsFiniteSet(req[r].batch)
       /\ \A f \in req[r].batch :
            f[2] \in Nat \ {0} /\ \A m \in 1..f[2] : <<f[1], m>> \in req[r].batch \cup Known

LEMMA StepNumbered ==
  ASSUME TypeOK, NumberedInv, [Next]_vars
  PROVE  NumberedInv'
<1>1. Known \subseteq Known' /\ (Known' = Known \/ \E r \in Requests : Known' = Known \cup req[r].batch)
  <2>1. ASSUME NEW r \in Requests, Post(r)
        PROVE  Known' = Known \cup req[r].batch
    <3> DEFINE new(f) == [fp |-> f, job |-> req[r].job]
    <3>1. ledger' = ledger \cup {new(f) : f \in req[r].batch}
      BY <2>1 DEF Post
    <3>2. \A f : new(f).fp = f
      OBVIOUS
    <3> HIDE DEF new
    <3>3. ASSUME NEW f
          PROVE  f \in Known' <=> f \in Known \cup req[r].batch
      BY <3>1, <3>2 DEF Known
    <3> QED
      BY <3>3
  <2> QED
    BY <2>1, OnlyPostWrites DEF Known
<1>2. /\ IsFiniteSet(Known')
      /\ \A f \in Known' :
           f[2] \in Nat \ {0} /\ \A m \in 1..f[2] : <<f[1], m>> \in Known'
  BY <1>1, FS_Union DEF NumberedInv
<1>3. ASSUME NEW r \in Requests
      PROVE  /\ IsFiniteSet(req'[r].batch)
             /\ \A f \in req'[r].batch :
                  /\ f[2] \in Nat \ {0}
                  /\ \A m \in 1..f[2] : <<f[1], m>> \in req'[r].batch \cup Known'
  <2>1. CASE req'[r].batch \in {{}, req[r].batch}
    BY <1>1, <2>1, FS_EmptySet DEF NumberedInv
  <2>2. CASE req[r].job \in Uploads
             /\ \E edits \in RowEdits(RowsOf[req[r].job]) : PrepareCommit(r, edits)
    <3>1. PICK edits \in RowEdits(RowsOf[req[r].job]) : PrepareCommit(r, edits)
      BY <2>2
    <3> DEFINE F == FingerprintTransactions(edits)
    <3>2. /\ IsFiniteSet(F)
          /\ \A f \in F : f[2] \in Nat \ {0} /\ \A m \in 1..f[2] : <<f[1], m>> \in F
      BY <2>2, NumberedRows
    <3>3. req'[r].batch = F \ Known
      BY <3>1 DEF PrepareCommit, NewFingerprints, Step, TypeOK, HandlersOK
    <3> HIDE DEF F
    <3> QED
      BY <1>1, <3>2, <3>3, FS_Difference
  <2> QED
    BY <2>1, <2>2, OnlyPrepareFills
<1> QED
  BY <1>2, <1>3 DEF NumberedInv

LEMMA NumberedInvariant == Spec => []NumberedInv
<1>1. Init => NumberedInv
  <2> SUFFICES ASSUME Init
               PROVE  NumberedInv
    OBVIOUS
  <2>1. Known = {}
    BY DEF Init, Known
  <2>2. \A r \in Requests : req[r].batch = {}
    BY DEF Init, Idle
  <2>3. IsFiniteSet({})
    BY FS_EmptySet
  <2> QED
    BY <2>1, <2>2, <2>3 DEF NumberedInv
<1> QED
  BY <1>1, StepNumbered, TypeCorrect, PTL DEF Spec

\* The n-th copy of a charge is in the ledger only with the copies before it,
\* whichever rows the member leaves out and however commits interleave.
THEOREM CopiesWithoutGap == Spec => []NoGapInCopies
<1>1. NumberedInv => NoGapInCopies
  <2> SUFFICES ASSUME NumberedInv, NEW f \in Known, f[2] > 1
               PROVE  <<f[1], f[2] - 1>> \in Known
    BY DEF NoGapInCopies
  <2>1. f[2] - 1 \in 1..f[2]
    BY DEF NumberedInv
  <2> QED
    BY <2>1 DEF NumberedInv
<1> QED
  BY <1>1, NumberedInvariant, PTL

\* Unchecked rows only lower the number of a copy.
LEMMA OfferedIsPart ==
  ASSUME NEW u \in Uploads, NEW known
  PROVE  /\ Offered(RowsOf[u], known) \in RowEdits(RowsOf[u])
         /\ FingerprintTransactions(Offered(RowsOf[u], known))
              \subseteq FingerprintTransactions(RowsOf[u])
<1> DEFINE rows == RowsOf[u]
           offered == Offered(rows, known)
           n == Len(rows)
<1>1. n \in Nat /\ rows \in [1..n -> Charges] /\ Excluded \notin Charges
  BY ImportAssumption
<1> HIDE DEF n
<1>2. offered \in [1..n -> Charges \cup {Excluded}]
      /\ \A i \in 1..n : offered[i] # Excluded => offered[i] = rows[i]
  BY <1>1 DEF Offered
<1>3. offered \in RowEdits(rows)
  BY <1>1, <1>2 DEF RowEdits
<1> HIDE DEF offered, rows
<1>4. ASSUME NEW i \in Included(offered)
      PROVE  Fingerprint(offered, i) \in FingerprintTransactions(rows)
  <2>1. i \in 1..n /\ i \in Nat \ {0} /\ offered[i] # Excluded /\ offered[i] = rows[i]
    BY <1>1, <1>2 DEF Included
  <2>2. CopiesUpTo(offered, i) \in SUBSET CopiesUpTo(rows, i)
    BY <1>1, <1>2, <2>1 DEF CopiesUpTo
  <2>3. Occurrence(offered, i) <= Occurrence(rows, i)
    BY <2>1, <2>2, CopiesFinite, FS_Subset
  <2>4. Occurrence(offered, i) \in 1..Occurrence(rows, i)
    BY <2>1, <2>3, OccurrencePositive
  <2>5. PICK j \in 1..i : rows[j] = rows[i] /\ Occurrence(rows, j) = Occurrence(offered, i)
    BY <2>1, <2>4, OccurrencesDense
  <2>6. j \in Included(rows)
    BY <1>1, <2>1, <2>5 DEF Included
  <2>7. Fingerprint(rows, j) = Fingerprint(offered, i)
    BY <2>1, <2>5 DEF Fingerprint
  <2> QED
    BY <2>6, <2>7 DEF FingerprintTransactions
<1>5. FingerprintTransactions(offered) \subseteq FingerprintTransactions(rows)
  BY <1>4 DEF FingerprintTransactions
<1> QED
  BY <1>3, <1>5 DEF offered, rows

\* A statement's rows are an edit of theirs that leaves nothing out.
LEMMA RowsAreEdits ==
  ASSUME NEW u \in Uploads
  PROVE  RowsOf[u] \in RowEdits(RowsOf[u])
BY ImportAssumption DEF RowEdits

LEMMA StepOverlap ==
  ASSUME TypeOK, NumberedInv, NEW r \in Requests, req[r].at = "reviewed",
         PrepareCommit(r, Offered(RowsOf[req[r].job], Known)), NEW c \in Charges
  PROVE  \/ Copies(Known \cup req'[r].batch, c) <= Copies(Known, c)
         \/ Copies(Known \cup req'[r].batch, c)
              <= Copies(FingerprintTransactions(RowsOf[req[r].job]), c)
<1> DEFINE u == req[r].job
           offered == Offered(RowsOf[u], Known)
           O == FingerprintTransactions(offered)
           F == FingerprintTransactions(RowsOf[u])
           of(S) == {f \in S : f[1] = c}
<1>1. u \in Uploads
  BY DEF TypeOK, HandlersOK
<1>2. /\ offered \in RowEdits(RowsOf[u]) /\ O \subseteq F
      /\ RowsOf[u] \in RowEdits(RowsOf[u])
  BY <1>1, OfferedIsPart, RowsAreEdits
<1>3. /\ IsFiniteSet(F)
      /\ \A f \in O : f[2] \in Nat \ {0} /\ \A m \in 1..f[2] : <<f[1], m>> \in O
  BY <1>1, <1>2, NumberedRows
<1>4. req'[r].batch = O \ Known
  BY DEF PrepareCommit, NewFingerprints, Step, TypeOK, HandlersOK
<1>5. Known \subseteq Charges \X Nat
  BY DEF TypeOK, TablesOK, Known
<1>6. O \subseteq Charges \X Nat
  BY <1>1, <1>2, FingerprintsType
<1> HIDE DEF u, offered, O, F
<1>7. CASE of(req'[r].batch) = {}
  <2>1. of(Known \cup req'[r].batch) = of(Known)
    BY <1>7
  <2>2. IsFiniteSet(of(Known))
    BY FS_Subset DEF NumberedInv
  <2>3. Cardinality(of(Known)) \in Nat
    BY <2>2, FS_CardinalityType
  <2> QED
    BY <2>1, <2>3 DEF Copies
<1>8. CASE of(req'[r].batch) # {}
  <2>1. PICK n \in Nat : <<c, n>> \in O /\ <<c, n>> \notin Known
    BY <1>4, <1>6, <1>8
  <2>2. ASSUME NEW m \in Nat, <<c, m>> \in Known
        PROVE  <<c, m>> \in O
    <3>1. m \in Nat \ {0} /\ \A l \in 1..m : <<c, l>> \in Known
      BY <2>2 DEF NumberedInv
    <3>2. n \in Nat \ {0} /\ \A l \in 1..n : <<c, l>> \in O
      BY <1>3, <2>1
    <3>3. m < n
      BY <2>1, <3>1, <3>2
    <3> QED
      BY <3>1, <3>2, <3>3
  <2>3. of(Known \cup req'[r].batch) \subseteq of(F)
    BY <1>2, <1>4, <1>5, <2>2
  <2>4. IsFiniteSet(of(F))
    BY <1>3, FS_Subset
  <2>5. Cardinality(of(Known \cup req'[r].batch)) <= Cardinality(of(F))
    BY <2>3, <2>4, FS_Subset
  <2> QED
    BY <2>5 DEF Copies, F, u
<1> QED
  BY <1>7, <1>8

\* However statements overlap, an import whose review page is left untouched
\* leaves no charge with more copies than the ledger or the statement had.
THEOREM OverlapsAreNotDuplicated == Spec => OverlapNotDuplicated
<1>1. TypeOK /\ NumberedInv /\ [Next]_vars =>
        [\A r \in Requests :
           req[r].at = "reviewed" =>
             LET rows == RowsOf[req[r].job]
                 offered == Offered(rows, Known)
                 statement == FingerprintTransactions(rows)
             IN  PrepareCommit(r, offered) =>
                   \A c \in Charges :
                     \/ Copies(Known \cup req'[r].batch, c) <= Copies(Known, c)
                     \/ Copies(Known \cup req'[r].batch, c) <= Copies(statement, c)]_vars
  BY StepOverlap
<1> QED
  BY <1>1, TypeCorrect, NumberedInvariant, PTL DEF Spec, OverlapNotDuplicated

-----------------------------------------------------------------------------
(* Posted once.  A handler that has read the status of a job, and will     *)
(* decide on it, keeps the event loop until it has written its decision.   *)

Deciding == {"mapping", "mapped", "reviewed", "prepared", "canceling", "cancelStuck"}
DecidesAtOnce == Yields \cap Deciding = {}

\* What a handler knows of the phase of its job.
PhaseRead ==
  \A r \in Requests :
    /\ req[r].at \in LoopPoints => status[req[r].job] # "none"
    /\ req[r].at \in Deciding => turn = r
    /\ req[r].at \in {"mapping", "reviewed"} => status[req[r].job] = req[r].seen
    /\ req[r].at \in {"mapped", "prepared", "canceling", "cancelStuck"} =>
         status[req[r].job] \in Active
    /\ req[r].at = "prepared" => file[req[r].job] = "stored" /\ req[r].batch # {}
    /\ req[r].at = "cancelGone" =>
         file[req[r].job] = "gone" /\ status[req[r].job] \in Active \cup Canceled
    /\ req[r].at \in {"posted", "sourceGone", "sourceStuck"} => status[req[r].job] \in Committed
    /\ req[r].at \in {"retrying", "retryGone"} =>
         /\ req[r].seen \in CleanupFailed
         /\ status[req[r].job] \in Committed <=> req[r].seen \in Committed
         /\ status[req[r].job] \in Canceled <=> req[r].seen \in Canceled

OnceInv == UploadsApart /\ PhaseRead

LEMMA OnceAdvance ==
  ASSUME DecidesAtOnce, TypeOK, OnceInv, NEW r \in Requests, Advance(r)
  PROVE  OnceInv'
<1> USE NoSuchUpload, NoSuchRequest DEF DecidesAtOnce, Deciding, TypeOK, TablesOK, HandlersOK, Step, ThreadStep,
            Handlers, Idle, Holding, Moved, Points, UploadPoints, LoopPoints,
            Statuses, Active, Committed, Canceled, CleanupFailed, FinalStatus,
            OnceInv, UploadsApart, PhaseRead
<1>1. CASE ResumeExisting(r)
  <2>1. UploadsApart'
    BY <1>1 DEF ResumeExisting, DiscardUpload
  <2>2. PhaseRead'
    BY <1>1 DEF ResumeExisting, DiscardUpload
  <2> QED
    BY <2>1, <2>2
<1>2. CASE RejectSource(r)
  <2>1. UploadsApart'
    BY <1>2 DEF RejectSource, DiscardUpload
  <2>2. PhaseRead'
    BY <1>2 DEF RejectSource, DiscardUpload
  <2> QED
    BY <2>1, <2>2
<1>3. CASE InsertFails(r)
  <2>1. UploadsApart'
    BY <1>3 DEF InsertFails, DiscardUpload
  <2>2. PhaseRead'
    BY <1>3 DEF InsertFails, DiscardUpload
  <2> QED
    BY <2>1, <2>2
<1>4. CASE MatchNothing(r)
  <2>1. UploadsApart'
    BY <1>4 DEF MatchNothing
  <2>2. PhaseRead'
    BY <1>4 DEF MatchNothing
  <2> QED
    BY <2>1, <2>2
<1>5. CASE InsertJob(r)
  <2>1. UploadsApart'
    BY <1>5 DEF InsertJob
  <2>2. PhaseRead'
    BY <1>5 DEF InsertJob
  <2> QED
    BY <2>1, <2>2
<1>6. CASE RefuseMapping(r)
  <2>1. UploadsApart'
    BY <1>6 DEF RefuseMapping
  <2>2. PhaseRead'
    BY <1>6 DEF RefuseMapping
  <2> QED
    BY <2>1, <2>2
<1>7. CASE ReadForMapping(r)
  <2>1. UploadsApart'
    BY <1>7 DEF ReadForMapping
  <2>2. PhaseRead'
    BY <1>7 DEF ReadForMapping
  <2> QED
    BY <2>1, <2>2
<1>8. CASE WriteMapping(r)
  <2>1. UploadsApart'
    BY <1>8 DEF WriteMapping
  <2>2. PhaseRead'
    BY <1>8 DEF WriteMapping
  <2> QED
    BY <2>1, <2>2
<1>9. CASE RefuseCommit(r)
  <2>1. UploadsApart'
    BY <1>9 DEF RefuseCommit
  <2>2. PhaseRead'
    BY <1>9 DEF RefuseCommit
  <2> QED
    BY <2>1, <2>2
<1>10. CASE Post(r)
  <2>1. UploadsApart'
    BY <1>10 DEF Post
  <2>2. PhaseRead'
    BY <1>10 DEF Post
  <2> QED
    BY <2>1, <2>2
<1>11. CASE PostConflict(r)
  <2>1. UploadsApart'
    BY <1>11 DEF PostConflict
  <2>2. PhaseRead'
    BY <1>11 DEF PostConflict
  <2> QED
    BY <2>1, <2>2
<1>12. CASE KeepSource(r)
  <2>1. UploadsApart'
    BY <1>12 DEF KeepSource
  <2>2. PhaseRead'
    BY <1>12 DEF KeepSource
  <2> QED
    BY <2>1, <2>2
<1>13. CASE DeleteCommitted(r)
  <2>1. UploadsApart'
    BY <1>13 DEF DeleteCommitted, Unlink
  <2>2. PhaseRead'
    BY <1>13 DEF DeleteCommitted, Unlink
  <2> QED
    BY <2>1, <2>2
<1>14. CASE RecordCommittedGone(r)
  <2>1. UploadsApart'
    BY <1>14 DEF RecordCommittedGone
  <2>2. PhaseRead'
    BY <1>14 DEF RecordCommittedGone
  <2> QED
    BY <2>1, <2>2
<1>15. CASE RecordCommittedStuck(r)
  <2>1. UploadsApart'
    BY <1>15 DEF RecordCommittedStuck
  <2>2. PhaseRead'
    BY <1>15 DEF RecordCommittedStuck
  <2> QED
    BY <2>1, <2>2
<1>16. CASE CancelWithoutSource(r)
  <2>1. UploadsApart'
    BY <1>16 DEF CancelWithoutSource
  <2>2. PhaseRead'
    BY <1>16 DEF CancelWithoutSource
  <2> QED
    BY <2>1, <2>2
<1>17. CASE DeleteCanceled(r)
  <2>1. UploadsApart'
    BY <1>17 DEF DeleteCanceled, Unlink
  <2>2. PhaseRead'
    BY <1>17 DEF DeleteCanceled, Unlink
  <2> QED
    BY <2>1, <2>2
<1>18. CASE RecordCanceledGone(r)
  <2>1. UploadsApart'
    BY <1>18 DEF RecordCanceledGone
  <2>2. PhaseRead'
    BY <1>18 DEF RecordCanceledGone
  <2> QED
    BY <2>1, <2>2
<1>19. CASE RecordCanceledStuck(r)
  <2>1. UploadsApart'
    BY <1>19 DEF RecordCanceledStuck
  <2>2. PhaseRead'
    BY <1>19 DEF RecordCanceledStuck
  <2> QED
    BY <2>1, <2>2
<1>20. CASE RetryWithoutSource(r)
  <2>1. UploadsApart'
    BY <1>20 DEF RetryWithoutSource
  <2>2. PhaseRead'
    BY <1>20 DEF RetryWithoutSource
  <2> QED
    BY <2>1, <2>2
<1>21. CASE DeleteAgain(r)
  <2>1. UploadsApart'
    BY <1>21 DEF DeleteAgain, Unlink
  <2>2. PhaseRead'
    BY <1>21 DEF DeleteAgain, Unlink
  <2> QED
    BY <2>1, <2>2
<1>22. CASE RecordRetry(r)
  <2>1. UploadsApart'
    BY <1>22 DEF RecordRetry
  <2>2. PhaseRead'
    BY <1>22 DEF RecordRetry
  <2> QED
    BY <2>1, <2>2
<1>23. CASE DatabaseFails(r)
  <2>1. UploadsApart'
    BY <1>23 DEF DatabaseFails, WritePoints
  <2>2. PhaseRead'
    BY <1>23 DEF DatabaseFails, WritePoints
  <2> QED
    BY <2>1, <2>2
<1>24. CASE PrepareAny(r)
  <2>1. UploadsApart'
    BY <1>24 DEF PrepareAny, PrepareCommit, SourceReadable
  <2>2. PhaseRead'
    BY <1>24 DEF PrepareAny, PrepareCommit, SourceReadable
  <2> QED
    BY <2>1, <2>2
<1> QED
  BY <1>1, <1>2, <1>3, <1>4, <1>5, <1>6, <1>7, <1>8, <1>9, <1>10, <1>11, <1>12, <1>13, <1>14, <1>15, <1>16, <1>17, <1>18, <1>19, <1>20, <1>21, <1>22, <1>23, <1>24 DEF Advance, Upload, Map, Commit, Cancel, Retry

LEMMA OnceStart ==
  ASSUME DecidesAtOnce, TypeOK, OnceInv, NEW r \in Requests, NEW u \in Uploads, Start(r, u)
  PROVE  OnceInv'
<1> USE NoSuchUpload, NoSuchRequest DEF DecidesAtOnce, Deciding, TypeOK, TablesOK, HandlersOK, Step, ThreadStep,
            Handlers, Idle, Holding, Moved, Points, UploadPoints, LoopPoints,
            Statuses, Active, Committed, Canceled, CleanupFailed, FinalStatus,
            OnceInv, UploadsApart, PhaseRead
<1>1. CASE SaveUpload(r, u)
  <2>1. UploadsApart'
    BY <1>1 DEF SaveUpload
  <2>2. PhaseRead'
    BY <1>1 DEF SaveUpload
  <2> QED
    BY <2>1, <2>2
<1>2. CASE LoadForMapping(r, u)
  <2>1. UploadsApart'
    BY <1>2 DEF LoadForMapping
  <2>2. PhaseRead'
    BY <1>2 DEF LoadForMapping
  <2> QED
    BY <2>1, <2>2
<1>3. CASE LoadForCommit(r, u)
  <2>1. UploadsApart'
    BY <1>3 DEF LoadForCommit
  <2>2. PhaseRead'
    BY <1>3 DEF LoadForCommit
  <2> QED
    BY <2>1, <2>2
<1>4. CASE LoadForCancel(r, u)
  <2>1. UploadsApart'
    BY <1>4 DEF LoadForCancel
  <2>2. PhaseRead'
    BY <1>4 DEF LoadForCancel
  <2> QED
    BY <2>1, <2>2
<1>5. CASE LoadForRetry(r, u)
  <2>1. UploadsApart'
    BY <1>5 DEF LoadForRetry
  <2>2. PhaseRead'
    BY <1>5 DEF LoadForRetry
  <2> QED
    BY <2>1, <2>2
<1> QED
  BY <1>1, <1>2, <1>3, <1>4, <1>5 DEF Start

LEMMA StepOnce ==
  ASSUME DecidesAtOnce, TypeOK, OnceInv, [Next]_vars
  PROVE  OnceInv'
<1>1. CASE Crash
  BY <1>1 DEF Crash, Idle, OnceInv, UploadsApart, PhaseRead, Deciding, UploadPoints, LoopPoints
<1>2. CASE UNCHANGED vars
  BY <1>2 DEF vars, OnceInv, UploadsApart, PhaseRead
<1> QED
  BY <1>1, <1>2, OnceAdvance, OnceStart DEF Next

\* The phase of a job follows its status.
LEMMA PhaseFollows ==
  ASSUME TypeOK, NEW u \in Uploads, NEW s, status' = [status EXCEPT ![u] = s]
  PROVE  [v \in Uploads |-> Phase(status[v])]' =
           [[v \in Uploads |-> Phase(status[v])] EXCEPT ![u] = Phase(s)]
BY DEF TypeOK, TablesOK

LEMMA SamePhase ==
  ASSUME TypeOK, UNCHANGED ledger,
         \/ UNCHANGED status
         \/ \E u \in Uploads : \E s :
              status' = [status EXCEPT ![u] = s] /\ Phase(s) = Phase(status[u])
  PROVE  UNCHANGED Abstract!ledgerVars
<1>1. \A u \in Uploads : Phase(status'[u]) = Phase(status[u])
  BY DEF TypeOK, TablesOK
<1>2. [u \in Uploads |-> Phase(status[u])]' = [u \in Uploads |-> Phase(status[u])]
  BY <1>1
<1> QED
  BY <1>2 DEF Abstract!ledgerVars

LEMMA StepAbstract ==
  ASSUME DecidesAtOnce, TypeOK, OnceInv, [Next]_vars
  PROVE  [Abstract!Next]_(Abstract!ledgerVars)
<1> DEFINE phase == [u \in Uploads |-> Phase(status[u])]
<1>1. ASSUME NEW r \in Requests, InsertJob(r)
      PROVE  Abstract!Open(req[r].job)
  <2> DEFINE u == req[r].job
  <2>1. u \in Uploads /\ status[u] = "none" /\ UNCHANGED ledger
    BY <1>1 DEF InsertJob, ThreadStep, OnceInv, UploadsApart, UploadPoints, TypeOK, HandlersOK
  <2>2. PICK s \in Active : status' = [status EXCEPT ![u] = s]
    BY <1>1 DEF InsertJob
  <2>3. phase[u] = "absent" /\ Phase(s) = "open"
    BY <2>1, <2>2 DEF Phase, Active, Committed, Canceled
  <2> HIDE DEF u
  <2>4. phase' = [phase EXCEPT ![u] = Phase(s)]
    BY <2>1, <2>2, PhaseFollows
  <2>5. phase' = [phase EXCEPT ![u] = "open"]
    BY <2>3, <2>4
  <2>6. Abstract!Open(u)
    BY <2>1, <2>3, <2>5 DEF Abstract!Open
  <2> QED
    BY <2>6 DEF u
<1>2. ASSUME NEW r \in Requests, Post(r)
      PROVE  Abstract!Post(req[r].job)
  <2> DEFINE u == req[r].job
             entries == {[fp |-> f, job |-> u] : f \in req[r].batch}
  <2>1. /\ u \in Uploads /\ status[u] \in Active /\ req[r].batch # {}
        /\ req[r].batch \cap Known = {}
        /\ ledger' = ledger \cup entries
        /\ status' = [status EXCEPT ![u] = "committed"]
    BY <1>2 DEF Post, Step, UniqueConstraintHolds, OnceInv, PhaseRead, TypeOK, HandlersOK
  <2>2. phase[u] = "open" /\ Phase("committed") = "posted"
    BY <2>1 DEF Phase, Active, Committed, Canceled
  <2>3. \A entry \in entries : entry.job = u /\ entry.fp \in req[r].batch
    OBVIOUS
  <2>4. Known = Abstract!KnownFingerprints
    BY DEF Known, Abstract!KnownFingerprints
  <2>5. entries # {} /\ \A entry \in entries : entry \notin ledger
    BY <2>1, <2>3 DEF Known
  <2> HIDE DEF entries
  <2>6. ledger' # ledger /\ ledger \subseteq ledger'
    BY <2>1, <2>5
  <2>7. \A entry \in ledger' \ ledger :
          entry.job = u /\ entry.fp \notin Abstract!KnownFingerprints
    BY <2>1, <2>3, <2>4
  <2> HIDE DEF u
  <2>8. phase' = [phase EXCEPT ![u] = "posted"]
    BY <2>1, <2>2, PhaseFollows
  <2>9. Abstract!Post(u)
    BY <2>1, <2>2, <2>6, <2>7, <2>8 DEF Abstract!Post
  <2> QED
    BY <2>9 DEF u
<1>3. ASSUME NEW r \in Requests, NEW s \in Canceled,
             status' = [status EXCEPT ![req[r].job] = s], UNCHANGED ledger,
             req[r].job \in Uploads, status[req[r].job] \in Active
      PROVE  Abstract!Withdraw(req[r].job)
  <2>1. phase[req[r].job] = "open" /\ Phase(s) = "withdrawn"
    BY <1>3 DEF Phase, Active, Committed, Canceled
  <2> QED
    BY <1>3, <2>1, PhaseFollows DEF Abstract!Withdraw
<1>4. ASSUME NEW r \in Requests, Cancel(r)
      PROVE  Abstract!Next \/ UNCHANGED Abstract!ledgerVars
  <2>1. req[r].job \in Uploads
    BY <1>4, NoSuchUpload
       DEF Cancel, CancelWithoutSource, DeleteCanceled, RecordCanceledGone,
           RecordCanceledStuck, Unlink, Step, TypeOK, HandlersOK
  <2>2. CASE CancelWithoutSource(r) \/ RecordCanceledStuck(r)
    <3>1. status[req[r].job] \in Active
      BY <2>2 DEF CancelWithoutSource, RecordCanceledStuck, Step, OnceInv, PhaseRead
    <3> QED
      BY <1>3, <2>1, <2>2, <3>1
         DEF CancelWithoutSource, RecordCanceledStuck, Canceled, Abstract!Next
  <2>3. CASE RecordCanceledGone(r)
    <3>1. /\ status' = [status EXCEPT ![req[r].job] = "canceled"] /\ UNCHANGED ledger
          /\ status[req[r].job] \in Active \cup Canceled
      BY <2>3 DEF RecordCanceledGone, Step, OnceInv, PhaseRead
    <3>2. CASE status[req[r].job] \in Active
      BY <1>3, <2>1, <3>1, <3>2 DEF Canceled, Abstract!Next
    <3>3. CASE status[req[r].job] \in Canceled
      <4>1. Phase("canceled") = Phase(status[req[r].job])
        BY <3>3 DEF Phase, Active, Committed, Canceled
      <4> QED
        BY <2>1, <3>1, <4>1, SamePhase
    <3> QED
      BY <3>1, <3>2, <3>3
  <2>4. CASE DeleteCanceled(r)
    BY <2>4, SamePhase DEF DeleteCanceled, Unlink
  <2> QED
    BY <1>4, <2>2, <2>3, <2>4 DEF Cancel
<1>5. ASSUME NEW r \in Requests, Retry(r)
      PROVE  UNCHANGED Abstract!ledgerVars
  <2>1. CASE RetryWithoutSource(r) \/ RecordRetry(r)
    <3> DEFINE u == req[r].job
    <3>1. /\ u \in Uploads /\ UNCHANGED ledger
          /\ status' = [status EXCEPT ![u] = FinalStatus(req[r].seen)]
          /\ req[r].seen \in CleanupFailed
          /\ status[u] \in Committed <=> req[r].seen \in Committed
          /\ status[u] \in Canceled <=> req[r].seen \in Canceled
      BY <2>1 DEF RetryWithoutSource, RecordRetry, Step, OnceInv, PhaseRead, TypeOK, HandlersOK
    <3>2. Phase(FinalStatus(req[r].seen)) = Phase(status[u])
      BY <3>1 DEF Phase, FinalStatus, CleanupFailed, Active, Committed, Canceled
    <3> QED
      BY <3>1, <3>2, SamePhase
  <2>2. CASE DeleteAgain(r)
    BY <2>2, SamePhase DEF DeleteAgain, Unlink
  <2> QED
    BY <1>5, <2>1, <2>2 DEF Retry
<1>6. ASSUME NEW r \in Requests, Commit(r), ~Post(r)
      PROVE  UNCHANGED Abstract!ledgerVars
  <2>1. CASE RecordCommittedStuck(r)
    <3>1. /\ req[r].job \in Uploads /\ UNCHANGED ledger
          /\ status' = [status EXCEPT ![req[r].job] = "committed_cleanup_failed"]
          /\ status[req[r].job] \in Committed
      BY <2>1 DEF RecordCommittedStuck, Step, OnceInv, PhaseRead, TypeOK, HandlersOK
    <3>2. Phase("committed_cleanup_failed") = Phase(status[req[r].job])
      BY <3>1 DEF Phase, Active, Committed, Canceled
    <3> QED
      BY <3>1, <3>2, SamePhase
  <2>2. CASE ~RecordCommittedStuck(r)
    BY <1>6, <2>2, SamePhase
       DEF Commit, RefuseCommit, PrepareAny, PrepareCommit, PostConflict, KeepSource,
           DeleteCommitted, RecordCommittedGone, Unlink
  <2> QED
    BY <2>1, <2>2
<1>7. ASSUME NEW r \in Requests, Map(r)
      PROVE  UNCHANGED Abstract!ledgerVars
  <2>1. CASE WriteMapping(r)
    <3>1. req[r].job \in Uploads /\ UNCHANGED ledger /\ status[req[r].job] \in Active
      BY <2>1 DEF WriteMapping, Step, OnceInv, PhaseRead, TypeOK, HandlersOK
    <3>2. Phase("reviewing") = Phase(status[req[r].job])
      BY <3>1 DEF Phase, Active
    <3>3. status' = status \/ status' = [status EXCEPT ![req[r].job] = "reviewing"]
      BY <2>1 DEF WriteMapping
    <3> QED
      BY <3>1, <3>2, <3>3, SamePhase
  <2>2. CASE RefuseMapping(r) \/ ReadForMapping(r)
    BY <2>2, SamePhase DEF RefuseMapping, ReadForMapping
  <2> QED
    BY <1>7, <2>1, <2>2 DEF Map
<1>8. ASSUME NEW r \in Requests, Upload(r), ~InsertJob(r)
      PROVE  UNCHANGED Abstract!ledgerVars
  BY <1>8, SamePhase DEF Upload, ResumeExisting, RejectSource, MatchNothing, InsertFails, DiscardUpload
<1>9. ASSUME NEW r \in Requests, DatabaseFails(r)
      PROVE  UNCHANGED Abstract!ledgerVars
  BY <1>9, SamePhase DEF DatabaseFails
<1>10. ASSUME NEW r \in Requests, NEW u \in Uploads, Start(r, u)
       PROVE  UNCHANGED Abstract!ledgerVars
  BY <1>10, SamePhase DEF Start, SaveUpload, LoadForMapping, LoadForCommit, LoadForCancel, LoadForRetry
<1>11. CASE Crash \/ UNCHANGED vars
  BY <1>11, SamePhase DEF Crash, vars
<1>12. ASSUME NEW r \in Requests, Advance(r)
       PROVE  Abstract!Next \/ UNCHANGED Abstract!ledgerVars
  <2>1. CASE InsertJob(r) \/ Post(r)
    <3>1. req[r].job \in Uploads
      BY <2>1, NoSuchUpload DEF InsertJob, Post, Step, ThreadStep, TypeOK, HandlersOK
    <3> QED
      BY <1>1, <1>2, <2>1, <3>1 DEF Abstract!Next
  <2>2. CASE ~InsertJob(r) /\ ~Post(r)
    BY <1>4, <1>5, <1>6, <1>7, <1>8, <1>9, <1>12, <2>2 DEF Advance
  <2> QED
    BY <2>1, <2>2
<1> QED
  BY <1>10, <1>11, <1>12 DEF Next

\* Transaction imports implement their ledger: as long as a handler keeps the
\* event loop from the status it has read to the status it writes, an import is
\* posted at most once, all of it in one step, and both ends are final.
THEOREM LedgerIsImplemented ==
  ASSUME DecidesAtOnce
  PROVE  Spec => PostsOnce
<1>1. Init => OnceInv /\ Abstract!Init
  <2>1. Init => OnceInv
    BY DEF Init, Idle, OnceInv, UploadsApart, PhaseRead, Deciding, UploadPoints, LoopPoints
  <2>2. Init => Abstract!Init
    BY DEF Init, Abstract!Init, Phase, Active, Committed, Canceled
  <2> QED
    BY <2>1, <2>2
<1>2. TypeOK /\ OnceInv /\ [Next]_vars => OnceInv'
  BY StepOnce
<1>3. TypeOK /\ OnceInv /\ [Next]_vars => [Abstract!Next]_(Abstract!ledgerVars)
  BY StepAbstract
<1> QED
  BY <1>1, <1>2, <1>3, TypeCorrect, PTL DEF Spec, PostsOnce, Abstract!Spec
=============================================================================
