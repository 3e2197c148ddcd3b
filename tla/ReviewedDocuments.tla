-------------------------- MODULE ReviewedDocuments --------------------------
(***************************************************************************)
(* Payslips (app/payslips/service.py) and account statements               *)
(* (app/statement_imports/service.py): a document is stored, extracted,    *)
(* reviewed by a member, and recorded as an income or as a balance         *)
(* snapshot; then its source is kept or removed.  The two services share   *)
(* this shape and differ in how they keep one row per document: payslips   *)
(* take the writer lock before a second lookup, statements rely on a       *)
(* unique constraint.                                                      *)
(*                                                                         *)
(* An upload is one submission and runs in a pool thread of its own; a     *)
(* review is a handler of the confirmation or of the cleanup route.  Every *)
(* handler is cut at its commits and file operations, and any other may    *)
(* come in between: requests on independent sessions, as the tests of the  *)
(* repository exercise the services.                                       *)
(***************************************************************************)
EXTENDS Naturals, FiniteSets

CONSTANTS
  Uploads,     \* submissions
  Reviews,     \* confirmation and cleanup handlers in flight at one time
  Sources,     \* the bytes of a document: its checksum
  Faults,      \* "unlink", "database", "crash"
  NoUpload, NoSource

Categories == {"payslip", "statement"}
Retentions == {"retain", "delete_after_import"}
Confirmed == {"confirmed", "confirmed_cleanup_failed"}
Statuses == {"none", "pending"} \cup Confirmed

Working == {"saved", "extracted", "locked", "unmatched"}
Finished == {"accepted", "refused", "broken"}
ReviewPoints == {"loaded", "reviewed", "posted", "sourceGone", "sourceStuck",
                 "retrying", "retryGone", "retryStuck"}

ASSUME DocumentAssumption ==
  /\ Faults \subseteq {"unlink", "database", "crash"}
  /\ NoUpload \notin Uploads
  /\ NoSource \notin Sources

VARIABLES
  at,           \* upload -> where its handler is
  submitted,    \* upload -> what was submitted
  file,         \* upload -> "unused", "stored" or "gone": its private file
  status,       \* upload -> review_status of the row it inserted, or "none"
  deleted,      \* upload -> UploadedFile.deleted
  records,      \* IncomeRecord and AccountBalanceSnapshot: <<row, review>>
  review,       \* review -> what its handler holds in memory
  writer,       \* the payslip upload holding the database's writer lock
  interrupted   \* history: uploads cut short, or whose file could not be removed

vars == <<at, submitted, file, status, deleted, records, review, writer, interrupted>>
tables == <<status, deleted, records>>

Nothing == [category |-> "none", source |-> NoSource, retention |-> "none"]
IdleReview == [at |-> "idle", doc |-> NoUpload, seen |-> "none"]

\* What makes two submissions one document.
Key(u) == <<submitted[u].category, submitted[u].source>>
DocumentKeys == Categories \X Sources

IsPayslip(u) == submitted[u].category = "payslip"
HasRow(u) == status[u] # "none"
HasRecord(u) == \E entry \in records : entry[1] = u

\* The rows a lookup by checksum finds: _matching_payslip and the two
\* lookups of ingest_one_statement.
Matching(u) == {v \in Uploads : HasRow(v) /\ Key(v) = Key(u)}

\* Another transaction's lock keeps every other writer waiting.
CanWrite(u) == writer \in {NoUpload, u}

Init ==
  /\ at = [u \in Uploads |-> "unused"]
  /\ submitted = [u \in Uploads |-> Nothing]
  /\ file = [u \in Uploads |-> "unused"]
  /\ status = [u \in Uploads |-> "none"]
  /\ deleted = [u \in Uploads |-> FALSE]
  /\ records = {}
  /\ review = [r \in Reviews |-> IdleReview]
  /\ writer = NoUpload
  /\ interrupted = {}

-----------------------------------------------------------------------------
(* Upload: save, look up, extract, and insert a pending row.               *)

UploadAt(u, point) ==
  /\ at' = [at EXCEPT ![u] = point]
  /\ UNCHANGED submitted

Save(u, category, source, retention) ==
  /\ at[u] = "unused"
  /\ at' = [at EXCEPT ![u] = "saved"]
  /\ submitted' = [submitted EXCEPT ![u] =
                     [category |-> category, source |-> source,
                      retention |-> retention]]
  /\ file' = [file EXCEPT ![u] = "stored"]
  /\ UNCHANGED <<tables, review, writer, interrupted>>

\* Remove the file of this submission and end with the given result.  When
\* the file system refuses, the error page says so and the file stays.
DropSource(u, result) ==
  /\ \/ /\ file' = [file EXCEPT ![u] = "gone"]
        /\ UploadAt(u, result)
        /\ UNCHANGED interrupted
     \/ /\ "unlink" \in Faults
        /\ UploadAt(u, "refused")
        /\ interrupted' = interrupted \cup {u}
        /\ UNCHANGED file
  /\ UNCHANGED <<tables, review>>

\* Mutant: the answer of an earlier row leaves its transaction open.
KeepLock(u) == UNCHANGED writer

\* The lock, if this upload has it, goes with the commit or the rollback.
Release(u) == writer' = IF writer = u THEN NoUpload ELSE writer

\* An earlier row is answered and the new file dropped.  A refused unlink is
\* tried once more by the exception handler; only statements let the error
\* through to the server.
ReuseRow(u, point) ==
  /\ at[u] = point
  /\ Matching(u) # {}
  /\ \/ DropSource(u, "accepted")
     \/ /\ "unlink" \in Faults
        /\ DropSource(u, IF IsPayslip(u) THEN "refused" ELSE "broken")
  /\ Release(u)

\* Extraction happens outside of any transaction.
Extract(u) ==
  /\ at[u] = "saved"
  /\ Matching(u) = {}
  /\ UploadAt(u, "extracted")
  /\ UNCHANGED <<file, tables, review, writer, interrupted>>

ExtractionFails(u) ==
  /\ at[u] = "saved"
  /\ Matching(u) = {}
  /\ DropSource(u, "refused")
  /\ UNCHANGED writer

\* Mutant: the second lookup without the lock.
TakeNoLock(u) ==
  /\ at[u] = "extracted"
  /\ IsPayslip(u)
  /\ UploadAt(u, "locked")
  /\ UNCHANGED <<file, tables, review, writer, interrupted>>

TakeLock(u) ==
  /\ at[u] = "extracted"
  /\ IsPayslip(u)
  /\ writer = NoUpload
  /\ writer' = u
  /\ UploadAt(u, "locked")
  /\ UNCHANGED <<file, tables, review, interrupted>>

MatchNothing(u) ==
  /\ at[u] = "locked"
  /\ Matching(u) = {}
  /\ UploadAt(u, "unmatched")
  /\ UNCHANGED <<file, tables, review, writer, interrupted>>

\* The point from which the row is inserted.
InsertPoint(u) == IF IsPayslip(u) THEN "unmatched" ELSE "extracted"

\* Mutant: no unique constraint on (workspace, category, checksum).
ChecksumUnchecked(u) == TRUE

\* The unique constraint; payslips have none.
ChecksumIsNew(u) == IsPayslip(u) \/ Matching(u) = {}

InsertPending(u) ==
  /\ at[u] = InsertPoint(u)
  /\ CanWrite(u)
  /\ ChecksumIsNew(u)
  /\ status' = [status EXCEPT ![u] = "pending"]
  /\ UploadAt(u, "accepted")
  /\ Release(u)
  /\ UNCHANGED <<file, deleted, records, review, interrupted>>

\* Statements only: the constraint names a winner, whose row is answered.
LoseInsert(u) ==
  /\ ~IsPayslip(u)
  /\ ReuseRow(u, "extracted")

\* Any other error of the insert: rolled back, and the file is dropped.
\* Mutant: without dropping the file.
InsertFailsKeepingFile(u) ==
  /\ "database" \in Faults
  /\ at[u] \in {"extracted", "locked", "unmatched"}
  /\ UploadAt(u, "broken")
  /\ Release(u)
  /\ UNCHANGED <<file, tables, review, interrupted>>

InsertFails(u) ==
  /\ "database" \in Faults
  /\ at[u] \in {"extracted", "locked", "unmatched"}
  /\ DropSource(u, "broken")
  /\ Release(u)

UploadWork(u) ==
  \/ ReuseRow(u, "saved")
  \/ ReuseRow(u, "locked")
  \/ Extract(u)
  \/ ExtractionFails(u)
  \/ TakeLock(u)
  \/ MatchNothing(u)
  \/ InsertPending(u)
  \/ LoseInsert(u)

UploadStep(u) == UploadWork(u) \/ InsertFails(u)

-----------------------------------------------------------------------------
(* Confirmation: the row is loaded before the form is awaited, the record  *)
(* is looked for after it.                                                 *)

ReviewStep(r, point, next) ==
  /\ review[r].at = point
  /\ review' = [review EXCEPT ![r] = next]

ReviewMoves(r, point, next) ==
  ReviewStep(r, point, [at |-> next, doc |-> review[r].doc, seen |-> review[r].seen])

LoadForConfirm(r, u) ==
  /\ HasRow(u)
  /\ ReviewStep(r, "idle", [at |-> "loaded", doc |-> u, seen |-> status[u]])
  /\ UNCHANGED <<at, submitted, file, tables, writer, interrupted>>

\* Already recorded, not pending, or a form with errors: nothing is written.
AnswerConfirm(r) ==
  /\ ReviewStep(r, "loaded", IdleReview)
  /\ UNCHANGED <<at, submitted, file, tables, writer, interrupted>>

Reviewed(r) ==
  /\ ReviewMoves(r, "loaded", "reviewed")
  /\ ~HasRecord(review[r].doc)
  /\ review[r].seen = "pending"
  /\ UNCHANGED <<at, submitted, file, tables, writer, interrupted>>

\* Mutant: no unique index on payslip_id and statement_import_id.
RecordUnchecked(u) == TRUE

RecordIsNew(u) == ~HasRecord(u)

Post(r) ==
  LET u == review[r].doc IN
  /\ ReviewMoves(r, "reviewed", "posted")
  /\ CanWrite(NoUpload)
  /\ RecordIsNew(u)
  /\ records' = records \cup {<<u, r>>}
  /\ status' = [status EXCEPT ![u] = "confirmed"]
  /\ UNCHANGED <<at, submitted, file, deleted, writer, interrupted>>

\* IntegrityError: answered with the record of the winner.
PostConflict(r) ==
  /\ ReviewStep(r, "reviewed", IdleReview)
  /\ ~RecordIsNew(review[r].doc)
  /\ UNCHANGED <<at, submitted, file, tables, writer, interrupted>>

KeepSource(r) ==
  LET u == review[r].doc IN
  /\ ReviewStep(r, "posted", IdleReview)
  /\ submitted[u].retention = "retain" \/ deleted[u]
  /\ UNCHANGED <<at, submitted, file, tables, writer, interrupted>>

\* Unlinking tolerates a missing file; it may be refused.
Unlink(r, point, gone, stuck) ==
  LET u == review[r].doc IN
  /\ review[r].at = point
  /\ ~deleted[u]
  /\ \/ /\ file' = [file EXCEPT ![u] = "gone"]
        /\ ReviewMoves(r, point, gone)
     \/ /\ "unlink" \in Faults
        /\ file[u] = "stored"
        /\ ReviewMoves(r, point, stuck)
        /\ UNCHANGED file
  /\ UNCHANGED <<at, submitted, tables, writer, interrupted>>

\* Mutant: the retention choice of the row is not looked at.
DropConfirmedAlways(r) == Unlink(r, "posted", "sourceGone", "sourceStuck")

DropConfirmed(r) ==
  /\ Unlink(r, "posted", "sourceGone", "sourceStuck")
  /\ submitted[review[r].doc].retention = "delete_after_import"

RecordGone(r) ==
  /\ ReviewStep(r, "sourceGone", IdleReview)
  /\ CanWrite(NoUpload)
  /\ deleted' = [deleted EXCEPT ![review[r].doc] = TRUE]
  /\ UNCHANGED <<at, submitted, file, status, records, writer, interrupted>>

RecordStuck(r) ==
  /\ ReviewStep(r, "sourceStuck", IdleReview)
  /\ CanWrite(NoUpload)
  /\ status' = [status EXCEPT ![review[r].doc] = "confirmed_cleanup_failed"]
  /\ UNCHANGED <<at, submitted, file, deleted, records, writer, interrupted>>

-----------------------------------------------------------------------------
(* Retry of a failed cleanup: a route of statements only.                  *)

Retriable(u) == ~IsPayslip(u)

LoadForRetry(r, u) ==
  /\ HasRow(u)
  /\ Retriable(u)
  /\ ReviewStep(r, "idle", [at |-> "retrying", doc |-> u, seen |-> status[u]])
  /\ UNCHANGED <<at, submitted, file, tables, writer, interrupted>>

RefuseRetry(r) ==
  /\ ReviewStep(r, "retrying", IdleReview)
  /\ review[r].seen # "confirmed_cleanup_failed"
  /\ UNCHANGED <<at, submitted, file, tables, writer, interrupted>>

\* Another retry has removed the source meanwhile.
RetryAfterAnother(r) ==
  LET u == review[r].doc IN
  /\ ReviewStep(r, "retrying", IdleReview)
  /\ deleted[u]
  /\ review[r].seen = "confirmed_cleanup_failed"
  /\ CanWrite(NoUpload)
  /\ status' = [status EXCEPT ![u] = "confirmed"]
  /\ UNCHANGED <<at, submitted, file, deleted, records, writer, interrupted>>

UnlinkAgain(r) ==
  /\ review[r].seen = "confirmed_cleanup_failed"
  /\ Unlink(r, "retrying", "retryGone", "retryStuck")

\* The redirect that says the source is still there.
AnswerStuck(r) ==
  /\ ReviewStep(r, "retryStuck", IdleReview)
  /\ UNCHANGED <<at, submitted, file, tables, writer, interrupted>>

\* Mutant: the final status without the mark on the file.
RecordRetryUnmarked(r) ==
  /\ ReviewStep(r, "retryGone", IdleReview)
  /\ CanWrite(NoUpload)
  /\ status' = [status EXCEPT ![review[r].doc] = "confirmed"]
  /\ UNCHANGED <<at, submitted, file, deleted, records, writer, interrupted>>

RecordRetry(r) ==
  LET u == review[r].doc IN
  /\ ReviewStep(r, "retryGone", IdleReview)
  /\ CanWrite(NoUpload)
  /\ deleted' = [deleted EXCEPT ![u] = TRUE]
  /\ status' = [status EXCEPT ![u] = "confirmed"]
  /\ UNCHANGED <<at, submitted, file, records, writer, interrupted>>

-----------------------------------------------------------------------------
(* Faults.                                                                 *)

\* A commit of a review fails and is rolled back.
ReviewCommitFails(r) ==
  /\ "database" \in Faults
  /\ review[r].at \in {"reviewed", "sourceGone", "sourceStuck", "retryGone"}
  /\ interrupted' = interrupted \cup {review[r].doc}
  /\ ReviewStep(r, review[r].at, IdleReview)
  /\ UNCHANGED <<at, submitted, file, tables, writer>>

Busy == {u \in Uploads : at[u] \in Working}
InReview == {review[r].doc : r \in {x \in Reviews : review[x].at # "idle"}}

\* The process dies: handlers and the lock go, rows and files stay.
Crash ==
  /\ "crash" \in Faults
  /\ interrupted' = interrupted \cup Busy \cup InReview
  /\ at' = [u \in Uploads |-> IF u \in Busy THEN "broken" ELSE at[u]]
  /\ review' = [r \in Reviews |-> IdleReview]
  /\ writer' = NoUpload
  /\ UNCHANGED <<submitted, file, tables>>

-----------------------------------------------------------------------------
ConfirmStep(r) ==
  \/ AnswerConfirm(r)
  \/ Reviewed(r)
  \/ Post(r)
  \/ PostConflict(r)
  \/ KeepSource(r)
  \/ DropConfirmed(r)
  \/ RecordGone(r)
  \/ RecordStuck(r)

RetryStep(r) ==
  \/ RefuseRetry(r)
  \/ RetryAfterAnother(r)
  \/ UnlinkAgain(r)
  \/ AnswerStuck(r)
  \/ RecordRetry(r)

ReviewNext(r) ==
  \/ \E u \in Uploads : LoadForConfirm(r, u) \/ LoadForRetry(r, u)
  \/ ConfirmStep(r)
  \/ RetryStep(r)
  \/ ReviewCommitFails(r)

Next ==
  \/ \E u \in Uploads :
       \/ \E c \in Categories, s \in Sources, k \in Retentions : Save(u, c, s, k)
       \/ UploadStep(u)
  \/ \E r \in Reviews : ReviewNext(r)
  \/ Crash

Spec == Init /\ [][Next]_vars

-----------------------------------------------------------------------------
(* Properties.                                                             *)

\* A handler of a review holds a document or nothing at all.
ReviewStates ==
  {IdleReview} \cup [at : ReviewPoints, doc : Uploads, seen : Statuses]

\* Types of the state; a row exists only for what was submitted.
TypeOK ==
  /\ at \in [Uploads -> {"unused"} \cup Working \cup Finished]
  /\ submitted \in [Uploads -> [category : Categories \cup {"none"},
                                source : Sources \cup {NoSource},
                                retention : Retentions \cup {"none"}]]
  /\ file \in [Uploads -> {"unused", "stored", "gone"}]
  /\ status \in [Uploads -> Statuses]
  /\ deleted \in [Uploads -> BOOLEAN]
  /\ records \subseteq Uploads \X Reviews
  /\ review \in [Reviews -> ReviewStates]
  /\ writer \in Uploads \cup {NoUpload}
  /\ interrupted \subseteq Uploads

\* Two uploads of one document, at whatever moments, share one row to review:
\* _serialize_workspace_payslip_insert and uq_statement_import.
OneRowPerDocument ==
  \A u, v \in Uploads :
    HasRow(u) /\ HasRow(v) /\ Key(u) = Key(v) => u = v

\* A private file without a row is the file of an upload at work, or of one
\* that was cut short or whose file the disk would not give up.
NoOrphanSource ==
  \A u \in Uploads :
    file[u] = "stored" => at[u] \in Working \/ HasRow(u) \/ u \in interrupted

\* The source of a row is removed only by the member's choice and only once
\* its income or balance is recorded.
SourceKept ==
  \A u \in Uploads :
    HasRow(u) /\ file[u] # "stored" =>
      submitted[u].retention = "delete_after_import" /\ HasRecord(u)

\* When no handler works on a confirmed document and none was cut short,
\* a source that was to go is gone and marked so, or its row says it is stuck;
\* and a mark of removal is never wrong.
SourcesSettle ==
  \A u \in Uploads :
    /\ deleted[u] => file[u] = "gone"
    /\ (status[u] = "confirmed" /\ u \notin InReview \cup interrupted
           /\ submitted[u].retention = "delete_after_import") => deleted[u]

\* What reviewed documents promise, as the abstract ledger has it.
Ledger == INSTANCE DocumentLedger WITH
  Documents <- DocumentKeys,
  opened <- [d \in DocumentKeys |->
               Cardinality({u \in Uploads : HasRow(u) /\ Key(u) = d})],
  recorded <- [d \in DocumentKeys |->
                 Cardinality({e \in records : Key(e[1]) = d})]

\* Every document is opened once and recorded once, whatever the order of
\* uploads, confirmations and faults.
RefinesLedger == Ledger!Spec

=============================================================================
