----------------------------- MODULE ImportJobs -----------------------------
(***************************************************************************)
(* Transaction imports: app/imports/service.py with the storage and the    *)
(* routes that call it.  An upload is one submitted statement; it fixes    *)
(* the storage key, the bytes, the account and the retention choice, so    *)
(* one upload owns at most one file, one UploadedFile row and one          *)
(* ImportJob row.  One workspace is modelled: every query is scoped to it. *)
(*                                                                         *)
(* A request is an HTTP handler.  Handlers are cut where another actor,    *)
(* a failure or a crash can come in: at a commit of the database, at a     *)
(* file operation and at `await request.form()`.                           *)
(***************************************************************************)
EXTENDS Fingerprints

CONSTANTS
  Uploads,       \* submitted statements
  Requests,      \* handlers that can be in flight at the same time
  ChecksumOf,    \* upload -> its (account, checksum), what makes a re-upload
  RetentionOf,   \* upload -> "delete_after_import" or "retain"
  RowsOf,        \* upload -> the charges of its rows, in source order
  Yields,        \* points at which a handler lets another handler run
  Faults,        \* the faults of the environment: "unlink", "database", "crash"
  NoUpload, NoRequest

Active == {"awaiting_mapping", "reviewing"}
Committed == {"committed", "committed_cleanup_failed"}
Canceled == {"canceled", "canceled_cleanup_failed"}
CleanupFailed == {"committed_cleanup_failed", "canceled_cleanup_failed"}
Statuses == Active \cup Committed \cup Canceled

\* An upload is at "saved" or "unmatched".  POST /document-uploads runs it in
\* a thread of the pool; POST /imports is a coroutine that holds the event
\* loop, whose interleavings are among those of a thread.  Every other point
\* but "idle" belongs to a coroutine handler.
UploadPoints == {"saved", "unmatched"}
LoopPoints == {"mapping", "mapped", "reviewed", "prepared", "posted",
               "sourceGone", "sourceStuck", "canceling", "cancelGone",
               "cancelStuck", "retrying", "retryGone"}
Points == {"idle"} \cup UploadPoints \cup LoopPoints

ASSUME ImportAssumption ==
  /\ ChecksumOf \in [Uploads -> Uploads]
  /\ RetentionOf \in [Uploads -> {"delete_after_import", "retain"}]
  /\ RowsOf \in [Uploads -> Seq(Charges)]
  /\ Yields \subseteq LoopPoints
  /\ Faults \subseteq {"unlink", "database", "crash"}
  /\ NoUpload \notin Uploads
  /\ NoRequest \notin Requests
  /\ Excluded \notin Charges

VARIABLES
  file,         \* upload -> "unused", "stored" or "gone": the private file
  status,       \* upload -> ImportJob.status, "none" while there is no row
  deleted,      \* upload -> UploadedFile.deleted
  ledger,       \* the transactions: [fp: fingerprint, job: import job]
  req,          \* request -> what its handler holds in memory
  turn,         \* the handler the event loop is running, or NoRequest
  interrupted   \* history: uploads with a handler cut short or a stuck file

vars == <<file, status, deleted, ledger, req, turn, interrupted>>

\* at: where the handler is; job: the upload it works on; seen: the status
\* the ORM loaded with the job; batch: the fingerprints it is going to insert.
Idle == [at |-> "idle", job |-> NoUpload, seen |-> "none", batch |-> {}]

Holding(point, u, s) == [at |-> point, job |-> u, seen |-> s, batch |-> {}]

\* Request r further on, with the same job in memory.
Moved(r, point) == Holding(point, req[r].job, req[r].seen)

Known == {entry.fp : entry \in ledger}

Init ==
  /\ file = [u \in Uploads |-> "unused"]
  /\ status = [u \in Uploads |-> "none"]
  /\ deleted = [u \in Uploads |-> FALSE]
  /\ ledger = {}
  /\ req = [r \in Requests |-> Idle]
  /\ turn = NoRequest
  /\ interrupted = {}

-----------------------------------------------------------------------------
(* Scheduling.  A coroutine handler keeps the event loop until it reaches  *)
(* one of Yields or ends; an upload is given a thread of the pool and      *)
(* needs no turn.                                                          *)

Step(r, point, next) ==
  /\ req[r].at = point
  /\ turn \in {NoRequest, r}
  /\ req' = [req EXCEPT ![r] = next]
  /\ turn' = IF next.at \in Yields \cup {"idle"} THEN NoRequest ELSE r

ThreadStep(r, point, next) ==
  /\ req[r].at = point
  /\ req' = [req EXCEPT ![r] = next]
  /\ UNCHANGED turn

SourceReadable(u) == ~deleted[u] /\ file[u] = "stored"

-----------------------------------------------------------------------------
(* Upload: save the file, look for a live job with the same bytes, insert. *)

SaveUpload(r, u) ==
  /\ ThreadStep(r, "idle", Holding("saved", u, "none"))
  /\ file[u] = "unused"
  /\ file' = [file EXCEPT ![u] = "stored"]
  /\ UNCHANGED <<status, deleted, ledger, interrupted>>

\* The jobs _matching_import can return.
Matching(u) ==
  {v \in Uploads : /\ ChecksumOf[v] = ChecksumOf[u]
                   /\ status[v] \in Active \cup Committed}

\* Mutant: the file written for an upload that ends without a job is kept.
DiscardNothing(r, point) ==
  /\ ThreadStep(r, point, Idle)
  /\ UNCHANGED <<file, status, deleted, ledger, interrupted>>

\* Drop the file just written: an earlier job was found, the source does not
\* parse, or the insert failed.  When unlinking fails too, the file stays.
DiscardUpload(r, point) ==
  LET u == req[r].job IN
  /\ ThreadStep(r, point, Idle)
  /\ \/ /\ file' = [file EXCEPT ![u] = "gone"]
        /\ UNCHANGED interrupted
     \/ /\ "unlink" \in Faults
        /\ interrupted' = interrupted \cup {u}
        /\ UNCHANGED file
  /\ UNCHANGED <<status, deleted, ledger>>

ResumeExisting(r) ==
  /\ DiscardUpload(r, "saved")
  /\ Matching(req[r].job) # {}

\* A source that does not parse is dropped before any job is looked up.
RejectSource(r) == DiscardUpload(r, "saved")

MatchNothing(r) ==
  /\ ThreadStep(r, "saved", Holding("unmatched", req[r].job, "none"))
  /\ Matching(req[r].job) = {}
  /\ UNCHANGED <<file, status, deleted, ledger, interrupted>>

\* A known provider layout or a PDF needs no mapping step.
InsertJob(r) ==
  /\ ThreadStep(r, "unmatched", Idle)
  /\ \E s \in Active : status' = [status EXCEPT ![req[r].job] = s]
  /\ UNCHANGED <<file, deleted, ledger, interrupted>>

InsertFails(r) ==
  /\ "database" \in Faults
  /\ DiscardUpload(r, "unmatched")

-----------------------------------------------------------------------------
(* Mapping.  The route loads the job, awaits the form, and only then calls *)
(* save_mapping, which trusts the status it loaded.                        *)

LoadForMapping(r, u) ==
  /\ Step(r, "idle", Holding("mapping", u, status[u]))
  /\ status[u] # "none"
  /\ UNCHANGED <<file, status, deleted, ledger, interrupted>>

\* Wrong status, missing source or an invalid mapping: an error page.
RefuseMapping(r) ==
  /\ Step(r, "mapping", Idle)
  /\ UNCHANGED <<file, status, deleted, ledger, interrupted>>

ReadForMapping(r) ==
  /\ Step(r, "mapping", Moved(r, "mapped"))
  /\ req[r].seen \in Active
  /\ SourceReadable(req[r].job)
  /\ UNCHANGED <<file, status, deleted, ledger, interrupted>>

\* Assigning an unchanged attribute emits no UPDATE: a job that was loaded
\* as reviewing keeps whatever status the row has by now.
WriteMapping(r) ==
  LET u == req[r].job IN
  /\ Step(r, "mapped", Idle)
  /\ status' = IF req[r].seen = "awaiting_mapping"
                 THEN [status EXCEPT ![u] = "reviewing"] ELSE status
  /\ UNCHANGED <<file, deleted, ledger, interrupted>>

-----------------------------------------------------------------------------
(* Commit: load the job, await the form, recompute the review, post the    *)
(* new rows and the status in one transaction, then honor the retention.   *)

LoadForCommit(r, u) ==
  /\ Step(r, "idle", Holding("reviewed", u, status[u]))
  /\ status[u] # "none"
  /\ UNCHANGED <<file, status, deleted, ledger, interrupted>>

\* Already committed (the idempotent answer), not reviewing, source missing,
\* unverifiable or invalid rows, or no new row: nothing is written.
RefuseCommit(r) ==
  /\ Step(r, "reviewed", Idle)
  /\ UNCHANGED <<file, status, deleted, ledger, interrupted>>

\* The fingerprints are those of the included rows, minus the known ones.
NewFingerprints(edits) == FingerprintTransactions(edits) \ Known

\* Mutant: no look at the status, a committed job can be committed again.
PrepareAnyStatus(r, edits) ==
  LET new == NewFingerprints(edits) IN
  /\ Step(r, "reviewed", [at |-> "prepared", job |-> req[r].job,
                           seen |-> req[r].seen, batch |-> new])
  /\ SourceReadable(req[r].job)
  /\ new # {}
  /\ UNCHANGED <<file, status, deleted, ledger, interrupted>>

PrepareCommit(r, edits) ==
  LET new == NewFingerprints(edits) IN
  /\ Step(r, "reviewed", [at |-> "prepared", job |-> req[r].job,
                           seen |-> req[r].seen, batch |-> new])
  /\ req[r].seen = "reviewing"
  /\ SourceReadable(req[r].job)
  /\ new # {}
  /\ UNCHANGED <<file, status, deleted, ledger, interrupted>>

\* Mutant: no unique constraint on (workspace, duplicate_fingerprint).
NoUniqueConstraint(batch) == TRUE

UniqueConstraintHolds(batch) == batch \cap Known = {}

Post(r) ==
  LET u == req[r].job IN
  /\ Step(r, "prepared", Holding("posted", u, "committed"))
  /\ UniqueConstraintHolds(req[r].batch)
  /\ ledger' = ledger \cup {[fp |-> f, job |-> u] : f \in req[r].batch}
  /\ status' = [status EXCEPT ![u] = "committed"]
  /\ UNCHANGED <<file, deleted, interrupted>>

\* IntegrityError: another request inserted one of the fingerprints first.
PostConflict(r) ==
  /\ Step(r, "prepared", Idle)
  /\ ~UniqueConstraintHolds(req[r].batch)
  /\ UNCHANGED <<file, status, deleted, ledger, interrupted>>

KeepSource(r) ==
  /\ Step(r, "posted", Idle)
  /\ \/ RetentionOf[req[r].job] = "retain"
     \/ deleted[req[r].job]
  /\ UNCHANGED <<file, status, deleted, ledger, interrupted>>

\* Unlink the source of the request's job: the file is gone afterwards
\* (missing_ok), or the operating system refuses.
Unlink(r, point, gone, stuck) ==
  LET u == req[r].job IN
  /\ req[r].at = point
  /\ ~deleted[u]
  /\ \/ /\ file' = [file EXCEPT ![u] = "gone"]
        /\ Step(r, point, gone)
     \/ /\ "unlink" \in Faults
        /\ file[u] = "stored"
        /\ Step(r, point, stuck)
        /\ UNCHANGED file
  /\ UNCHANGED <<status, deleted, ledger, interrupted>>

\* Mutant: the retention choice is not looked at.
DeleteWhateverTheChoice(r) ==
  Unlink(r, "posted", Moved(r, "sourceGone"), Moved(r, "sourceStuck"))

DeleteCommitted(r) ==
  /\ Unlink(r, "posted", Moved(r, "sourceGone"), Moved(r, "sourceStuck"))
  /\ RetentionOf[req[r].job] = "delete_after_import"

RecordCommittedGone(r) ==
  /\ Step(r, "sourceGone", Idle)
  /\ deleted' = [deleted EXCEPT ![req[r].job] = TRUE]
  /\ UNCHANGED <<file, status, ledger, interrupted>>

\* Mutant: the failed cleanup is swallowed.
SwallowStuck(r) ==
  /\ Step(r, "sourceStuck", Idle)
  /\ UNCHANGED <<file, status, deleted, ledger, interrupted>>

RecordCommittedStuck(r) ==
  /\ Step(r, "sourceStuck", Idle)
  /\ status' = [status EXCEPT ![req[r].job] = "committed_cleanup_failed"]
  /\ UNCHANGED <<file, deleted, ledger, interrupted>>

-----------------------------------------------------------------------------
(* Cancel: the source is removed first, whatever the retention choice.     *)

LoadForCancel(r, u) ==
  /\ Step(r, "idle", Holding("canceling", u, status[u]))
  /\ status[u] \in Active
  /\ UNCHANGED <<file, status, deleted, ledger, interrupted>>

CancelWithoutSource(r) ==
  LET u == req[r].job IN
  /\ Step(r, "canceling", Idle)
  /\ deleted[u]
  /\ status' = [status EXCEPT ![u] = "canceled"]
  /\ UNCHANGED <<file, deleted, ledger, interrupted>>

DeleteCanceled(r) ==
  Unlink(r, "canceling", Moved(r, "cancelGone"), Moved(r, "cancelStuck"))

RecordCanceledGone(r) ==
  LET u == req[r].job IN
  /\ Step(r, "cancelGone", Idle)
  /\ deleted' = [deleted EXCEPT ![u] = TRUE]
  /\ status' = [status EXCEPT ![u] = "canceled"]
  /\ UNCHANGED <<file, ledger, interrupted>>

\* Mutant: the file is marked deleted although it could not be.
RecordCanceledAsDeleted(r) ==
  LET u == req[r].job IN
  /\ Step(r, "cancelStuck", Idle)
  /\ deleted' = [deleted EXCEPT ![u] = TRUE]
  /\ status' = [status EXCEPT ![u] = "canceled_cleanup_failed"]
  /\ UNCHANGED <<file, ledger, interrupted>>

RecordCanceledStuck(r) ==
  /\ Step(r, "cancelStuck", Idle)
  /\ status' = [status EXCEPT ![req[r].job] = "canceled_cleanup_failed"]
  /\ UNCHANGED <<file, deleted, ledger, interrupted>>

-----------------------------------------------------------------------------
(* Retry of a cleanup that was recorded as failed.                         *)

\* Mutant: a status the rest of the code does not know.
MisspelledFinalStatus(s) ==
  IF s = "committed_cleanup_failed" THEN "committed" ELSE "cancelled"

FinalStatus(s) ==
  IF s = "committed_cleanup_failed" THEN "committed" ELSE "canceled"

\* Mutant: only the cleanup of a commit can be retried.
LoadForCommittedRetry(r, u) ==
  /\ Step(r, "idle", Holding("retrying", u, status[u]))
  /\ status[u] = "committed_cleanup_failed"
  /\ UNCHANGED <<file, status, deleted, ledger, interrupted>>

LoadForRetry(r, u) ==
  /\ Step(r, "idle", Holding("retrying", u, status[u]))
  /\ status[u] \in CleanupFailed
  /\ UNCHANGED <<file, status, deleted, ledger, interrupted>>

RetryWithoutSource(r) ==
  LET u == req[r].job IN
  /\ Step(r, "retrying", Idle)
  /\ deleted[u]
  /\ status' = [status EXCEPT ![u] = FinalStatus(req[r].seen)]
  /\ UNCHANGED <<file, deleted, ledger, interrupted>>

DeleteAgain(r) == Unlink(r, "retrying", Moved(r, "retryGone"), Idle)

RecordRetry(r) ==
  LET u == req[r].job IN
  /\ Step(r, "retryGone", Idle)
  /\ deleted' = [deleted EXCEPT ![u] = TRUE]
  /\ status' = [status EXCEPT ![u] = FinalStatus(req[r].seen)]
  /\ UNCHANGED <<file, ledger, interrupted>>

-----------------------------------------------------------------------------
(* Faults.                                                                 *)

WritePoints == {"mapped", "prepared", "sourceGone", "sourceStuck",
                "cancelGone", "cancelStuck", "retryGone"}

\* A commit fails (a locked database, say): the transaction is rolled back
\* and the handler ends with an error, whatever it did to the file.
DatabaseFails(r) ==
  /\ "database" \in Faults
  /\ req[r].at \in WritePoints
  /\ Step(r, req[r].at, Idle)
  /\ interrupted' = interrupted \cup {req[r].job}
  /\ UNCHANGED <<file, status, deleted, ledger>>

\* The process dies: handlers are lost, the database and the files are not.
Crash ==
  /\ "crash" \in Faults
  /\ interrupted' = interrupted \cup {req[r].job : r \in {x \in Requests : req[x].at # "idle"}}
  /\ req' = [r \in Requests |-> Idle]
  /\ turn' = NoRequest
  /\ UNCHANGED <<file, status, deleted, ledger>>

-----------------------------------------------------------------------------
Upload(r) ==
  \/ ResumeExisting(r)
  \/ RejectSource(r)
  \/ MatchNothing(r)
  \/ InsertJob(r)
  \/ InsertFails(r)

Map(r) == RefuseMapping(r) \/ ReadForMapping(r) \/ WriteMapping(r)

PrepareAny(r) ==
  /\ req[r].at = "reviewed"
  /\ \E edits \in RowEdits(RowsOf[req[r].job]) : PrepareCommit(r, edits)

Commit(r) ==
  \/ RefuseCommit(r)
  \/ PrepareAny(r)
  \/ Post(r)
  \/ PostConflict(r)
  \/ KeepSource(r)
  \/ DeleteCommitted(r)
  \/ RecordCommittedGone(r)
  \/ RecordCommittedStuck(r)

Cancel(r) ==
  \/ CancelWithoutSource(r)
  \/ DeleteCanceled(r)
  \/ RecordCanceledGone(r)
  \/ RecordCanceledStuck(r)

Retry(r) == RetryWithoutSource(r) \/ DeleteAgain(r) \/ RecordRetry(r)

Start(r, u) ==
  \/ SaveUpload(r, u)
  \/ LoadForMapping(r, u)
  \/ LoadForCommit(r, u)
  \/ LoadForCancel(r, u)
  \/ LoadForRetry(r, u)

Advance(r) ==
  \/ Upload(r)
  \/ Map(r)
  \/ Commit(r)
  \/ Cancel(r)
  \/ Retry(r)
  \/ DatabaseFails(r)

Next ==
  \/ \E r \in Requests : Advance(r)
  \/ \E r \in Requests, u \in Uploads : Start(r, u)
  \/ Crash

Spec == Init /\ [][Next]_vars

\* Coroutines and pool threads are always run on.  The last two conjuncts
\* describe people and the environment: a member keeps asking for a failed
\* cleanup, and an attempt that can succeed does not fail for ever.
KeepsRetrying(u) == \E r \in Requests : LoadForRetry(r, u)

RetryUnlinks(r) == DeleteAgain(r) /\ req'[r].at = "retryGone"

FairSpec ==
  /\ Spec
  /\ \A r \in Requests : WF_vars(Advance(r))
  /\ \A u \in Uploads : SF_vars(KeepsRetrying(u))
  /\ \A r \in Requests : SF_vars(RetryUnlinks(r)) /\ SF_vars(RecordRetry(r))

-----------------------------------------------------------------------------
(* Properties.                                                             *)

Handlers == [at : Points,
             job : Uploads \cup {NoUpload},
             seen : Statuses \cup {"none"},
             batch : SUBSET (Charges \X Nat)]

TablesOK ==
  /\ file \in [Uploads -> {"unused", "stored", "gone"}]
  /\ status \in [Uploads -> Statuses \cup {"none"}]
  /\ deleted \in [Uploads -> BOOLEAN]
  /\ ledger \subseteq [fp : Charges \X Nat, job : Uploads]
  /\ interrupted \subseteq Uploads

HandlersOK ==
  /\ req \in [Requests -> Handlers]
  /\ \A r \in Requests :
       IF req[r].at = "idle" THEN req[r] = Idle ELSE req[r].job \in Uploads
  /\ turn \in Requests \cup {NoRequest}

\* Types of the tables, of the file store and of the handlers' memory.
TypeOK == TablesOK /\ HandlersOK

InFlight(u) == \E r \in Requests : req[r].job = u

\* No two transactions carry the same fingerprint, however commits of the
\* same or of overlapping statements interleave (commit_import, 928-976).
UniqueFingerprints ==
  \A e1, e2 \in ledger : e1.fp = e2.fp => e1 = e2

\* The n-th copy of a charge is only in the ledger with the copies before it:
\* numbering the included rows leaves no hole that a later import would fill
\* with a charge the member never selected.
NoGapInCopies ==
  \A f \in Known : f[2] > 1 => <<f[1], f[2] - 1>> \in Known

\* UploadedFile.deleted is never a lie: whatever fails or crashes between
\* unlinking and recording, a source marked deleted is not on the disk.
DeletedIsGone == \A u \in Uploads : deleted[u] => file[u] = "gone"

\* A private file is owned: by a job row, or by the upload still working on
\* it.  Only a handler that was cut short leaves a file without owner.
NoOrphanSource ==
  \A u \in Uploads :
    file[u] = "stored" =>
      \/ status[u] # "none"
      \/ InFlight(u)
      \/ u \in interrupted

\* "Retain" is kept: committing never loses a source the member retained,
\* even when cancelations, retries and crashes surround the commit.
RetainedSourceKept ==
  \A u \in Uploads :
    status[u] \in Committed /\ RetentionOf[u] = "retain" => file[u] = "stored"

\* Once no handler works on it, a job tells the truth about its source: a
\* final status whose policy removes the source has removed it, and a
\* cleanup reported as failed still has a source to remove.
SettledSource(u) ==
  /\ status[u] = "canceled" => deleted[u]
  /\ status[u] = "committed" /\ RetentionOf[u] = "delete_after_import" => deleted[u]
  /\ status[u] \in CleanupFailed => ~deleted[u]

SourcesSettle ==
  \A u \in Uploads : SettledSource(u) \/ InFlight(u) \/ u \in interrupted

\* What docs/architecture.md:31 and :52 promise without that exception.
CleanupAlwaysExplicit ==
  \A u \in Uploads : SettledSource(u) \/ InFlight(u)

\* Importing overlapping statements with the review page untouched leaves no
\* charge with more copies than the ledger or the statement already had.
OverlapNotDuplicated ==
  [][\A r \in Requests :
       req[r].at = "reviewed" =>
         LET rows == RowsOf[req[r].job]
             offered == Offered(rows, Known)
             statement == FingerprintTransactions(rows)
         IN  PrepareCommit(r, offered) =>
               \A c \in Charges :
                 \/ Copies(Known \cup req'[r].batch, c) <= Copies(Known, c)
                 \/ Copies(Known \cup req'[r].batch, c) <= Copies(statement, c)
    ]_vars

\* Every row the untouched review page offers as new is inserted by its
\* commit: none of them turns out to be known when it is numbered again.
EveryOfferedRowLands ==
  \A u \in Uploads :
    LET offered == Offered(RowsOf[u], Known) IN
    status[u] = "reviewing" =>
      Cardinality(NewFingerprints(offered)) = Cardinality(Included(offered))

\* A failed cleanup ends: a member who keeps retrying gets the source removed
\* and the job back to its final status, through crashes and database errors.
CleanupRecovers ==
  \A u \in Uploads :
    status[u] \in CleanupFailed ~> (status[u] \notin CleanupFailed /\ deleted[u])

\* Imports implement the ledger: posted at most once, all or nothing, and
\* neither end is ever left.
Phase(s) ==
  IF s \in Active THEN "open"
  ELSE IF s \in Committed THEN "posted"
  ELSE IF s \in Canceled THEN "withdrawn"
  ELSE "absent"

Abstract == INSTANCE ImportLedger WITH
  Imports <- Uploads, phase <- [u \in Uploads |-> Phase(status[u])]

PostsOnce == Abstract!Spec
=============================================================================
