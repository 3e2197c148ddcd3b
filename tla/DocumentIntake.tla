---------------------------- MODULE DocumentIntake ----------------------------
(***************************************************************************)
(* The upload page and the services behind POST /document-uploads          *)
(* (app/documents/routes.py), joined: an item of the queue is an upload of *)
(* ReviewedDocuments once its request has arrived.  The connection may be  *)
(* lost at any time, while the handler goes on; the page may be sent to    *)
(* the login instead; the member edits the queue, retries what was         *)
(* interrupted, and reviews what is ready.  Transaction files go through   *)
(* the same queue to the service of ImportJobs, which may answer anything. *)
(***************************************************************************)
EXTENDS ReviewedDocuments, Sequences

CONSTANTS Files, MaxFiles, Bytes(_)

ASSUME IntakeAssumption == \A f \in Files : Bytes(f) \in Sources

VARIABLES order, state, category, mode, batch, retention,
          carrier    \* file -> the upload that carries it, once it has arrived

queueVars == <<order, state, category, mode, batch, retention>>
allVars == <<vars, queueVars, carrier>>

\* One category stands for each processor of the catalog.
Transactions == "transactions"
Dispatched == Categories \cup {Transactions}

Queue == INSTANCE UploadQueue WITH
  Offered <- Dispatched \cup {"none"},
  Supported <- Dispatched,
  Keepings <- Retentions

\* Bound: uploads that have not been used.  Without one the queue rests.
Unused == {u \in Uploads : at[u] = "unused"}

InitIntake ==
  /\ Init
  /\ Queue!Init
  /\ carrier = [f \in Files |-> NoUpload]

\* Bound: the page is opened while nothing is under review.
EditQueue ==
  /\ Unused # {}
  /\ order = <<>> => InReview = {}
  /\ Queue!Edit
  /\ UNCHANGED <<vars, carrier>>

\* Runs are begun while there are uploads left for all of it.
Begin ==
  /\ UNCHANGED <<vars, carrier>>
  /\ \E k \in Retentions :
       \/ Cardinality(Queue!ReadyItems) <= Cardinality(Unused) /\ Queue!Submit(k)
       \/ \E f \in Files : Unused # {} /\ Queue!Retry(f, k)

\* process_document_upload has validated the form and calls _process_payslip
\* or _process_statement.
Deliver(f) ==
  /\ state[f] = "processing"
  /\ category[f] \in Categories
  /\ carrier[f] = NoUpload
  /\ \E u \in Unused :
       /\ \A v \in Unused : u <= v
       /\ Save(u, category[f], Bytes(f), retention)
       /\ carrier' = [carrier EXCEPT ![f] = u]
  /\ UNCHANGED queueVars

Forget(f) == carrier' = [carrier EXCEPT ![f] = NoUpload]

\* Mutant: the status of the answer is not looked at.
ResultUnchecked(point) == "complete"

\* What processItem makes of an answer: success, a refusal with its message,
\* a failure of the server or of its connection.
Result(point) ==
  CASE point = "accepted" -> "complete"
    [] point = "refused" -> "failed"
    [] point = "broken" -> "retryable"

Answer(f) ==
  /\ carrier[f] # NoUpload
  /\ at[carrier[f]] \in Finished
  /\ Queue!Outcome(f, Result(at[carrier[f]]))
  /\ Forget(f)
  /\ UNCHANGED vars

\* _process_transaction and its answer: a job to map or to review or the
\* transactions of an earlier one, a refusal, or a failure.
ProcessTransaction(f) ==
  /\ category[f] = Transactions
  /\ \E point \in Finished : Queue!Outcome(f, Result(point))
  /\ UNCHANGED <<vars, carrier>>

\* fetch rejects, or its body cannot be read; a request that has arrived is
\* worked on nevertheless.
LoseConnection(f) ==
  /\ Queue!Outcome(f, "retryable")
  /\ Forget(f)
  /\ UNCHANGED vars

LeavePage ==
  /\ Queue!Leave
  /\ carrier' = [f \in Files |-> NoUpload]
  /\ UNCHANGED vars

\* Login, CSRF and workspace are checked before the handler runs.
StopAtLogin(f) ==
  /\ carrier[f] = NoUpload
  /\ Queue!Stop(f)
  /\ UNCHANGED <<vars, carrier>>

\* The pool threads, and the review pages: following a review link leaves
\* the upload page.
Serve(u) == UploadWork(u) /\ UNCHANGED <<queueVars, carrier>>
FailInsert(u) == InsertFails(u) /\ UNCHANGED <<queueVars, carrier>>
Review ==
  /\ order = <<>>
  /\ \E r \in Reviews : ReviewNext(r)
  /\ UNCHANGED <<queueVars, carrier>>
CrashServer == Crash /\ UNCHANGED <<queueVars, carrier>>

NextIntake ==
  \/ EditQueue
  \/ Begin
  \/ LeavePage
  \/ \E f \in Files :
       \/ Deliver(f) \/ Answer(f)
       \/ ProcessTransaction(f)
       \/ LoseConnection(f) \/ StopAtLogin(f)
  \/ \E u \in Uploads : Serve(u) \/ FailInsert(u)
  \/ Review
  \/ CrashServer

SpecIntake == InitIntake /\ [][NextIntake]_allVars

\* Requests that were sent arrive or fail, pool threads run, and answers are
\* received; nothing is asked of the member, and no fault has to happen.
FairIntake ==
  /\ SpecIntake
  /\ \A f \in Files :
       WF_allVars(Deliver(f)) /\ WF_allVars(Answer(f)) /\ WF_allVars(ProcessTransaction(f))
  /\ \A u \in Uploads : WF_allVars(Serve(u))

-----------------------------------------------------------------------------
\* Queued documents process one at a time.
OneAtATime == Queue!OneAtATime

\* A payslip or statement shown as complete has a row to review under the
\* category shown, whichever of its uploads the answer came from and whatever
\* was lost.
CompleteIsReviewable ==
  \A f \in Files :
    state[f] = "complete" /\ category[f] \in Categories =>
      \E u \in Uploads : HasRow(u) /\ Key(u) = <<category[f], Bytes(f)>>

\* A run ends, whatever its requests meet: no upload waits for ever for the
\* lock another one holds, and the page can be used again.
RunsEnd == mode # "none" ~> mode = "none"
=============================================================================
