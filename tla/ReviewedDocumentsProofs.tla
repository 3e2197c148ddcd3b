---------------------- MODULE ReviewedDocumentsProofs ----------------------
(***************************************************************************)
(* What TLAPS proves of ReviewedDocuments, for any number of uploads,      *)
(* reviews and sources and any choice of Faults.                           *)
(***************************************************************************)
EXTENDS ReviewedDocuments, FiniteSetTheorems, TLAPS

-----------------------------------------------------------------------------
(* Where an upload can be, and what its lock is for.                       *)

\* An upload at work has its file and no row; one with a row has been
\* accepted; one that was never submitted has nothing.
UploadsInOrder ==
  \A u \in Uploads :
    /\ at[u] = "unused" => file[u] = "unused"
    /\ at[u] \in Working => file[u] = "stored"
    /\ HasRow(u) => at[u] = "accepted"

\* The second lookup of a payslip and its insertion are under the writer lock,
\* and a lookup that found nothing is still true when the row is inserted.
LockProtects ==
  \A u \in Uploads :
    /\ at[u] \in {"locked", "unmatched"} => IsPayslip(u)
    /\ at[u] \in {"locked", "unmatched"} <=> writer = u
    /\ at[u] = "unmatched" => Matching(u) = {}

\* A review works on a row that exists.
ReviewsHaveRows ==
  \A r \in Reviews : review[r].at # "idle" => HasRow(review[r].doc)

-----------------------------------------------------------------------------
(* Type correctness.                                                       *)

LEMMA NoSuchUpload == NoUpload \notin Uploads
BY DocumentAssumption

LEMMA InitType == Init => TypeOK
BY DEF Init, TypeOK, Nothing, ReviewStates, Statuses

LEMMA UploadType ==
  ASSUME TypeOK, NEW u \in Uploads, UploadStep(u)
  PROVE  TypeOK'
<1> USE DEF TypeOK, UploadAt, Release, Working, Finished, tables
<1>1. ASSUME NEW result \in Finished, DropSource(u, result), Release(u)
      PROVE  TypeOK'
  BY <1>1 DEF DropSource
<1>2. ASSUME NEW p \in {"saved", "locked", "extracted"}, ReuseRow(u, p)
      PROVE  TypeOK'
  <2>1. \E result \in Finished : DropSource(u, result) /\ Release(u)
    BY <1>2 DEF ReuseRow
  <2> QED
    BY <1>1, <2>1
<1>3. CASE Extract(u)
  BY <1>3 DEF Extract
<1>4. CASE ExtractionFails(u)
  BY <1>4 DEF ExtractionFails, DropSource
<1>5. CASE TakeLock(u)
  BY <1>5 DEF TakeLock
<1>6. CASE MatchNothing(u)
  BY <1>6 DEF MatchNothing
<1>7. CASE InsertPending(u)
  BY <1>7 DEF InsertPending, Statuses
<1>8. CASE InsertFails(u)
  BY <1>1, <1>8 DEF InsertFails
<1> QED
  BY <1>2, <1>3, <1>4, <1>5, <1>6, <1>7, <1>8 DEF UploadStep, UploadWork, LoseInsert

\* A handler of a review that moves on or ends stays well formed.
LEMMA ReviewMovesType ==
  ASSUME TypeOK, NEW r \in Reviews, NEW p \in ReviewPoints, NEW q \in ReviewPoints,
         ReviewMoves(r, p, q)
  PROVE  review' \in [Reviews -> ReviewStates]
<1>1. review[r] \in [at : ReviewPoints, doc : Uploads, seen : Statuses]
  BY DEF TypeOK, ReviewMoves, ReviewStep, ReviewStates, IdleReview, ReviewPoints
<1> QED
  BY <1>1 DEF TypeOK, ReviewMoves, ReviewStep, ReviewStates

LEMMA ReviewEndsType ==
  ASSUME TypeOK, NEW r \in Reviews, NEW p, ReviewStep(r, p, IdleReview)
  PROVE  review' \in [Reviews -> ReviewStates]
BY DEF TypeOK, ReviewStep, ReviewStates

LEMMA BusyReview ==
  ASSUME TypeOK, NEW r \in Reviews, review[r].at # "idle"
  PROVE  review[r] \in [at : ReviewPoints, doc : Uploads, seen : Statuses]
BY DEF TypeOK, ReviewStates, IdleReview

LEMMA LoadType ==
  ASSUME TypeOK, NEW r \in Reviews, NEW u \in Uploads,
         LoadForConfirm(r, u) \/ LoadForRetry(r, u)
  PROVE  TypeOK'
<1>1. PICK p \in ReviewPoints :
        ReviewStep(r, "idle", [at |-> p, doc |-> u, seen |-> status[u]])
  BY DEF LoadForConfirm, LoadForRetry, ReviewPoints
<1>2. status[u] \in Statuses
  BY DEF TypeOK
<1>3. [at |-> p, doc |-> u, seen |-> status[u]] \in ReviewStates
  BY <1>2 DEF ReviewStates
<1>4. review' \in [Reviews -> ReviewStates]
  BY <1>1, <1>3 DEF TypeOK, ReviewStep
<1> QED
  BY <1>4 DEF LoadForConfirm, LoadForRetry, TypeOK, tables

LEMMA ReviewType ==
  ASSUME TypeOK, NEW r \in Reviews, ReviewNext(r)
  PROVE  TypeOK'
<1> DEFINE reviewOK == review' \in [Reviews -> ReviewStates]
<1>1. CASE \E u \in Uploads : LoadForConfirm(r, u) \/ LoadForRetry(r, u)
  BY <1>1, LoadType
<1>2. ASSUME NEW p \in ReviewPoints, NEW gone \in ReviewPoints, NEW stuck \in ReviewPoints,
             Unlink(r, p, gone, stuck)
      PROVE  TypeOK'
  <2>1. reviewOK
    BY <1>2, ReviewMovesType DEF Unlink
  <2>2. file' \in [Uploads -> {"unused", "stored", "gone"}]
    BY <1>2 DEF Unlink, TypeOK
  <2> QED
    BY <1>2, <2>1, <2>2 DEF Unlink, TypeOK, tables
<1>3. CASE DropConfirmed(r) \/ UnlinkAgain(r)
  BY <1>2, <1>3 DEF DropConfirmed, UnlinkAgain, ReviewPoints
<1>4. CASE AnswerConfirm(r) \/ PostConflict(r) \/ KeepSource(r) \/ RefuseRetry(r) \/ AnswerStuck(r)
  <2>1. reviewOK
    BY <1>4, ReviewEndsType
       DEF AnswerConfirm, PostConflict, KeepSource, RefuseRetry, AnswerStuck
  <2> QED
    BY <1>4, <2>1
       DEF AnswerConfirm, PostConflict, KeepSource, RefuseRetry, AnswerStuck, TypeOK, tables
<1>5. CASE Reviewed(r)
  <2>1. reviewOK
    BY <1>5, ReviewMovesType DEF Reviewed, ReviewPoints
  <2> QED
    BY <1>5, <2>1 DEF Reviewed, TypeOK, tables
<1>6. CASE Post(r)
  <2>1. reviewOK
    BY <1>6, ReviewMovesType DEF Post, ReviewPoints
  <2>2. review[r].doc \in Uploads
    BY <1>6, BusyReview DEF Post, ReviewMoves, ReviewStep
  <2>3. status' \in [Uploads -> Statuses]
    BY <1>6 DEF Post, TypeOK, Statuses, Confirmed
  <2> QED
    BY <1>6, <2>1, <2>2, <2>3 DEF Post, TypeOK
<1>7. CASE RecordGone(r) \/ RecordStuck(r) \/ RetryAfterAnother(r) \/ RecordRetry(r)
  <2>1. reviewOK
    BY <1>7, ReviewEndsType DEF RecordGone, RecordStuck, RetryAfterAnother, RecordRetry
  <2>2. status' \in [Uploads -> Statuses] /\ deleted' \in [Uploads -> BOOLEAN]
    BY <1>7 DEF RecordGone, RecordStuck, RetryAfterAnother, RecordRetry, TypeOK,
                Statuses, Confirmed
  <2> QED
    BY <1>7, <2>1, <2>2
       DEF RecordGone, RecordStuck, RetryAfterAnother, RecordRetry, TypeOK
<1>8. CASE ReviewCommitFails(r)
  <2>1. reviewOK
    BY <1>8, ReviewEndsType DEF ReviewCommitFails
  <2>2. review[r].doc \in Uploads
    BY <1>8, BusyReview DEF ReviewCommitFails
  <2> QED
    BY <1>8, <2>1, <2>2 DEF ReviewCommitFails, TypeOK, tables
<1> QED
  BY <1>1, <1>3, <1>4, <1>5, <1>6, <1>7, <1>8 DEF ReviewNext, ConfirmStep, RetryStep

LEMMA StepType ==
  ASSUME TypeOK, [Next]_vars
  PROVE  TypeOK'
<1>1. ASSUME NEW u \in Uploads, NEW c \in Categories, NEW s \in Sources,
             NEW k \in Retentions, Save(u, c, s, k)
      PROVE  TypeOK'
  BY <1>1 DEF Save, TypeOK, tables, Working
<1>2. CASE Crash
  <2>1. InReview \subseteq Uploads
    BY BusyReview DEF InReview
  <2> QED
    BY <1>2, <2>1 DEF Crash, TypeOK, Busy, tables, Finished, ReviewStates
<1>3. CASE UNCHANGED vars
  BY <1>3 DEF vars, TypeOK
<1> QED
  BY <1>1, <1>2, <1>3, UploadType, ReviewType DEF Next

-----------------------------------------------------------------------------
(* What each kind of step leaves alone.                                    *)

\* A review works on the row of its document only: it opens no row, takes none
\* back, and touches neither an upload at work nor the lock.
LEMMA ReviewLeaves ==
  ASSUME TypeOK, ReviewsHaveRows, NEW r \in Reviews, ReviewNext(r)
  PROVE  /\ UNCHANGED <<at, submitted, writer>>
         /\ records \subseteq records'
         /\ interrupted \subseteq interrupted'
         /\ \A u \in Uploads : HasRow(u)' <=> HasRow(u)
         /\ \A u \in Uploads : ~HasRow(u) => file'[u] = file[u]
<1> USE DEF tables, HasRow, Statuses, Confirmed
<1> DEFINE u == review[r].doc
<1>1. review[r].at # "idle" => u \in Uploads /\ status[u] # "none"
  BY BusyReview DEF ReviewsHaveRows
<1>2. CASE \E v \in Uploads : LoadForConfirm(r, v) \/ LoadForRetry(r, v)
  BY <1>2 DEF LoadForConfirm, LoadForRetry
<1>3. CASE DropConfirmed(r) \/ UnlinkAgain(r)
  BY <1>1, <1>3 DEF DropConfirmed, UnlinkAgain, Unlink, TypeOK
<1>4. CASE AnswerConfirm(r) \/ PostConflict(r) \/ KeepSource(r) \/ RefuseRetry(r)
           \/ AnswerStuck(r) \/ Reviewed(r)
  BY <1>4 DEF AnswerConfirm, PostConflict, KeepSource, RefuseRetry, AnswerStuck, Reviewed
<1>5. CASE Post(r) \/ RecordStuck(r) \/ RetryAfterAnother(r) \/ RecordRetry(r)
  BY <1>1, <1>5
     DEF Post, RecordStuck, RetryAfterAnother, RecordRetry, TypeOK, ReviewMoves, ReviewStep
<1>6. CASE RecordGone(r) \/ ReviewCommitFails(r)
  BY <1>6 DEF RecordGone, ReviewCommitFails
<1> QED
  BY <1>2, <1>3, <1>4, <1>5, <1>6 DEF ReviewNext, ConfirmStep, RetryStep

\* An upload works on itself: others keep their place, their file and their
\* row, and what was submitted stays.
LEMMA UploadLeaves ==
  ASSUME TypeOK, NEW u \in Uploads, UploadStep(u)
  PROVE  /\ UNCHANGED <<submitted, records, review, deleted>>
         /\ interrupted \subseteq interrupted'
         /\ writer' \in {writer, u, NoUpload}
         /\ writer' = writer \/ writer \in {NoUpload, u}
         /\ \A v \in Uploads \ {u} :
              at'[v] = at[v] /\ file'[v] = file[v] /\ status'[v] = status[v]
<1> USE DEF TypeOK, tables, UploadAt, Release
<1>1. CASE Extract(u)
  BY <1>1 DEF Extract
<1>2. CASE TakeLock(u)
  BY <1>2 DEF TakeLock
<1>3. CASE MatchNothing(u)
  BY <1>3 DEF MatchNothing
<1>4. CASE InsertPending(u)
  BY <1>4 DEF InsertPending
<1>5. CASE ExtractionFails(u) \/ InsertFails(u)
  BY <1>5 DEF ExtractionFails, InsertFails, DropSource
<1>6. ASSUME NEW p, ReuseRow(u, p)
      PROVE  /\ UNCHANGED <<submitted, records, review, deleted>>
             /\ interrupted \subseteq interrupted'
             /\ writer' \in {writer, u, NoUpload}
             /\ writer' = writer \/ writer \in {NoUpload, u}
             /\ \A v \in Uploads \ {u} :
                  at'[v] = at[v] /\ file'[v] = file[v] /\ status'[v] = status[v]
  BY <1>6 DEF ReuseRow, DropSource
<1> QED
  BY <1>1, <1>2, <1>3, <1>4, <1>5, <1>6 DEF UploadStep, UploadWork, LoseInsert

\* What an upload at work does to itself.
LEMMA UploadMoves ==
  ASSUME TypeOK, UploadsInOrder, LockProtects, NEW u \in Uploads, UploadStep(u)
  PROVE  /\ at[u] \in Working
         /\ \/ /\ \/ at'[u] = "extracted" /\ writer' # u
                  \/ at'[u] = "locked" /\ IsPayslip(u) /\ writer' = u
               /\ UNCHANGED <<file, status>>
            \/ /\ at'[u] = "unmatched" /\ at[u] = "locked"
               /\ IsPayslip(u) /\ Matching(u) = {}
               /\ UNCHANGED <<file, status, writer>>
            \/ /\ at'[u] \in Finished
               /\ writer' # u
               /\ UNCHANGED status
               /\ file'[u] = "gone" \/ (u \in interrupted' /\ UNCHANGED file)
            \/ /\ at'[u] = "accepted"
               /\ writer' # u /\ writer \in {NoUpload, u}
               /\ Matching(u) = {}
               /\ status' = [status EXCEPT ![u] = "pending"]
               /\ UNCHANGED file
<1> USE NoSuchUpload DEF TypeOK, tables, UploadAt, Release, Working, Finished
<1>1. CASE Extract(u)
  BY <1>1 DEF Extract, LockProtects
<1>2. CASE TakeLock(u)
  BY <1>2 DEF TakeLock
<1>3. CASE MatchNothing(u)
  BY <1>3 DEF MatchNothing, LockProtects
<1>4. CASE InsertPending(u)
  <2>1. Matching(u) = {}
    BY <1>4 DEF InsertPending, InsertPoint, ChecksumIsNew, LockProtects
  <2>2. at[u] \in Working /\ writer \in {NoUpload, u}
    BY <1>4 DEF InsertPending, InsertPoint, CanWrite
  <2> QED
    BY <1>4, <2>1, <2>2 DEF InsertPending
<1>5. CASE ExtractionFails(u)
  <2>1. writer # u
    BY <1>5 DEF ExtractionFails, LockProtects
  <2> QED
    BY <1>5, <2>1 DEF ExtractionFails, DropSource
<1>6. CASE InsertFails(u)
  BY <1>6 DEF InsertFails, DropSource
<1>7. ASSUME NEW p \in {"saved", "locked", "extracted"}, ReuseRow(u, p)
      PROVE  /\ at[u] \in Working
             /\ at'[u] \in Finished
             /\ writer' # u
             /\ UNCHANGED status
             /\ file'[u] = "gone" \/ (u \in interrupted' /\ UNCHANGED file)
  BY <1>7 DEF ReuseRow, DropSource
<1> QED
  BY <1>1, <1>2, <1>3, <1>4, <1>5, <1>6, <1>7 DEF UploadStep, UploadWork, LoseInsert

-----------------------------------------------------------------------------
(* One row per document.                                                   *)

Order == UploadsInOrder /\ LockProtects /\ ReviewsHaveRows /\ OneRowPerDocument

LEMMA InitOrder == Init => Order
BY NoSuchUpload
   DEF Init, Order, UploadsInOrder, LockProtects, ReviewsHaveRows, OneRowPerDocument,
       HasRow, Working, IdleReview

\* The lookup by checksum depends on the rows alone.
LEMMA SameMatching ==
  ASSUME UNCHANGED <<submitted, status>>, NEW u \in Uploads
  PROVE  Matching(u)' = Matching(u)
BY DEF Matching, HasRow, Key

LEMMA SaveOrder ==
  ASSUME TypeOK, Order, NEW u \in Uploads, NEW c \in Categories, NEW s \in Sources,
         NEW k \in Retentions, Save(u, c, s, k)
  PROVE  Order'
<1>1. /\ at[u] = "unused" /\ at' = [at EXCEPT ![u] = "saved"]
      /\ file' = [file EXCEPT ![u] = "stored"]
      /\ \A v \in Uploads \ {u} : submitted'[v] = submitted[v]
      /\ UNCHANGED <<status, writer, review>>
  BY DEF Save, tables
<1>2. ~HasRow(u) /\ ~HasRow(u)'
  BY <1>1 DEF Order, UploadsInOrder, HasRow
<1>3. \A v \in Uploads \ {u} : Matching(v)' = Matching(v)
  BY <1>1, <1>2 DEF Matching, HasRow, Key
<1>4. UploadsInOrder'
  BY <1>1, <1>2 DEF Order, UploadsInOrder, Working, HasRow, TypeOK
<1>5. LockProtects'
  BY <1>1, <1>3 DEF Order, LockProtects, IsPayslip, TypeOK
<1>6. ReviewsHaveRows'
  BY <1>1 DEF Order, ReviewsHaveRows, HasRow
<1>7. OneRowPerDocument'
  BY <1>1, <1>2 DEF Order, OneRowPerDocument, HasRow, Key
<1> QED
  BY <1>4, <1>5, <1>6, <1>7 DEF Order

LEMMA UploadOrder ==
  ASSUME TypeOK, Order, NEW u \in Uploads, UploadStep(u)
  PROVE  Order'
<1> USE UploadLeaves, UploadMoves DEF Order
<1>1. ~HasRow(u)
  BY DEF UploadsInOrder, Working, HasRow
<1>2. UploadsInOrder'
  BY <1>1 DEF UploadsInOrder, Working, Finished, HasRow
<1>3. \A v \in Uploads : Key(v)' = Key(v)
  BY DEF Key
<1>4. LockProtects'
  <2> SUFFICES ASSUME NEW v \in Uploads
               PROVE  /\ at'[v] \in {"locked", "unmatched"} => IsPayslip(v)'
                      /\ at'[v] \in {"locked", "unmatched"} <=> writer' = v
                      /\ at'[v] = "unmatched" => Matching(v)' = {}
    BY DEF LockProtects
  <2>1. CASE v = u
    <3>1. at'[u] = "unmatched" => Matching(u)' = {}
      <4>1. at'[u] = "unmatched" => UNCHANGED status /\ Matching(u) = {}
        BY DEF Finished
      <4> QED
        BY <4>1, SameMatching
    <3>2. at'[u] \in {"locked", "unmatched"} => IsPayslip(u)'
      BY DEF IsPayslip, Finished
    <3>3. at'[u] \in {"locked", "unmatched"} <=> writer' = u
      BY DEF LockProtects, Finished
    <3> QED
      BY <2>1, <3>1, <3>2, <3>3
  <2>2. CASE v # u
    <3>1. at'[v] = at[v] /\ (writer' = v <=> writer = v)
      BY <2>2, NoSuchUpload
    <3>2. at[v] = "unmatched" => UNCHANGED status
      BY <2>2, NoSuchUpload DEF LockProtects
    <3>3. at'[v] = "unmatched" => Matching(v)' = {}
      BY <3>1, <3>2, SameMatching DEF LockProtects
    <3> QED
      BY <3>1, <3>3 DEF LockProtects, IsPayslip
  <2> QED
    BY <2>1, <2>2
<1>5. ReviewsHaveRows'
  <2>1. \A v \in Uploads : HasRow(v) => HasRow(v)'
    BY <1>1 DEF HasRow
  <2> QED
    BY <2>1, BusyReview DEF ReviewsHaveRows
<1>6. OneRowPerDocument'
  <2>1. CASE UNCHANGED status
    BY <1>3, <2>1 DEF OneRowPerDocument, HasRow
  <2>2. CASE Matching(u) = {} /\ \A v \in Uploads \ {u} : status'[v] = status[v]
    BY <1>3, <2>2 DEF OneRowPerDocument, HasRow, Matching
  <2> QED
    BY <2>1, <2>2
<1> QED
  BY <1>2, <1>4, <1>5, <1>6

LEMMA ReviewOrder ==
  ASSUME TypeOK, Order, NEW r \in Reviews, ReviewNext(r)
  PROVE  Order'
<1> USE ReviewLeaves DEF Order
<1>1. UploadsInOrder'
  BY DEF UploadsInOrder, Working, HasRow
<1>2. LockProtects'
  BY DEF LockProtects, IsPayslip, Matching, Key
<1>3. ReviewsHaveRows'
  <2>1. \A q \in Reviews : /\ review'[q].at # "idle" => HasRow(review'[q].doc)
    <3>1. CASE \E u \in Uploads : LoadForConfirm(r, u) \/ LoadForRetry(r, u)
      <4>1. PICK u \in Uploads, p \in ReviewPoints :
              /\ HasRow(u)
              /\ review' = [review EXCEPT ![r] = [at |-> p, doc |-> u, seen |-> status[u]]]
        BY <3>1 DEF LoadForConfirm, LoadForRetry, ReviewStep, ReviewPoints
      <4> QED
        BY <4>1 DEF TypeOK, ReviewsHaveRows
    <3>2. CASE \E p, q : ReviewMoves(r, p, q) /\ p # "idle"
      BY <3>2 DEF ReviewMoves, ReviewStep, TypeOK, ReviewsHaveRows
    <3>3. CASE \E p : ReviewStep(r, p, IdleReview)
      BY <3>3 DEF ReviewStep, TypeOK, ReviewsHaveRows, IdleReview
    <3>4. ConfirmStep(r) => (\E p, q : ReviewMoves(r, p, q) /\ p # "idle")
                              \/ \E p : ReviewStep(r, p, IdleReview)
      BY DEF ConfirmStep, AnswerConfirm, Reviewed, Post, PostConflict, KeepSource,
             DropConfirmed, Unlink, RecordGone, RecordStuck
    <3>5. RetryStep(r) => (\E p, q : ReviewMoves(r, p, q) /\ p # "idle")
                            \/ \E p : ReviewStep(r, p, IdleReview)
      BY DEF RetryStep, RefuseRetry, RetryAfterAnother, UnlinkAgain, Unlink, AnswerStuck,
             RecordRetry
    <3>6. ReviewCommitFails(r) => \E p : ReviewStep(r, p, IdleReview)
      BY DEF ReviewCommitFails
    <3> QED
      BY <3>1, <3>2, <3>3, <3>4, <3>5, <3>6 DEF ReviewNext
  <2>2. \A q \in Reviews : review'[q].at # "idle" => review'[q].doc \in Uploads
    BY ReviewType DEF TypeOK, ReviewStates, IdleReview
  <2> QED
    BY <2>1, <2>2 DEF ReviewsHaveRows
<1>4. OneRowPerDocument'
  BY DEF OneRowPerDocument, Key
<1> QED
  BY <1>1, <1>2, <1>3, <1>4

LEMMA StepOrder ==
  ASSUME TypeOK, Order, [Next]_vars
  PROVE  Order'
<1>1. CASE Crash
  <2>1. UploadsInOrder'
    BY <1>1 DEF Crash, Order, UploadsInOrder, Busy, HasRow, tables, Working, TypeOK
  <2>2. LockProtects'
    BY <1>1, NoSuchUpload DEF Crash, LockProtects, Busy, Working, TypeOK
  <2>3. ReviewsHaveRows' /\ OneRowPerDocument'
    BY <1>1 DEF Crash, Order, ReviewsHaveRows, OneRowPerDocument, HasRow, Key, tables, IdleReview
  <2> QED
    BY <2>1, <2>2, <2>3 DEF Order
<1>2. CASE UNCHANGED vars
  BY <1>2 DEF vars, Order, UploadsInOrder, LockProtects, ReviewsHaveRows, OneRowPerDocument,
              HasRow, Key, Matching, IsPayslip
<1> QED
  BY <1>1, <1>2, SaveOrder, UploadOrder, ReviewOrder DEF Next

-----------------------------------------------------------------------------
(* No file without an owner.                                               *)

LEMMA StepNoOrphan ==
  ASSUME TypeOK, Order, NoOrphanSource, [Next]_vars
  PROVE  NoOrphanSource'
<1> USE DEF NoOrphanSource
<1>1. ASSUME NEW u \in Uploads, NEW c \in Categories, NEW s \in Sources,
             NEW k \in Retentions, Save(u, c, s, k)
      PROVE  NoOrphanSource'
  BY <1>1 DEF Save, TypeOK, HasRow, Working, tables
<1>2. ASSUME NEW u \in Uploads, UploadStep(u)
      PROVE  NoOrphanSource'
  <2>1. \A v \in Uploads \ {u} :
          file'[v] = "stored" => at'[v] \in Working \/ HasRow(v)' \/ v \in interrupted'
    BY <1>2, UploadLeaves DEF HasRow
  <2>2. file'[u] = "stored" => at'[u] \in Working \/ HasRow(u)' \/ u \in interrupted'
    BY <1>2, UploadMoves DEF Order, Working, HasRow, TypeOK
  <2> QED
    BY <2>1, <2>2
<1>3. ASSUME NEW r \in Reviews, ReviewNext(r)
      PROVE  NoOrphanSource'
  BY <1>3, ReviewLeaves DEF Order
<1>4. CASE Crash
  BY <1>4 DEF Crash, Busy, HasRow, TypeOK, tables
<1>5. CASE UNCHANGED vars
  BY <1>5 DEF vars, HasRow
<1> QED
  BY <1>1, <1>2, <1>3, <1>4, <1>5 DEF Next

-----------------------------------------------------------------------------
(* A source goes only by choice and after its record.                      *)

\* The member chose the removal of u and its record exists.
MayGo(u) == submitted[u].retention = "delete_after_import" /\ HasRecord(u)

\* Behind its points of removal a review works on a document that may go; a
\* status that reports a failed removal, stored or held by a handler, too.
Held(r) ==
  /\ review[r].at = "posted" => HasRecord(review[r].doc)
  /\ review[r].at \in {"sourceGone", "sourceStuck"} => MayGo(review[r].doc)
  /\ review[r].seen = "confirmed_cleanup_failed" => MayGo(review[r].doc)

RemovalsAllowed ==
  /\ \A u \in Uploads : status[u] = "confirmed_cleanup_failed" => MayGo(u)
  /\ \A r \in Reviews : Held(r)

\* What may go may go for ever.
LEMMA MayGoStays ==
  ASSUME TypeOK, Order, [Next]_vars, NEW u \in Uploads, HasRow(u)
  PROVE  /\ submitted'[u] = submitted[u]
         /\ HasRecord(u) => HasRecord(u)'
<1>1. ASSUME NEW v \in Uploads, NEW c \in Categories, NEW s \in Sources,
             NEW k \in Retentions, Save(v, c, s, k)
      PROVE  submitted'[u] = submitted[u] /\ records' = records
  BY <1>1 DEF Save, tables, TypeOK, Order, UploadsInOrder
<1>2. CASE Crash \/ UNCHANGED vars
  BY <1>2 DEF Crash, vars, tables, HasRecord
<1> QED
  BY <1>1, <1>2, UploadLeaves, ReviewLeaves DEF Next, Order, HasRecord

LEMMA ReviewRemovals ==
  ASSUME TypeOK, Order, RemovalsAllowed, SourceKept, NEW r \in Reviews, ReviewNext(r)
  PROVE  RemovalsAllowed' /\ SourceKept'
<1> DEFINE u == review[r].doc
<1>1. \A v \in Uploads : HasRow(v) =>
        (MayGo(v) => MayGo(v)') /\ (HasRecord(v) => HasRecord(v)')
  BY MayGoStays DEF Next, MayGo
<1>2. \A q \in Reviews : review[q].at # "idle" => review[q].doc \in Uploads /\ HasRow(review[q].doc)
  BY BusyReview DEF Order, ReviewsHaveRows
<1>3. \A q \in Reviews : review[q].at = "idle" => review[q].seen = "none"
  BY DEF TypeOK, ReviewStates, IdleReview, ReviewPoints
<1>4. ASSUME \A v \in Uploads : status'[v] = "confirmed_cleanup_failed" =>
               status[v] = "confirmed_cleanup_failed" \/ (HasRow(v) /\ MayGo(v)),
             \A v \in Uploads : file'[v] = file[v] \/ (HasRow(v) /\ MayGo(v)),
             \A q \in Reviews \ {r} : review'[q] = review[q],
             Held(r)'
      PROVE  RemovalsAllowed' /\ SourceKept'
  <2>1. \A q \in Reviews \ {r} : Held(q)'
    BY <1>1, <1>2, <1>3, <1>4 DEF RemovalsAllowed, Held, MayGo, HasRecord
  <2>2. \A v \in Uploads : status'[v] = "confirmed_cleanup_failed" => MayGo(v)'
    BY <1>1, <1>4 DEF RemovalsAllowed, HasRow
  <2>3. SourceKept'
    <3> SUFFICES ASSUME NEW v \in Uploads, HasRow(v)', file'[v] # "stored"
                 PROVE  MayGo(v)'
      BY DEF SourceKept, MayGo
    <3>1. HasRow(v)
      BY ReviewLeaves DEF Order
    <3>2. MayGo(v)
      BY <1>4, <3>1 DEF SourceKept, MayGo
    <3> QED
      BY <1>1, <3>1, <3>2
  <2>4. Held(r)'
    BY <1>4
  <2>5. \A q \in Reviews : Held(q)'
    BY <2>1, <2>4
  <2> QED
    BY <2>2, <2>3, <2>5 DEF RemovalsAllowed
<1> USE DEF TypeOK, tables
<1>5. ASSUME NEW v \in Uploads, LoadForConfirm(r, v) \/ LoadForRetry(r, v)
      PROVE  RemovalsAllowed' /\ SourceKept'
  <2>1. PICK p \in {"loaded", "retrying"} :
          review' = [review EXCEPT ![r] = [at |-> p, doc |-> v, seen |-> status[v]]]
    BY <1>5 DEF LoadForConfirm, LoadForRetry, ReviewStep
  <2>2. UNCHANGED <<file, status>> /\ HasRow(v)
    BY <1>5 DEF LoadForConfirm, LoadForRetry
  <2>3. status[v] = "confirmed_cleanup_failed" => MayGo(v)'
    BY <1>1, <2>2 DEF RemovalsAllowed
  <2>4. Held(r)'
    BY <2>1, <2>3 DEF Held, MayGo, HasRecord
  <2> QED
    BY <1>4, <2>1, <2>2, <2>4
<1>6. ASSUME \E p : ReviewStep(r, p, IdleReview),
             \/ UNCHANGED <<file, status>>
             \/ file' = file /\ status' = [status EXCEPT ![u] = "confirmed"]
             \/ /\ file' = file /\ status' = [status EXCEPT ![u] = "confirmed_cleanup_failed"]
                /\ review[r].at = "sourceStuck"
      PROVE  RemovalsAllowed' /\ SourceKept'
  <2>1. review' = [review EXCEPT ![r] = IdleReview]
    BY <1>6 DEF ReviewStep
  <2>2. Held(r)'
    BY <2>1 DEF IdleReview, Held, MayGo, HasRecord
  <2>3. review[r].at = "sourceStuck" => HasRow(u) /\ MayGo(u)
    BY <1>2 DEF RemovalsAllowed, Held
  <2>4. \A v \in Uploads : status'[v] = "confirmed_cleanup_failed" =>
          status[v] = "confirmed_cleanup_failed" \/ (HasRow(v) /\ MayGo(v))
    BY <1>6, <2>3
  <2> QED
    BY <1>4, <1>6, <2>1, <2>2, <2>4
<1>7. CASE Reviewed(r)
  <2>1. review' = [review EXCEPT ![r] =
                     [at |-> "reviewed", doc |-> u, seen |-> review[r].seen]]
    BY <1>7 DEF Reviewed, ReviewMoves, ReviewStep
  <2>2. /\ review'[r].at = "reviewed" /\ review'[r].doc = u
        /\ review'[r].seen = review[r].seen
    BY <2>1
  <2>3. review[r].seen = "confirmed_cleanup_failed" => HasRow(u) /\ MayGo(u) /\ u \in Uploads
    BY <1>2, <1>3 DEF RemovalsAllowed, Held
  <2>4. Held(r)'
    BY <1>1, <2>2, <2>3 DEF Held, MayGo, HasRecord
  <2> QED
    BY <1>4, <1>7, <2>1, <2>4 DEF Reviewed
<1>8. CASE Post(r)
  <2>1. /\ review' = [review EXCEPT ![r] =
                        [at |-> "posted", doc |-> u, seen |-> review[r].seen]]
        /\ <<u, r>> \in records'
        /\ status' = [status EXCEPT ![u] = "confirmed"]
        /\ file' = file
    BY <1>8 DEF Post, ReviewMoves, ReviewStep
  <2>2. HasRecord(u)'
    BY <2>1 DEF HasRecord
  <2>3. Held(r)'
    BY <1>1, <1>2, <1>3, <2>1, <2>2 DEF RemovalsAllowed, Held, MayGo, HasRecord
  <2> QED
    BY <1>4, <2>1, <2>3
<1>9. CASE DropConfirmed(r) \/ UnlinkAgain(r)
  <2>1. review[r].at \in {"posted", "retrying"}
    BY <1>9 DEF DropConfirmed, UnlinkAgain, Unlink
  <2>2. u \in Uploads /\ HasRow(u) /\ MayGo(u)
    BY <1>2, <1>9, <2>1 DEF DropConfirmed, UnlinkAgain, Unlink, RemovalsAllowed, Held, MayGo
  <2>3. /\ \A v \in Uploads \ {u} : file'[v] = file[v]
        /\ status' = status
    BY <1>9 DEF DropConfirmed, UnlinkAgain, Unlink
  <2>4. PICK q : review' = [review EXCEPT ![r] =
                              [at |-> q, doc |-> u, seen |-> review[r].seen]]
    BY <1>9 DEF DropConfirmed, UnlinkAgain, Unlink, ReviewMoves, ReviewStep
  <2>5. review'[r].doc = u
    BY <2>4
  <2>6. MayGo(review[r].doc)' /\ HasRecord(review[r].doc)'
    BY <1>1, <2>2, <2>5 DEF MayGo, HasRecord
  <2>7. Held(r)'
    BY <2>5, <2>6 DEF Held, MayGo, HasRecord
  <2> QED
    BY <1>4, <2>2, <2>3, <2>4, <2>7
<1>10. CASE AnswerConfirm(r) \/ PostConflict(r) \/ KeepSource(r) \/ RefuseRetry(r)
            \/ AnswerStuck(r) \/ ReviewCommitFails(r) \/ RecordGone(r)
  BY <1>6, <1>10 DEF AnswerConfirm, PostConflict, KeepSource, RefuseRetry, AnswerStuck,
                     ReviewCommitFails, RecordGone
<1>11. CASE RecordStuck(r) \/ RetryAfterAnother(r) \/ RecordRetry(r)
  BY <1>6, <1>11 DEF RecordStuck, RetryAfterAnother, RecordRetry, ReviewStep
<1> QED
  BY <1>5, <1>7, <1>8, <1>9, <1>10, <1>11 DEF ReviewNext, ConfirmStep, RetryStep

LEMMA StepRemovals ==
  ASSUME TypeOK, Order, RemovalsAllowed, SourceKept, [Next]_vars
  PROVE  RemovalsAllowed' /\ SourceKept'
<1>1. ASSUME NEW u \in Uploads, HasRow(u), MayGo(u)
      PROVE  MayGo(u)'
  BY <1>1, MayGoStays DEF MayGo
<1>2. \A r \in Reviews : /\ review[r].at # "idle" => HasRow(review[r].doc)
                         /\ review[r].at # "idle" => review[r].doc \in Uploads
                         /\ review[r].at = "idle" => review[r].seen = "none"
  BY BusyReview DEF TypeOK, Order, ReviewsHaveRows, ReviewStates, IdleReview, ReviewPoints
<1>3. ASSUME review' = review,
             \A u \in Uploads : status'[u] = "confirmed_cleanup_failed" =>
               status[u] = "confirmed_cleanup_failed"
      PROVE  RemovalsAllowed'
  <2>1. ASSUME NEW r \in Reviews, review[r].at = "posted"
        PROVE  HasRecord(review[r].doc)'
    <3>1. HasRecord(review[r].doc) /\ HasRow(review[r].doc) /\ review[r].doc \in Uploads
      BY <1>2, <2>1 DEF RemovalsAllowed, Held
    <3>2. ASSUME NEW u \in Uploads, HasRow(u), HasRecord(u)
          PROVE  HasRecord(u)'
      BY <3>2, MayGoStays
    <3> QED
      BY <1>3, <3>1, <3>2 DEF HasRecord
  <2> QED
    BY <1>1, <1>2, <1>3, <2>1 DEF RemovalsAllowed, Held, HasRow, MayGo, HasRecord
<1>4. ASSUME NEW u \in Uploads, NEW c \in Categories, NEW s \in Sources,
             NEW k \in Retentions, Save(u, c, s, k)
      PROVE  RemovalsAllowed' /\ SourceKept'
  <2>1. RemovalsAllowed'
    BY <1>3, <1>4 DEF Save, tables
  <2>2. ~HasRow(u) /\ UNCHANGED <<status, records>>
    BY <1>4 DEF Save, Order, UploadsInOrder, tables
  <2>3. \A v \in Uploads \ {u} : file'[v] = file[v] /\ submitted'[v] = submitted[v]
    BY <1>4 DEF Save, TypeOK
  <2> QED
    BY <2>1, <2>2, <2>3 DEF SourceKept, HasRow, HasRecord
<1>5. ASSUME NEW u \in Uploads, UploadStep(u)
      PROVE  RemovalsAllowed' /\ SourceKept'
  <2> USE <1>5, UploadLeaves, UploadMoves DEF Order
  <2>1. \A v \in Uploads : status'[v] = "confirmed_cleanup_failed" =>
          status[v] = "confirmed_cleanup_failed"
    BY DEF TypeOK
  <2>2. RemovalsAllowed'
    BY <1>3, <2>1
  <2>3. ASSUME HasRow(u)'
        PROVE  file'[u] = "stored"
    BY <2>3 DEF UploadsInOrder, HasRow, Working
  <2>4. SourceKept'
    BY <2>3 DEF SourceKept, HasRow, HasRecord
  <2> QED
    BY <2>2, <2>4
<1>6. CASE Crash
  <2>1. /\ UNCHANGED <<submitted, file, status, records>>
        /\ review' = [r \in Reviews |-> IdleReview]
    BY <1>6 DEF Crash, tables
  <2> QED
    BY <2>1 DEF RemovalsAllowed, Held, SourceKept, MayGo, HasRecord, HasRow, IdleReview
<1>7. CASE UNCHANGED vars
  BY <1>7 DEF vars, RemovalsAllowed, Held, SourceKept, MayGo, HasRecord, HasRow
<1> QED
  BY <1>4, <1>5, <1>6, <1>7, ReviewRemovals DEF Next

-----------------------------------------------------------------------------
(* Settled sources.                                                        *)

\* A confirmed document whose source was to go and is not marked so.
Unsettled(u) ==
  /\ status[u] = "confirmed"
  /\ submitted[u].retention = "delete_after_import"
  /\ ~deleted[u]

\* Its confirmation has not ended, or was cut short.
BeingCleaned(u) ==
  \/ u \in interrupted
  \/ \E r \in Reviews :
       review[r].doc = u /\ review[r].at \in {"posted", "sourceGone", "sourceStuck"}

\* A mark of removal, and a handler about to set one, tell the truth.
Removed ==
  /\ \A u \in Uploads : deleted[u] => file[u] = "gone"
  /\ \A r \in Reviews :
       review[r].at \in {"sourceGone", "retryGone"} => file[review[r].doc] = "gone"

SettledInv ==
  /\ Removed
  /\ \A u \in Uploads : Unsettled(u) => BeingCleaned(u)

\* A step of one review, which has d open, keeps the sources settled. d is a
\* constant here: the document of r before the step, whatever r opens next.
LEMMA ReviewSettles ==
  ASSUME TypeOK, Order, SettledInv, NEW r \in Reviews, ReviewNext(r),
         NEW d, d = review[r].doc
  PROVE  SettledInv'
<1> USE DEF TypeOK, tables
<1>1. review[r].at # "idle" => d \in Uploads
  BY BusyReview
<1>2. submitted' = submitted /\ interrupted \subseteq interrupted'
  BY ReviewLeaves DEF Order
\* What is asked of one step: the others stay, and what r does to its document.
<1>3. ASSUME \A q \in Reviews \ {r} : review'[q] = review[q],
             \A u \in Uploads : file[u] = "gone" => file'[u] = "gone",
             \A u \in Uploads : deleted'[u] => deleted[u] \/ (u = d /\ file'[u] = "gone"),
             \A u \in Uploads : deleted[u] => deleted'[u],
             review'[r].at \in {"sourceGone", "retryGone"} => file'[review'[r].doc] = "gone",
             \A u \in Uploads : status'[u] = "confirmed" /\ status[u] # "confirmed" =>
               deleted'[u] \/ BeingCleaned(u)',
             \A u \in Uploads : BeingCleaned(u) /\ Unsettled(u)' => BeingCleaned(u)'
      PROVE  SettledInv'
  <2>1. \A q \in Reviews \ {r} :
          review'[q].at \in {"sourceGone", "retryGone"} => file'[review'[q].doc] = "gone"
    BY <1>3, BusyReview DEF SettledInv, Removed
  <2>2. \A u \in Uploads : deleted'[u] => file'[u] = "gone"
    BY <1>3 DEF SettledInv, Removed
  <2>3. Removed'
    BY <1>3, <2>1, <2>2 DEF Removed
  <2>4. ASSUME NEW u \in Uploads, Unsettled(u)'
        PROVE  BeingCleaned(u)'
    <3>1. CASE status[u] = "confirmed"
      <4>1. Unsettled(u)
        BY <1>2, <1>3, <2>4, <3>1 DEF Unsettled
      <4> QED
        BY <1>3, <2>4, <4>1 DEF SettledInv
    <3>2. CASE status[u] # "confirmed"
      BY <1>3, <2>4, <3>2 DEF Unsettled
    <3> QED
      BY <3>1, <3>2
  <2> QED
    BY <2>3, <2>4 DEF SettledInv
\* A handler that was not behind a confirmation lets none go.
<1>4. ASSUME \A q \in Reviews \ {r} : review'[q] = review[q],
             review[r].at \notin {"posted", "sourceGone", "sourceStuck"}
      PROVE  \A u \in Uploads : BeingCleaned(u) => BeingCleaned(u)'
  BY <1>2, <1>4 DEF BeingCleaned
<1>5. CASE \E u \in Uploads : LoadForConfirm(r, u) \/ LoadForRetry(r, u)
  <2>1. PICK u \in Uploads, p \in {"loaded", "retrying"} :
          /\ review[r].at = "idle"
          /\ review' = [review EXCEPT ![r] = [at |-> p, doc |-> u, seen |-> status[u]]]
    BY <1>5 DEF LoadForConfirm, LoadForRetry, ReviewStep
  <2>2. UNCHANGED <<file, deleted, status>>
    BY <1>5 DEF LoadForConfirm, LoadForRetry
  <2> QED
    BY <1>3, <1>4, <2>1, <2>2
<1>6. CASE AnswerConfirm(r) \/ PostConflict(r) \/ RefuseRetry(r) \/ AnswerStuck(r)
  <2>1. /\ review[r].at \in {"loaded", "reviewed", "retrying", "retryStuck"}
        /\ review' = [review EXCEPT ![r] = IdleReview]
        /\ UNCHANGED <<file, deleted, status>>
    BY <1>6 DEF AnswerConfirm, PostConflict, RefuseRetry, AnswerStuck, ReviewStep
  <2> QED
    BY <1>3, <1>4, <2>1 DEF IdleReview
<1>7. CASE Reviewed(r)
  <2>1. /\ review[r].at = "loaded"
        /\ review' = [review EXCEPT ![r] = [at |-> "reviewed", doc |-> d, seen |-> @.seen]]
        /\ UNCHANGED <<file, deleted, status>>
    BY <1>7 DEF Reviewed, ReviewMoves, ReviewStep
  <2> QED
    BY <1>3, <1>4, <2>1
<1>8. CASE Post(r)
  <2>1. /\ review[r].at = "reviewed"
        /\ review' = [review EXCEPT ![r] = [at |-> "posted", doc |-> d, seen |-> @.seen]]
        /\ status' = [status EXCEPT ![d] = "confirmed"]
        /\ UNCHANGED <<file, deleted>>
    BY <1>8 DEF Post, ReviewMoves, ReviewStep
  <2>2. BeingCleaned(d)'
    BY <2>1 DEF BeingCleaned
  <2> QED
    BY <1>1, <1>3, <1>4, <2>1, <2>2
<1>9. CASE KeepSource(r)
  <2>1. /\ review' = [review EXCEPT ![r] = IdleReview]
        /\ submitted[d].retention = "retain" \/ deleted[d]
        /\ UNCHANGED <<file, deleted, status>>
    BY <1>9 DEF KeepSource, ReviewStep
  <2>2. ~Unsettled(d)'
    BY <1>2, <2>1 DEF Unsettled
  <2>3. \A u \in Uploads : BeingCleaned(u) /\ u # d => BeingCleaned(u)'
    BY <1>2, <2>1 DEF BeingCleaned
  <2> QED
    BY <1>3, <2>1, <2>2, <2>3 DEF IdleReview
<1>10. CASE DropConfirmed(r) \/ UnlinkAgain(r)
  <2>1. review[r].at \in {"posted", "retrying"} /\ UNCHANGED <<deleted, status>>
    BY <1>10 DEF DropConfirmed, UnlinkAgain, Unlink
  <2>2. PICK q \in ReviewPoints :
          /\ review' = [review EXCEPT ![r] = [at |-> q, doc |-> d, seen |-> @.seen]]
          /\ review[r].at = "posted" => q \in {"sourceGone", "sourceStuck"}
          /\ \/ file' = [file EXCEPT ![d] = "gone"]
             \/ file' = file /\ q \in {"sourceStuck", "retryStuck"}
    BY <1>10 DEF DropConfirmed, UnlinkAgain, Unlink, ReviewMoves, ReviewStep, ReviewPoints
  <2>3. /\ review'[r].doc = d /\ review'[r].at = q
        /\ \A p \in Reviews \ {r} : review'[p] = review[p]
    BY <2>2
  <2>4. \A u \in Uploads : BeingCleaned(u) => BeingCleaned(u)'
    BY <1>2, <2>1, <2>2, <2>3 DEF BeingCleaned
  <2>5. \A u \in Uploads : file[u] = "gone" => file'[u] = "gone"
    BY <2>2
  <2>6. q \in {"sourceGone", "retryGone"} => file'[d] = "gone"
    BY <1>1, <2>1, <2>2
  <2> QED
    BY <1>3, <2>1, <2>3, <2>4, <2>5, <2>6
<1>11. CASE RecordGone(r) \/ RecordRetry(r)
  <2>1. /\ review[r].at \in {"sourceGone", "retryGone"}
        /\ review' = [review EXCEPT ![r] = IdleReview]
        /\ deleted' = [deleted EXCEPT ![d] = TRUE]
        /\ status' = status \/ status' = [status EXCEPT ![d] = "confirmed"]
        /\ file' = file
    BY <1>11 DEF RecordGone, RecordRetry, ReviewStep
  <2>2. file[d] = "gone" /\ deleted'[d]
    BY <1>1, <2>1 DEF SettledInv, Removed
  <2>3. \A u \in Uploads : BeingCleaned(u) /\ u # d => BeingCleaned(u)'
    BY <1>2, <2>1 DEF BeingCleaned
  <2>4. ~Unsettled(d)'
    BY <2>2 DEF Unsettled
  <2> QED
    BY <1>3, <2>1, <2>2, <2>3, <2>4 DEF IdleReview
<1>12. CASE RecordStuck(r)
  <2>1. /\ review' = [review EXCEPT ![r] = IdleReview]
        /\ status' = [status EXCEPT ![d] = "confirmed_cleanup_failed"]
        /\ review[r].at = "sourceStuck"
        /\ UNCHANGED <<file, deleted>>
    BY <1>12 DEF RecordStuck, ReviewStep
  <2>2. ~Unsettled(d)'
    BY <1>1, <2>1 DEF Unsettled
  <2>3. \A u \in Uploads : BeingCleaned(u) /\ u # d => BeingCleaned(u)'
    BY <1>2, <2>1 DEF BeingCleaned
  <2>4. \A u \in Uploads : status'[u] = "confirmed" => status[u] = "confirmed"
    BY <2>1
  <2> QED
    BY <1>3, <2>1, <2>2, <2>3, <2>4 DEF IdleReview
<1>13. CASE RetryAfterAnother(r)
  <2>1. /\ review[r].at = "retrying" /\ deleted[d]
        /\ review' = [review EXCEPT ![r] = IdleReview]
        /\ status' = [status EXCEPT ![d] = "confirmed"]
        /\ UNCHANGED <<file, deleted>>
    BY <1>13 DEF RetryAfterAnother, ReviewStep
  <2> QED
    BY <1>3, <1>4, <2>1 DEF IdleReview
<1>14. CASE ReviewCommitFails(r)
  <2>1. /\ review' = [review EXCEPT ![r] = IdleReview]
        /\ interrupted' = interrupted \cup {d}
        /\ UNCHANGED <<file, deleted, status>>
    BY <1>14 DEF ReviewCommitFails, ReviewStep
  <2>2. \A u \in Uploads : BeingCleaned(u) => BeingCleaned(u)'
    BY <2>1 DEF BeingCleaned
  <2> QED
    BY <1>3, <2>1, <2>2 DEF IdleReview
<1> QED
  BY <1>5, <1>6, <1>7, <1>8, <1>9, <1>10, <1>11, <1>12, <1>13, <1>14
     DEF ReviewNext, ConfirmStep, RetryStep

LEMMA StepSettled ==
  ASSUME TypeOK, Order, SettledInv, [Next]_vars
  PROVE  SettledInv'
<1>1. ASSUME NEW u \in Uploads, NEW c \in Categories, NEW s \in Sources,
             NEW k \in Retentions, Save(u, c, s, k)
      PROVE  SettledInv'
  <2>1. /\ UNCHANGED <<status, deleted, review, interrupted>>
        /\ file[u] = "unused" /\ status[u] = "none" /\ ~deleted[u]
        /\ \A v \in Uploads \ {u} : file'[v] = file[v] /\ submitted'[v] = submitted[v]
    BY <1>1 DEF Save, tables, TypeOK, Order, UploadsInOrder, HasRow, SettledInv, Removed
  <2>2. \A r \in Reviews : review[r].at # "idle" => review[r].doc \in Uploads \ {u}
    BY <2>1, BusyReview DEF Order, ReviewsHaveRows, HasRow
  <2>3. Removed'
    BY <2>1, <2>2 DEF SettledInv, Removed
  <2>4. ASSUME NEW v \in Uploads, Unsettled(v)'
        PROVE  BeingCleaned(v)'
    BY <2>1, <2>4 DEF SettledInv, Unsettled, BeingCleaned
  <2> QED
    BY <2>3, <2>4 DEF SettledInv
<1>2. ASSUME NEW u \in Uploads, UploadStep(u)
      PROVE  SettledInv'
  <2>1. /\ UNCHANGED <<submitted, review, deleted>> /\ interrupted \subseteq interrupted'
        /\ \A v \in Uploads \ {u} : file'[v] = file[v] /\ status'[v] = status[v]
    BY <1>2, UploadLeaves
  <2>2. /\ status'[u] \in {status[u], "pending"}
        /\ file'[u] \in {file[u], "gone"}
    BY <1>2, UploadMoves DEF Order, TypeOK
  <2>3. \A v \in Uploads : file[v] = "gone" => file'[v] = "gone"
    BY <2>1, <2>2
  <2>4. Removed'
    BY <2>1, <2>3, BusyReview DEF SettledInv, Removed
  <2>5. ASSUME NEW v \in Uploads, Unsettled(v)'
        PROVE  BeingCleaned(v)'
    <3>1. Unsettled(v)
      BY <2>1, <2>2, <2>5 DEF Unsettled
    <3> QED
      BY <2>1, <3>1 DEF SettledInv, BeingCleaned
  <2> QED
    BY <2>4, <2>5 DEF SettledInv
<1>3. CASE Crash
  <2>1. /\ UNCHANGED <<submitted, file, status, deleted>>
        /\ review' = [r \in Reviews |-> IdleReview]
        /\ interrupted' = interrupted \cup Busy \cup InReview
    BY <1>3 DEF Crash, tables
  <2>2. Removed'
    BY <2>1 DEF SettledInv, Removed, IdleReview
  <2>3. \A u \in Uploads : BeingCleaned(u) => BeingCleaned(u)'
    BY <2>1 DEF BeingCleaned, InReview
  <2>4. \A u \in Uploads : Unsettled(u)' => Unsettled(u)
    BY <2>1 DEF Unsettled
  <2> QED
    BY <2>2, <2>3, <2>4 DEF SettledInv
<1>4. CASE UNCHANGED vars
  BY <1>4 DEF vars, tables, SettledInv, Removed, Unsettled, BeingCleaned
<1> QED
  BY <1>1, <1>2, <1>3, <1>4, ReviewSettles DEF Next

-----------------------------------------------------------------------------
(* The abstract ledger.                                                    *)

\* Rows are rows of documents, and records are records of rows.
RowsAreDocuments ==
  /\ \A u \in Uploads : at[u] # "unused" => Key(u) \in DocumentKeys
  /\ \A entry \in records : entry \in Uploads \X Reviews /\ HasRow(entry[1])

LEMMA StepRows ==
  ASSUME TypeOK, Order, RowsAreDocuments, [Next]_vars
  PROVE  RowsAreDocuments'
<1> USE DEF RowsAreDocuments
<1>1. ASSUME NEW u \in Uploads, NEW c \in Categories, NEW s \in Sources,
             NEW k \in Retentions, Save(u, c, s, k)
      PROVE  RowsAreDocuments'
  <2>1. Key(u)' = <<c, s>>
    BY <1>1 DEF Save, Key, TypeOK
  <2>2. \A v \in Uploads \ {u} : Key(v)' = Key(v) /\ at'[v] = at[v]
    BY <1>1 DEF Save, Key, TypeOK
  <2>3. UNCHANGED <<records, status>>
    BY <1>1 DEF Save, tables
  <2> QED
    BY <2>1, <2>2, <2>3 DEF DocumentKeys, HasRow
<1>2. ASSUME NEW u \in Uploads, UploadStep(u)
      PROVE  RowsAreDocuments'
  <2>1. \A v \in Uploads : Key(v)' = Key(v) /\ (at'[v] # "unused" => at[v] # "unused")
    BY <1>2, UploadLeaves, UploadMoves DEF Order, Key, Working
  <2>2. \A v \in Uploads : HasRow(v) => HasRow(v)'
    BY <1>2, UploadLeaves, UploadMoves DEF Order, UploadsInOrder, HasRow, Working
  <2> QED
    BY <1>2, <2>1, <2>2, UploadLeaves
<1>3. ASSUME NEW r \in Reviews, ReviewNext(r)
      PROVE  RowsAreDocuments'
  <2>1. records' = records \/ (Post(r) /\ records' = records \cup {<<review[r].doc, r>>})
    BY <1>3 DEF ReviewNext, LoadForConfirm, LoadForRetry, ConfirmStep, RetryStep,
                AnswerConfirm, Reviewed, Post, PostConflict, KeepSource, DropConfirmed,
                Unlink, RecordGone, RecordStuck, RefuseRetry, RetryAfterAnother,
                UnlinkAgain, AnswerStuck, RecordRetry, ReviewCommitFails, tables
  <2>2. Post(r) => review[r].doc \in Uploads /\ HasRow(review[r].doc)
    BY BusyReview DEF Post, ReviewMoves, ReviewStep, Order, ReviewsHaveRows
  <2> QED
    BY <1>3, <2>1, <2>2, ReviewLeaves DEF Order, Key
<1>4. CASE Crash
  BY <1>4 DEF Crash, tables, Key, HasRow, Busy, Working
<1>5. CASE UNCHANGED vars
  BY <1>5 DEF vars, Key, HasRow
<1> QED
  BY <1>1, <1>2, <1>3, <1>4, <1>5 DEF Next

\* The rows and the records of a document, and the ledger that counts them.
RowsOf(d) == {u \in Uploads : HasRow(u) /\ Key(u) = d}
RecordsOf(d) == {e \in records : Key(e[1]) = d}
Opened == [d \in DocumentKeys |-> Cardinality(RowsOf(d))]
Recorded == [d \in DocumentKeys |-> Cardinality(RecordsOf(d))]

LEMMA LedgerSteps ==
  /\ UNCHANGED <<Opened, Recorded>> => UNCHANGED Ledger!vars
  /\ \A d \in DocumentKeys :
       (/\ Opened[d] = 0 /\ Opened' = [Opened EXCEPT ![d] = 1]
        /\ UNCHANGED Recorded) => Ledger!Open(d)
  /\ \A d \in DocumentKeys :
       (/\ Opened[d] = 1 /\ Recorded[d] = 0
        /\ Recorded' = [Recorded EXCEPT ![d] = 1]
        /\ UNCHANGED Opened) => Ledger!Record(d)
<1> USE DEF Opened, Recorded, RowsOf, RecordsOf
<1>1. UNCHANGED <<Opened, Recorded>> => UNCHANGED Ledger!vars
  BY DEF Ledger!vars
<1>2. ASSUME NEW d \in DocumentKeys, Opened[d] = 0,
             Opened' = [Opened EXCEPT ![d] = 1], UNCHANGED Recorded
      PROVE  Ledger!Open(d)
  BY <1>2 DEF Ledger!Open
<1>3. ASSUME NEW d \in DocumentKeys, Opened[d] = 1, Recorded[d] = 0,
             Recorded' = [Recorded EXCEPT ![d] = 1], UNCHANGED Opened
      PROVE  Ledger!Record(d)
  BY <1>3 DEF Ledger!Record
<1> QED
  BY <1>1, <1>2, <1>3

LEMMA Counts ==
  /\ Cardinality({}) = 0
  /\ \A x : Cardinality({x}) = 1
BY FS_EmptySet, FS_Singleton

\* A step that leaves rows, their documents and the records alone.
LEMMA LedgerStutters ==
  ASSUME \A u \in Uploads : HasRow(u)' <=> HasRow(u),
         \A u \in Uploads : HasRow(u) => Key(u)' = Key(u),
         RowsAreDocuments,
         records' = records
  PROVE  UNCHANGED Ledger!vars
<1>1. \A d \in DocumentKeys : RowsOf(d)' = RowsOf(d)
  BY DEF RowsOf
<1>2. \A e \in records : e[1] \in Uploads /\ Key(e[1])' = Key(e[1])
  BY DEF RowsAreDocuments
<1>3. \A d \in DocumentKeys : RecordsOf(d)' = RecordsOf(d)
  BY <1>2 DEF RecordsOf
<1>4. UNCHANGED <<Opened, Recorded>>
  BY <1>1, <1>3 DEF Opened, Recorded
<1> QED
  BY <1>4, LedgerSteps

\* The insertion of a row is the opening of its document.
LEMMA InsertOpens ==
  ASSUME TypeOK, Order, RowsAreDocuments, NEW u \in Uploads,
         UNCHANGED <<submitted, records>>, Matching(u) = {}, at[u] # "unused",
         HasRow(u)', \A v \in Uploads \ {u} : HasRow(v)' <=> HasRow(v)
  PROVE  Ledger!Next
<1> DEFINE d == Key(u)
<1>1. d \in DocumentKeys
  BY DEF RowsAreDocuments
<1>2. \A v \in Uploads : Key(v)' = Key(v)
  BY DEF Key
<1>3. RowsOf(d) = {}
  BY DEF RowsOf, Matching
<1>4. \A c \in DocumentKeys : c # d => RowsOf(c)' = RowsOf(c)
  BY <1>2 DEF RowsOf
<1>5. \A c \in DocumentKeys : RecordsOf(c)' = RecordsOf(c)
  BY <1>2 DEF RecordsOf, Key
<1>6. ASSUME NEW c, c = d
      PROVE  RowsOf(c)' = {u}
  BY <1>2, <1>3, <1>6 DEF RowsOf
<1>7. Opened[d] = 0
  BY <1>1, <1>3, Counts DEF Opened
<1>8. UNCHANGED Recorded
  BY <1>5 DEF Recorded
<1>9. PICK c \in DocumentKeys : c = d
  BY <1>1
<1>10. Opened' = [Opened EXCEPT ![c] = 1]
  <2>1. Cardinality(RowsOf(c)') = 1
    BY <1>6, <1>9, Counts
  <2> QED
    BY <1>4, <1>9, <2>1 DEF Opened
<1>11. Ledger!Open(c)
  BY <1>7, <1>8, <1>9, <1>10, LedgerSteps
<1> QED
  BY <1>11 DEF Ledger!Next

\* The income or the balance of a review is the record of its document.
LEMMA PostRecords ==
  ASSUME TypeOK, Order, RowsAreDocuments, NEW r \in Reviews, Post(r)
  PROVE  Ledger!Next
<1> DEFINE u == review[r].doc
<1>1. u \in Uploads /\ HasRow(u)
  BY BusyReview DEF Post, ReviewMoves, ReviewStep, Order, ReviewsHaveRows
<1>2. PICK d \in DocumentKeys : d = Key(u)
  BY <1>1 DEF RowsAreDocuments, Order, UploadsInOrder
<1>3. \A v \in Uploads : Key(v)' = Key(v) /\ (HasRow(v)' <=> HasRow(v))
  BY <1>1 DEF Post, Key, HasRow, TypeOK
<1>4. \A c \in DocumentKeys : RowsOf(c)' = RowsOf(c)
  BY <1>3 DEF RowsOf
<1>5. RowsOf(d) = {u}
  BY <1>1, <1>2 DEF RowsOf, Order, OneRowPerDocument
<1>6. RecordsOf(d) = {}
  <2> SUFFICES ASSUME NEW e \in records, Key(e[1]) = d
               PROVE  FALSE
    BY DEF RecordsOf
  <2>1. e[1] = u
    BY <1>1, <1>2 DEF RowsAreDocuments, Order, OneRowPerDocument
  <2> QED
    BY <2>1 DEF Post, RecordIsNew, HasRecord
<1>7. records' = records \cup {<<u, r>>}
  BY DEF Post
<1>8. \A c \in DocumentKeys : RecordsOf(c)' = RecordsOf(c) \cup (IF c = d THEN {<<u, r>>} ELSE {})
  BY <1>2, <1>7 DEF RecordsOf, Post, Key
<1>9. Opened[d] = 1 /\ Recorded[d] = 0
  BY <1>5, <1>6, Counts DEF Opened, Recorded
<1>10. UNCHANGED Opened
  BY <1>4 DEF Opened
<1>11. Recorded' = [Recorded EXCEPT ![d] = 1]
  <2>1. RecordsOf(d)' = {<<u, r>>}
    BY <1>6, <1>8
  <2>2. Cardinality({<<u, r>>}) = 1
    BY Counts
  <2>3. Cardinality(RecordsOf(d)') = 1
    BY <2>1, <2>2, Zenon
  <2>4. \A c \in DocumentKeys : c # d => RecordsOf(c)' = RecordsOf(c)
    BY <1>8
  <2> QED
    BY <2>3, <2>4 DEF Recorded
<1>12. Ledger!Record(d)
  BY <1>9, <1>10, <1>11, LedgerSteps
<1> QED
  BY <1>12 DEF Ledger!Next

\* Every step of the program is a step of the ledger or a stutter.
LEMMA StepLedger ==
  ASSUME TypeOK, Order, RowsAreDocuments, [Next]_vars
  PROVE  [Ledger!Next]_(Ledger!vars)
<1>1. ASSUME NEW u \in Uploads, NEW c \in Categories, NEW s \in Sources,
             NEW k \in Retentions, Save(u, c, s, k)
      PROVE  UNCHANGED Ledger!vars
  <2>1. ~HasRow(u) /\ UNCHANGED <<status, records>>
    BY <1>1 DEF Save, Order, UploadsInOrder, tables
  <2>2. \A v \in Uploads \ {u} : Key(v)' = Key(v)
    BY <1>1 DEF Save, Key, TypeOK
  <2> QED
    BY <2>1, <2>2, LedgerStutters DEF HasRow
<1>2. ASSUME NEW u \in Uploads, UploadStep(u)
      PROVE  Ledger!Next \/ UNCHANGED Ledger!vars
  <2>1. UNCHANGED <<submitted, records>> /\ at[u] \in Working
    BY <1>2, UploadLeaves, UploadMoves DEF Order
  <2>2. CASE UNCHANGED status
    BY <2>1, <2>2, LedgerStutters DEF HasRow, Key
  <2>3. CASE Matching(u) = {} /\ status' = [status EXCEPT ![u] = "pending"]
    BY <2>1, <2>3, InsertOpens DEF HasRow, TypeOK, Working
  <2> QED
    BY <1>2, <2>2, <2>3, UploadMoves DEF Order
<1>3. ASSUME NEW r \in Reviews, ReviewNext(r)
      PROVE  Ledger!Next \/ UNCHANGED Ledger!vars
  <2>1. records' = records \/ Post(r)
    BY <1>3 DEF ReviewNext, LoadForConfirm, LoadForRetry, ConfirmStep, RetryStep,
                AnswerConfirm, Reviewed, PostConflict, KeepSource, DropConfirmed,
                Unlink, RecordGone, RecordStuck, RefuseRetry, RetryAfterAnother,
                UnlinkAgain, AnswerStuck, RecordRetry, ReviewCommitFails, tables
  <2>2. CASE records' = records
    BY <1>3, <2>2, ReviewLeaves, LedgerStutters DEF Order, Key
  <2> QED
    BY <2>1, <2>2, PostRecords
<1>4. CASE Crash \/ UNCHANGED vars
  BY <1>4, LedgerStutters DEF Crash, vars, tables, HasRow, Key
<1> QED
  BY <1>1, <1>2, <1>3, <1>4 DEF Next

LEMMA InitLedger == Init => Ledger!Init /\ RowsAreDocuments
<1> SUFFICES ASSUME Init
             PROVE  Ledger!Init /\ RowsAreDocuments
  OBVIOUS
<1>1. \A d : RowsOf(d) = {} /\ RecordsOf(d) = {}
  BY DEF Init, RowsOf, RecordsOf, HasRow
<1>2. Ledger!Init
  BY <1>1, Counts DEF Ledger!Init, RowsOf, RecordsOf
<1>3. RowsAreDocuments
  BY DEF Init, RowsAreDocuments
<1> QED
  BY <1>2, <1>3

-----------------------------------------------------------------------------
(* The theorems.                                                           *)

DocumentInv ==
  /\ TypeOK
  /\ Order
  /\ RowsAreDocuments
  /\ NoOrphanSource
  /\ RemovalsAllowed
  /\ SourceKept
  /\ SettledInv

LEMMA DocumentInit == Init => DocumentInv
<1>1. Init => NoOrphanSource /\ RemovalsAllowed /\ SourceKept
  BY DEF Init, NoOrphanSource, RemovalsAllowed, Held, SourceKept, HasRow, IdleReview
<1>2. Init => SettledInv
  BY DEF Init, SettledInv, Removed, Unsettled, IdleReview
<1> QED
  BY <1>1, <1>2, InitType, InitOrder, InitLedger DEF DocumentInv

LEMMA DocumentStep == DocumentInv /\ [Next]_vars => DocumentInv'
BY StepType, StepOrder, StepRows, StepNoOrphan, StepRemovals, StepSettled DEF DocumentInv

LEMMA DocumentInvariant == Spec => []DocumentInv
BY DocumentInit, DocumentStep, PTL DEF Spec

\* Handlers, files and rows stay well formed: a handler of a review holds an
\* existing upload or nothing.
THEOREM TypeCorrect == Spec => []TypeOK
<1>1. DocumentInv => TypeOK
  BY DEF DocumentInv
<1> QED
  BY <1>1, DocumentInvariant, PTL

\* However many uploads of one document race, there is one row to review.
THEOREM RowsAreUnique == Spec => []OneRowPerDocument
<1>1. DocumentInv => OneRowPerDocument
  BY DEF DocumentInv, Order
<1> QED
  BY <1>1, DocumentInvariant, PTL

\* Through refused removals, failed commits and crashes a private file has a
\* row, an upload at work, or a fault on record.
THEOREM SourcesAreOwned == Spec => []NoOrphanSource
<1>1. DocumentInv => NoOrphanSource
  BY DEF DocumentInv
<1> QED
  BY <1>1, DocumentInvariant, PTL

\* A source of a row is removed only when its member chose so, and only after
\* its income or balance was recorded.
THEOREM SourcesAreKept == Spec => []SourceKept
<1>1. DocumentInv => SourceKept
  BY DEF DocumentInv
<1> QED
  BY <1>1, DocumentInvariant, PTL

\* A mark of removal is never wrong, and a confirmed document whose source was
\* to go has it removed and marked once its handlers have ended, unless one was
\* cut short.
THEOREM SourcesAreSettled == Spec => []SourcesSettle
<1>1. DocumentInv => SourcesSettle
  <2> SUFFICES ASSUME DocumentInv, NEW u \in Uploads
               PROVE  /\ deleted[u] => file[u] = "gone"
                      /\ (status[u] = "confirmed" /\ u \notin InReview \cup interrupted
                             /\ submitted[u].retention = "delete_after_import") => deleted[u]
    BY DEF SourcesSettle
  <2>1. deleted[u] => file[u] = "gone"
    BY DEF DocumentInv, SettledInv, Removed
  <2>2. BeingCleaned(u) => u \in InReview \cup interrupted
    BY DEF BeingCleaned, InReview
  <2> QED
    BY <2>1, <2>2 DEF DocumentInv, SettledInv, Unsettled
<1> QED
  BY <1>1, DocumentInvariant, PTL

\* The services implement the ledger: a document is opened once and recorded
\* once, whatever the order of uploads, confirmations and faults.
THEOREM LedgerIsImplemented == Spec => RefinesLedger
<1>1. Init => Ledger!Init
  BY InitLedger
<1>2. DocumentInv /\ [Next]_vars => [Ledger!Next]_(Ledger!vars)
  BY StepLedger DEF DocumentInv
<1> QED
  BY <1>1, <1>2, DocumentInvariant, PTL DEF Spec, RefinesLedger, Ledger!Spec
=============================================================================
