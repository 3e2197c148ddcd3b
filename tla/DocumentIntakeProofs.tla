------------------------ MODULE DocumentIntakeProofs ------------------------
(***************************************************************************)
(* What TLAPS proves of DocumentIntake, the upload page joined with the    *)
(* document services, for any number of files, uploads, reviews and        *)
(* sources, any choice of Faults and any limit of the queue.               *)
(***************************************************************************)
EXTENDS DocumentIntake, ReviewedDocumentsProofs

-----------------------------------------------------------------------------
(* The inductive invariant.                                                *)

\* States of an item whose category is one the services know.
Settled == {"ready", "processing", "retryable", "complete", "failed"}

QueueInv ==
  /\ order \in Seq(Files)
  /\ state \in [Files -> Queue!States]
  /\ category \in [Files -> Dispatched \cup {"none"}]
  /\ \A f \in Files : state[f] \in Settled => category[f] \in Dispatched
  /\ mode # "none" => retention \in Retentions
  /\ OneAtATime

\* A request under way has arrived as an upload of the item it was sent for.
SentAs(f, u) == at[u] # "unused" /\ Key(u) = <<category[f], Bytes(f)>>
Carried ==
  /\ carrier \in [Files -> Uploads \cup {NoUpload}]
  /\ \A f \in Files :
       carrier[f] # NoUpload => state[f] = "processing" /\ SentAs(f, carrier[f])

\* An upload is accepted with a row of its own, or with the one it found.
AcceptedHasRow ==
  \A u \in Uploads :
    at[u] = "accepted" => \E v \in Uploads : HasRow(v) /\ Key(v) = Key(u)

IntakeInv ==
  /\ DocumentInv
  /\ QueueInv
  /\ Carried
  /\ AcceptedHasRow
  /\ CompleteIsReviewable

-----------------------------------------------------------------------------
(* The queue.                                                              *)

\* On to the next item: it was ready, it is the only one sent, and the others
\* are left as they are.
LEMMA ContinueSends ==
  ASSUME QueueInv, NEW st \in [Files -> Queue!States], NEW rest, NEW k \in Retentions,
         \A f \in Files : st[f] # "processing",
         Queue!Continue(st, rest, k)
  PROVE  /\ state' \in [Files -> Queue!States]
         /\ \A f \in Files : state'[f] = st[f] \/ (st[f] = "ready" /\ state'[f] = "processing")
         /\ OneAtATime'
         /\ mode' # "none" => retention' \in Retentions
<1>1. CASE state' = st /\ mode' = "none"
  BY <1>1 DEF OneAtATime, Queue!OneAtATime
<1>2. CASE \E i \in DOMAIN order :
             /\ st[order[i]] = "ready"
             /\ state' = [st EXCEPT ![order[i]] = "processing"]
             /\ mode' = "batch"
             /\ retention' = k
  <2>1. PICK f \in Files : st[f] = "ready" /\ state' = [st EXCEPT ![f] = "processing"]
    <3>1. \A i \in DOMAIN order : order[i] \in Files
      BY DEF QueueInv
    <3> QED
      BY <1>2, <3>1
  <2> QED
    BY <1>2, <2>1 DEF OneAtATime, Queue!OneAtATime, Queue!States
<1> QED
  BY <1>1, <1>2 DEF Queue!Continue

\* Nothing is lost of an item the member edits, and none is edited under way.
LEMMA EditQueueKeeps ==
  ASSUME QueueInv, Queue!Edit
  PROVE  /\ QueueInv'
         /\ \A f \in Files :
              state[f] \in {"processing", "complete"} \/ state'[f] \in {"processing", "complete"}
                => state'[f] = state[f] /\ category'[f] = category[f]
<1> USE DEF QueueInv, Queue!States, Settled, OneAtATime, Queue!OneAtATime
<1>1. ASSUME NEW f \in Files, Queue!AddFile(f)
      PROVE  /\ QueueInv'
             /\ \A g \in Files :
                  state[g] \in {"processing", "complete"} \/ state'[g] \in {"processing", "complete"}
                    => state'[g] = state[g] /\ category'[g] = category[g]
  BY <1>1 DEF Queue!AddFile, Queue!NoChoice
<1>2. ASSUME NEW f \in Files, Queue!RemoveItem(f)
      PROVE  /\ QueueInv'
             /\ \A g \in Files :
                  state[g] \in {"processing", "complete"} \/ state'[g] \in {"processing", "complete"}
                    => state'[g] = state[g] /\ category'[g] = category[g]
  <2>1. order' \in Seq(Files)
    BY <1>2 DEF Queue!RemoveItem, Queue!RemoveAt
  <2> QED
    BY <1>2, <2>1 DEF Queue!RemoveItem, Queue!NoChoice, Queue!Editable
<1>3. ASSUME NEW f \in Files, NEW c \in Dispatched \cup {"none"}, Queue!Choose(f, c)
      PROVE  /\ QueueInv'
             /\ \A g \in Files :
                  state[g] \in {"processing", "complete"} \/ state'[g] \in {"processing", "complete"}
                    => state'[g] = state[g] /\ category'[g] = category[g]
  BY <1>3 DEF Queue!Choose, Queue!Editable
<1> QED
  BY <1>1, <1>2, <1>3 DEF Queue!Edit

\* What the queue does while its requests run: edits apart, it only moves items
\* through the states of a run.
LEMMA SubmitKeeps ==
  ASSUME QueueInv, NEW k \in Retentions, Queue!Submit(k)
  PROVE  /\ QueueInv'
         /\ UNCHANGED category
         /\ \A f \in Files :
              state[f] # "processing"
                /\ (state[f] = "complete" <=> state'[f] = "complete")
<1>1. \A f \in Files : state[f] # "processing"
  BY DEF Queue!Submit, Queue!NothingRuns, QueueInv, OneAtATime, Queue!OneAtATime
<1>2. /\ state' \in [Files -> Queue!States] /\ OneAtATime'
      /\ mode' # "none" => retention' \in Retentions
      /\ \A f \in Files : state'[f] = state[f]
                             \/ (state[f] = "ready" /\ state'[f] = "processing")
  <2>1. Queue!Continue(state, Queue!ReadyItems, k)
    BY DEF Queue!Submit
  <2>2. state \in [Files -> Queue!States]
    BY DEF QueueInv
  <2> QED
    BY <1>1, <2>1, <2>2, ContinueSends
<1>3. UNCHANGED <<order, category>>
  BY DEF Queue!Submit
<1> QED
  BY <1>1, <1>2, <1>3 DEF QueueInv, Settled

LEMMA RetryKeeps ==
  ASSUME QueueInv, NEW f \in Files, NEW k \in Retentions, Queue!Retry(f, k)
  PROVE  /\ QueueInv'
         /\ UNCHANGED category
         /\ \A g \in Files :
              state[g] # "processing"
                /\ (state[g] = "complete" <=> state'[g] = "complete")
BY DEF QueueInv, Queue!Retry, Queue!NothingRuns, Queue!States, Settled, OneAtATime,
       Queue!OneAtATime

\* An answer settles its item alone.
LEMMA OutcomeKeeps ==
  ASSUME QueueInv, NEW f \in Files, NEW result \in {"complete", "failed", "retryable"},
         Queue!Outcome(f, result)
  PROVE  /\ QueueInv'
         /\ UNCHANGED category
         /\ state'[f] = result
         /\ \A g \in Files \ {f} :
              state[g] # "processing"
                /\ (state[g] = "complete" <=> state'[g] = "complete")
<1> DEFINE st == [state EXCEPT ![f] = result]
<1>1. /\ state[f] = "processing" /\ mode # "none"
      /\ \A g \in Files \ {f} : state[g] # "processing"
  BY DEF Queue!Outcome, QueueInv, OneAtATime, Queue!OneAtATime
<1>2. st \in [Files -> Queue!States] /\ retention \in Retentions
  BY <1>1 DEF QueueInv, Queue!States
<1>3. \A g \in Files : st[g] # "processing"
  BY <1>1 DEF QueueInv
<1>4. Queue!Continue(st, batch, retention) /\ UNCHANGED <<order, category>>
  BY DEF Queue!Outcome
<1>5. \A g \in Files \ {f} : st[g] = state[g]
  BY DEF QueueInv
<1>6. st[f] = result /\ category[f] \in Dispatched
  BY <1>1 DEF QueueInv, Settled
<1> HIDE DEF st
<1>7. /\ state' \in [Files -> Queue!States] /\ OneAtATime'
      /\ mode' # "none" => retention' \in Retentions
      /\ \A g \in Files : state'[g] = st[g]
                             \/ (st[g] = "ready" /\ state'[g] = "processing")
  BY <1>2, <1>3, <1>4, ContinueSends
<1>8. \A g \in Files : state'[g] \in Settled => category[g] \in Dispatched
  BY <1>5, <1>6, <1>7 DEF QueueInv, Settled
<1> QED
  BY <1>1, <1>4, <1>5, <1>6, <1>7, <1>8 DEF QueueInv

LEMMA StopKeeps ==
  ASSUME QueueInv, NEW f \in Files, Queue!Stop(f)
  PROVE  /\ QueueInv'
         /\ UNCHANGED category
         /\ state'[f] = "ready"
         /\ \A g \in Files \ {f} : state[g] # "processing" /\ state'[g] = state[g]
BY DEF QueueInv, Queue!Stop, Queue!States, Settled, OneAtATime, Queue!OneAtATime

LEMMA LeaveKeeps ==
  ASSUME QueueInv, Queue!Leave
  PROVE  QueueInv' /\ \A f \in Files : state'[f] = "absent"
BY DEF QueueInv, Queue!Leave, Queue!States, Queue!NoChoice, Settled, OneAtATime,
       Queue!OneAtATime

-----------------------------------------------------------------------------
(* The services.                                                           *)

\* What was submitted stays, and so does a row.
LEMMA SubmissionsStay ==
  ASSUME DocumentInv, [Next]_vars
  PROVE  /\ \A u \in Uploads :
              at[u] # "unused" => at'[u] # "unused" /\ Key(u)' = Key(u)
         /\ \A u \in Uploads : HasRow(u) => HasRow(u)' /\ Key(u)' = Key(u)
<1> USE DEF DocumentInv, Order
<1>1. ASSUME NEW u \in Uploads, NEW c \in Categories, NEW s \in Sources,
             NEW k \in Retentions, Save(u, c, s, k), NEW v \in Uploads
      PROVE  /\ at[v] # "unused" => at'[v] # "unused" /\ Key(v)' = Key(v)
             /\ HasRow(v) => HasRow(v)' /\ Key(v)' = Key(v)
  BY <1>1 DEF Save, tables, TypeOK, Key, HasRow, UploadsInOrder
<1>2. ASSUME NEW u \in Uploads, UploadStep(u), NEW v \in Uploads
      PROVE  /\ at[v] # "unused" => at'[v] # "unused" /\ Key(v)' = Key(v)
             /\ HasRow(v) => HasRow(v)' /\ Key(v)' = Key(v)
  BY <1>2, UploadLeaves, UploadMoves DEF Key, HasRow, UploadsInOrder, Working, Finished
<1>3. ASSUME NEW r \in Reviews, ReviewNext(r), NEW v \in Uploads
      PROVE  /\ at[v] # "unused" => at'[v] # "unused" /\ Key(v)' = Key(v)
             /\ HasRow(v) => HasRow(v)' /\ Key(v)' = Key(v)
  BY <1>3, ReviewLeaves DEF Key
<1>4. CASE Crash
  BY <1>4 DEF Crash, tables, TypeOK, Key, HasRow
<1>5. CASE UNCHANGED vars
  BY <1>5 DEF vars, Key, HasRow
<1> QED
  BY <1>1, <1>2, <1>3, <1>4, <1>5 DEF Next

\* An upload is accepted for the row it found or for the row it inserts.
LEMMA AcceptedForARow ==
  ASSUME TypeOK, NEW u \in Uploads, UploadStep(u), at'[u] = "accepted",
         at[u] # "accepted"
  PROVE  Matching(u) # {} \/ HasRow(u)'
<1> USE DEF TypeOK, UploadAt
<1>1. CASE Extract(u) \/ TakeLock(u) \/ MatchNothing(u)
  BY <1>1 DEF Extract, TakeLock, MatchNothing
<1>2. CASE ExtractionFails(u) \/ InsertFails(u)
  BY <1>2 DEF ExtractionFails, InsertFails, DropSource
<1>3. CASE InsertPending(u)
  BY <1>3 DEF InsertPending, HasRow
<1>4. ASSUME NEW p, ReuseRow(u, p)
      PROVE  Matching(u) # {}
  BY <1>4 DEF ReuseRow
<1> QED
  BY <1>1, <1>2, <1>3, <1>4 DEF UploadStep, UploadWork, LoseInsert

LEMMA StepAccepted ==
  ASSUME DocumentInv, AcceptedHasRow, [Next]_vars
  PROVE  AcceptedHasRow'
<1> SUFFICES ASSUME NEW u \in Uploads, at'[u] = "accepted"
             PROVE  \E v \in Uploads : HasRow(v)' /\ Key(v)' = Key(u)'
  BY DEF AcceptedHasRow
<1>1. CASE at[u] = "accepted"
  BY <1>1, SubmissionsStay DEF AcceptedHasRow
<1>2. CASE at[u] # "accepted"
  <2>1. UploadStep(u)
    <3>1. ASSUME NEW v \in Uploads, UploadStep(v)
          PROVE  v = u
      BY <1>2, <3>1, UploadLeaves DEF DocumentInv
    <3>2. ASSUME NEW v \in Uploads, NEW c \in Categories, NEW s \in Sources,
                 NEW k \in Retentions, Save(v, c, s, k)
          PROVE  FALSE
      BY <1>2, <3>2 DEF Save, DocumentInv, TypeOK
    <3>3. ASSUME NEW r \in Reviews, ReviewNext(r)
          PROVE  FALSE
      BY <1>2, <3>3, ReviewLeaves DEF DocumentInv, Order
    <3>4. ~Crash /\ ~UNCHANGED vars
      BY <1>2 DEF Crash, vars, DocumentInv, TypeOK
    <3> QED
      BY <3>1, <3>2, <3>3, <3>4 DEF Next
  <2>2. Matching(u) # {} \/ HasRow(u)'
    BY <1>2, <2>1, AcceptedForARow DEF DocumentInv
  <2>3. CASE HasRow(u)'
    BY <2>3
  <2>4. CASE Matching(u) # {}
    <3>1. PICK v \in Uploads : HasRow(v) /\ Key(v) = Key(u)
      BY <2>4 DEF Matching
    <3>2. UNCHANGED submitted
      BY <2>1, UploadLeaves DEF DocumentInv
    <3> QED
      BY <3>1, <3>2, SubmissionsStay DEF Key
  <2> QED
    BY <2>2, <2>3, <2>4
<1> QED
  BY <1>1, <1>2

-----------------------------------------------------------------------------
(* The composition.                                                        *)

\* Whatever the page does, the services do a step of theirs or nothing.
LEMMA StepImplements ==
  ASSUME IntakeInv, [NextIntake]_allVars
  PROVE  [Next]_vars
<1>1. CASE EditQueue \/ Begin \/ LeavePage \/ UNCHANGED allVars
  BY <1>1 DEF EditQueue, Begin, LeavePage, allVars
<1>2. ASSUME NEW f \in Files, Deliver(f)
      PROVE  Next
  <2>1. category[f] \in Categories /\ retention \in Retentions
    BY <1>2 DEF Deliver, IntakeInv, QueueInv, Settled, OneAtATime, Queue!OneAtATime
  <2>2. Bytes(f) \in Sources
    BY IntakeAssumption
  <2>3. \E u \in Uploads : Save(u, category[f], Bytes(f), retention)
    BY <1>2 DEF Deliver, Unused
  <2> QED
    BY <2>1, <2>2, <2>3 DEF Next
<1>3. ASSUME NEW f \in Files,
             Answer(f) \/ ProcessTransaction(f) \/ LoseConnection(f) \/ StopAtLogin(f)
      PROVE  UNCHANGED vars
  BY <1>3 DEF Answer, ProcessTransaction, LoseConnection, StopAtLogin
<1>4. ASSUME NEW u \in Uploads, Serve(u) \/ FailInsert(u)
      PROVE  Next
  BY <1>4 DEF Serve, FailInsert, Next, UploadStep
<1>5. CASE Review \/ CrashServer
  BY <1>5 DEF Review, CrashServer, Next
<1> QED
  BY <1>1, <1>2, <1>3, <1>4, <1>5 DEF NextIntake

\* An item whose category and upload are left alone keeps what it stands for.
LEMMA StandsStay ==
  ASSUME IntakeInv, [Next]_vars, NEW f \in Files, category'[f] = category[f],
         NEW u \in Uploads
  PROVE  /\ SentAs(f, u) => SentAs(f, u)'
         /\ (HasRow(u) /\ Key(u) = <<category[f], Bytes(f)>>)
              => (HasRow(u)' /\ Key(u)' = <<category'[f], Bytes(f)>>)
BY SubmissionsStay DEF IntakeInv, SentAs

\* A step after which every request under way was under way before, and every
\* item complete was complete before, keeps the page and the services agreed.
LEMMA AgreementStays ==
  ASSUME IntakeInv, [Next]_vars,
         carrier' \in [Files -> Uploads \cup {NoUpload}],
         \A f \in Files : carrier'[f] # NoUpload =>
           carrier'[f] = carrier[f] /\ state'[f] = "processing" /\ category'[f] = category[f],
         \A f \in Files : state'[f] = "complete" /\ category'[f] \in Categories =>
           state[f] = "complete" /\ category'[f] = category[f]
  PROVE  Carried' /\ CompleteIsReviewable'
<1>1. Carried'
  <2> SUFFICES ASSUME NEW f \in Files, carrier'[f] # NoUpload
               PROVE  state'[f] = "processing" /\ SentAs(f, carrier[f])'
    BY DEF Carried
  <2>1. PICK u \in Uploads : u = carrier[f] /\ u = carrier'[f]
    BY DEF Carried
  <2>2. SentAs(f, u)'
    BY <2>1, StandsStay DEF Carried, IntakeInv
  <2> QED
    BY <2>1, <2>2 DEF SentAs, Key
<1>2. CompleteIsReviewable'
  BY StandsStay DEF CompleteIsReviewable, IntakeInv
<1> QED
  BY <1>1, <1>2

LEMMA StepIntake ==
  ASSUME IntakeInv, [NextIntake]_allVars
  PROVE  IntakeInv'
<1>1. [Next]_vars
  BY StepImplements
<1>2. DocumentInv' /\ AcceptedHasRow'
  BY <1>1, DocumentStep, StepAccepted DEF IntakeInv
<1>3. SUFFICES QueueInv' /\ Carried' /\ CompleteIsReviewable'
  BY <1>2 DEF IntakeInv
<1> USE DEF IntakeInv
<1>4. CASE EditQueue
  <2>1. Queue!Edit /\ UNCHANGED carrier
    BY <1>4 DEF EditQueue
  <2> QED
    BY <1>1, <2>1, EditQueueKeeps, AgreementStays DEF Carried
<1>5. CASE Begin
  <2>1. /\ QueueInv' /\ UNCHANGED <<category, carrier>>
        /\ \A f \in Files :
             state[f] # "processing" /\ (state[f] = "complete" <=> state'[f] = "complete")
    BY <1>5, SubmitKeeps, RetryKeeps DEF Begin
  <2> QED
    BY <1>1, <2>1, AgreementStays DEF Carried
<1>6. CASE LeavePage
  <2>1. /\ QueueInv' /\ carrier' = [f \in Files |-> NoUpload]
        /\ \A f \in Files : state'[f] = "absent"
    BY <1>6, LeaveKeeps DEF LeavePage
  <2> QED
    BY <1>1, <2>1, AgreementStays
<1>7. ASSUME NEW f \in Files, Deliver(f)
      PROVE  QueueInv' /\ Carried' /\ CompleteIsReviewable'
  <2>1. PICK u \in Uploads :
          /\ Save(u, category[f], Bytes(f), retention)
          /\ carrier' = [carrier EXCEPT ![f] = u]
    BY <1>7 DEF Deliver, Unused
  <2>2. UNCHANGED queueVars /\ state[f] = "processing"
    BY <1>7 DEF Deliver
  <2>3. at'[u] # "unused" /\ Key(u)' = <<category[f], Bytes(f)>>
    BY <2>1 DEF Save, Key, DocumentInv, TypeOK
  <2>4. QueueInv'
    BY <2>2 DEF QueueInv, queueVars, OneAtATime, Queue!OneAtATime
  <2>5. CompleteIsReviewable'
    BY <1>1, <2>2, StandsStay DEF CompleteIsReviewable, queueVars
  <2>6. Carried'
    <3> SUFFICES ASSUME NEW g \in Files, carrier'[g] # NoUpload
                 PROVE  state'[g] = "processing" /\ SentAs(g, carrier[g])'
      BY <2>1 DEF Carried
    <3>1. CASE g = f
      <4>1. carrier'[g] = u
        BY <2>1, <3>1 DEF Carried
      <4> QED
        BY <2>2, <2>3, <3>1, <4>1 DEF queueVars, SentAs, Key
    <3>2. CASE g # f
      <4>1. PICK v \in Uploads : v = carrier[g] /\ v = carrier'[g]
        BY <2>1, <3>2 DEF Carried
      <4>2. SentAs(g, v)'
        BY <1>1, <2>2, <4>1, StandsStay DEF queueVars, Carried
      <4> QED
        BY <2>2, <4>1, <4>2 DEF queueVars, SentAs, Key, Carried
    <3> QED
      BY <3>1, <3>2
  <2> QED
    BY <2>4, <2>5, <2>6
<1>8. ASSUME NEW f \in Files, Answer(f)
      PROVE  QueueInv' /\ Carried' /\ CompleteIsReviewable'
  <2> DEFINE result == Result(at[carrier[f]])
  <2>1. /\ carrier[f] \in Uploads /\ carrier[f] # NoUpload
        /\ at[carrier[f]] \in Finished
        /\ Queue!Outcome(f, result)
        /\ carrier' = [carrier EXCEPT ![f] = NoUpload]
        /\ UNCHANGED vars
    BY <1>8 DEF Answer, Forget, Carried
  <2>2. /\ result \in {"complete", "failed", "retryable"}
        /\ result = "complete" => at[carrier[f]] = "accepted"
    BY <2>1 DEF Result, Finished
  <2> HIDE DEF result
  <2>3. /\ QueueInv' /\ UNCHANGED category /\ state'[f] = result
        /\ \A g \in Files \ {f} :
             state[g] # "processing" /\ (state[g] = "complete" <=> state'[g] = "complete")
    BY <2>1, <2>2, OutcomeKeeps
  <2>4. \A g \in Files : carrier'[g] = NoUpload
    BY <2>1, <2>3 DEF Carried
  <2>5. Carried'
    BY <2>1, <2>4 DEF Carried
  <2>6. ASSUME NEW g \in Files, state'[g] = "complete", category[g] \in Categories
        PROVE  \E u \in Uploads : HasRow(u) /\ Key(u) = <<category[g], Bytes(g)>>
    <3>1. CASE g = f
      BY <2>1, <2>2, <2>3, <2>6, <3>1 DEF Carried, SentAs, AcceptedHasRow
    <3>2. CASE g # f
      BY <2>3, <2>6, <3>2 DEF CompleteIsReviewable
    <3> QED
      BY <3>1, <3>2
  <2>7. CompleteIsReviewable'
    BY <2>1, <2>3, <2>6 DEF CompleteIsReviewable, vars, HasRow, Key
  <2> QED
    BY <2>3, <2>5, <2>7
<1>9. ASSUME NEW f \in Files, LoseConnection(f)
      PROVE  QueueInv' /\ Carried' /\ CompleteIsReviewable'
  <2>1. /\ Queue!Outcome(f, "retryable")
        /\ carrier' = [carrier EXCEPT ![f] = NoUpload]
    BY <1>9 DEF LoseConnection, Forget
  <2>2. /\ QueueInv' /\ UNCHANGED category /\ state'[f] = "retryable"
        /\ \A g \in Files \ {f} :
             state[g] # "processing" /\ (state[g] = "complete" <=> state'[g] = "complete")
    BY <2>1, OutcomeKeeps
  <2> QED
    BY <1>1, <2>1, <2>2, AgreementStays DEF Carried
<1>10. ASSUME NEW f \in Files, StopAtLogin(f)
       PROVE  QueueInv' /\ Carried' /\ CompleteIsReviewable'
  <2>1. carrier[f] = NoUpload /\ Queue!Stop(f) /\ UNCHANGED carrier
    BY <1>10 DEF StopAtLogin
  <2>2. /\ QueueInv' /\ UNCHANGED category /\ state'[f] = "ready"
        /\ \A g \in Files \ {f} : state[g] # "processing" /\ state'[g] = state[g]
    BY <2>1, StopKeeps
  <2> QED
    BY <1>1, <2>1, <2>2, AgreementStays DEF Carried
<1>11. ASSUME NEW f \in Files, ProcessTransaction(f)
       PROVE  QueueInv' /\ Carried' /\ CompleteIsReviewable'
  <2>1. PICK result \in {"complete", "failed", "retryable"} : Queue!Outcome(f, result)
    BY <1>11 DEF ProcessTransaction, Result, Finished
  <2>2. /\ category[f] \notin Categories /\ UNCHANGED <<vars, carrier>>
        /\ state[f] = "processing"
    BY <1>11 DEF ProcessTransaction, Transactions, Categories, Queue!Outcome
  <2>3. /\ QueueInv' /\ UNCHANGED category /\ state'[f] = result
        /\ \A g \in Files \ {f} :
             state[g] # "processing" /\ (state[g] = "complete" <=> state'[g] = "complete")
    BY <2>1, OutcomeKeeps
  <2>4. \A g \in Files : carrier[g] = NoUpload
    <3>1. category[f] = Transactions /\ Transactions \notin Categories \cup {"none"}
      BY <1>11 DEF ProcessTransaction, Transactions, Categories
    <3>2. ASSUME NEW u \in Uploads, SentAs(f, u)
          PROVE  FALSE
      <4>1. submitted[u].category = category[f]
        BY <3>2 DEF SentAs, Key
      <4>2. submitted[u].category \in Categories \cup {"none"}
        BY DEF DocumentInv, TypeOK
      <4> QED
        BY <3>1, <4>1, <4>2
    <3>3. carrier[f] = NoUpload
      BY <3>2 DEF Carried
    <3> QED
      BY <2>3, <3>3 DEF Carried
  <2> QED
    BY <1>1, <2>2, <2>3, <2>4, AgreementStays DEF Carried
<1>12. CASE UNCHANGED <<queueVars, carrier>>
  <2>1. QueueInv'
    BY <1>12 DEF QueueInv, queueVars, OneAtATime, Queue!OneAtATime
  <2> QED
    BY <1>1, <1>12, <2>1, AgreementStays DEF queueVars, Carried
<1>13. (\E u \in Uploads : Serve(u) \/ FailInsert(u)) \/ Review \/ CrashServer
          \/ UNCHANGED allVars
       => UNCHANGED <<queueVars, carrier>>
  BY DEF Serve, FailInsert, Review, CrashServer, allVars
<1> QED
  BY <1>4, <1>5, <1>6, <1>7, <1>8, <1>9, <1>10, <1>12, <1>13, <1>11 DEF NextIntake

LEMMA InitIntakeInv == InitIntake => IntakeInv
<1> SUFFICES ASSUME InitIntake
             PROVE  IntakeInv
  OBVIOUS
<1>1. DocumentInv
  BY DocumentInit DEF InitIntake
<1>2. /\ order = <<>>
      /\ state = [f \in Files |-> "absent"]
      /\ category = [f \in Files |-> "none"]
      /\ mode = "none"
      /\ carrier = [f \in Files |-> NoUpload]
  BY DEF InitIntake, Queue!Init, Queue!NoChoice
<1>3. QueueInv /\ Carried /\ CompleteIsReviewable
  BY <1>2 DEF QueueInv, Queue!States, Settled, OneAtATime, Queue!OneAtATime, Carried,
              CompleteIsReviewable
<1>4. AcceptedHasRow
  BY DEF InitIntake, Init, AcceptedHasRow
<1> QED
  BY <1>1, <1>3, <1>4 DEF IntakeInv

-----------------------------------------------------------------------------
(* The theorems.                                                           *)

LEMMA IntakeInvariant == SpecIntake => []IntakeInv
BY InitIntakeInv, StepIntake, PTL DEF SpecIntake

\* The upload page uses the services only in ways their specification allows:
\* what is proved of payslips and statements holds with the page in front.
THEOREM IntakeUsesServices == SpecIntake => Spec
<1>1. InitIntake => Init
  BY DEF InitIntake
<1>2. IntakeInv /\ [NextIntake]_allVars => [Next]_vars
  BY StepImplements
<1> QED
  BY <1>1, <1>2, IntakeInvariant, PTL DEF SpecIntake, Spec

\* The queue sends one document at a time, through edits, lost connections,
\* retries, stops and reloads of the page.
THEOREM QueueIsSerial == SpecIntake => []OneAtATime
<1>1. IntakeInv => OneAtATime
  BY DEF IntakeInv, QueueInv
<1> QED
  BY <1>1, IntakeInvariant, PTL

\* A payslip or statement shown as complete has a row to review under the
\* category shown.
THEOREM CompleteHasRow == SpecIntake => []CompleteIsReviewable
<1>1. IntakeInv => CompleteIsReviewable
  BY DEF IntakeInv
<1> QED
  BY <1>1, IntakeInvariant, PTL

\* Behind the upload page a document is opened once and recorded once.
THEOREM IntakeKeepsLedger == SpecIntake => RefinesLedger
BY IntakeUsesServices, LedgerIsImplemented
=============================================================================
