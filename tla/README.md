# A TLA+ model of Where-Is-My-Money

The program is a household finance web application: FastAPI, SQLAlchemy and
SQLite in one process. Members of a workspace upload bank statements, payslips
and account statements, review what was read from them, and commit it; rules
categorize transactions at import and, on request, over history. This directory
models the parts where state, failure and the order of events matter. Every
definition names the code it stands for in `PROJECT.json` ("map").

## The system

| Component | State | Operations | Talks to |
|---|---|---|---|
| transaction imports (`app/imports`) | `uploaded_files`, `import_jobs`, `transactions`, private files | upload, save mapping, review, commit, cancel, retry cleanup | rules (review decision), storage, audit events |
| workspace rules (`app/rules`) | `merchant_rules`, their tags, `rule_application_runs` | create, edit, switch, move, copy, delete, preview and confirm over history | transactions, imports, tags |
| transactions (`app/transactions`) | `transactions`, categorization events | search, manual categorization, save for future | rules |
| categorization (`app/categorization`) | none | choose merchant and category of a description | rules, external model |
| tags, categories | their tables | create, rename, delete (custom tags) | rules, transactions |
| payslips (`app/payslips`) | `payslips`, `income_records`, private files | upload, confirm, clean up | storage |
| statement imports (`app/statement_imports`) | `account_statement_imports`, balance snapshots, private files | upload, confirm, clean up, retry | storage, accounts |
| documents (`app/documents`, `document-upload.js`) | the queue in the browser | dispatch one document, run the queue | the three importers |
| workspaces (`app/workspaces`) | `workspaces`, memberships, invitations | create, invite, accept; the workspace lock | everything that mutates |
| identity (`app/auth`) | `users`, personal workspaces | login | workspaces |
| core | sessions, CSRF cookies, limiter windows | per-request checks | all routes |
| accounts, planning (`app/accounts`, `app/planning`) | accounts, balance snapshots, budgets, goals | create and edit; projections and budgets in use | transactions, dashboard |
| recurrence, analytics, dashboard | none of their own | computations over the ledger | transactions, accounts |
| institutions | a static catalog | look-up | accounts |

How it runs. `docs/operations.md` deploys a single process on SQLite. An
`async def` handler keeps the event loop between its awaits, and the only await
that matters comes before the work: `await request.form()`. With the hidden form
field the middleware has already read the body, so that await does not suspend.
Plain `def` routes run in the thread pool with a database session of their own
and really are concurrent with everything: `POST /document-uploads`, by which the
upload page submits every kind of document, is one. The older form
`POST /imports` calls the same import service from an `async def` handler, which
holds the loop to its end. SQLite serializes
writers from the first write of a transaction; reads before it see what was
committed by then. Files are not part of any transaction.

What is hard, and the properties each component owes:

- *Imports.* A commit changes the ledger in one transaction and the file system
  after it; a cancellation does the opposite. Statements overlap, are uploaded
  twice, and list one charge several times. Owed: nothing is posted twice, an
  import is posted once or withdrawn once, a private file always has an owner,
  the retention choice is kept, cleanup failures are recorded and can be worked off.
- *Rules.* Pages and tokens are stale by the time they are submitted. Owed: no
  stale edit, deletion or reorder wins, and an order with no gaps that only moves
  change. Of reorders, and of reused keys, the code falls short (see below).
- *History.* A preview is confirmed later, maybe twice, maybe after the rules
  changed. Owed: a preview that still stands is applied, by the rule that an
  import would choose, never over a manual decision, with one answer per token
  and a truthful audit trail.
- *Reviewed documents.* Uniqueness by constraint or by lock, cleanup after
  commit. Owed: one income and one snapshot per document, no file without owner,
  a cleanup that failed is recorded (and can be retried, where there is a retry).
- *Membership.* Check-then-insert on invitations and first logins. Owed: one
  membership per person, one acceptance per invitation, only by its addressee.
- *Limiter, upload queue.* Boundaries of a window; every queued file ends once.
- *Reports.* The dashboard, the planning page, the search and the import review
  compute one ledger with code of their own. Owed: they agree, also at the ends
  of months and years.

`PROJECT.json` lists the hazards at their lines, with the properties that cover
each, or the reason why none does.

## Modules

### Fingerprints, ImportJobs, ImportLedger: transaction imports

`Fingerprints` is `imports/duplicates.py`: a charge stands for (date, amount,
merchant), the hash is taken to be injective, and a fingerprint is a charge with
its occurrence number among the rows handed over.

`ImportJobs` is the life of an import. An *upload* is one submitted statement
with at most one file and one job. State: `file`, `status` and `deleted` are the
disk and the two rows; `ledger` is the transactions; `req` is what each handler
holds in memory, with `seen`, the status its ORM object was loaded with; `turn`
is the event loop; `interrupted` is a history variable. A handler is cut at every
commit, file operation and at the form await, so a crash, a failed commit or a
refused unlink (`Faults`) can come in anywhere. `Yields` says where a coroutine
may be overtaken: `{}` is the deployed event loop, all points is requests on
independent sessions, which is how the repository's own tests exercise the
services. Uploads never need the turn, as in the thread pool; one that came by
`POST /imports` is overtaken by fewer, so its runs are among these.

| Action | Code |
|---|---|
| SaveUpload, ResumeExisting, RejectSource, MatchNothing, InsertJob, InsertFails | `create_csv_import`, `create_transaction_import` |
| LoadForMapping, RefuseMapping, ReadForMapping, WriteMapping | `update_mapping`, `save_mapping` |
| LoadForCommit, RefuseCommit, PrepareCommit, Post, PostConflict, KeepSource, DeleteCommitted, RecordCommitted* | `commit_review`, `commit_import` |
| LoadForCancel, CancelWithoutSource, DeleteCanceled, RecordCanceled* | `cancel_import` |
| LoadForRetry, RetryWithoutSource, DeleteAgain, RecordRetry | `retry_cleanup` |
| DatabaseFails, Crash | a failed commit; the death of the process |

`ImportLedger` is the promise: an import is opened once, then posted once
(all its new fingerprints in one step) or withdrawn, for good. `PostsOnce`
is the refinement, with the mapping `Phase(status)`.

### ReviewedDocuments, DocumentLedger, UploadQueue, DocumentIntake: payslips and statements

`ReviewedDocuments` is both document services, which share a shape: `submitted`
is what an upload was sent with, `at` where its handler is, `file` its private
file, `status` its row, `records` the incomes and balance snapshots, `review`
the confirmation and cleanup handlers, `writer` the upload that holds the write
lock of the workspace between its second lookup and its commit. They differ
where the code does: a payslip takes the lock and looks again (`TakeLock`), a
statement relies on its unique checksum (`ChecksumIsNew`); only statements have
a cleanup that can be retried (`Retriable`).

| Action | Code |
|---|---|
| Save, ReuseRow, Extract, ExtractionFails, TakeLock, MatchNothing, InsertPending, LoseInsert, InsertFails | `create_payslip_import`, `ingest_one_statement` |
| LoadForConfirm, AnswerConfirm, Post, PostConflict, KeepSource, DropConfirmed, RecordGone, RecordStuck | `confirm_payslip`, `confirm_statement_import` |
| LoadForRetry, RefuseRetry, RetryAfterAnother, UnlinkAgain, AnswerStuck, RecordRetry | `retry_statement_source_cleanup` |
| ReviewCommitFails, Crash | a failed commit; the death of the process |

`DocumentLedger` is the promise: per document one row to review, then one
income or balance. A *document* is a category and its bytes, for that is what
the two unique constraints range over.

`UploadQueue` is `static/document-upload.js`: the items, the category of each,
the state of each, the batch that runs and the retention choice it captured. The
batch is the set of items still to come, since the page sends them in the order
of its list. The page is an event loop of its own, so an answer and the start of the next item are one step.

`DocumentIntake` joins the two. An item of the queue becomes an upload of
`ReviewedDocuments` when its request arrives (`Deliver`); `carrier` says which.
The dispatcher's third branch is `ProcessTransaction`: the request is handed to the
service of `ImportJobs`, which is followed there, and is answered in any of its ways.
`LoseConnection` drops an answer or a request that never arrived, while the
handler goes on; `StopAtLogin` is an expired session; `Retry` submits again what
may well have been stored. `CrashServer` makes a request in flight one that fails.

### RuleSet, RulePages: workspace rules

`RuleSet` holds the rows of `merchant_rules` and the operations of
`rules/service.py` and `upsert_workspace_rule`. Each of these first writes the
workspace row (`serialize_workspace_mutation`), so each is one step. Primary
keys are handed out as SQLite does, largest in use plus one; `born` is a history
field that tells apart two rules that had one key. Where a rule applies and what
it sets are members of small sets; a rule made by a transaction edit has the
condition `FromKey`, the empty JSON that is read as its merchant pattern.

`RulePages` adds the members. `Open` renders the list or a form, which fixes
the version, priority and position the page will submit; any number of other
writes may come before `Edit`, `Toggle`, `MoveUp`, `MoveDown` or `Delete` submit
it. A refused submission changes nothing and is not a step. `written` is a
history variable: what the page showed and what its write found, place included.

### RuleConditions, RuleHistory, RuleImpact: what rules decide

`RuleConditions` is a condition itself: validation of its tree, the two-valued
evaluation of an import and the three-valued one over history. Texts are
sequences and taken as normalized.

`RuleHistory` extends `RuleSet` by what the rules decide. `tx` is the
categorization of a row (source, action, rule link), `trail` its audit events,
`review` the signed decision an open review page shows, `run` the audit row of
a preview together with its token, `tagged` whether the one custom tag exists.
The verdict of a condition on a row is a constant; `HistoryAssumption` says
that a verdict over history, where there is one, is the one at import.
`MCRuleHistory` takes its verdicts from `RuleConditions`, and its assumption
`HistoryIsSound` checks over some seven thousand trees that the two evaluations
agree in this way. An action stands for merchant, category, tags, subscription
and billing period together; every decision below the workspace rules is
`Fallback`.

| Action | Code |
|---|---|
| ReviewRow, CommitRow | `build_review`, `_reviewed_fields`, `commit_import` |
| Manual | `manually_categorize_transaction`, with `upsert_workspace_rule` |
| WriteRule | the rule operations, from a current page |
| DeleteLinkedRule | `delete_rule` with the nulled foreign keys and the event constraint |
| DeleteTag | `delete_custom_tag` |
| Preview | `preview_historical_application` |
| ConfirmApply, ConfirmStale | `confirm_historical_application` |

`Answer` is the run that answers a token without a change, its own or that of a
twin, which is a confirmed run with the same `Digest`. A confirmation answered so
changes nothing and is not a step.

`RuleImpact` is the two previews that write nothing, `preview_rule_impact` and
`preview_rule_deletion`, which find the winning rule with code of their own.

### Membership, RateLimiter, AccessControl: who may do what

`Membership` is users, personal workspaces, households, memberships and
invitations with their expiry. A user is known by Google's subject and has the
address of the last sign-in; `verified` is a history of the addresses vouched for.
`RateLimiter` is the deque per key under its lock, with a history of what was
allowed; the key of the sign-in callback is its path with the client's host
(`CallbackKey`). `AccessControl` composes them with the routes, browsers and sessions.
A route resolves its user in a pool thread before the handler runs on the event
loop, so an acceptance is cut in two: `BeginAccept` loads the user and the
address, `EndAccept` judges and writes; another sign-in may change the address
in between.

| Action | Code |
|---|---|
| Callback, CallbackFails, CallbackRefused, SignOut | `google_callback`, `get_or_create_google_user`, `SlidingWindowRateLimiter.allow`, `sign_out` |
| CreateWorkspace, InviteToWorkspace | `create_household_workspace`, `create_workspace_invitation` |
| BeginAccept, EndAccept | `require_current_user`, `accept_workspace_invitation` |

### Calendar, Spending, Positions, Planning, Recurrence, Finances: the reports

Pure computations over a ledger that changes. `Calendar` is the date arithmetic,
each helper with the clamping its source has, and says where `date()` raises
(`InCalendar`, `LastDay`); a date is the number YYYYMMDD.
`Spending` is the breakdown, the transaction search it links to, and the cash
flows by year, by month and by range; `Positions` accounts, balance snapshots and
net worth; `Planning` budgets and goals; `Recurrence` the recognition of
monthly, quarterly, half-yearly and yearly series. `Finances` gives them one
workspace: transactions arrive and are recategorized, accounts and balances are
entered, budgets and goals are saved, days pass. Rows from before there were
categories may be there from the start (`Legacy`), since both columns may be NULL
and the reports read them so. Money is in cents and exact, as in the code.

Where a report is written twice in the code it is written twice here: the
breakdown classifies each row of its window in a loop, the search has EXISTS
conditions and an end date that it excludes one day later. Three computations
can raise, and that is an outcome: a search that ends on the last day
(`answered`), a planning page without a next month (`shown`), a goal whose last
month is beyond the calendar (the `status` of `Projection`). The history that
suggests a cadence is `History`: rows of an expense category only.

## Runs

| Run | Question | Instance |
|---|---|---|
| `imports_browser` | do imports in the deployed program keep the ledger and the files right, and recover? | two overlapping statements, two requests, all faults, no yields |
| `imports_sessions` | what remains true when any handler may overtake any other? | one statement with a repeated charge submitted twice, two requests, all faults, yields everywhere |
| `imports_crash` (violated) | is every unfinished cleanup recorded? | as the first, crashes only |
| `imports_repeated_rows` (violated) | does every row that the review page offers land? | as the first, no faults |
| `documents` | does a document, queued twice, interrupted, retried and reviewed, end as one row, one record and no lost file, and does every run of the queue end? | two files with the same bytes, any category each, two uploads, two reviews, all faults |
| `access` | who becomes a member of what, by which invitation and when, and whom does the limiter admit? | two people, two addresses, two browsers, two hosts, one household, two invitations, two attempts in two ticks |
| `insights` | do breakdown, search, cash flows and planning page agree, do plans reach their goals, are series found, does the past stay? | ends of months and of the calendar, rows without a category or merchant, a credit and a charge, four facts |
| `planning_far_goal` (violated) | has every accepted goal a date to show? | one goal of $1000 at a cent a month |
| `rule_pages` | does a stale page overwrite a condition, action or switch, or disturb the order? | three rules, two members, one merchant key |
| `rules_stale` (violated) | is every stale submission refused? | same |
| `rule_history` | do links, events, manual decisions, previews, confirmations and their answers stay true while everything changes? | one row, two rules, two previews, a provider condition and a key |
| `history_rule_deletion` (violated) | can every rule be deleted? | one row |

### Bounds

*Imports and documents.* Two uploads and two requests give every pairwise race:
each property relates one job, or two jobs and one ledger. A statement
`<<b, a, a>>` against `<<a>>` is the smallest overlap with a repeated charge;
`<<a, a>>` twice is the smallest re-upload of one. Two uploads of one document
meet under the same category, where they race for a row, and under different
ones, where they must not. An upload is used once, so `Unused` bounds the
submissions: without a free one the queue rests. Faults are not counted; they
may strike at any step and repeatedly. In `DocumentIntake` the upload page is
left before a document is reviewed, as following a review link does.

*Rules.* `MaxVersion` and `MaxBirths` bound the version counter and the number
of rules ever created; three births are enough for a key to be reused while
another rule lives and for three rules to be reordered. `MaxEvents` bounds the
audit events of the row; four allow an import, two applications and a correction
in any order. Rows do not influence each other, save that a confirmation takes all
it selected or nothing; two previews of one row are confirmed in either order, and are twins when
their digests are equal. Two rules let one stand before the other, and one be deleted and its key be used again.

*Access.* An invitation lives for one tick and the clock ends at `MaxClock` = 2:
it is looked at before and at the instant at which it ends, and a second one is
sent after the first expired. `Limit` = `Window` = 2 is the smallest limiter whose
attempts leave the window one by one, the last at its very end; two hosts show
that keys do not mix. The limiter is followed for the sign-in callback, whose
refusal keeps somebody from signing in. Signing out has one too, whose refusal
only leaves the session as it is, and is not followed.

*Reports.* The dates are the ends of a February, of a year, of the leap February a
year after the first, and of the calendar: a window of twelve months that ends on
the third begins right after the first. One amount is a charge and one is a credit, of different size.
`MaxFacts` = 4 counts a transaction twice: two transactions, or one with a balance
and a budget, are compared at each of the dates. A series of three needs its last
payment in the batch under review and the others in the ledger or the batch, so two
imported rows and an old one are enough. The old row is a payment of the series,
a charge of its merchant that is not of it, or a charge without merchant.

*Symmetry* is used for the requests of `imports_sessions`, the members of the
rule runs, the previews of the history runs, and the people, browsers and hosts of `access`;
none of these checks liveness.

*Deadlock* is not checked where the bounds let the system stop: when every rule
ever allowed has been created and deleted, when the clock has ended and every
invitation is settled, when the last day has passed, and when a statement has been
committed and nothing else can be sent (`imports_repeated_rows`). The other
runs check it.

### Fairness

*Imports* (`FairSpec`). Handlers and pool threads are run on (`WF` on
`Advance`): the event loop is cooperative and every handler is finite.
`CleanupRecovers` further assumes a member who keeps asking (`SF` on
`KeepsRetrying`) and a fault that does not last for ever (`SF` on the successful
unlink and its record). Nothing is assumed of uploads, commits or
cancellations, which people may never make.

*Documents* (`FairIntake`). A request that was sent arrives or fails, the pool
threads run, and answers are received (`WF` on `Deliver`, `ProcessTransaction`,
`Serve`, `Answer`).
`RunsEnd` needs no more: no fault has to happen, and nothing is asked of the
member. It would fail if an upload could wait for ever for another's lock.

## What the runs found

- `imports_repeated_rows`: the review page numbers all rows, the commit only the
  included ones. With one of two identical charges already imported, the second
  is offered as new and dropped on commit, or the commit fails with
  `no_rows_selected`.
- `imports_crash`: a death between the commit of an import and the record of
  its cleanup leaves `committed` beside an unrecorded source, and no operation
  takes it up again.
- `rules_stale`: operations on other rules change a rule's place but not its
  version, and the list submits an absolute place. "Move up" on a stale list passes
  several rules or moves the rule down, where `src/README.md:464-467` says that
  versions keep a stale reorder from silently winning. The property fails without a
  move too: the newest rule deleted and another created, the second has the key and
  the version of the first, and the first's stale page edits it.
- `history_rule_deletion`: a transaction loses its link to a rule but keeps the
  source `workspace_rule`; a rule is applied to it from history, which records the
  event (workspace_rule, none) to (workspace_rule, rule). Deleting that rule would
  turn the event into one that changes nothing, which a CHECK constraint refuses:
  the deletion fails with an unhandled `IntegrityError`, and for good.
- `planning_far_goal`: amounts of a goal are bounded but not the months it
  takes. A thousand dollars at a cent a month is saved, and from then on the
  planning page cannot work out its date and fails.

Seen while modelling, contrary to a document, and without a run of its own:

- A token is answered with any confirmed run of its digest (`Answer`). When a rule
  was applied, another was applied over it, and the order is taken back, a fresh
  preview of the first has the first digest again: its confirmation reports success
  with the old counts and changes nothing, where `src/README.md:480-482` says that a
  confirmation "either commits every selected change or none".
- A payslip whose source could not be removed is `confirmed_cleanup_failed` for
  good: only imports and statements have the retry that
  `docs/architecture.md:52-53` speaks of (`Retriable`).
- With a transaction of 9999-12-31 the dashboard opens as of that day, which the
  breakdown guards and a test asks for; its links carry the day to the search,
  which adds a day to it and raises (`answered`).

Seen while modelling, and modelled as they are; no document was found that says
otherwise:

- "Save for the future" finds the rule it once made for a merchant and replaces
  its action, and keeps the condition a member gave it and that it is switched off.
- The cash flow shows uncategorized charges as spending, the breakdown as
  charges that need review; `CashFlowsAgree` accounts for the difference.
- The planning page of December 9999 fails for want of a next month; BudgetReport
  is not `shown` for it.

## Proofs

Each theorem holds for every value of the constants that the named assumptions
of the modules allow. TLC checked each invariant on the instances above first.
The type invariants of all modules but `ImportJobs` are proved and not run.

`ImportJobsProofs`:

- `TypeCorrect`: inductive because the handler part of `TypeOK` says more than
  types: an idle handler holds nothing, a busy one an existing upload, and its
  batch is a set of fingerprints.
- `FingerprintsUnique`: the only action that adds to the ledger is `Post`, whose
  guard is the unique constraint, and a batch of one job adds one entry per
  fingerprint.
- `DeletedIsTruthful`: `deleted => gone` alone is not inductive. The
  strengthening adds that a handler at a point after a successful unlink works
  on a file that is gone, and that no action brings a file back.
- `SourcesAreOwned`: a stored file has a job row, a handler in flight or an
  interruption; the strengthening says which points of a handler keep the file
  of an upload that has no row.
- `RetainedIsKept` assumes `Uninterrupted`: no yield between the check of a
  source and the status it justifies. `KeptInv` adds that an upload at work has
  no job and its file to itself, that whoever is at such a point has the turn,
  so that what it read is still so, and that no handler is about to remove the
  source of a committed import unless that was chosen.
- `SourcesAreSettled` assumes `FormsYield`: handlers await only their forms,
  which covers the deployed program. `SettleInv` adds that the holder of the turn knows
  the status of its job, and that a job is settled or the commit that settles it
  is going on.
- `CopiesWithoutGap` and `OverlapsAreNotDuplicated` hold for every interleaving.
  The invariant is `NumberedInv`: the ledger is finite and, as far as it knows a
  copy of a charge, it knows the copies before it; a batch on its way is gapless
  together with the ledger. Numbering a statement counts equal charges among its
  first rows, so it needs cardinalities and no induction over sequences: a
  charge that occurs n times has exactly the numbers 1 to n.
- `LedgerIsImplemented` is the refinement `PostsOnce`, action by action: `Post` is
  the ledger's post, cancellation its withdrawal, all else an opening or a
  stutter. It assumes `DecidesAtOnce`: no yield at the six points (`Deciding`)
  that lie between reading a status and writing what follows from it. In the deployed program the one await
  there, the form, does not suspend, so its `Yields` is `{}`. Without the
  assumption the theorem is false, and so `imports_sessions` does not check
  `PostsOnce`. `OnceInv` says what each handler that holds the turn still knows of the status.

`ReviewedDocumentsProofs`: `DocumentInv` is `TypeOK`; `Order`, which says how far
each upload and review has come and that the lock protects the payslip upload
that holds it; `RowsAreDocuments` and `RemovalsAllowed`, what a handler that
is about to unlink knows; and the properties themselves. `RowsAreUnique`
follows for payslips from the lock and for statements from the constraint.
`LedgerIsImplemented` shows `Spec => Ledger!Spec` with cardinalities of the
rows and records of a document: an insertion is an `Open`, a post a `Record`,
anything else a stutter. `SourcesAreSettled` rests on `SettledInv`: a mark of
removal, and a handler about to set one, name a file that is gone (`Removed`),
and a confirmed document whose source was to go and is not marked so is still
behind its confirmation, or that confirmation was cut short.

`DocumentIntakeProofs` carries this over to the upload page. `IntakeUsesServices`
shows that page, connection and server together implement `ReviewedDocuments`,
so that its invariant holds there. `IntakeInv` adds that a request under way
is the upload of the item it was sent for (`Carried`), and that an accepted
upload has a row of its own or the one it found (`AcceptedHasRow`). From it follow
`QueueIsSerial` and `CompleteHasRow`; `IntakeKeepsLedger` is the
refinement of `DocumentLedger` by way of `LedgerIsImplemented`. The only
assumption of its own is that files hold the bytes of known sources.

`AccessControlProofs`: `AccessInv` adds to the properties that every address
held by an account, a session or an acceptance in flight was vouched for
(`Vouched`), that invitations belong to households whose owner is a member
(`HouseholdsOK`), and that no two invitations of one address are pending at one
time (`NoTwoPending`). `AdmissionIsLive` is the action property from the same
invariant. `WindowIsBounded` and `RefusalIsExact` rest on the lemmas of
the limiter in the same module: the deque of the limiter is the tail of the admissions that
are still in the window (`LimiterInv`), so its length counts the window
(`RecentFillsWindow`).

`RuleSetProofs` holds the lemmas about the order: `Before` is a strict order,
`Place` counts, making room and closing up keep priorities compact, and every
operation either keeps the relative order or moves one rule (`Evolves`,
`Reorders`). `RulePagesProofs` uses them: `PageInv` adds that a page shows
what its rule still is, or the rule is of a later version, or it is another rule
under the same key (`PagesTruthful`), from which
`NoStaleContentWins`, `OrderIsDense` and `OrderIsKept` follow. The first is about
what a rule says, not about where it stands: of that it is false (`rules_stale`).

`RuleHistoryProofs`: `HistoryInv` adds what is known of the rows, the runs and
the trails: a trail is a chain to the row's present attribution, of which
deleting a rule nulls the same links on both sides. From it follow
`LinksNameRules`, `AuditIsConnected`, `ManualIsProtected` and `HistoryAgrees`;
the last needs `HistoryAssumption`, and the compactness of the order to know
that the import and the application mean the same first rule. The same invariant
gives the three action properties about what a member is shown:

- `ResultIsFinal`: a token that was answered with a run, its own or a twin's, is
  answered with it for ever. A confirmed run keeps its status and digest, and
  while one stands no second of its digest can be confirmed, so twins stay unique.
- `DeletionDoesAsPreviewed`: deleting a rule leaves the order of the others
  (lemmas of `RuleSetProofs`), so the winner after it is the first match among the rest,
  which is what the preview's own loop finds, undecided rules included.
- `SavingDoesAsPreviewed`: a new rule comes last and an edited one keeps its
  place, so the rules before it are those that the preview asked.

`FinancesProofs` holds for every ledger, calendar of days, set of categories,
budget and goal. The invariants are plain: `FactsInv` says what the tables hold,
`GoalsInv` that every goal has passed its validation. The work is in the operators:

- *Sums* are folds over finite sets. They are shown to be additive, once, from
  `SubsetInduction`: a family of subsets that has the empty set and grows by one element
  at a time has them all. It takes a set and not an operator, and
  follows from the least number of `NatMin`.
- *The calendar*: how date, year, month and number of months determine one
  another, that months are ordered as their first days, and what clamping does.
- `SavingsReachGoal` is about goals shown on track, that is, with a last month in
  the calendar. It is rounding up (`CeilDivIs`) joined with counting months
  from today inclusively.
- `LinksOpenWhatIsShown` shows that the loop of the report and the conditions of
  the search select the same rows, per category, merchant and period, wherever the
  search answers: a date is before the next day of the end exactly when it is
  not after the end, and a row without a category meets neither EXISTS.
  `BudgetsShowWhatIsSpent`, for months with a page, and
  `CashFlowViewsAgree` split the rows of a window by month and category.
- `SeriesAreRecognized` is about any ledger whose charges of the merchant and
  about the amount, of an expense category, are of the series. `Sorted` puts a date
  at the place that the number of earlier dates gives it; that this is their only
  growing order is counting (`GrowingCount`, `GrowingRank`, `SortedIs`).
  `SeriesDetected` is the lemma for a series of any length.
- `ClosedYearsKeepNetWorth`: entries after a year's end are not eligible for it,
  so the latest eligible balance stays (`LatestIs`, `PositionStays`).

The three about windows assume `AfterFirstYear`, that no day lies in the year 1.
There one report clamps to the first of January and another to the same day of
January, so a rolling window may start after its end. No statement is that old, but the code has no
check that says so, hence a hypothesis of the theorems and not of the model.

Model-checked only:

- Liveness under fairness: `CleanupRecovers`, `RunsEnd`.
- The validation and evaluation of a condition tree are recursive operators:
  `HistoryIsSound` and `InvalidMatchesNothing` are assumptions that TLC evaluates
  over the trees of `MCRuleHistory`; the theorems about rules take the verdicts
  as constants under `HistoryAssumption`.

## Not modelled

- Reading a source: text extraction, parsing, provider layouts and the mapping of
  columns are string work without state. What a source holds is a constant.
- The categorization chain below the workspace rules is a fixed order of pure
  lookups, and its model is external: `Fallback`.
- Counts, percentages, highlights, the savings rate and the household summary;
  the metrics of rules and the simulator of an unsaved one; paging and wording.
- OAuth, CSRF cookies, headers, settings, migrations, the catalog of
  institutions: input, output or configuration.
- One workspace is modelled except in `Membership`, since every query is scoped
  to one.

## Plan

What is left, in this order:

1. A hazard without a property: what "save for future" promises about a rule
   that was edited since.
2. The rows of a statement between its text and its review: which are skipped
   and how an edit of the mapping changes them.
3. Proofs of the properties that those two bring.
4. The simulator of an unsaved rule beside `RuleImpact`.
