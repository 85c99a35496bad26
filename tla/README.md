# Verification of the e-invoice access point

The repository is a Go service (fiber, gorm on Postgres, Redis, asynq) through
which Nigerian businesses submit invoices to the tax authority's exchange
(FIRS, also called NRS in the code).  Aggregators submit on behalf of the
businesses that accepted them and pay for it through Paystack; Zoho Books calls
a webhook; files of invoices are processed by a worker process.  This directory
holds TLA+ models of its stateful parts, what TLC checks about them and what
TLAPS proves.

## 1. The system

Two processes, the HTTP server and the asynq worker, share two Postgres
databases (production and sandbox) and Redis.  **The code opens no transaction
and takes no lock around what it does**: each repository call is a statement of
its own, `Save` writes a whole row from a struct read earlier, and handlers,
webhook goroutines and workers interleave freely.  That is the source of nearly
every hazard listed in `PROJECT.json`.

| Component | State | Operations | Talks to | Hard behaviour |
|---|---|---|---|---|
| Subscriptions (`app/subscription`) | `transactions`, `subscriptions` | subscribe, Paystack webhook, require, reserve, release | Paystack, uploads | webhook acknowledged before it is handled; duplicates, reordering; read-modify-write of whole rows; expiry against renewal |
| Invoice pipeline (`app/invoice`) | `invoices` with a status and its history | upload, prepare (system integrator), modify, payment update, delete | FIRS | five FIRS calls with a save after each; lost answers, crashes, retries that resume; overlapping requests |
| Bulk upload (`workers/consumer/bulk-upload`, `app/bulk_upload`) | asynq task, `bulk_uploads` log row | enqueue, parse, worker pool, log | pipeline, subscriptions | at-least-once tasks, retries that overlap, ten workers on one file |
| File parsing (`csv-validation.go`, `excel-validation.go`) | channels of jobs and results | count, choose a strategy, parse in a pool or in chunks | bulk upload | three goroutines close two channels; results out of order |
| Aggregators (`app/aggregator`) | `aggregator_invitations`, `businesses.aggregator_id`, its history | invite, respond, revoke, remove, create | businesses, uploads | check-then-act on the link; link, invitation and history changed without a transaction |
| Accounts (`app/auth`) | users in both databases, OTPs in Redis, access tokens | register, verify, log in, toggle mode, change and reset passwords | mail | two databases written one after the other, from copies |
| Zoho (`app/webhooks`, `app/callback`, `app/token`) | OAuth token, `invoices` | webhook, authorisation, token refresh, invoice update | Zoho, FIRS | redelivery without deduplication, concurrent refresh, a goroutine beside its webhook |
| Businesses, administration (`app/business`, `app/admin`) | `businesses`, preferences | edits, signing keys, listings | accounts, aggregators | whole-row saves of stale structs |
| Entity, resources, health, middleware | none | look-ups | FIRS | none |

What makes each correct:

* subscriptions: an aggregator is charged no more invoices than it paid for, and
  gets what it paid for, once;
* pipeline: what the records say happened at FIRS did happen, in the order FIRS
  requires; one record per invoice number; nothing signed twice; no caller is
  told more than the truth;
* bulk upload: every row of a file is accounted for, and the log is closed;
* file parsing: every row ends once, as an invoice or as an error with its line,
  and the goroutines end;
* aggregators: a business has at most the aggregator it accepted, and the
  invitations and the history say which;
* accounts: both environments agree on who may log in, after the address was
  verified, and a reset that failed half way can be repeated;
* Zoho: what Zoho is told is recorded, and the stored token is the usable one.

## 2. Modules

| Module | Role |
|---|---|
| `Subscription` | payment, webhook, grant, expiry, reservation and release |
| `MCSubscription` | small instances |
| `SubscriptionProofs` | TLAPS proofs about `Subscription` |
| `FirsLifecycle` | abstract: FIRS signs, then transmits, then confirms |
| `InvoiceStatus` | the stages of a record and what is read off them, shared by single and bulk uploads |
| `InvoicePipeline` | one invoice number: requests, FIRS calls, saves, payments |
| `MCInvoicePipeline` | small instances; what the handlers' texts say |
| `InvoicePipelineProofs` | TLAPS proofs about `InvoicePipeline` |
| `BulkUpload` | one uploaded file: the task, its attempts, their workers, the log row |
| `MCBulkUpload` | small files |
| `BulkUploadProofs` | TLAPS proofs about `BulkUpload` |
| `FileParsing`, `MCFileParsing` | one file: strategy, pools of goroutines, channels, chunks |
| `FileParsingProofs` | TLAPS proofs about `FileParsing` |
| `AggregatorLink`, `MCAggregatorLink` | one business: invitations, link, history, whole-row saves |
| `AggregatorLinkProofs` | TLAPS proofs about `AggregatorLink` |
| `Accounts`, `MCAccounts` | one e-mail address: two users, codes, sessions, passwords |
| `AccountsProofs` | TLAPS proofs about `Accounts` |
| `ZohoWebhook`, `MCZohoWebhook` | deliveries of one invoice, and the OAuth token they share |
| `ZohoWebhookProofs` | TLAPS proofs about `ZohoWebhook` |

### Subscription

`txn` is `transactions.status` of each reference; `rows` are the subscription
rows in creation order (`last` is the newest, the one
`GetLatestSubscriptionByBusinessAndAggregator` finds); `hook[d]` holds what the
webhook goroutine `d` has read, `req[u]` what upload `u` has read.  One action
is one database call, so the gap between a read and the write based on it is
visible.  `events` is what Paystack has sent; it is never emptied, so any event
may be delivered again and in any order.  That events come from Paystack alone
is an assumption about the environment: the handler does not check who calls.  `HookStops` is a database error, an
unknown plan or a restart in the goroutine; `Lose` is a release that failed, or
a worker that died.  `grantedTo`, `raced`, `regressed` are history variables:
what the payments granted a row, which references two webhooks handled at once,
and whose success a later event overwrote.  A request is an invoice of a bulk
upload; a single upload calls `RequireSubscription` and then goes on as
`"unmetered"`, without quota, and no property bounds how many do.

`Reserve` is a single `UPDATE ... WHERE is_active AND remaining_invoices >= n`
and therefore atomic; `Grant` and `SaveExpired` are gorm `Save`s of a struct,
and overwrite whatever is there.

### InvoicePipeline

`rows` are the records ever created for one invoice number of one business;
`op[u]` is a request with the copy of the record it loaded and modifies;
`done[s]` and `firsPay` are what FIRS did.  An IRN is the number, the service
and the date (`common/irn.go`), hence the day here; `Supplied` are IRNs that a
payload may bring along, `Declared` the payment statuses it may declare.  The
column of the payment status (`pay`) and the one in the stored payload (`said`)
are kept apart: `Insert` takes over what the payload declares, `Overwrite` and
`Replace` leave the column as it is, and the payload, with its status, goes to
FIRS when it is signed (`SignedPay`).  `Load` is the gate on `CurrentStatus` and
`HasFailedStatus`, `Insert`, `Overwrite` and `Replace` the three ways a record
is written, `Call` and `RecordAnswer` one FIRS call and the save that follows.
A call may be performed and its answer lost (`"unanswered"`), a save may fail
silently (`"unsaved"`: the code drops the error), a request may die (`Crash`).
The history variable `mishaps` collects what happened besides requests running
one after another; properties that hold only without some of it name exactly
those.

### BulkUpload

`task` is the asynq task, `att[a]` one delivery of it with the results it has
counted (`tally`) and the copy of the log it read, `work[w]` a worker with the
row in its hands, `out` the results channel, `rec` the invoice records by the
attempt and row that created them, `log` the row in `bulk_uploads`.  The parser
is abstracted to `N` valid rows with their invoice numbers and `Invalid`
refused ones.  When the context of an attempt expires (`Expire`) asynq puts the
task back while the goroutines go on; a restart of the process (`Restart`, or
`Panic` in a goroutine of the pool) ends all attempts.  `Take` is the `select`
on `ctx.Done()`, `Lookup`, `Reserve`, `Create`/`Abandon` and `Call` are
`processSingleInvoice` with one action per database or FIRS call, `Tally` is the
aggregation loop, which looks the record up again.  The log is read and written
in two steps (`ReadLog`, `WriteLog`), and `Merge` is gorm's `Updates` of a
struct, which skips zero fields.

Two simplifications: an IRN is not told apart by its day here (that is
`InvoicePipeline`'s subject), so FIRS counts invoice numbers; and the
subscription is a counter (its rows, periods and payments are `Subscription`'s).

### FileParsing

A file is a sequence of rows that are valid, invalid or empty; what makes them
so is settled in advance.  `pc` is the goroutine of the task, `sent` and `taken`
the two ends of the channel of jobs, `worker[w]` the row in the hands of a
goroutine of the pool, `results` the channel of results with the number each
row got in its error.  `EndOfPool` and `Number` are the arithmetic of chunks.
`InOrder(rows)` is the one sequence of a set of rows that ascends, which stands
for a loop over the rows and for the loop that puts the results back in order;
it is a `CHOOSE` among all sequences of the set, so that it can be reasoned
about.
The same module stands for both formats: a CSV file is cut into chunks above
`Medium` rows, an Excel file never is.

### AggregatorLink

`link` is `businesses.aggregator_id`, `invs` the invitations, `latest` the
newest row of the history, `op[o]` a request with what it has read of the link
(`seen`) and of the invitation (`status`).  `Respond`, `Revoke` and `Remove`
begin requests whose further database calls are actions of their own
(`CheckBusiness`, `LinkBusiness`, `SaveAnswer`, `Unlink`, `SaveRevoked`,
`CancelInvitations`, `RecordHistory`).  `ReadRow` with `SaveRow` and
`SaveFields` are the requests elsewhere that carry the link along in a copy of
the business: signing keys and the administration (`Save`), a change of the
password (`Updates`).

### Accounts

`acct[e]` is the user of the address in the environment `e`, `otp` the codes in
Redis, `live` the environments with a session.  `op[o].copy` is the user that a
request read and will write back, by `Updated` (gorm `Updates` of a struct: the
empty fields stay) or whole (`SaveRow`).  A one-time password is there or not:
its digits are left out, and who asks for a code has the newest one.  `mishaps`
begins anew with a reset that starts while nothing else writes, since that is
when the accounts come together again; those that undo a verification
(`Lasting`) are kept for good.

The accounts are those that *have* the address.  `AdminCreates` and
`AggregatorCreates` add one in one environment alone, the latter verified.
`Leave` and `Arrive` are the change of the address of an account, which nobody
verifies, seen from one address: an account leaves it, or comes to it with the
verification and the session it has.  A request that read an account before it
left writes the old address back with the rest of its copy.  Which of several
accounts a session belongs to is not kept.

### ZohoWebhook

`row[d]` is the record that delivery `d` created, `copy[d]` the struct that the
webhook and its goroutine `work[d]` share; `done` and `valid` are what FIRS did.
`call[q]` is a caller on its way to a token, `token` the stored one, `expiry`
when the tokens that Zoho issued really end, `newest` the newest refresh token
that an answer brought.  `AskZoho` has four ends: an answer with an access and a
refresh token, one with an access token only, a refusal, and an answer that is
lost after Zoho issued both.  An exchange stores what came, so that without a
refresh token the row can never be renewed; a refresh keeps the one it used.
That every answer without an error has an access token is an assumption about
Zoho.  A delivery may be repeated: each is another member of `Deliveries`.

## 3. Runs

| Run | Instance | Shows |
|---|---|---|
| `subscription_quota` | 1 reference, a plan of 1 invoice, 3 webhooks, 3 uploads, clock 0..2 | `AcceptedWithinGranted`: uploads charged to a row stay within its grants; `ChargedWithinBought`: all that is charged stays within what was bought; `QuotaCovered`: used + remaining never falls below total; `OnlyStaleCopiesDeactivate` |
| `subscription_payment` | 2 references with different plans, 3 webhooks, 1 upload, fair goroutines | `OneGrantPerPayment`, `OneSubscriptionRow`, `PaidIsGranted` |
| `pipeline_overlap` | 2 requests, 2 row ids, 2 days | `FirsOrder` (refinement of `FirsLifecycle`), `SuccessWasPerformed`, `ClaimedIsSigned`, `OneRecord`, `SignedOnce`, `SignedStays` |
| `pipeline_payment` | 2 requests, 2 payment updates, 1 row id, 2 days, payloads that declare one of 2 statuses | `PaymentAgrees` |
| `pipeline_modify_twice` | 3 requests one after another, 2 days | violated: `RejectedIsNotSigned` |
| `bulk_rows` | 3 rows with 2 numbers, one fills in irn; 1 attempt, 2 workers, quota 1, fair | `TypeOK`, `LogAddsUp`, `AttemptsEnd` |
| `bulk_again` | 1 row, 2 attempts that may overlap, quota 2 | `NothingOverstated`, `QuotaMatchesRecords`, `RecordsPerNumber`, `DoneIsClosed`, `ClosedStays` |
| `bulk_irn_column` | 1 row that fills in irn | violated: `NoRowPanics` |
| `parsing_files` | all files of up to 5 rows in both formats, 2 workers; sequential up to 1 row, one pool up to 3, chunks of 2 above; fair | `TypeOK`, `EveryRowOnce`, `InFileOrder`, `ParsingEnds` |
| `aggregator_mandate` | 2 aggregators, 2 requests, 3 invitations | `NoTakeover`, `LinkIsAccepted`, `AcceptedIsLinked`, `OneActiveInvitation`, `HistoryAgrees` |
| `accounts_resets` | 2 requests, 2 passwords | `PasswordsAgree`, `SessionsVerified`, `ResetIsRepeatable`, `VerifiedStays` |
| `zoho_deliveries` | 2 deliveries, 1 authorisation, 3 tokens, clock 0..3 | `ToldIsRecorded`, `SuccessWasPerformed`, `EndIsRecorded`, `NewestRefreshToken`, `FreshIsValid` |

The `TypeOK` of the other modules is proved (section 5), not run.  Every
invariant and action property of the passing runs is proved as well, for every
value of the constants; only the liveness properties are left to TLC.

Bounds.  Two webhooks are needed for a duplicate or a race and a third for a
regression followed by a repeat; two references for the two-rows race; a quota
of one with three uploads for a contended last invoice, and for a plan that is
granted twice and charged twice; a clock of two ticks
for a period that ends and is renewed.  In the pipeline two requests give every
pairwise overlap, two days a new IRN for a retried invoice.  In a file two
rows of a number, a third of another and two workers give the races within a pool (ten
workers in the code), two attempts a retry and an overlap (asynq allows 25
retries); the two dimensions together exceed what TLC can visit, so
`bulk_rows` has one attempt and `bulk_again` one row.  Five rows give a last
chunk that is shorter than the others; the sizes 1, 3 and 2 stand for 100, 5000
and 1000.  Two aggregators and three invitations give a mandate left over from
an earlier one beside a new invitation.  A token that lives two ticks with a
margin of one is fresh, stale and expired within the clock, and three tokens
give an exchange and two refreshes.

`pipeline_payment` and the runs of `AggregatorLink`, `Accounts` and
`ZohoWebhook` leave out histories
with more than one *kind* of mishap (`OneMishap`): a property that excepts some
mishaps is vacuous once one of them has happened, and what two kinds do
together is only lost for those that it does not except.  The proofs have no
such bound and cover the rest.  `zoho_deliveries`
also lets only one goroutine past the conversion (`OneGoroutine`): goroutines
share nothing but what FIRS has done, and here too the proofs cover the rest.

Runs set `CHECK_DEADLOCK FALSE` where every request, delivery or file ends and
the bounded system then stops; `accounts_resets` does not.

Fairness.  `FairSpec` assumes only that a webhook goroutine that has started is
scheduled until it returns, which the Go runtime does.  `HookStops` is not
fair: the property excepts deliveries that stopped.  For a file, asynq delivers
a waiting task and goroutines run until they return.  That FIRS answers is not
assumed, because the HTTP client has no timeout (`utility/http.go`) and the
30-second context of a row is not passed on: `AttemptsEnd` says that an attempt
ends or waits for FIRS forever.  In `FileParsing` every goroutine that can go on
does, each for itself: nothing in them waits for a network.

Symmetry is used for deliveries, uploads and requests in safety runs only.

## 4. Findings

1. A second modification on the same later day rejects an IRN and re-submits
   it: the creation day is kept by `ReplaceInvoiceRecord`
   (`pipeline_modify_twice`).
2. A row that fills in the optional irn column and has no record yet is
   dereferenced through nil, which ends the worker process, and again on every
   redelivery (`bulk_irn_column`).

Seen while modelling, without a run of their own:

* a payment update for an IRN without a record reaches FIRS, since the lookup
  that is to answer "invoice not found or does not belong to you" returns no
  error for a missing record (`InvoicePipeline`);
* a re-upload after a failed signing signs a payload that was not validated
  (`ResumeAt` in `InvoiceStatus`);
* a file without a valid row is announced by mail as finished, while its log row
  stays pending (`DoneIsClosed` is stated for files with one);
* a single upload of an aggregator takes no quota: the branch for it is empty
  (`aggregator/handler.go:1118`), so that the invoices accepted for a business
  are not bounded by what was paid, only those charged to quota are;
* an upload over a record that failed, or a modification, whose payload declares
  another payment status than the record has sends that status to FIRS and
  leaves the column behind (`CreateInvoice`, `ReplaceInvoiceRecord`; the mishap
  `"restated"`);
* an account that an administrator creates in production alone cannot be
  verified, since `VerifyEmail` and `ResendOTP` look at the sandbox, and so
  never logs in; one that an aggregator creates is verified without a code
  (`aggregator/service.go:776`, the mishap `"vouched"`);
* an account that is given another address stays verified, and its sessions go
  on naming the old one (`business/service.go:148`, the mishap `"moved"`);
* when Zoho answers an exchange without a refresh token, the row that is stored
  can never be renewed and no code is asked for again (`token/service.go:43`);
* an invoice of Zoho that cannot be converted leaves no trace in the record,
  after Zoho may have been told its IRN (`EndIsRecorded` excepts it);
* an account that an administrator suspends is no longer found by
  `GetBusinessByIDForAdmin`, and so cannot be made active again the same way.

The exceptions that the passing properties name are behaviours the code does
have: two webhooks of a reference at once, or a success overwritten by a later
event, grant a payment twice; a stale expired copy takes away a renewed period;
overlapping uploads of one number create two records; a crash between signing
and its save leads to a second signing; an attempt whose time was up reopens the
log another one completed, or drops rows; a release that fails, or a restart
between reservation and record, costs quota; two answers of a business at once
leave two accepted invitations; a row saved whole brings an old link, an old
password or an unverified address back; an aggregator or a change of the address
brings a verification that no code stands behind; two refreshes at once store
the older refresh token.

## 5. Proofs

`SubscriptionProofs` proves, for every number of references, deliveries,
uploads and rows and every quota and cycle (assumptions: `RefsAssumption`,
`KindsAssumption`, `QuotaAssumption`, `CycleAssumption`, `BoundsAssumption`,
`FiniteAssumption`, the last because uploads are counted):

* `TypeCorrect`: `[]TypeOK`.
* `QuotaNeverOversold`: `[]AcceptedWithinGranted`.  Not inductive as it stands;
  `QuotaInv` adds that charged *plus usable* invoices of a row fit in its
  grants, where an inactive row has nothing usable, and that expired copies are
  inactive.  That is why a stale copy may restore an old counter without harm.
* `PaymentGrantedOnce`: `[]OneGrantPerPayment`, from `PaymentInv` (for a
  settled reference at most one webhook is between its read and its save, a
  grantor implies a stored success, and a webhook that read an older status has
  no grantor beside it) and `PageInv` (only an open payment page has events).
* `QuotaAlwaysCovered` and `InDateRowsStay` from `CopyInv`: rows and waiting
  copies account for their total, and copies are past their due day.
* `OneRowHolds`: `OneSubscriptionRow`, from `RowInv`: while webhooks are handled
  one at a time whoever is about to grant has found the row that is the newest
  still.
* `BoughtCoversCharged`: `[]ChargedWithinBought`, the end-to-end property.  It
  is about the invoices charged to quota; unmetered single uploads are outside
  it, as they are outside the quota in the code.  What was bought is counted as a
  set, `Bought`, the pairs of a credit and one of the invoices of its plan, and
  not as a sum by recursion.  A reference is one credit, but one for each webhook
  that granted it when webhooks of it raced or its success was overwritten: a
  race adds what it granted and no more, and takes nothing from what is claimed
  of the other references.  `BooksInv` adds to the invariants above that a row
  was granted exactly the `Units` of the webhooks that granted it, `RowsWithin`
  joins that with `AcceptedWithinGranted` over all rows, and `BoughtCount` maps
  the units one to one to `Bought`, which is where `OneGrantPerPayment` is
  needed.  `RowsWithin` is an induction on the number of rows; it is done on the
  least number for which it would fail, since induction theorems with an operator
  as a parameter are out of the prover's reach.

`InvoicePipelineProofs` proves, for every set of requests and payment updates,
every supplied IRN and every bound on records and days and every
set of payment statuses that payloads declare (assumptions: `RowIdsAssumption`,
`MaxDayAssumption`, `SuppliedAssumption`, `DeclaredAssumption`, which only says
that the validation of a payload knows no partial payment):

* `PipelineTypeCorrect`: `[]TypeOK`.
* `PipelineSound`: `[](TypeOK /\ SoundInv)`.  `SoundInv` has a clause about
  records (`NamesStage`) and one about what each request knows (`Sound`): a
  record it is to overwrite shows no success that the new payload would
  inherit; in the pipeline its copy shows success only at stages it has passed,
  and FIRS performed those for the IRN of the copy; an accepted answer was
  performed.  The second clause is needed because a whole copy is saved over
  whatever is there: only if copies are as truthful as records do saves keep
  the records truthful.  From it follow `FirsOrderHolds` (the refinement of
  `FirsLifecycle`), `SuccessHolds` and `ClaimsHold`.
* `OneRecordHolds` and `SignedStaysHolds`, from `PipelineAlone`
  (`[]AloneInv`): as long as no two requests overlapped, one request at most is
  under way, the only live record is the one it holds, and its copy is abreast
  of that record.
* `SignedOnceHolds`: `[]SignedOnce`, from `OnceInv`: as long as nothing but one
  upload after another happened, an IRN that FIRS signed finds every request
  past the signing, and either the request that had it done about to save that,
  or every live record shut by the gate on its status.
* `PaymentHolds`: `[]PaymentAgrees`, from `PayInv`: without a mishap a payment
  update runs beside nothing else, the copies of requests have the payment status
  of their records (so that a whole save undoes no update), a record shows one
  status in its column and in its payload before FIRS has any, so that signing
  brings the status of the column, FIRS holds no payment before there is a
  record, and an update under way finds the record it owes the status to.

`BulkUploadProofs` proves, for files of any number of rows with any invoice
numbers, any number of attempts and workers and any quota (assumptions:
`FileAssumption`, `QuotaAssumption`, and `PoolAssumption`: attempts and workers
are finitely many, because they are counted, and an attempt is not a state of the
task).  Its invariant has these parts:

* `RowsInv`: a row that was handed out is held by one worker, or is in one
  result, or is through; where an attempt is says what it can have done.
* `RecordsInv`: records belong to rows that were handed out and have their
  number, and a worker knows whether it created its record or took it over.
* `QuotaInv`: quota left, records and reservations make up the quota.  From it
  `QuotaHolds`: `[]QuotaMatchesRecords`.
* `TruthInv`: what records, the workers' copies and the results say of a stage,
  FIRS has performed.  `CountInv`: the counts of an attempt have as many rows as
  it is done with, and of the successes among them no more than have an invoice
  that FIRS transmitted.  `LogInv`: the log, and the copy of it that an attempt
  is about to write, are sound in that sense.  From these `LogHolds`
  (`[]LogAddsUp`) and `OverstatedHolds` (`[]NothingOverstated`).  Copies are in
  the invariant because attempts that overlap write what they read before.
* `AloneInv` and `OnceInv`: as long as no two attempts overlapped, one is under
  way, a row has one record over all attempts, and a task that is done has
  written its log.  From them `RecordsHold` (`[]RecordsPerNumber`), `DoneHolds`
  (`[]DoneIsClosed`) and `ClosedHolds` (`ClosedStays`).

`BulkTypeCorrect` (`[]TypeOK`) needs `RowsInv`, `QuotaInv` and `CountInv`: that
no release takes the quota past what it was, and no count passes the rows of the
file, are no matter of types alone.

`FileParsingProofs` proves, for files of any length, any number of workers and
any size of a chunk (assumptions: `SizesAssumption`, `WorkersAssumption`), from
`ParsingInv`:

* `ParsingTypeCorrect`: `[]TypeOK`, with the bound on the results that wait: a
  pool has at most as many as its channel takes, so that no worker blocks when
  it sends one.  It holds because they carry different rows of the pool
  (`PlaceInv`).
* `EveryRowHolds`: `[]EveryRowOnce`.  A row of a pool is held by one worker, or
  is one waiting result, or has been returned (`PlaceInv`); and a row that has
  been returned is one invoice, one error with its line, or empty (`ReturnInv`).
  `ChunkInv` has the arithmetic: chunks begin at multiples of their size, so
  that the number that a worker computes from its index in the chunk is the line
  of the row (`NumberIsLine`).
* `InFileOrderHolds`: `[]InFileOrder`, from `OrderInv` and `OrderOf`: every
  finite set of rows has the sequence that `InOrder` chooses.  The sequence is
  given outright, by the rank of each row in the set, without induction.
* `EveryStepCounts` and `ParsingNeverStuck`: every step lowers `StepsLeft`, a
  natural number that is linear in the rows, and until the task is done or
  refused the guard of some step holds.  Together they are what can be proved of
  `ParsingEnds`: that a guard that holds is in the end acted on is fairness, and
  stays with TLC.

`AccountsProofs` proves, for any number of requests at once and any set of
passwords (assumption: `NobodyAssumption`):

* `AccountsTypeCorrect`, `SessionsAreVerified` and `VerificationStays`, from
  `Inv`: besides the types and `SessionsVerified`, each request `Knows` what its
  next write needs: that the account it read is there, that its copy is no more
  verified than the account, and, past the code or with a session, that the
  sandbox is verified.  Every clause of it outlasts the steps of other requests
  because accounts only grow (`Grows`): they go only by a change of the address,
  and become unverified only by a save of the whole row.  That is one lemma
  instead of a square of cases.  `Lost` says that one of the mishaps that undo a
  verification happened, and is never forgotten.  Accounts that others create,
  and those that come to the address, are one more kind of step
  (`AdditionVerified`, `OthersGood`).
* `ResetsAreRepeatable`: `[]ResetIsRepeatable`, strengthened by who may be
  resetting beside whom.
* `AccountsAgree`: `[]PasswordsAgree`.  Its invariant, `AgreeInv`, follows a
  reset through production and the sandbox: outside the mishaps, a reset has
  written production before it writes the sandbox and both at its end, and while
  there is none the passwords agree, of the accounts that are there.  An account
  that is added has the password of the one beside it, or is a mishap
  (`AdditionAgrees`).

`AggregatorLinkProofs` proves, for every set of aggregators and requests and any
bound on invitations (assumptions: `NoneAssumption`, `MaxInvsAssumption`):

* `LinkTypeCorrect` and `BusinessesAreNotTakenOver`, from `Inv`: besides the
  types, only an aggregator with an account is invited (`Accounted`), and a
  request `Knows` the aggregator, the invitation and the link it read.
* `HalfwayHolds`: as long as no requests crossed, one request at most is between
  the link and the invitation (or the history), and the link is what it wrote.
  From it follow `HistoryHolds`, `MandateIsAccepted` and `AcceptedHolds`, the
  last two with `AcceptedInv`, which says of every accepted invitation and every
  answer under way whose the business is.
* `OneActiveHolds`, from `ActiveInv`: a request that is to create an invitation
  is the only one sending for its pair, and found no active one.

`ZohoWebhookProofs` proves, for every set of deliveries and authorisations, all
IRNs, every lifetime and margin and any bound on clock and tokens (assumptions:
`IRNAssumption`, `CallersAssumption`, `TimesAssumption`):

* `ZohoTypeCorrect`: `[]TypeOK`, with `TokenInv`: a caller saves an access token
  that was issued, whose end it knows, and there is no refresh token without a
  row.
* `ToldHolds`, `SuccessHolds`, `EndHolds` and `FirsOrderHolds` (the refinement of
  `FirsLifecycle`, here for deliveries side by side) from `RecordInv`.  Each
  delivery `Knows` what its IRN went through, and its copy of the record is
  truthful; the record is that copy, or as old as the last save that was not
  lost and no less truthful.  What a delivery knows outlasts the steps of the
  others because FIRS and the mishaps only grow (`Grows`).
* `FreshHolds`: `[]FreshIsValid`, from `FreshInv`: the stored life exceeds the
  real one by no more than the margin.
* `NewestHolds`: `[]NewestRefreshToken`, from `NewestInv`: as long as nobody
  crossed, one caller renews, it refreshes with the stored token, and what it is
  about to save, kept or brought by the answer, is the newest that came.  A token
  that Zoho issued and whose answer was lost is not among those: nobody here
  could know it.

Only model-checked: liveness (`PaidIsGranted`, `AttemptsEnd`, `ParsingEnds`),
which needs fairness and `ENABLED`.  The two violated properties of section 4
are counterexamples of TLC and have nothing to prove.

The proofs need no fact about the Go runtime or the databases beyond what the
models say; they do not show that the models are faithful to the code, which is
what the lines in `PROJECT.json` are for.

## 6. Not modelled

* What makes a row of a file valid, the conversion of a row or of a Zoho invoice
  to a FIRS payload, encryption, hashing and token contents: conversions without
  a protocol, whose outcome the models choose.
* The generated API documentation (`src/docs`, more than half of the lines of
  the repository), listings, statistics, look-ups, mail, storage, configuration,
  routing and migrations: generated code or I/O without state.
* Middleware, entity, resources and health endpoints: they keep no state and
  forward one call each.
* The handler that stores the log row of a file before its task is enqueued:
  if Redis refuses, the row stays pending and nothing acts on it again.
* The bulk update of payment statuses and the stand-alone FIRS endpoints: one
  call after another for rows that do not interact.
* A composition of `BulkUpload` with `Subscription`: the state spaces of both
  are near what TLC can visit; `Subscription` has uploads that reserve and
  release, which is all that `BulkUpload` does with it.

What would come next: for `BulkUpload` the counterpart of `EveryStepCounts` and
`ParsingNeverStuck`, that an attempt runs out of steps and nobody waits but for
FIRS; and a theorem that joins `Subscription` and `BulkUpload` by their common
quota.
