# TLA+ models and proofs for the RIS platform backend

The RIS platform finances invoices: a supplier submits an invoice, its buyer
confirms it, a risk engine scores it, pricing offers terms, credit officers
approve it, finance managers authorise a payment in pairs, and the money is
collected from the buyer later. This directory models that path from the
TypeScript services in `src/src/services`, checks the models with TLC on small
instances and proves their safety properties with TLAPS for every size.

## 1. The system

A Node server exposes one Express router per service. PostgreSQL holds all
durable state, and every service writes it in short transactions
(`beginWithRls` ... `COMMIT`). BullMQ queues in Redis carry work from one
service to the next; every server runs one worker per queue, so with two
servers two workers compete for the jobs of a queue. Redis also holds sessions.

| Component | State | Operations | Talks to |
|---|---|---|---|
| invoices | `invoices` row: status, face value, AML flag, EFRIS reference | save, update and submit drafts, submit, withdraw | verification (mail job) |
| verification | confirmation token hash and expiry, `buyer_confirmed_at`, `invoice_disputes` | resend link, confirm, dispute, remind | risk engine (`score-invoice`) |
| risk engine | `risk_scores` (one per invoice) | score | pricing (`price-invoice`) |
| pricing | terms on the invoice, accepted/rejected/disputed times | price, accept, reject, dispute | approvals (by status) |
| approvals | `approvals` rows, `tier3_rejection_count` | approve, reject, reset counter, request information | payments (`process-payment`) |
| compliance | `aml_cleared_at` | clear an AML flag | payments (by a read) |
| payments | `payments` row (one per invoice), kill switch | initiate, authorise twice, execute, kill switch | provider, collections and facilities jobs |
| collections | `collections` row, buyer's used limit | monitor, escalate, default, receive payment, resolve | settlements (job) |
| settlements | `settlements`, `profit_bookings` | initiate, repay facility, book profit, close | facilities |
| facilities | facility, drawdowns, interest | draw, accrue, repay, suspend | |
| onboarding | supplier KYC, documents, buyers, buyer requests | register, review, approve | |
| auth | users, lockout, sessions, refresh blocklist, reset tokens, backup codes | login, 2FA, refresh, logout, reset | all routes |
| settings, admin | system settings, pending configuration changes, users, risk configuration | kill switch, propose/approve changes | payments, risk engine |
| frontend | access token and flag in memory, refresh queue, cookie | call the API, refresh once on 401, sign in and out | auth, all routes |
| collateral, complaints, documents, notifications, reporting, dashboard | own tables | CRUD, mail, reports | |

What makes the path hard: a handler reads a row, awaits, and writes in a later
transaction; BullMQ retries jobs, hands a stalled job to a second server while
the first may still be working, and loses nothing except what was never
enqueued because the server died between a COMMIT and the call to Redis; two
humans act on one row at once; and several rules span services (an approval
must have its payment job, a score its price request).

What makes each part correct: invoices move forward only and on the terms that
were screened; a buyer confirms once; a score, the status and the price request
agree; an approval has its quorum and its job; a decision is final; a payment
row exists exactly for invoices past approval, none under an AML hold; money
leaves only under two different signatures; nothing that was queued is lost.

## 2. Modules

| Module | Models | Role |
|---|---|---|
| `Intake` | invoices, verification, risk-engine control | detailed specification |
| `InvoiceLifecycle` | what intake promises | abstract specification |
| `Approvals` | pricing's offer, supplier answers, approvals | detailed specification |
| `Handoff` | no approval without a payment job | abstract specification |
| `Payments` | payments, AML clearance, both kill switches | detailed specification |
| `Disbursement` | open, sign twice, send | abstract specification |
| `Collections` | monitoring, escalation, default, receipt, resolution | detailed specification |
| `Repayment` | paid once, limit released with the payment, then settled | abstract specification |
| `Settlements` | the settlement job and the four stages of a settlement | component |
| `Facilities` | drawdowns, repayments, thresholds, interest | component |
| `Sessions` | login, lockout, 2FA, sessions, rotation, passwords, email links | component |
| `Browser` | the web client's token store, interceptors and refresh queue | component |
| `Registration` | eligibility throttle, registration of suppliers | component |
| `Kyc` | documents, their review, `kyc_status` with maker and checker | component |
| `Buyers` | buyers, their screening, requests for new buyers | component |
| `Letters` | drafts of letters to the buyer, edited and sent | component |
| `ConfigChanges` | settings, proposed and approved by two managers | component |
| `Notifications` | the notification worker: memory, breaker, retries, stalls | component |
| `RiskConfig` | the cached weights of the risk factors | component |
| `Terms` | factors, bands and the arithmetic of the price | operators over one deal |
| `MCIntake`, `MCApprovals`, `MCPayments`, `MCCollections` | instances for TLC | |
| `MCSessions` | `Sessions` and `Browser` side by side | instance for TLC |
| `MCOnboarding` | `Registration`, `Kyc` and `Buyers` side by side | instance for TLC |
| `MCBackOffice` | `Facilities`, `Settlements`, `Notifications`, `RiskConfig`, `Terms`, `Letters` and `ConfigChanges` side by side | instance for TLC |
| `IntakeProofs`, `ApprovalsProofs`, `PaymentsProofs`, `CollectionsProofs`, `SessionsProofs`, `BrowserProofs` | theorems about the component each is named after | proofs |
| `OnboardingProofs` | theorems about `Registration`, `Kyc`, `Buyers` and their composition | proofs |
| `BackOfficeProofs` | theorems about the seven components of `MCBackOffice` and their composition | proofs |

Conventions common to the modules:

- A database transaction is one action, with every write it makes; a read that
  happens outside it is an action of its own, or is folded into the step that
  starts the handler, and what it read is kept in a variable (`calls`,
  `confirm`, `scorer`, `review`, `requests`, `exec`, `job`, `sweep`, `call`,
  `kycCall`, `visit`, `officer`, `accrual`) while others run.
  A call to Redis is an action of its own when it is outside the transaction.
- Constraints and triggers of the schema (unique keys, the dual-authorisation
  trigger, the tier check) are guards; a transaction that violates one is an
  action that rolls back.
- A handler that throws before writing is either absent (a request that is
  refused and leaves nothing) or an action that ends the request.
- `MayFail` switches crashes, lost transactions and failing queries on and off.
  It is TRUE in the passing runs. `Approvals` has it per invoice (`Faulty`):
  safety is checked on all of them, that a decision lands on the others.
- A definition named as a mutant in its comment is a plausible wrong version of
  the definition after it. It is not used by the specification; replacing the
  definition by it must violate a property, which shows the property has force.

### Intake

`status`, `value`, `flagged`, `efris`, `token` and `confirmed` are columns of
`invoices`, `disputed` the rows of `invoice_disputes` (nothing resolves one),
`score` the recommendation in `risk_scores`, `priceJobs` counts `price-invoice`
jobs. `calls` holds requests of the supplier and the officers that have passed
their checks and have yet to write, `confirm` the buyers' clicks, `job` the
`score-invoice` job each click enqueues, and `scorer` what a worker is doing.
`SubmitDraft`/`PromoteToSubmitted` and `SubmitInvoice`/`CreateInvoice` are the
two halves of `submitDraft` and `submitInvoice`; `ValidateToken`,
`RunConfirmationTx` (or `AlreadyConfirmed`) and `QueueRiskScoring` are the three
parts of `confirmInvoice`; `ScoreInvoice`, `PersistScore` (or
`DuplicateScore`), `QueuePricing` and `FinishJob` those of the worker. The
factors that produce a score are abstracted: `PersistScore` may write either
outcome. All invoices are those of one supplier to one buyer; invoices of
others share no state with these.

### Approvals

`invoice`, `terms` and `rejections` are columns of `invoices`; `rows` are the
committed rows of `approvals`, `queued` and `notified` the jobs in Redis. A
request goes through `FetchAndValidate` (no lock), `ProcessApproval` or
`ProcessRejection` (takes the lock with NOWAIT, decides by what it reads under
it, enqueues), and `CommitDecision` or `RollbackDecision`; a lock that is taken,
or a rule that fails, is `RefuseDecision`. Jobs go to Redis inside the
transaction, so a rollback leaves them there: this is why `Handoff` only asks
for the job of an approval and not for the approval of a job.

### Payments

`invoice` and `payment` are the rows of the two tables, keyed by the invoice
because `payments.invoice_id` is unique. A `process-payment` job goes through
the awaits of `initiatePayment` (`StartJob`, `ValidateInvoiceForPayment`,
`LookupPayment`, `CreatePayment`), with retries, stalls and the report of a
terminal failure. `AuthoriseRead` is the status read of the controller, which
decides whether `RecordFirstAuth` or `RecordSecondAuth` runs later. An
execution goes through the stages of `executePayment`; `sentBy` records what
the provider was told. `ActivateKillSwitch` fails the executing payments in
its transaction, `ToggleKillSwitch` of the settings page only writes the
setting.

### Collections and Repayment

`invoice` is `invoices.status`, `rows` the rows of `collections` per invoice,
oldest first (the service inserts a second one when it finds none it can use,
and every handler takes the newest), `used` and `paymentScore` two columns of
the buyer. No handler of the service locks a row: a job keeps what it has read
in `sweep`, a request in `calls`, and the transaction that follows is one
action. The overdue, escalation and default sweeps run daily, a request runs
once, and the monitoring of an invoice is one job: `tries` holds the runs its
`attempts` still allow. `receipts` and `settleJobs` count what
`recordPaymentReceived` committed and enqueued; `RollbackCall` after the COMMIT
leaves a receipt without its jobs. `Repayment` is what the buyer,
the bank and the supplier are promised. Days are kept as they are compared with
14, 30 and 90; the penalty is a function of the days. The `'SYSTEM'` user of
the jobs is refused by `audit_logs.user_id`; `SystemIsUser` says whether it is
repaired (TRUE in `collections`, so that the races of the jobs are seen at all;
FALSE, as the migrations have it, in `monitor`).

### Settlements

`settlement` and `booking` are the two tables for one collected invoice,
`settleJob` the job of `settlement-initiate` with its attempts. The four stages
are requests that check the transition on an unlocked read and write by id. The
columns that make every audit INSERT of this service fail (section 5) are taken
as repaired.

### Facilities

`facility` and `drawdown` are the rows, `repayments` counts rows of
`facility_repayments`, `accrual` what an accrual job has read, `today` the
calendar. Drawing and repaying lock their rows; the accrual reads
`last_accrued_date` outside the transaction that adds the interest. Amounts are
small integers; utilisation is compared in tenths as the code compares
percentages. The NOT NULL column that makes every drawdown fail (section 5) is
taken as repaired.

### Sessions

One account: its row of `users`, password history, sessions and blocklist in
Redis, the mailed tokens and the backup codes. A request reads the row, spends
its time in bcrypt, then writes. `Tick` is Redis' and the JWTs' clock. `late`
and `pw` on a session are ghosts: the password its holder proved, and whether
that was replaced already when the session was written. Deleting a user's
sessions is a SCAN followed by a DEL per key (`StartScan`, `DeleteSessions`),
between which new sessions appear.

### Browser

One page of the web client (`lib/axios.ts`, `store/auth.store.ts`): the store's
token and flag, `isRefreshing`, `pendingQueue`, and where each request is. An
answer is received by one of `Succeed`, `Reject`, `RejectUnauthorised`,
`Enqueue` and `StartRefresh`, the branches of the response interceptor;
`RefreshSucceeds` and `RefreshFails` are the two ends of its `try`. A callback
runs to its next `await` in one action, as JavaScript does, so `drainQueue`, the
requests it sends again and the `finally` are one step. The server is `Sessions`
seen from outside: open sessions, unexpired tokens, each token's session. The
cookie belongs to the browser and changes when an answer arrives, not when it is
sent, so a late refresh can bring the cookie and the token of a session that the
user has left. A sign-out leaves it: the header that clears it names another
path than the one it was set with. `unheard` is a ghost: a sign-out of this page failed.

### Letters, ConfigChanges

`Letters` has the rows of `escalation_documents` of one collection and type.
Generating, editing and sending each read the status, render a PDF, then write
with `AND status = 'draft'` and ignore how many rows that met. `ConfigChanges`
has `system_settings` and `pending_config_changes`: the check that the change is
pending and of another manager is on an unlocked read, and the transaction
writes both rows by id and key.

### Registration, Kyc, Buyers

`Registration` keeps the eligibility checks of thirty days with the innermost
of the throttle's four windows each is still in; `Elapse` moves them on. `Kyc`
is the application of one supplier: three handlers write `kyc_status` by id
after an unlocked read, over whatever another has written since. The ghost
`decided` says that the application has been approved or rejected at some time.
`Buyers` has the
direct creation by an officer, with the screening that follows it, and the
suppliers' requests, whose approval links a buyer or makes one.

### Notifications

A job of the queue, the servers that take it, each with its own memory of
processed jobs and its own circuit breaker, the provider's answer, BullMQ's
retry, the loss of a job's lock while its server still works, and a restart
that empties the memories.

### RiskConfig and Terms

`RiskConfig` has the rows of `risk_config`, the copy each server caches and the
loads under way; `scoreInvoice` checks the sum of the weights once and the five
factors ask again. `Terms` is the computation itself: the raw score of each
factor (zero when its query fails), the rounded sum, the bands, and
`calculatePricing` with its truncations. Rates are stored as NUMERIC(5,4), so
1/10000 is exact. Where the code adds binary fractions, a sum exactly on a
boundary may fall on either side: the model allows both.

## 3. Runs

| Run | Instance | Shows |
|---|---|---|
| `intake` | 2 invoices with one number, face values 1..3 with AML threshold 1 and limit 2, 2 clicks on one link, 2 workers, 2 attempts, failures; 166,425 states | `TypeOK`, `ScreenedBeforeScoring`, `OneScoringJob`, `ScoreDecides`, `ImplementsLifecycle`, `JobSettles` |
| `approvals` | 2 Tier 3 invoices at the boundary of 200,000,000, one of them priced; on the faulty one 1 officer and 1 manager with 5 requests, on the other 2 officers with 3; threshold 2; 117,191 states | `TypeOK`, `ApprovedByQuorum`, `OneApprovalPerOfficer`, `RejectedWithGrounds`, `DecisionIsFinal`, `ImplementsHandoff`, `DecisionLands` |
| `payments` | 1 invoice, 2 jobs, 2 workers, 3 attempts, failures, or 1 job, 3 managers, 2 executions, failures; 194,000 states | `TypeOK`, `DualAuthorised`, `CompletionIsReal`, `RowIffPastApproved`, `NoPaymentUnderAmlHold`, `RowHistory`, `ImplementsDisbursement`, `InitiationSettles` |
| `collections` | 1 invoice at the AML threshold, the seed's rows, 2 jobs at a time, 3 monitoring attempts, 2 requests, failures, `SystemIsUser`; 138,404 states | `CollectionsSound` (`TypeOK`, `OneReceipt`, `SarFlagged`), `InvoiceForward`, `ImplementsRepayment` |
| `sessions` | 1 account in 7 scenarios, 2 requests at a time, 2 sessions, lock after 2 failures; 1 page, 2 requests and a sign-out, 3 access tokens in up to 3 sessions; 310,116 states | `AccountSound` (`TypeOK`, `LockoutHolds`), `StaleSessionsEnd`, `PageSound` (`SingleFlight`, `QueueIsServed`, `SessionHasToken`, `SignedOffIsOff`), `SessionsExpire`, `RequestsSettle` |
| `onboarding` | 2 requests at a time in each of the three parts; 2 required documents and 3 uploads, 5 eligibility answers, 3 companies, 2 buyer requests; 2,090,000 states | `TypeOK`, `KycSound` (`AdvanceNotLost`, `ApprovalNotLost`, `ReviewedFirst`), `RegistrationSound` (`FailuresRated`, `OneAccount`), `BuyersSound` (`ApprovedHasBuyer`, `OneBuyer`, `ListedIsFlagged`) |
| `backoffice` | 2 facilities, 2 drawdowns, 2 accrual jobs, 2 midnights; 1 settlement, 3 attempts, 3 requests; 2 notifications, 2 servers, 3 attempts, 1 lost lock each; 2 scorings, 2 factors, 2 changes; 864 deals; 2 letters, 3 clerks, 1 edit; 2 settings, 2 changes, 2 managers; 914,794 states | `TypeOK`, `RecordsSound` (`BooksBalance` of `DrawnIsOwed`, `InterestNotLost`, `LimitGuarded`; `ProfitIsBooked`; `LettersFinal`; `SettingTraced`), `ProviderSpared` (`SentOnce`, `BreakerHolds`), `OffersSound` (`ConsistentScore`, `FailureNeverHelps`, `BetterScorePaysMore`, `OfferSound`, `BreakdownAddsUp`), `NothingDropped` (`SettlementStarted`, `NothingSilent`, each always eventually) |
| `kill` | 2 managers, 2 executions | violated: `FailedStaysFailed` |
| `monitor` | as `collections`, with the migrations' `audit_logs` | violated: `Pursued` |
| `cookie` | as `sessions` | violated: `CookieWorks` |
| `maker` | as `onboarding` | violated: `MakerChecker` |
| `retry` | as `backoffice` | violated: `EveryAttemptTries` |

A property in parentheses is a conjunct of the one before it; `PROJECT.json`
has a mutant of the code for each.

Components that share no rows are explored side by side in one run and not
interleaved: `focus`, drawn in the initial state, names the one that acts. The
properties of the others hold trivially there, so nothing is gained or lost by
it. Two runs join two questions about one component in the same way. `payments`
has two jobs with all their retries, or one job whose payment is authorised and
executed (`OneConcern`); the two jobs are not followed past the creation of the
row, where only its executions act. `approvals` prices one of its two invoices
(`OnePriced`), which share no row and no lock. The scenarios of `sessions` say
what each behaviour may use: wrong passwords, new passwords, links, refreshes,
an administrator, codes, each with the races it is for; combinations of them
are not checked, but are covered by the theorems of section 4.

Why the bounds are enough to be interesting. Every race of the code is about
one row, so one invoice (two where rows compete for a number) and two of each
kind of actor produce it; three managers let a late third one meet a row two
others have signed; five requests let one officer approve and reject twice
around a manager; three settlement requests let two stages overlap and a third
close. Two or three attempts give a first, a repeated and a last one. Intake's
values 1, 2 and 3 lie below the AML threshold, between it and the limit, and
above the limit. Two facilities let a repayment name the wrong one, a limit of
10 with principals 4 and 5 reaches 90% exactly, two midnights let an accrual
miss a day. Five answers reach the second tier of a throttle of 2, 2, 3 and 3
failures and a pass between failures. The deals of `Terms` take inputs on
and next to the edges of their bands, any set of factors whose query fails
(which gives the raw score of 0), a face value of 1, one that divides badly and one of
`Precision`, at which the daily rate's truncation costs a shilling. Bounds that
cut behaviours off: `MaxChecks`, `MaxDocs`, `MaxUpdates`, `MaxStalls`,
`LastDay`, the budgets of `Scenarios` and the sets of requests, each used once;
every state space is explored completely.

`CHECK_DEADLOCK FALSE` is set where the system really ends: `Intake` when every
invoice is scored and every request answered, the others when their requests,
answers and days are used up. `Approvals` and `Payments` always have a supplier
answer, a refused decision or a switch to throw.

Symmetry is used for the requests and officers of `onboarding` and `maker`; the
properties of those runs are invariants, for which it is sound.

**Fairness.** `Payments`: weak fairness of each job's worker step and of each
started execution: workers poll as long as the server runs, and a Node call
that was started runs on. Nobody is assumed to authorise, clear an AML flag,
use the kill switch or call `executePayment`. `Approvals`: weak fairness of the
steps of a request that was let in. `Intake`: weak fairness of a confirmation
that passed validation, of starting a waiting job, of a worker's own steps, and
of BullMQ's stalled check for a job nobody works on any more (it runs on a timer
in every worker). `Collections`: some worker takes up a monitoring job that has
attempts left, and the daily sweep an invoice that waits for it; a transaction
tried again and again commits in the end; a request ends one way or the other.
This serves `monitor` only, where no failure but the refused user id is allowed
and with which the invoice still stays funded: with `SystemIsUser` the same
instance has no counterexample. `Sessions`: the clock, and the steps of a request that has begun.
`Browser`: a call ends (every request has a timeout of 30 seconds; the refresh has
none, so there it is the network that must report a dead connection), callbacks
run, and the browser follows `window.location`.
`Settlements`, `Notifications`: BullMQ runs a waiting job, and an attempt ends.
Failures, suppliers, buyers, owners and administrators have no fairness.

**Violated properties.** Each states what a document or a comment of the
repository says; the counterexample shows what the code does.

- `kill`: an execution in flight turns a payment the kill switch failed into a
  funded one (`payments.service.ts:153`, "Does NOT auto-resume the failed
  payments").
- `monitor`: the jobs write audit entries as the user `'SYSTEM'`, which is not a
  UUID, so the three attempts of the monitoring job roll back and a funded
  invoice is never monitored (`collections.service.ts:225`).
- `cookie`: of two refreshes of one session in one second, the second puts the
  name of its own successor on the blocklist, and the owner is refused with the
  newest cookie (`auth.service.ts:395`, "each issued token is uniquely
  identifiable").
- `maker`: an officer approves an application that the same officer has taken
  up for review, because the approval was checked against the reviewer it read
  and is written by id (`onboarding.service.ts:1280`, "Enforces maker-checker").
- `retry`: a job whose send failed is remembered as processed, so that its
  retries are skipped (UC-001:230, "retry 3× via Bull").

## 4. Proofs

The theorems are about the specifications that the runs check, for any sets of
invoices, users, requests, jobs, executions and workers. Every safety invariant,
every action property and every refinement of the passing runs is proved; the
liveness properties are not.

| Module | Theorems (property of a run in parentheses) |
|---|---|
| `PaymentsProofs` | `TypeCorrect` (`TypeOK`), `DualAuthorisation` (`DualAuthorised`), `RowsInStep` (`RowIffPastApproved`), `AmlRespected` (`NoPaymentUnderAmlHold`), `CompletionReal` (`CompletionIsReal`), `RowHistoryHolds` (`RowHistory`), `Refinement` (`ImplementsDisbursement`) |
| `ApprovalsProofs` | `TypeCorrect` (`TypeOK`), `QuorumHolds` (`ApprovedByQuorum`), `OfficerSignsOnce` (`OneApprovalPerOfficer`), `RejectionGrounded` (`RejectedWithGrounds`), `FinalityHolds` (`DecisionIsFinal`), `Refinement` (`ImplementsHandoff`) |
| `IntakeProofs` | `TypeCorrect` (`TypeOK`), `Screening` (`ScreenedBeforeScoring`), `ScoredOnce` (`OneScoringJob`), `ScoreDecisive` (`ScoreDecides`), `Refinement` (`ImplementsLifecycle`) |
| `CollectionsProofs` | `Soundness` (`CollectionsSound`), `Forward` (`InvoiceForward`), `Refinement` (`ImplementsRepayment`) |
| `SessionsProofs` | `Lockout` (`AccountSound`), `StaleSessions` (`StaleSessionsEnd`) |
| `BrowserProofs` | `PageHolds` (`PageSound`) |
| `OnboardingProofs` | `OnboardingTypes` (`TypeOK`), `BuyersHold` (`BuyersSound`), `KycHolds` (`KycSound`), `RegistrationHolds` (`RegistrationSound`) |
| `BackOfficeProofs` | `BackOfficeTypes` (`TypeOK`), `RecordsHold` (`RecordsSound`), `OffersHold` (`OffersSound`), `ProvidersSpared` (`ProviderSpared`); per component `BooksStayBalanced`, `ProfitStaysBooked`, `LettersStayFinal`, `SettingsTraced`, `ScoresStayConsistent`, `OffersAreFair` |

**Which specification.** `Payments`, `Approvals`, `Intake`, `Collections` and
`Sessions` are proved about through their `Spec`. Where a run puts components
side by side, each component's theorem is about its own initial condition and
next-state relation (`KycInit /\ [][KycNext]_kycVars`), so it owes nothing to
`focus` or to the others; the theorems whose property is a conjunction over
several components (`OnboardingTypes`, `BackOfficeTypes`, `RecordsHold`,
`OffersHold`) are about `Spec` of the composing module, and follow because a
step of one component leaves the variables of the others alone.

**Assumptions.** The named `...Assumption` of each module: types of the
constants, at least one attempt, `NULL` is not a user. Beyond these:

- finite sets where the code counts: requests in `Approvals`, `Visits` in
  `Registration`, `BankFacilities` and `Drawdowns` in `Facilities` (a table has
  finitely many rows);
- `Required # {}` in `Kyc` (there are required documents) and `Factors # {}` in
  `RiskConfig`;
- in `Terms`, tenors of 7 to 90 days (`invoices.service.ts:254`) and a
  `threshold_refer_manager` of at most 75, the default of the threshold above
  it (a higher one leaves no band between them); face values, rates and counts are any
  natural numbers. `PrecisionAssumption` says that `PRECISION` is a positive
  multiple of 10000, so that a rate of four decimals is exact.

**Argument.** Each module defines an inductive invariant, proves that the
initial states satisfy it and one lemma per action that the action preserves
it, and derives the properties. What the invariants add to the properties, and
why that is needed:

- **Payments.** `DualAuthorised` is not inductive: an execution acts on a row it
  read earlier. `RowShape` ties the authorisers to the row's status, `ExecShape`
  says that a call past its first read belongs to a row with both signatures
  (rows never lose one), `AnswerShape` that a positive answer was preceded by an
  instruction, `JobShape` that what a job has checked (AML, no row) still holds
  at its transaction or is checked again by it. `RowHistory` and `Refinement`
  are step properties proved from `Inv`.
- **Approvals.** A transaction decides under a lock and writes later, so the
  invariant records what it found: `Exclusive` (one open transaction per
  invoice) keeps the facts of `ApprovingShape`, `SignerShape` and
  `RejectingShape` true until the commit; `CounterShape` bounds the counter by
  the rejections on record, so that a threshold met by the counter is met by the
  rows, whatever resets happened between; `JobShape` gives the refinement.
- **Intake.** `StatusShape` ties tokens, pending requests and confirmations to
  submitted invoices; with it a confirmation that commits found the status
  `submitted`, although its UPDATE only looks at `buyer_confirmed_at`.
  `ScreenShape` says that what has a URA reference was screened with the value
  it has; a draft never gets one. `CommitShape` gives one committed
  confirmation per invoice, hence one job. `OfferShape` says that at most one
  worker is about to ask pricing, for an invoice not asked for before: the
  unique key of `risk_scores` lets one of two racing workers pass.
- **Collections.** Nobody locks, so `SweepShape` and `CallShape` say what of a
  stale read is still true: the row is there, a level that was seen was there.
  `JobsShape` counts: a receipt whose jobs are not enqueued yet belongs to one
  request, so receipts, jobs and the one still owed never exceed one.
- **Sessions.** The lockout and the passwords are inductive with the types: the
  counter is what the row says, not what a request has read, and a session of
  a replaced password, written before it was replaced, is live only while a scan
  that will delete it is to come, or has been given up with its request.
- **Browser.** `SignedOffIsOff` is far from inductive, because a refresh that was
  sent before a sign-out comes back after it. `Reachable` is the set of open
  sessions that the page could still get at: by its token, by the cookie of a
  refresh that is out, by a sign-out that has not been answered. `ReachShape`
  says that it has at most one element, and none once a sign-out has been
  served; every answer only shrinks it, and only a sign-in, which needs it
  empty, adds to it. `TokenShape` keeps the token of a refresh with the session
  of its cookie; `FlightShape` and `QueueShape` are about flag and queue.
- **Kyc.** `ReadShape` says what of a handler's unlocked read stays true when
  the status is overwritten: a document is there, a decision was taken, a
  review was taken up. `StatusShape` says what a status that was ever reached implies;
  `UploadShape` and `ApprovalShape` that when every document is there, or
  approved, either the application has been moved on (or decided) or the request
  that will do it is on its way.
- **Registration.** `FailuresRated` is strengthened by the requests under way
  (`RatedShape`): each may add one failure to those its throttle let pass. The
  rows lie oldest first, so moving them on in time only shortens a window.
- **Buyers.** `MadeShape` ties a buyer to the number of the request that made
  it, `AnswerShape` an officer's answer to a request and a buyer that exist.
- **Facilities.** `AccrualShape`: the days a run of the job is about to add are
  those after the date that it read, which may have moved back since.
  `DrawnIsOwed` equates two sums over sets. They are folds; `SumsOf`
  characterises them by their values on all subsets, and that the fold is such
  a function is proved by taking a smallest subset at which it fails
  (`FS_StrictSubsetOrderingWellFounded`, `WFMin`), since the induction rules
  with a predicate parameter cannot be instantiated.
- **Settlements, Letters, ConfigChanges.** `StageShape`, `ClerkShape` and
  `ApproverShape` say which part of an unlocked read nothing can undo: a booking,
  a release and a proposer are never taken back.
- **Notifications.** `HandOuts` gives each message that left or may be leaving a
  hand-out of its own; `BreakerShape` bounds the failures of a paused channel by
  the calls that were under way when it was paused.
- **RiskConfig.** `CheckedShape`: what a run has read since the check of the sum
  comes from the map that was checked, as long as its server's copy is that map
  or gone.
- **Terms.** `ScoreShape` and `PriceShape` say that the rows are what the
  operators give for the deal. The rest is arithmetic of truncated quotients:
  `AdvanceOf`, `DailyRate` and `ShareOf` are shown monotone and bounded by
  lemmas on `\div`, once, for every face value, rate and precision.

**Only model-checked**, because fairness and ENABLED are outside the prover's
logic: `InitiationSettles`, `DecisionLands`, `JobSettles`, `SessionsExpire`,
`RequestsSettle` and `NothingDropped`. The properties of `kill`, `monitor`,
`cookie`, `maker` and `retry` are violated, so there is nothing to prove. No recursive definition is used.

## 5. Observations without a run

Met while reading the source; each follows from the lines named.

Contradicted by a document or a comment
- A buyer disputes an invoice and the same link still confirms it: nothing looks
  at `invoice_disputes` and nothing resolves a dispute
  (`verification.service.ts:149`; REQ-VERIFY-011, FUNC-REQ-001:150, "The invoice
  SHALL NOT advance past submitted status until the dispute is resolved").
- Two officers that both read `priced` approve a Tier 2 invoice one after the
  other, with two payment jobs: the lock is taken but the status it returns is
  not looked at (`approvals.service.ts:396`; FUNC-REQ-001:210, "SHALL prevent
  concurrent approval of the same TIER_2 invoice by two credit officers").
- `chk_approvals_tier` of migration 007 survives migration 013
  (`013_checkers_gap_closure.sql:131`), so a `TIER_4` row cannot be inserted and
  no Tier 4 decision is recorded (line 123: "credit_memo field + TIER_4
  support").
- A funded payment leaves its invoice in `pending_first_auth`, because the
  update expects `approved` (`payments.service.ts:819`; line 807: "advance
  invoice status").
- Nothing in the server calls `executePayment`: a payment signed twice stays
  `executing` (`payments.service.ts:521`, "executePayment is called AFTER
  commit").
- The payment job is enqueued inside the approval's transaction, so it may meet
  an invoice that is not approved yet, or whose approval was rolled back
  (`approvals.service.ts:479`; TRANSACTION-FLOW.md:483, "dispatched AFTER
  COMMIT (never inside transactions)", and :509). `Handoff` allows it, and
  `initiatePayment` refuses such an invoice.
- A collection is flagged for a suspicious activity review at escalation level
  3, 14 days (`collections.service.ts:394`); TRANSACTION-FLOW.md:423-431 says
  level 2, and FUNC-REQ-001:258,266 more than 7 days. `SarFlagged` is about
  level 3.
- A crash or a Redis error after `recordPaymentReceived` has committed leaves a
  collected invoice without settlement, facility repayment and mail, and nothing
  enqueues them again (`collections.service.ts:448`; FUNC-REQ-001:264, "Any
  failure SHALL rollback all changes", and :328).
- A login that proved the old password before a reset and writes its session
  after it, when the scan has passed, keeps it (`auth.service.ts:501`, "Invalidates all sessions,
  forcing re-login everywhere"); `StaleSessionsEnd` excepts that case.
- A change of role leaves the user's sessions alone: they carry the old role
  until they expire (`admin.service.ts:198`; SEC-REQ-001:37, SEC-010, "SHALL
  invalidate ALL active sessions for a user when their role is changed").
  `SessionsExpire` is all that the code gives.
- The weights of the risk factors are 0.30, 0.20, 0.20, 0.15 and 0.15 for buyer,
  tenor, track record, concentration and collateral (migration 012:16-20;
  FUNC-REQ-001:156 has 0.30, 0.10, 0.25, 0.15 and 0.20); the premium is 0 from a
  score of 80 and has its bands at 70 and 60 (`risk-engine.service.ts:227`;
  FUNC-REQ-001:162 has 75, 65 and 55); amounts are truncated
  (`pricing.service.ts:410`; FUNC-REQ-001:180, "rounded to the nearest
  integer"). `Terms` has what the code computes; no property is about the
  difference.
- A pass forgives earlier failures only while it is the latest answer: fail,
  pass, fail counts both failures again (`onboarding.service.ts:197`, "forgives
  all prior failures").
- A buyer made from a supplier's request is not screened against the sanctions
  list (`onboarding.service.ts:2319`; FUNC-REQ-001:74).

Intake
- `used_limit` is never increased (UC-001:76 says funding does), so the credit
  limit is compared with each invoice alone (`invoices.service.ts:272`), and
  `reduceBuyerUsedLimit` violates `chk_buyers_used_limit_non_negative` for a
  buyer at 0, which rolls `recordPaymentReceived` back.
- `withdrawn` is not a value of the enum `invoice_status`, so `withdrawInvoice`
  always rolls back (`invoices.repository.ts:444`).
- `generateConfirmationToken` is called by `resendConfirmation` only; the first
  confirmation mail carries no token. `processReminders` has no caller.
- A draft never gets a `ura_efris_ref`, so a submitted draft cannot be
  confirmed. `submitDraft` also skips the structuring and velocity checks, the
  mail and the AML audit entry. A draft that is edited while `submitDraft` runs
  keeps a flag for the old value; `ScreenedBeforeScoring` holds only because
  such an invoice stops at `verifyEfris`.
- A dispute is accepted on an expired link.
- A crash or a Redis error after the commit of `confirmInvoice` or
  `scoreInvoice` leaves the invoice in `buyer_confirmed` or `scored` for good:
  the retry of the job is refused because the invoice is scored.

Approvals and pricing
- A manager may sign a Tier 3 invoice twice (`approvals.service.ts:581`); a
  manager's single signature does not reach the quorum although a comment says
  so (`approvals.service.ts:578`).
- A supplier who rejects the terms after the approval leaves the invoice
  approved (`pricing.service.ts:362`).
- One officer's repeated rejections count toward the Tier 3 threshold, and
  `resetTier3RejectionCount` has no caller.
- The approval SLA query looks for `scored` invoices
  (`approvals.repository.ts:176`) and nothing schedules it; `AUTO` approvals
  have no worker. Two `price-invoice` jobs overwrite each other's amounts.

Payments
- A clearance does not restart a job that has used up its attempts
  (`aml-clearance.service.ts:242`). A failed payment cannot be retried.
- An error in `notifyPaymentFunded`, after the funded row was committed, lands
  in the catch block of the provider's call and overwrites the row with
  `failed`, although the money was sent (`payments.service.ts:678`). The model
  has this step; `RowHistory` ranks `funded` and `failed` alike.
- The settings page sets `payment_kill_switch` without suspending executing
  payments (`settings.service.ts:132`; REQ-PAYMENT-010 asks for "a single
  action").

Collections, settlements, facilities
- The scheduled escalation writes the collection by id: a job that read it before
  a payment sets the collected row back to `escalated`. The invoice itself is
  guarded (`InvoiceForward`).
- Settlements: audit entries name the columns `entity_type` and `entity_id`,
  which `audit_logs` does not have (migration 001:405), so every settlement
  operation rolls back. A stale `repay` or `book` takes a closed settlement back
  to an earlier stage; the booking survives (`ProfitIsBooked`).
- Facilities: `facility_drawdowns.expected_repayment_date` is NOT NULL without a
  default (migration 001:369) and `createDrawdownWithClient` does not set it;
  no scheduler calls accrual. Two accrual jobs that read the same date both add
  the day's interest. A repayment may name another facility than the drawdown's,
  which then carries the reduction (`facilities.service.ts:305`); the sum over
  all facilities is still right (`DrawnIsOwed`).
- Letters: two clerks who both read `draft` both mail the letter, since the row
  count of the UPDATE is not looked at (`collections.service.ts:1761`); a letter
  is `sent` although its mail could not be queued. Drafting after an escalation
  always fails, because 'SYSTEM' is not a UUID (`collections.service.ts:1611`,
  `generated_by` in migration 033), and the error is only logged. An edit that
  gives one parameter erases the other: the controller passes both keys.
- Collateral: the 7-day expiry warning is never sent, since what expires in 7
  days also expires in 30 (`collateral.service.ts`, `checkExpiryAlerts`).

Risk and pricing
- The weights are read again by every factor: a change or a reload between the
  check of the sum and the factors scores with weights that do not add up
  (`risk-engine.service.ts:65`); a load that started before an invalidation
  restores the old values after it (`risk-config.ts:52`).
- Only collected and defaulted invoices are counted and a default decides alone,
  so `on_time_pct` is always 0 or 100 where it is looked at, and the bands
  between 90% and 95% cannot be reached (`supplier-track-record-scorer.ts:56`).
- The premium is 0 below a score of 50; when `threshold_refer_manager` is set
  lower, a score of 49 pays the supplier more than one of 50
  (`risk-engine.service.ts:237`). `BetterScorePaysMore` assumes 50 or more.
- Rates that add up to exactly 15% may be refused, because the sum is taken in
  binary fractions (`pricing.service.ts:71`).

Accounts and onboarding
- Two refreshes with one token that overlap both get a new pair
  (`auth.service.ts:360`).
- `logoutHandler` clears the refresh cookie without the path it was set with
  (`auth.controller.ts:102`, `:470`), so the browser keeps it; its session is
  gone, and it is refused.
- The page's refresh is posted without a timeout (`axios.ts:137`): while it hangs,
  every request that meets a 401 waits with it. If a sign-out fails on its way
  while a refresh is out, the refresh's answer puts a live token into the store
  of a page that shows nobody signed in (`axios.ts:143`; `auth.store.ts:75`,
  "always clear client state"); `SignedOffIsOff` excepts that case. `setTokens`
  does not look at the session, so a refresh that began before a new sign-in
  replaces its token and cookie by those of the old session.
- A change of settings can be approved twice by two managers who both read
  `pending`; the second approval writes its value again, over a later change of
  the same key (`settings.service.ts:193`). A change of a key that has no row is
  marked approved and changes nothing.
- Two officers who read the same KYC status both write theirs; the later one
  wins, also over a decision (`onboarding.service.ts:1296`): an approved
  application can be taken back to review by a request that had read it before.

## 6. Not modelled, and the plan

`PROJECT.json` lists every component with its status. Out of scope for good are
I/O and read-only parts (documents, mail templates and providers, reporting,
dashboard, PDF, middleware, the pages of the frontend: more than half of the
repository's lines) and the earlier Django backend. Left out of the modelled components, because
they touch no state the properties speak of: information requests, assignments,
bank details, reminders and SLA reports, beneficial owners, comments,
profiles. Complaints and collateral records are single updates after an unlocked status check, the pattern `Kyc` and `Settlements`
model; they have no rule of their own that a race could break beyond the one
observed there.

To come, most important first:

1. `Funding`: Intake, Approvals, Payments and Collections composed over one
   invoice row, so that their abstract specifications are used as the
   environment they describe.
2. Step properties of the components that have only invariants so far: rows of
   `Settlements` and `Kyc` that move back are known to be possible (section 5);
   those of `Buyers` and `ConfigChanges` are not.
