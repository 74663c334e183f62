------------------------------ MODULE Payments ------------------------------
(***************************************************************************)
(* The payments service (src/src/services/payments): a process-payment job *)
(* turns an approved invoice into a payment row, two finance managers      *)
(* authorise it, executePayment sends the money through a provider and     *)
(* records the result, and management can pull a kill switch at any time.  *)
(*                                                                         *)
(* A database transaction is one action.  Everything the code reads        *)
(* outside the transaction that later uses it is a step of its own, so     *)
(* other handlers run in between.  UNIQUE(invoice_id) on payments makes    *)
(* the invoice the key of its payment row.                                 *)
(***************************************************************************)
EXTENDS Naturals, FiniteSets

CONSTANTS
  Invoices,      \* invoice ids
  Managers,      \* users with the role finance_manager
  Jobs,          \* process-payment jobs that approvals may enqueue
  JobInvoice,    \* the invoiceId in each job's payload
  Executions,    \* calls of executePayment
  ExecInvoice,   \* the invoice whose payment each call is about
  MaxAttempts,   \* `attempts` of a process-payment job
  WorkerSlots,   \* process-payment workers (concurrency 1 per server)
  MayFail,       \* whether servers die and database or Redis calls fail
  NoUser         \* SQL NULL in dual_auth_user_1 / dual_auth_user_2

ASSUME ConstantsAssumption ==
  /\ JobInvoice \in [Jobs -> Invoices]
  /\ ExecInvoice \in [Executions -> Invoices]
  /\ MaxAttempts \in Nat \ {0}
  /\ MayFail \in BOOLEAN
  /\ NoUser \notin Managers

VARIABLES
  invoice,     \* invoices.status
  amlHold,     \* flagged over the threshold and not yet cleared
  payment,     \* the payments row of each invoice, status "none" if absent
  killSwitch,  \* system_settings.payment_kill_switch = 'true'
  job,         \* BullMQ state of each process-payment job
  reported,    \* invoices with a PAYMENT_INITIATION_FAILED audit entry
  requests,    \* POST /payments/:id/authorise requests in flight
  exec,        \* where each executePayment call stands
  sentBy,      \* the calls whose provider.execute sent an instruction
  monitored    \* invoices whose funded follow-up jobs were enqueued

vars == <<invoice, amlHold, payment, killSwitch, job, reported, requests,
          exec, sentBy, monitored>>

envVars  == <<invoice, amlHold, killSwitch>>
jobVars  == <<job, reported>>
execVars == <<exec, sentBy, monitored>>

InvoiceStatus == {"priced", "approved", "pending_first_auth", "funded"}

PaymentStatus == {"none", "pending_first_auth", "pending_second_auth",
                  "executing", "funded", "failed"}

Row == [status : PaymentStatus,
        user1  : Managers \cup {NoUser},
        user2  : Managers \cup {NoUser}]

NoRow == [status |-> "none", user1 |-> NoUser, user2 |-> NoUser]

HasRow(i) == payment[i].status # "none"

\* repo.updateInvoiceStatusWithClient: UPDATE ... WHERE status = expected, a
\* no-op on an invoice in any other status.
UpdateInvoiceStatus(i, new, expected) ==
  IF invoice[i] = expected THEN [invoice EXCEPT ![i] = new] ELSE invoice

\* repo.updatePaymentResultWithClient: UPDATE ... WHERE id, whatever the status.
UpdatePaymentResult(i, status) == [payment EXCEPT ![i].status = status]

\* repo.failExecutingPaymentsWithClient.
FailExecutingPayments ==
  [i \in Invoices |-> IF payment[i].status = "executing"
                     THEN [payment[i] EXCEPT !.status = "failed"]
                     ELSE payment[i]]

\* The await points of initiatePayment: the kill switch was read; invoice,
\* AML, collateral and facility were checked; no payment row was found.
ActiveStates == {"validate", "lookup", "create"}

JobState == {"none", "waiting", "done", "exhausted", "failed"}
               \cup ActiveStates

Job == [state : JobState, attempts : 0..MaxAttempts, stalled : BOOLEAN]

\* A request whose handler has read the payment and picked an authorisation.
Request == [auth : {"first", "second"}, inv : Invoices, user : Managers]

\* "loaded" has read an executing row; "success", "pending" and "failure"
\* hold the provider's answer; "notify" has committed the funded row;
\* "failing" is inside the catch block of callProviderAndHandle.
ExecState == {"idle", "loaded", "success", "pending", "failure", "notify",
              "failing", "done"}

TypeOK ==
  /\ invoice \in [Invoices -> InvoiceStatus]
  /\ amlHold \in [Invoices -> BOOLEAN]
  /\ payment \in [Invoices -> Row]
  /\ killSwitch \in BOOLEAN
  /\ job \in [Jobs -> Job]
  /\ reported \in SUBSET Invoices
  /\ requests \in SUBSET Request
  /\ exec \in [Executions -> ExecState]
  /\ sentBy \in [Invoices -> SUBSET Executions]
  /\ monitored \in SUBSET Invoices

Init ==
  /\ invoice = [i \in Invoices |-> "priced"]
  /\ amlHold \in [Invoices -> BOOLEAN]
  /\ payment = [i \in Invoices |-> NoRow]
  /\ killSwitch = FALSE
  /\ job = [j \in Jobs |->
              [state |-> "none", attempts |-> 0, stalled |-> FALSE]]
  /\ reported = {}
  /\ requests = {}
  /\ exec = [e \in Executions |-> "idle"]
  /\ sentBy = [i \in Invoices |-> {}]
  /\ monitored = {}

-----------------------------------------------------------------------------
(* What other services do to the rows payments reads.                      *)

\* approvals: the job is enqueued inside the approval transaction, before
\* its COMMIT.  A second approver that read the invoice as 'priced' enqueues
\* one more.
QueuePayment(j) ==
  /\ job[j].state = "none"
  /\ job' = [job EXCEPT ![j].state = "waiting"]
  /\ UNCHANGED <<envVars, payment, reported, requests, execVars>>

\* approvals: the approval transaction commits; it may also roll back, which
\* leaves the job behind and the invoice 'priced'.
CommitApproval(i) ==
  /\ invoice[i] = "priced"
  /\ \E j \in Jobs : JobInvoice[j] = i /\ job[j].state # "none"
  /\ invoice' = [invoice EXCEPT ![i] = "approved"]
  /\ UNCHANGED <<amlHold, payment, killSwitch, jobVars, requests, execVars>>

\* compliance: clearInvoice; a cleared invoice is never flagged again.
ClearAml(i) ==
  /\ amlHold[i]
  /\ amlHold' = [amlHold EXCEPT ![i] = FALSE]
  /\ UNCHANGED <<invoice, payment, killSwitch, jobVars, requests, execVars>>

-----------------------------------------------------------------------------
(* The kill switch.                                                        *)

\* One transaction: the setting and every executing payment.
ActivateKillSwitch ==
  /\ killSwitch' = TRUE
  /\ payment' = FailExecutingPayments
  /\ UNCHANGED <<invoice, amlHold, jobVars, requests, execVars>>

DeactivateKillSwitch ==
  /\ killSwitch' = FALSE
  /\ UNCHANGED <<invoice, amlHold, payment, jobVars, requests, execVars>>

\* The settings service writes the same setting and leaves the payments alone.
ToggleKillSwitch(enabled) ==
  /\ killSwitch' = enabled
  /\ UNCHANGED <<invoice, amlHold, payment, jobVars, requests, execVars>>

-----------------------------------------------------------------------------
(* The process-payment worker: initiatePayment, one step per await.        *)

\* Mutants: an attempt too many, and an
\* exception that is swallowed at the last attempt.
FailAttemptOneMore(j) ==
  LET made == job[j].attempts + 1 IN
  job' = [job EXCEPT
            ![j].attempts = made,
            ![j].state = IF made > MaxAttempts THEN "exhausted"
                                               ELSE "waiting"]
FailAttemptSwallowed(j) ==
  LET made == job[j].attempts + 1 IN
  job' = [job EXCEPT
            ![j].attempts = made,
            ![j].state = IF made >= MaxAttempts THEN "done" ELSE "waiting"]

\* An exception ends the attempt; BullMQ schedules the next one or, at the
\* last, the worker's 'failed' listener sees a terminal failure.
FailAttempt(j) ==
  LET made == job[j].attempts + 1 IN
  job' = [job EXCEPT
            ![j].attempts = made,
            ![j].state = IF made >= MaxAttempts THEN "exhausted"
                                                ELSE "waiting"]

Advance(j, s) == job' = [job EXCEPT ![j].state = s]

ActiveJobs == {j \in Jobs : job[j].state \in ActiveStates}

\* checkKillSwitch.
StartJob(j) ==
  /\ job[j].state = "waiting"
  /\ Cardinality(ActiveJobs) < WorkerSlots
  /\ IF killSwitch THEN FailAttempt(j) ELSE Advance(j, "validate")
  /\ UNCHANGED <<envVars, payment, reported, requests, execVars>>

\* Mutant: the AML guard is dropped.
ValidateWithoutAml(j) ==
  /\ job[j].state = "validate"
  /\ IF invoice[JobInvoice[j]] = "approved"
     THEN Advance(j, "lookup")
     ELSE FailAttempt(j)
  /\ UNCHANGED <<envVars, payment, reported, requests, execVars>>

\* guardInvoiceApproved and guardAmlCleared.
ValidateInvoiceForPayment(j) ==
  /\ job[j].state = "validate"
  /\ IF /\ invoice[JobInvoice[j]] = "approved"
        /\ ~ amlHold[JobInvoice[j]]
     THEN Advance(j, "lookup")
     ELSE FailAttempt(j)
  /\ UNCHANGED <<envVars, payment, reported, requests, execVars>>

\* getPaymentByInvoiceId: an existing payment is returned.
LookupPayment(j) ==
  /\ job[j].state = "lookup"
  /\ Advance(j, IF HasRow(JobInvoice[j]) THEN "done" ELSE "create")
  /\ UNCHANGED <<envVars, payment, reported, requests, execVars>>

\* Mutant: the invoice stays 'approved'.
CreatePaymentOnly(j) ==
  /\ job[j].state = "create"
  /\ IF HasRow(JobInvoice[j])
     THEN FailAttempt(j) /\ UNCHANGED payment
     ELSE /\ Advance(j, "done")
          /\ payment' = UpdatePaymentResult(JobInvoice[j], "pending_first_auth")
  /\ UNCHANGED <<envVars, reported, requests, execVars>>

\* createPaymentTxn: the row, and the invoice's guarded transition, which is
\* a no-op when the invoice is no longer 'approved'.  UNIQUE(invoice_id)
\* rejects a second row and the transaction rolls back.
CreatePayment(j) ==
  LET i == JobInvoice[j] IN
  /\ job[j].state = "create"
  /\ IF HasRow(i)
     THEN /\ FailAttempt(j)
          /\ UNCHANGED <<invoice, payment>>
     ELSE /\ Advance(j, "done")
          /\ payment' = [payment EXCEPT ![i].status = "pending_first_auth"]
          /\ invoice' = UpdateInvoiceStatus(i, "pending_first_auth", "approved")
  /\ UNCHANGED <<amlHold, killSwitch, reported, requests, execVars>>

\* A guard on collateral coverage or facility balance, or a database error.
ThrowInJob(j) ==
  /\ MayFail
  /\ job[j].state \in ActiveStates
  /\ FailAttempt(j)
  /\ UNCHANGED <<envVars, payment, reported, requests, execVars>>

\* The server dies.  BullMQ hands a stalled job to a worker once more, the
\* second time it fails it without the attempts being used up.
StallJob(j) ==
  /\ MayFail
  /\ job[j].state \in ActiveStates
  /\ job' = [job EXCEPT
               ![j].state = IF job[j].stalled THEN "failed" ELSE "waiting",
               ![j].stalled = TRUE]
  /\ UNCHANGED <<envVars, payment, reported, requests, execVars>>

\* handleTerminalWorkerFailure; an error in it is only logged.
ReportTerminalFailure(j) ==
  /\ job[j].state = "exhausted"
  /\ Advance(j, "failed")
  /\ \/ reported' = reported \cup {JobInvoice[j]}
     \/ MayFail /\ reported' = reported
  /\ UNCHANGED <<envVars, payment, requests, execVars>>

-----------------------------------------------------------------------------
(* Authorisation.                                                          *)

\* authoriseHandler reads the payment without a lock and picks the call.
AuthoriseRead(u, i) ==
  /\ HasRow(i)
  /\ requests' = requests \cup
       {[auth |-> IF payment[i].status = "pending_first_auth"
                  THEN "first" ELSE "second",
         inv |-> i, user |-> u]}
  /\ UNCHANGED <<envVars, payment, jobVars, execVars>>

\* Mutant: the locked row's status is not validated.
RecordFirstAuthUnchecked(r) ==
  /\ r.auth = "first"
  /\ payment' = [payment EXCEPT ![r.inv].user1 = r.user,
                                ![r.inv].status = "pending_second_auth"]
  /\ requests' = requests \ {r}
  /\ UNCHANGED <<envVars, jobVars, execVars>>

\* recordFirstAuthTxn: lock, validatePaymentStatus, update.
RecordFirstAuth(r) ==
  /\ r.auth = "first"
  /\ payment[r.inv].status = "pending_first_auth"
  /\ payment' = [payment EXCEPT ![r.inv].user1 = r.user,
                                ![r.inv].status = "pending_second_auth"]
  /\ requests' = requests \ {r}
  /\ UNCHANGED <<envVars, jobVars, execVars>>

\* Mutant: anybody may be the second authoriser.
AnyAuthoriser(r) == r.user \in Managers

\* guardDifferentAuthoriser.
DifferentAuthoriser(r) == payment[r.inv].user1 # r.user

\* recordSecondAuthTxn.
RecordSecondAuth(r) ==
  /\ r.auth = "second"
  /\ payment[r.inv].status = "pending_second_auth"
  /\ DifferentAuthoriser(r)
  /\ payment' = [payment EXCEPT ![r.inv].user2 = r.user,
                                ![r.inv].status = "executing"]
  /\ requests' = requests \ {r}
  /\ UNCHANGED <<envVars, jobVars, execVars>>

\* Stale 2FA, a row locked by another authoriser (55P03), a wrong status,
\* the same authoriser or a database error: the request ends in an error.
RejectRequest(r) ==
  /\ requests' = requests \ {r}
  /\ UNCHANGED <<envVars, payment, jobVars, execVars>>

-----------------------------------------------------------------------------
(* executePayment.                                                         *)

Step(e, from, to) ==
  /\ exec[e] = from
  /\ exec' = [exec EXCEPT ![e] = to]

\* Mutant: one authorisation is enough to execute.
LoadHalfAuthorised(e) ==
  /\ payment[ExecInvoice[e]].status \in {"pending_second_auth", "executing"}
  /\ Step(e, "idle", "loaded")
  /\ UNCHANGED <<envVars, payment, jobVars, requests, sentBy, monitored>>

\* loadExecutablePayment, read without a lock.
LoadExecutablePayment(e) ==
  /\ payment[ExecInvoice[e]].status = "executing"
  /\ Step(e, "idle", "loaded")
  /\ UNCHANGED <<envVars, payment, jobVars, requests, sentBy, monitored>>

\* checkIdempotency reads the same row again: already funded, nothing is sent.
AlreadyFunded(e) ==
  /\ payment[ExecInvoice[e]].status = "funded"
  /\ Step(e, "loaded", "done")
  /\ UNCHANGED <<envVars, payment, jobVars, requests, sentBy, monitored>>

\* provider.execute: the mock answers "success", the EFT provider "pending",
\* both may answer "failure"; an answer but failure means money was sent.
CallProvider(e, answer) ==
  /\ payment[ExecInvoice[e]].status # "funded"
  /\ Step(e, "loaded", answer)
  /\ sentBy' = IF answer = "failure" THEN sentBy
               ELSE [sentBy EXCEPT ![ExecInvoice[e]] = @ \cup {e}]
  /\ UNCHANGED <<envVars, payment, jobVars, requests, monitored>>

\* The trigger trg_payments_enforce_dual_auth on an update to 'funded'.
DualAuthTrigger(row) ==
  /\ row.user1 # NoUser
  /\ row.user2 # NoUser
  /\ row.user1 # row.user2

\* Mutant: routeProviderResult does not look at result.success.
RecordAnyAnswer(e) ==
  /\ \E answer \in {"success", "failure"} : Step(e, answer, "notify")
  /\ payment' = UpdatePaymentResult(ExecInvoice[e], "funded")
  /\ UNCHANGED <<envVars, jobVars, requests, sentBy, monitored>>

\* recordSuccessfulPaymentTxn: neither update looks at the payment's status;
\* the invoice moves only from 'approved'.
RecordSuccess(e) ==
  LET i == ExecInvoice[e] IN
  /\ Step(e, "success", "notify")
  /\ DualAuthTrigger(payment[i])
  /\ payment' = UpdatePaymentResult(i, "funded")
  /\ invoice' = UpdateInvoiceStatus(i, "funded", "approved")
  /\ UNCHANGED <<amlHold, killSwitch, jobVars, requests, sentBy, monitored>>

\* notifyPaymentFunded: supplier notification, facility-drawdown and
\* collection-monitoring jobs.
NotifyFunded(e) ==
  /\ Step(e, "notify", "done")
  /\ monitored' = monitored \cup {ExecInvoice[e]}
  /\ UNCHANGED <<envVars, payment, jobVars, requests, sentBy>>

\* handlePendingConfirmation stores the references and keeps the status.
RecordPending(e) ==
  /\ Step(e, "pending", "done")
  /\ UNCHANGED <<envVars, payment, jobVars, requests, sentBy, monitored>>

\* A database or Redis error after the provider answered, even after the
\* funded row was committed, ends in the catch block.
ThrowInRoute(e) ==
  /\ MayFail
  /\ \E s \in {"success", "pending", "failure", "notify"} :
       Step(e, s, "failing")
  /\ UNCHANGED <<envVars, payment, jobVars, requests, sentBy, monitored>>

\* handleFailedPayment, from routeProviderResult or from the catch block; the
\* update does not look at the status.  From the former, a failing
\* notification runs it again from the catch block.
RecordFailure(e) ==
  /\ \/ Step(e, "failure", "done")
     \/ Step(e, "failure", "failing")
     \/ Step(e, "failing", "done")
  /\ payment' = UpdatePaymentResult(ExecInvoice[e], "failed")
  /\ UNCHANGED <<envVars, jobVars, requests, sentBy, monitored>>

\* The server dies, or handleFailedPayment itself cannot reach the database.
CrashExecution(e) ==
  /\ MayFail
  /\ exec[e] \notin {"idle", "done"}
  /\ exec' = [exec EXCEPT ![e] = "done"]
  /\ UNCHANGED <<envVars, payment, jobVars, requests, sentBy, monitored>>

-----------------------------------------------------------------------------
WorkerStep(j) ==
  \/ StartJob(j)
  \/ ValidateInvoiceForPayment(j)
  \/ LookupPayment(j)
  \/ CreatePayment(j)
  \/ ReportTerminalFailure(j)

ExecuteStep(e) ==
  \/ AlreadyFunded(e)
  \/ \E answer \in {"success", "pending", "failure"} : CallProvider(e, answer)
  \/ RecordSuccess(e)
  \/ NotifyFunded(e)
  \/ RecordPending(e)
  \/ RecordFailure(e)

Next ==
  \/ \E i \in Invoices : \/ CommitApproval(i)
                         \/ ClearAml(i)
                         \/ \E u \in Managers : AuthoriseRead(u, i)
  \/ ActivateKillSwitch
  \/ DeactivateKillSwitch
  \/ \E enabled \in BOOLEAN : ToggleKillSwitch(enabled)
  \/ \E j \in Jobs : QueuePayment(j) \/ WorkerStep(j) \/ ThrowInJob(j)
                       \/ StallJob(j)
  \/ \E r \in requests : RecordFirstAuth(r) \/ RecordSecondAuth(r)
                           \/ RejectRequest(r)
  \/ \E e \in Executions : LoadExecutablePayment(e) \/ ExecuteStep(e)
                             \/ ThrowInRoute(e) \/ CrashExecution(e)

\* The workers keep consuming, and a call that started runs to its end.
Fairness ==
  /\ \A j \in Jobs : WF_vars(WorkerStep(j))
  /\ \A e \in Executions : WF_vars(ExecuteStep(e))

Spec == Init /\ [][Next]_vars /\ Fairness

-----------------------------------------------------------------------------
(* Properties.                                                             *)

\* Money leaves only under two signatures: whenever a provider instruction
\* was sent for an invoice, or its payment is executing, funded or failed,
\* the row names two different finance managers.  (authoriseHandler picks
\* the call from a stale read; recordFirstAuthTxn, recordSecondAuthTxn and
\* the trigger have to make up for it.)
DualAuthorised ==
  \A i \in Invoices :
    (sentBy[i] # {} \/ payment[i].status \in {"executing", "funded", "failed"})
      => DualAuthTrigger(payment[i])

\* createPaymentTxn keeps the two rows in step: an invoice has a payment row
\* exactly when it has left 'approved', whatever duplicate jobs, retries and
\* second workers do.
RowIffPastApproved ==
  \A i \in Invoices : HasRow(i) <=> invoice[i] \notin {"priced", "approved"}

\* guardAmlCleared is not undone by the awaits that follow it: no payment row
\* exists for an invoice that compliance has not cleared.
NoPaymentUnderAmlHold ==
  \A i \in Invoices : HasRow(i) => ~ amlHold[i]

\* A job BullMQ counts as completed left a payment row behind, and a payment
\* recorded as funded was really sent, as were the ones whose drawdown and
\* monitoring jobs were enqueued.
CompletionIsReal ==
  /\ \A j \in Jobs : job[j].state = "done" => HasRow(JobInvoice[j])
  /\ \A i \in Invoices :
       (payment[i].status = "funded" \/ i \in monitored) => sentBy[i] # {}

\* Where a row stands on the way to the provider; funded and failed are both
\* final.
Rank(status) ==
  CASE status = "none" -> 0
    [] status = "pending_first_auth" -> 1
    [] status = "pending_second_auth" -> 2
    [] status = "executing" -> 3
    [] status \in {"funded", "failed"} -> 4

\* A recorded authoriser is never replaced and a row never moves back to an
\* earlier stage, although updatePaymentResultWithClient writes the status
\* without looking at it.
RowHistory ==
  [][\A i \in Invoices :
       /\ payment[i].user1 # NoUser => payment'[i].user1 = payment[i].user1
       /\ payment[i].user2 # NoUser => payment'[i].user2 = payment[i].user2
       /\ Rank(payment[i].status) <= Rank(payment'[i].status)]_vars

\* Every approved invoice eventually gets its payment row, or one of its
\* jobs lands in the failed set: no approval is silently dropped.
InitiationSettles ==
  \A i \in Invoices :
    invoice[i] = "approved" ~>
      \/ HasRow(i)
      \/ \E j \in Jobs : JobInvoice[j] = i /\ job[j].state = "failed"

-----------------------------------------------------------------------------
(* The service implements the abstract disbursement.                       *)

Signers(row) == {row.user1, row.user2} \ {NoUser}

Promise == INSTANCE Disbursement WITH
  opened     <- {i \in Invoices : HasRow(i)},
  signatures <- [i \in Invoices |-> Signers(payment[i])],
  sent       <- {i \in Invoices : sentBy[i] # {}}

\* Every step of the service opens, signs or sends as Disbursement allows, or
\* changes none of it.
ImplementsDisbursement == Promise!DSpec

-----------------------------------------------------------------------------
(* What the comments of the code say, and the code does not do.            *)

\* "Does NOT auto-resume the failed payments": a failed payment, the kill
\* switch's included, is not funded later.
FailedStaysFailed ==
  [][\A i \in Invoices :
       payment[i].status = "failed" => payment'[i].status = "failed"]_vars
=============================================================================
