---------------------------- MODULE Collections ----------------------------
(***************************************************************************)
(* Getting the money back: a funded invoice is monitored, falls overdue,   *)
(* is escalated, and is paid, resolved or written off.  Scheduled jobs and *)
(* users act on the same rows of `collections` and `invoices`.             *)
(*                                                                         *)
(* No handler of this service locks a row.  What it has read is in `sweep` *)
(* (jobs, which run again and again) or `calls` (HTTP requests, which run  *)
(* once) until its transaction, one action, writes.  penalty_amount is     *)
(* always written together with days_overdue and computed from it, so the  *)
(* days stand for both.                                                    *)
(***************************************************************************)
EXTENDS Integers, Sequences

CONSTANTS
  Invoices,
  FaceValue,        \* face_value of each invoice
  AmlThreshold,     \* AML_FLAG_THRESHOLD_UGX
  InitialUsed,      \* what the buyer's used_limit may be at first
  InitialScores,    \* what the buyer's payment_score may be at first
  Amounts,          \* amounts users enter
  LateDays,         \* days between the due date and the day of payment
  OldRows,          \* rows the database may hold from before, as the seed's
  Sweeps,           \* workers of the scheduled and queued jobs
  MonitorAttempts,  \* `attempts` of a collection-monitoring job
  Requests,         \* HTTP requests
  SystemIsUser,     \* whether the id 'SYSTEM' of the jobs is a user's id
  MayFail           \* whether transactions and servers fail

ASSUME ConstantsAssumption ==
  /\ FaceValue \in [Invoices -> Nat \ {0}]
  /\ AmlThreshold \in Nat
  /\ InitialUsed \subseteq Nat
  /\ InitialScores \subseteq 0..100
  /\ Amounts \subseteq Nat \ {0}
  /\ LateDays \subseteq Int
  /\ MonitorAttempts \in Nat
  /\ SystemIsUser \in BOOLEAN
  /\ MayFail \in BOOLEAN

VARIABLES
  invoice,      \* invoices.status
  rows,         \* rows of collections per invoice, oldest first
  used,         \* buyers.used_limit; all invoices are one buyer's
  paymentScore, \* buyers.payment_score
  receipts,     \* committed recordPaymentReceived per invoice
  settleJobs,   \* settlement-initiate jobs enqueued per invoice
  tries,        \* runs the invoice's collection-monitoring job has left
  sweep,        \* what each job has read
  calls         \* what each request has read

vars == <<invoice, rows, used, paymentScore, receipts, settleJobs, tries,
          sweep, calls>>

\* What most jobs and requests leave alone.
otherVars == <<used, paymentScore, receipts, settleJobs, tries>>

Status == {"funded", "collecting", "overdue", "defaulted", "collected"}

\* reminder_sent, reminded, partial_payment and defaulted are never written.
RowStatus == {"pending", "overdue", "escalated", "collected", "bad_debt"}

Row == [status : RowStatus, level : 0..3, days : Nat, total : Nat,
        sar : BOOLEAN]

ASSUME OldRowsAssumption ==
  /\ OldRows \subseteq Row
  /\ \A row \in OldRows : row.status = "overdue" /\ row.level < 3

\* A job between its reads and its transaction: the row it has found (0 for
\* none) and the level and days it goes by.
Sweep ==
  [op : {"idle"}]
    \cup [op : {"monitor"}, inv : Invoices]
    \cup [op : {"overdue", "default"}, inv : Invoices, row : Nat]
    \cup [op : {"escalate"}, inv : Invoices, row : Nat, level : 0..3,
          days : Nat]

\* A request between its reads and its transaction; "jobs" has committed a
\* receipt and has yet to enqueue what follows.
Call ==
  [op : {"idle", "done"}]
    \cup [op : {"receive"}, inv : Invoices, row : Nat, status : Status,
          amount : Amounts]
    \cup [op : {"pay"}, inv : Invoices, row : Nat, amount : Amounts]
    \cup [op : {"raise", "lower"}, inv : Invoices, row : Nat, level : 0..3]
    \cup [op : {"resolve"}, inv : Invoices, row : Nat, status : RowStatus]
    \cup [op : {"jobs"}, inv : Invoices]

NoSweep == [op |-> "idle"]
NoCall  == [op |-> "idle"]
Done    == [op |-> "done"]

TypeOK ==
  /\ invoice \in [Invoices -> Status]
  /\ rows \in [Invoices -> Seq(Row)]
  /\ used \in Nat
  /\ paymentScore \in 0..100
  /\ receipts \in [Invoices -> Nat]
  /\ settleJobs \in [Invoices -> Nat]
  /\ tries \in [Invoices -> 0..MonitorAttempts]
  /\ sweep \in [Sweeps -> Sweep]
  /\ calls \in [Requests -> Call]

\* A row as createPendingCollectionRecord or createOverdueRecord inserts it.
NewRow(s, d) ==
  [status |-> s, level |-> 0, days |-> d, total |-> 0, sar |-> FALSE]

\* An invoice comes from payments, is collected on without a row (the legacy
\* data processOverdueInvoice allows for), or is overdue with an old row.
Init ==
  /\ \/ /\ invoice \in [Invoices -> {"funded", "collecting"}]
        /\ rows = [i \in Invoices |-> << >>]
     \/ /\ invoice = [i \in Invoices |-> "overdue"]
        /\ \E row \in OldRows : rows = [i \in Invoices |-> <<row>>]
  /\ used \in InitialUsed
  /\ paymentScore \in InitialScores
  /\ receipts = [i \in Invoices |-> 0]
  /\ settleJobs = [i \in Invoices |-> 0]
  /\ tries = [i \in Invoices |-> MonitorAttempts]
  /\ sweep = [w \in Sweeps |-> NoSweep]
  /\ calls = [r \in Requests |-> NoCall]

-----------------------------------------------------------------------------
(* The repository.                                                         *)

\* ORDER BY created_at DESC LIMIT 1; 0 when there is no row.
Latest(i) == Len(rows[i])

\* Mutant: the UPDATE goes by the id alone.
UpdateAnyInvoice(i, new, expected) == [invoice EXCEPT ![i] = new]

\* UPDATE invoices ... WHERE id = $2 AND status = $3.
UpdateInvoiceStatus(i, new, expected) ==
  IF invoice[i] = expected THEN [invoice EXCEPT ![i] = new] ELSE invoice

\* determineEscalationLevel.
DetermineEscalationLevel(d) ==
  CASE d >= 14 -> 3 [] d >= 7 -> 2 [] d >= 3 -> 1 [] OTHER -> 0

\* Mutant: above the threshold only.
SarFlagAbove(i, level) == level >= 3 /\ FaceValue[i] > AmlThreshold

\* checkSarFlag, and the same test in executeManualEscalationTxn.
SarFlag(i, level) == level >= 3 /\ FaceValue[i] >= AmlThreshold

\* setEscalationLevel: any level above 0 makes the row 'escalated'.
SetLevel(row, l) ==
  [row EXCEPT !.level = l, !.status = IF l > 0 THEN "escalated" ELSE @]

\* Mutant: the score is not clamped.
AdjustUnclamped(s, late) == s + IF late <= 0 THEN 5 ELSE -late

\* adjustBuyerPaymentScore.
AdjustScore(s, late) ==
  LET adjusted == s + (IF late <= 0 THEN 5 ELSE IF late > 20 THEN -20
                                                              ELSE -late)
  IN IF adjusted < 0 THEN 0 ELSE IF adjusted > 100 THEN 100 ELSE adjusted

-----------------------------------------------------------------------------
(* Scheduled and queued jobs.                                              *)

Begin(w, s) == sweep[w] = NoSweep /\ sweep' = [sweep EXCEPT ![w] = s]
End(w) == sweep' = [sweep EXCEPT ![w] = NoSweep]

\* startCollectionMonitoring, in the one job that queueCollectionMonitoring
\* enqueues: it is run until it succeeds or its attempts are used up, and a
\* stalled run is taken up by a second worker.
StartCollectionMonitoring(w, i) ==
  /\ tries[i] > 0
  /\ Latest(i) = 0
  /\ invoice[i] = "funded"
  /\ tries' = [tries EXCEPT ![i] = @ - 1]
  /\ Begin(w, [op |-> "monitor", inv |-> i])
  /\ UNCHANGED <<invoice, rows, used, paymentScore, receipts, settleJobs,
                 calls>>

\* The audit entry names the user 'SYSTEM'.  No key keeps a second worker
\* from inserting a second row.
PersistCollectionStarted(w) ==
  LET i == sweep[w].inv IN
  /\ sweep[w].op = "monitor"
  /\ SystemIsUser
  /\ rows' = [rows EXCEPT ![i] = Append(@, NewRow("pending", 0))]
  /\ invoice' = UpdateInvoiceStatus(i, "collecting", "funded")
  /\ End(w)
  /\ UNCHANGED <<otherVars, calls>>

\* processOverdueInvoice for an invoice past its due date, which no state
\* of the model decides.
ProcessOverdueInvoice(w, i) ==
  /\ invoice[i] = "collecting"
  /\ Begin(w, [op |-> "overdue", inv |-> i, row |-> Latest(i)])
  /\ UNCHANGED <<invoice, rows, otherVars, calls>>

\* An existing row is overwritten whatever became of it since it was read.
ExecuteOverdueTxn(w) ==
  LET i == sweep[w].inv
      n == sweep[w].row IN
  /\ sweep[w].op = "overdue"
  /\ SystemIsUser
  /\ \/ /\ n = 0
              /\ rows' = [rows EXCEPT ![i] = Append(@, NewRow("overdue", 1))]
     \/ /\ n # 0
        /\ rows' = [rows EXCEPT ![i][n] =
                      [@ EXCEPT !.status = "overdue", !.level = 0,
                                !.days = 1]]
  /\ invoice' = UpdateInvoiceStatus(i, "overdue", "collecting")
  /\ End(w)
  /\ UNCHANGED <<otherVars, calls>>

\* getEscalationCandidates, then processEscalation of the invoice's latest
\* row: the days are those the candidate row was stored with.
ProcessEscalation(w, i, n) ==
  LET cand == rows[i][n]
      row  == rows[i][Latest(i)] IN
  /\ cand.status \in {"overdue", "escalated"}
  /\ cand.level < 3
  /\ DetermineEscalationLevel(cand.days) > row.level
  /\ Begin(w, [op |-> "escalate", inv |-> i, row |-> Latest(i),
               level |-> DetermineEscalationLevel(cand.days),
               days |-> cand.days])
  /\ UNCHANGED <<invoice, rows, otherVars, calls>>

\* Written by id, with an audit entry that names no user.
ExecuteEscalationTxn(w) ==
  LET s   == sweep[w]
      row == rows[s.inv][s.row] IN
  /\ s.op = "escalate"
  /\ rows' = [rows EXCEPT ![s.inv][s.row] =
                [row EXCEPT !.status = "escalated", !.level = s.level,
                            !.days = s.days,
                            !.sar = row.sar \/ SarFlag(s.inv, s.level)]]
  /\ End(w)
  /\ UNCHANGED <<invoice, otherVars, calls>>

\* getDefaultableCollections.
ProcessDefaulted(w, i, n) ==
  /\ rows[i][n].level = 3
  /\ rows[i][n].days >= 90
  /\ rows[i][n].status \in {"overdue", "escalated"}
  /\ Begin(w, [op |-> "default", inv |-> i, row |-> n])
  /\ UNCHANGED <<invoice, rows, otherVars, calls>>

DefaultSingleCollection(w) ==
  LET s == sweep[w] IN
  /\ s.op = "default"
  /\ SystemIsUser
  /\ rows' = [rows EXCEPT ![s.inv][s.row].status = "bad_debt"]
  /\ invoice' = UpdateInvoiceStatus(s.inv, "defaulted", "overdue")
  /\ End(w)
  /\ UNCHANGED <<otherVars, calls>>

\* A ROLLBACK: the database refuses 'SYSTEM' as a UUID, or a query fails.
RollbackSweep(w) ==
  /\ sweep[w] # NoSweep
  /\ MayFail \/ (~ SystemIsUser /\ sweep[w].op # "escalate")
  /\ End(w)
  /\ UNCHANGED <<invoice, rows, otherVars, calls>>

-----------------------------------------------------------------------------
(* Requests of the finance team.                                           *)

Receive(r, c) == calls[r] = NoCall /\ calls' = [calls EXCEPT ![r] = c]
Answer(r) == calls' = [calls EXCEPT ![r] = Done]

\* recordPaymentReceived.  Its two reads are one here: a row inserted between
\* them comes with a new invoice status, and the transaction is refused.
RecordPaymentReceived(r, i, a) ==
  /\ invoice[i] # "collected"
  /\ Receive(r, [op |-> "receive", inv |-> i, row |-> Latest(i),
                 status |-> invoice[i], amount |-> a])
  /\ UNCHANGED <<invoice, rows, otherVars, sweep>>

\* Mutant: the result of updateInvoiceStatus is not looked at.
AnyTransition(i, expected) == TRUE

\* assertInvoiceCollectedTransition.
AssertCollectedTransition(i, expected) == invoice[i] = expected

\* executePaymentReceivedTxn.  Without a row the payment has no
\* collection_id; chk_buyers_used_limit_non_negative bounds the reduction.
ExecutePaymentReceivedTxn(r, late) ==
  LET c == calls[r] IN
  /\ c.op = "receive"
  /\ AssertCollectedTransition(c.inv, c.status)
  /\ c.row # 0
  /\ used >= FaceValue[c.inv]
  /\ invoice' = [invoice EXCEPT ![c.inv] = "collected"]
  /\ rows' = [rows EXCEPT ![c.inv][c.row] =
                [@ EXCEPT !.status = "collected", !.level = 0,
                          !.total = c.amount]]
  /\ used' = used - FaceValue[c.inv]
  /\ paymentScore' = AdjustScore(paymentScore, late)
  /\ receipts' = [receipts EXCEPT ![c.inv] = @ + 1]
  /\ calls' = [calls EXCEPT ![r] = [op |-> "jobs", inv |-> c.inv]]
  /\ UNCHANGED <<settleJobs, tries, sweep>>

\* dispatchPostPaymentJobs: settlement-initiate, and with it the repayment
\* of the facility and the supplier's mail.
DispatchPostPaymentJobs(r) ==
  /\ calls[r].op = "jobs"
  /\ settleJobs' = [settleJobs EXCEPT ![calls[r].inv] = @ + 1]
  /\ Answer(r)
  /\ UNCHANGED <<invoice, rows, used, paymentScore, receipts, tries, sweep>>

\* recordCollectionPayment: a part of the amount, by collection id.
RecordCollectionPayment(r, i, n, a) ==
  /\ rows[i][n].status # "collected"
  /\ Receive(r, [op |-> "pay", inv |-> i, row |-> n, amount |-> a])
  /\ UNCHANGED <<invoice, rows, otherVars, sweep>>

ExecuteCollectionPaymentTxn(r) ==
  LET c == calls[r] IN
  /\ c.op = "pay"
  /\ rows' = [rows EXCEPT ![c.inv][c.row].total = @ + c.amount]
  /\ Answer(r)
  /\ UNCHANGED <<invoice, otherVars, sweep>>

EscalateCollection(r, i, n) ==
  /\ rows[i][n].status # "collected"
  /\ Receive(r, [op |-> "raise", inv |-> i, row |-> n,
                 level |-> rows[i][n].level])
  /\ UNCHANGED <<invoice, rows, otherVars, sweep>>

\* The level is one above the one that was read.
ExecuteManualEscalationTxn(r) ==
  LET c   == calls[r]
      row == rows[c.inv][c.row]
      l   == IF c.level < 3 THEN c.level + 1 ELSE 3 IN
  /\ c.op = "raise"
  /\ rows' = [rows EXCEPT ![c.inv][c.row] =
                [SetLevel(row, l) EXCEPT !.sar = row.sar
                                                   \/ SarFlag(c.inv, l)]]
  /\ Answer(r)
  /\ UNCHANGED <<invoice, otherVars, sweep>>

\* The status of the row is not looked at.
DeescalateCollection(r, i, n) ==
  /\ rows[i][n].level > 0
  /\ Receive(r, [op |-> "lower", inv |-> i, row |-> n,
                 level |-> rows[i][n].level])
  /\ UNCHANGED <<invoice, rows, otherVars, sweep>>

ExecuteDeescalationTxn(r) ==
  LET c   == calls[r]
      row == rows[c.inv][c.row]
      l   == c.level - 1 IN
  /\ c.op = "lower"
  /\ rows' = [rows EXCEPT ![c.inv][c.row] =
                IF l = 0 THEN [SetLevel(row, l) EXCEPT !.status = "overdue"]
                         ELSE SetLevel(row, l)]
  /\ Answer(r)
  /\ UNCHANGED <<invoice, otherVars, sweep>>

ResolveCollectionById(r, i, n) ==
  /\ rows[i][n].status # "collected"
  /\ Receive(r, [op |-> "resolve", inv |-> i, row |-> n,
                 status |-> rows[i][n].status])
  /\ UNCHANGED <<invoice, rows, otherVars, sweep>>

\* The row's status is taken for the invoice's, except for 'escalated'; the
\* others, 'pending' and 'bad_debt', are no invoice_status and PostgreSQL
\* refuses the UPDATE.
Resolvable(s) == s \in {"overdue", "escalated"}

\* Mutant: resolving gives the buyer's limit back, as a payment does.
ResolveAndRelease(r) ==
  LET c == calls[r] IN
  /\ c.op = "resolve"
  /\ used >= FaceValue[c.inv]
  /\ used' = used - FaceValue[c.inv]
  /\ rows' = [rows EXCEPT ![c.inv][c.row].status = "collected"]
  /\ Answer(r)
  /\ UNCHANGED <<invoice, paymentScore, receipts, settleJobs, tries, sweep>>

\* No limit is released and no settlement started.
ExecuteResolveTxn(r) ==
  LET c == calls[r] IN
  /\ c.op = "resolve"
  /\ Resolvable(c.status)
  /\ rows' = [rows EXCEPT ![c.inv][c.row].status = "collected"]
  /\ invoice' = UpdateInvoiceStatus(c.inv, "collected", "overdue")
  /\ Answer(r)
  /\ UNCHANGED <<otherVars, sweep>>

\* The transaction rolls back, or the server dies before the COMMIT or after
\* it: the jobs of a committed receipt are then never enqueued.
RollbackCall(r) ==
  LET c == calls[r] IN
  /\ c.op \notin {"idle", "done"}
  /\ \/ MayFail
     \/ /\ c.op = "receive"
        /\ \/ ~ AssertCollectedTransition(c.inv, c.status)
           \/ c.row = 0
           \/ used < FaceValue[c.inv]
     \/ c.op = "resolve" /\ ~ Resolvable(c.status)
  /\ Answer(r)
  /\ UNCHANGED <<invoice, rows, otherVars, sweep>>

-----------------------------------------------------------------------------

\* One of the jobs' transactions.
SweepTxn(w) ==
  PersistCollectionStarted(w) \/ ExecuteOverdueTxn(w)
    \/ ExecuteEscalationTxn(w) \/ DefaultSingleCollection(w)

\* One of the requests' transactions, or what follows it.
CallTxn(r) ==
  \/ \E late \in LateDays : ExecutePaymentReceivedTxn(r, late)
  \/ DispatchPostPaymentJobs(r)
  \/ ExecuteCollectionPaymentTxn(r)
  \/ ExecuteManualEscalationTxn(r)
  \/ ExecuteDeescalationTxn(r)
  \/ ExecuteResolveTxn(r)

Next ==
  \/ \E w \in Sweeps :
       \/ SweepTxn(w)
       \/ RollbackSweep(w)
       \/ \E i \in Invoices :
            \/ StartCollectionMonitoring(w, i)
            \/ ProcessOverdueInvoice(w, i)
            \/ \E n \in DOMAIN rows[i] :
                 ProcessEscalation(w, i, n) \/ ProcessDefaulted(w, i, n)
  \/ \E r \in Requests :
       \/ CallTxn(r)
       \/ RollbackCall(r)
       \/ \E i \in Invoices :
            \/ \E a \in Amounts : RecordPaymentReceived(r, i, a)
            \/ \E n \in DOMAIN rows[i] :
                 \/ \E a \in Amounts : RecordCollectionPayment(r, i, n, a)
                 \/ EscalateCollection(r, i, n)
                 \/ DeescalateCollection(r, i, n)
                 \/ ResolveCollectionById(r, i, n)

\* A worker that is free again and again takes up a queued job, as long as it
\* has attempts left, and each day's overdue sweep whatever waits for it; a
\* transaction that is tried again and again commits in the end; a request is
\* carried through or given up.
Fairness ==
  /\ \A i \in Invoices :
       /\ SF_vars(\E w \in Sweeps : StartCollectionMonitoring(w, i))
       /\ SF_vars(\E w \in Sweeps : ProcessOverdueInvoice(w, i))
  /\ \A w \in Sweeps : SF_vars(SweepTxn(w)) /\ WF_vars(RollbackSweep(w))
  /\ \A r \in Requests : WF_vars(CallTxn(r)) /\ WF_vars(RollbackCall(r))

Spec == Init /\ [][Next]_vars /\ Fairness

-----------------------------------------------------------------------------
(* What must hold.                                                         *)

Final(i) == invoice[i] = "collected"

\* The race the comment on updateInvoiceStatus warns of: however many
\* payment requests, resolutions and jobs meet, an invoice has one receipt,
\* at most one settlement is started for it, and it stays collected.
OneReceipt ==
  \A i \in Invoices :
    /\ receipts[i] <= 1
    /\ settleJobs[i] <= receipts[i]
    /\ receipts[i] = 1 => Final(i) /\ rows[i] # << >>

\* checkSarFlag: no path brings a large invoice to the legal level without
\* the flag for a suspicious activity review, and nothing takes it back.
SarFlagged ==
  \A i \in Invoices : \A n \in DOMAIN rows[i] :
    /\ rows[i][n].level = 3 /\ FaceValue[i] >= AmlThreshold
         => rows[i][n].sar

\* What every state of the jobs and the requests keeps: the types of the rows
\* (the buyer's score stays between 0 and 100), the one receipt, the flag.
CollectionsSound == TypeOK /\ OneReceipt /\ SarFlagged

Rank(s) ==
  CASE s = "funded" -> 0 [] s = "collecting" -> 1 [] s = "overdue" -> 2
    [] s = "defaulted" -> 3 [] s = "collected" -> 4

\* Stale jobs and requests never take an invoice back: it only goes forward,
\* and a collected one is never overdue or in default again.
InvoiceForward ==
  [][\A i \in Invoices : Rank(invoice[i]) <= Rank(invoice'[i])]_vars

\* What a receipt promises the buyer, the facility and the supplier.
Promise == INSTANCE Repayment
  WITH paid <- {i \in Invoices : receipts[i] > 0},
       credit <- used,
       asked <- {i \in Invoices : settleJobs[i] > 0}

\* recordPaymentReceived: each invoice is paid once, its face value leaves
\* the buyer's used limit with that payment and at no other time, and only a
\* paid invoice is settled.
ImplementsRepayment == Promise!PSpec

\* startCollectionMonitoring and processOverdueInvoices: an invoice that is
\* past its due date does not stay funded or collecting for ever.
Pursued ==
  \A i \in Invoices :
    invoice[i] \in {"funded", "collecting"}
      ~> invoice[i] \in {"overdue", "defaulted", "collected"}
=============================================================================
