---------------------------- MODULE Settlements ----------------------------
(***************************************************************************)
(* Closing the books on a collected invoice: the settlement-initiate job,  *)
(* or a request, inserts the settlement; the finance team repays the       *)
(* facility, books the profit and closes it.  Every stage checks the       *)
(* status on a row it reads without a lock and writes by id, so stages of  *)
(* two requests interleave.  The queries are modelled against the columns  *)
(* they name (README: audit_logs lacks two of them).                       *)
(***************************************************************************)
EXTENDS Integers

CONSTANTS
  SettledInvoices,   \* collected invoices
  SettlementCalls,   \* HTTP requests
  Profits,           \* net profits the entered figures can come to
  SettlementAttempts \* `attempts` of a settlement-initiate job

ASSUME SettlementsAssumption ==
  /\ Profits \subseteq Int
  /\ SettlementAttempts \in Nat \ {0}

VARIABLES
  settlement,   \* the row of settlements per invoice
  booking,      \* the rows of profit_bookings per settlement, as a set
  settleJob,    \* the settlement-initiate job of each invoice
  stage,        \* what each request has read
  notices       \* settlement_complete notifications per invoice

settlementVars == <<settlement, booking, settleJob, stage, notices>>

NoSettlement == [status |-> "none"]

\* Inserted under the job's key, derived from the invoice, or a fresh one.
Settlement ==
  {NoSettlement}
    \cup [status : {"pending", "facility_repaid", "profit_booked", "closed"},
          key : {"job", "http"}, net : Int]

\* "checked" has found neither the key nor the invoice.
SettleJob == [state : {"waiting", "checked", "done", "failed"},
              attempts : 0..SettlementAttempts]

Stage ==
  [op : {"idle", "done"}]
    \cup [op : {"initiate", "repay", "book", "close", "notify"},
          inv : SettledInvoices]

SettlementsTypeOK ==
  /\ settlement \in [SettledInvoices -> Settlement]
  /\ booking \in [SettledInvoices -> SUBSET Int]
  /\ settleJob \in [SettledInvoices -> SettleJob]
  /\ stage \in [SettlementCalls -> Stage]
  /\ notices \in [SettledInvoices -> Nat]

SettlementsInit ==
  /\ settlement = [i \in SettledInvoices |-> NoSettlement]
  /\ booking = [i \in SettledInvoices |-> {}]
  /\ settleJob = [i \in SettledInvoices |->
                    [state |-> "waiting", attempts |-> 0]]
  /\ stage = [r \in SettlementCalls |-> [op |-> "idle"]]
  /\ notices = [i \in SettledInvoices |-> 0]

-----------------------------------------------------------------------------
(* The worker.                                                             *)

JobGoes(i, s) == settleJob' = [settleJob EXCEPT ![i].state = s]

\* createSettlementWithClient: uq settlements.invoice_id.
Insert(i, k) ==
  settlement' = [settlement EXCEPT ![i] =
                   [status |-> "pending", key |-> k, net |-> 0]]

\* Mutant: one attempt too many.
FailOneMore(i) ==
  settleJob' = [settleJob EXCEPT ![i] =
    [attempts |-> @.attempts + 1,
     state |-> IF @.attempts < SettlementAttempts THEN "waiting"
                                                   ELSE "failed"]]

\* A thrown error, or a worker that died: tried again until the attempts are
\* used up.
FailAttempt(i) ==
  settleJob' = [settleJob EXCEPT ![i] =
    [attempts |-> @.attempts + 1,
     state |-> IF @.attempts + 1 < SettlementAttempts THEN "waiting"
                                                       ELSE "failed"]]

\* initiateSettlement by the worker: the key's row is replayed, another row
\* of the invoice is an error.
InitiateByJob(i) ==
  /\ settleJob[i].state = "waiting"
  /\ \/ /\ settlement[i] = NoSettlement
        /\ JobGoes(i, "checked")
     \/ /\ settlement[i] # NoSettlement
        /\ settlement[i].key = "job"
        /\ JobGoes(i, "done")
     \/ /\ settlement[i] # NoSettlement
        /\ settlement[i].key = "http"
        /\ FailAttempt(i)
  /\ UNCHANGED <<settlement, booking, stage, notices>>

\* runFreshInitiateSettlement: the worker completes the job, or dies after
\* the COMMIT and finds the key the next time.
ExecuteInitiateByJob(i) ==
  /\ settleJob[i].state = "checked"
  /\ \/ /\ settlement[i] = NoSettlement
        /\ Insert(i, "job")
        /\ JobGoes(i, "done") \/ FailAttempt(i)
     \/ /\ settlement[i] # NoSettlement
        /\ FailAttempt(i)
        /\ UNCHANGED settlement
  /\ UNCHANGED <<booking, stage, notices>>

\* Mutant: the worker swallows the error and completes the job.
SwallowError(i) ==
  /\ settleJob[i].state = "checked"
  /\ JobGoes(i, "done")
  /\ UNCHANGED <<settlement, booking, stage, notices>>

\* A transaction lost before its COMMIT.
LoseAttempt(i) ==
  /\ settleJob[i].state = "checked"
  /\ FailAttempt(i)
  /\ UNCHANGED <<settlement, booking, stage, notices>>

-----------------------------------------------------------------------------
(* The finance team.                                                       *)

Enter(r, op, i) ==
  /\ stage[r].op = "idle"
  /\ stage' = [stage EXCEPT ![r] = [op |-> op, inv |-> i]]
  /\ UNCHANGED <<settlement, booking, settleJob, notices>>

Leave(r) == stage' = [stage EXCEPT ![r] = [op |-> "done"]]

\* Mutant: a repaid settlement may be closed.
AllowsEarlyClose(current, next) ==
  <<current, next>> \in {<<"pending", "facility_repaid">>,
                         <<"facility_repaid", "profit_booked">>,
                         <<"facility_repaid", "closed">>,
                         <<"profit_booked", "closed">>}

\* ALLOWED_TRANSITIONS and assertTransition.
AllowsTransition(current, next) ==
  <<current, next>> \in {<<"pending", "facility_repaid">>,
                         <<"facility_repaid", "profit_booked">>,
                         <<"profit_booked", "closed">>}

InitiateSettlement(r, i) ==
  settlement[i] = NoSettlement /\ Enter(r, "initiate", i)

RepayFacility(r, i) ==
  /\ AllowsTransition(settlement[i].status, "facility_repaid")
  /\ Enter(r, "repay", i)

BookProfit(r, i) ==
  /\ AllowsTransition(settlement[i].status, "profit_booked")
  /\ Enter(r, "book", i)

CloseSettlement(r, i) ==
  /\ AllowsTransition(settlement[i].status, "closed")
  /\ Enter(r, "close", i)

ExecuteInitiateTxn(r) ==
  /\ stage[r].op = "initiate"
  /\ settlement[stage[r].inv] = NoSettlement
  /\ Insert(stage[r].inv, "http")
  /\ Leave(r)
  /\ UNCHANGED <<booking, settleJob, notices>>

\* The entered amounts are not used again.
ExecuteRepayFacilityTxn(r) ==
  /\ stage[r].op = "repay"
  /\ settlement' = [settlement EXCEPT ![stage[r].inv].status =
                      "facility_repaid"]
  /\ Leave(r)
  /\ UNCHANGED <<booking, settleJob, notices>>

\* profit_bookings.settlement_id is unique, and its rows are immutable.
ExecuteBookProfitTxn(r, p) ==
  LET i == stage[r].inv IN
  /\ stage[r].op = "book"
  /\ booking[i] = {}
  /\ booking' = [booking EXCEPT ![i] = {p}]
  /\ settlement' = [settlement EXCEPT ![i].status = "profit_booked",
                                      ![i].net = p]
  /\ Leave(r)
  /\ UNCHANGED <<settleJob, notices>>

ExecuteCloseTxn(r) ==
  /\ stage[r].op = "close"
  /\ settlement' = [settlement EXCEPT ![stage[r].inv].status = "closed"]
  /\ stage' = [stage EXCEPT ![r].op = "notify"]
  /\ UNCHANGED <<booking, settleJob, notices>>

QueueSettlementNotification(r) ==
  /\ stage[r].op = "notify"
  /\ notices' = [notices EXCEPT ![stage[r].inv] = @ + 1]
  /\ Leave(r)
  /\ UNCHANGED <<settlement, booking, settleJob>>

\* A ROLLBACK, among others for a unique key, or a server that died.
AbandonStage(r) ==
  /\ stage[r].op \notin {"idle", "done"}
  /\ Leave(r)
  /\ UNCHANGED <<settlement, booking, settleJob, notices>>

SettlementsNext ==
  \/ \E i \in SettledInvoices :
       InitiateByJob(i) \/ ExecuteInitiateByJob(i) \/ LoseAttempt(i)
  \/ \E r \in SettlementCalls :
       \/ \E i \in SettledInvoices :
            \/ InitiateSettlement(r, i) \/ RepayFacility(r, i)
            \/ BookProfit(r, i) \/ CloseSettlement(r, i)
       \/ ExecuteInitiateTxn(r)
       \/ ExecuteRepayFacilityTxn(r)
       \/ \E p \in Profits : ExecuteBookProfitTxn(r, p)
       \/ ExecuteCloseTxn(r)
       \/ QueueSettlementNotification(r)
       \/ AbandonStage(r)

-----------------------------------------------------------------------------

\* closeSettlement: however the stages of several requests interleave, a
\* settlement that counts as booked, is closed or was announced has its
\* booking, and its net profit is the booked one.
ProfitIsBooked ==
  \A i \in SettledInvoices :
    /\ settlement[i].status \in {"profit_booked", "closed"}
         \/ notices[i] > 0 => booking[i] # {}
    /\ booking[i] # {} => booking[i] = {settlement[i].net}

\* handleSettlementJob: a collected invoice gets its settlement, from the job
\* or from a request, unless every attempt was lost; a retried job finds the
\* row it has already inserted.  (Neither is ever undone.)
SettlementStarted ==
  \A i \in SettledInvoices :
    settlement[i] # NoSettlement \/ settleJob[i].state = "failed"
=============================================================================
