------------------------------- MODULE Intake -------------------------------
(***************************************************************************)
(* An invoice on its way into the platform: the invoices service takes it  *)
(* in, directly or as a draft; verification has the buyer confirm it over  *)
(* a tokenised link, or dispute it; the risk engine's worker scores it and *)
(* asks pricing for terms.                                                 *)
(*                                                                         *)
(* A database transaction is one action, and so is a call to Redis; what a *)
(* handler read before is in `calls`, `confirm` or `scorer` while others   *)
(* run.  All invoices are one supplier's, to one buyer.                    *)
(***************************************************************************)
EXTENDS Naturals, FiniteSets

CONSTANTS
  Invoices,      \* ids of invoice rows, uuidv4() draws a fresh one
  Numbers,       \* invoice numbers of the supplier
  Number,        \* the invoice_number each row is, or will be, inserted with
  Values,        \* face values
  AmlThreshold,  \* AML_FLAG_THRESHOLD_UGX
  Available,     \* approved_limit - used_limit of the buyer
  Confirms,      \* POST /verify/:token/confirm requests
  Target,        \* the invoice whose link each request uses
  Workers,       \* score-invoice workers, one per server
  MaxAttempts,   \* `attempts` of a score-invoice job
  MayFail,       \* whether servers die or stall, and calls to Redis fail
  NoWorker, NoJob

ASSUME ConstantsAssumption ==
  /\ Number \in [Invoices -> Numbers]
  /\ Values \subseteq Nat \ {0}
  /\ AmlThreshold \in Nat /\ Available \in Nat
  /\ Target \in [Confirms -> Invoices]
  /\ MaxAttempts \in Nat \ {0}
  /\ MayFail \in BOOLEAN
  /\ NoWorker \notin Workers
  /\ NoJob \notin Confirms

VARIABLES
  status,     \* invoices.status, "none" before the row is inserted
  value,      \* invoices.face_value
  flagged,    \* invoices with aml_flagged
  efris,      \* invoices with a ura_efris_ref
  token,      \* confirmation_token_hash: none, or live or past its expiry
  confirmed,  \* invoices with buyer_confirmed_at
  disputed,   \* invoices with a row in invoice_disputes, all of them open
  calls,      \* requests that passed their checks and have yet to write
  confirm,    \* where each confirmation request stands
  job,        \* the score-invoice job each confirmation request enqueues
  scorer,     \* what each worker is doing
  score,      \* recommendation in the risk_scores row, "none" if absent
  priceJobs   \* how many price-invoice jobs were enqueued for each invoice

vars == <<status, value, flagged, efris, token, confirmed, disputed, calls,
          confirm, job, scorer, score, priceJobs>>

rowVars   == <<status, value, flagged, efris>>
buyerVars == <<token, confirmed, disputed, confirm>>
scoreVars == <<job, scorer, score, priceJobs>>

Status == {"none", "draft", "submitted", "buyer_confirmed", "scored",
           "rejected"}

\* REJECT, or one of the two recommendations that go on to pricing.
Recommendation == {"advance", "reject"}

\* What a request holds across its awaits: the invoice, and the face value
\* that submitInvoice was given or submitDraft has read.
Call == [op : {"submit", "promote"}, inv : Invoices, value : Values]
          \cup [op : {"resend", "dispute"}, inv : Invoices]

Job == [state : {"none", "waiting", "active", "done", "failed"},
        attempts : 0..MaxAttempts,
        stalled : BOOLEAN,
        owner : Workers \cup {NoWorker}]

\* "loaded" has validated the invoice, "queue" has committed the score,
\* "finish" has handed over to pricing.
Scorer == [pc : {"idle", "loaded", "queue", "finish"},
           job : Confirms \cup {NoJob}]

Idle == [pc |-> "idle", job |-> NoJob]

TypeOK ==
  /\ status \in [Invoices -> Status]
  /\ value \in [Invoices -> Values \cup {0}]
  /\ flagged \in SUBSET Invoices
  /\ efris \in SUBSET Invoices
  /\ token \in [Invoices -> {"none", "live", "expired"}]
  /\ confirmed \in SUBSET Invoices
  /\ disputed \in SUBSET Invoices
  /\ calls \in SUBSET Call
  /\ confirm \in [Confirms -> {"idle", "validated", "queue", "done"}]
  /\ job \in [Confirms -> Job]
  /\ scorer \in [Workers -> Scorer]
  /\ score \in [Invoices -> Recommendation \cup {"none"}]
  /\ priceJobs \in [Invoices -> Nat]

Init ==
  /\ status = [i \in Invoices |-> "none"]
  /\ value = [i \in Invoices |-> 0]
  /\ flagged = {}
  /\ efris = {}
  /\ token = [i \in Invoices |-> "none"]
  /\ confirmed = {}
  /\ disputed = {}
  /\ calls = {}
  /\ confirm = [c \in Confirms |-> "idle"]
  /\ job = [c \in Confirms |-> [state |-> "none", attempts |-> 0,
                               stalled |-> FALSE, owner |-> NoWorker]]
  /\ scorer = [w \in Workers |-> Idle]
  /\ score = [i \in Invoices |-> "none"]
  /\ priceJobs = [i \in Invoices |-> 0]

-----------------------------------------------------------------------------
(* The invoices service.  The supplier's KYC, the buyer's standing, the    *)
(* tenor, structuring and velocity checks can refuse any submission; a     *)
(* request they refuse writes nothing to these rows and is not shown.      *)

\* uq_invoice_supplier; findInvoiceByNumberAndSupplier sees the same rows.
NumberFree(i) ==
  \A k \in Invoices \ {i} : Number[k] = Number[i] => status[k] = "none"

\* An id no row has, and no request has drawn.
Fresh(i) == status[i] = "none" /\ \A k \in calls : k.inv # i

\* validateCreditLimit, validateForSubmit.
WithinLimit(v) == v <= Available

\* applyAmlFlagWithClient, executePromoteTransaction.
AmlFlag(i, v) == IF v > AmlThreshold THEN flagged \cup {i} ELSE flagged

SaveDraft(i, v) ==
  /\ Fresh(i)
  /\ NumberFree(i)
  /\ status' = [status EXCEPT ![i] = "draft"]
  /\ value' = [value EXCEPT ![i] = v]
  /\ UNCHANGED <<flagged, efris, calls, buyerVars, scoreVars>>

\* Mutant: the UPDATE does not look at the status.
UpdateAnyInvoice(i, v) ==
  /\ status[i] # "none"
  /\ value' = [value EXCEPT ![i] = v]
  /\ UNCHANGED <<status, flagged, efris, calls, buyerVars, scoreVars>>

\* One UPDATE ... WHERE status = 'draft'.
UpdateDraft(i, v) ==
  /\ status[i] = "draft"
  /\ value' = [value EXCEPT ![i] = v]
  /\ UNCHANGED <<status, flagged, efris, calls, buyerVars, scoreVars>>

\* submitDraft up to executePromoteTransaction: it goes on with the face
\* value it has read here.
SubmitDraft(i) ==
  /\ status[i] = "draft"
  /\ WithinLimit(value[i])
  /\ calls' = calls \cup {[op |-> "promote", inv |-> i, value |-> value[i]]}
  /\ UNCHANGED <<rowVars, buyerVars, scoreVars>>

\* The row moves only from 'draft'; the flag is set whatever its status.
PromoteToSubmitted(k) ==
  /\ k.op = "promote"
  /\ status' = IF status[k.inv] = "draft"
                 THEN [status EXCEPT ![k.inv] = "submitted"]
                 ELSE status
  /\ flagged' = AmlFlag(k.inv, k.value)
  /\ calls' = calls \ {k}
  /\ UNCHANGED <<value, efris, buyerVars, scoreVars>>

\* submitInvoice up to executeSubmitTransaction.
SubmitInvoice(i, v) ==
  /\ Fresh(i)
  /\ NumberFree(i)
  /\ WithinLimit(v)
  /\ calls' = calls \cup {[op |-> "submit", inv |-> i, value |-> v]}
  /\ UNCHANGED <<rowVars, buyerVars, scoreVars>>

\* The INSERT; the schema asks for the reference of a submission, not of a
\* draft.
CreateInvoice(k) ==
  /\ k.op = "submit"
  /\ status[k.inv] = "none"
  /\ NumberFree(k.inv)
  /\ status' = [status EXCEPT ![k.inv] = "submitted"]
  /\ value' = [value EXCEPT ![k.inv] = k.value]
  /\ flagged' = AmlFlag(k.inv, k.value)
  /\ efris' = efris \cup {k.inv}
  /\ calls' = calls \ {k}
  /\ UNCHANGED <<buyerVars, scoreVars>>

\* A transaction that rolls back, or a server that dies before it.
RollbackCall(k) ==
  /\ calls' = calls \ {k}
  /\ UNCHANGED <<rowVars, buyerVars, scoreVars>>

-----------------------------------------------------------------------------
(* The verification service.                                               *)

\* resendConfirmation up to generateConfirmationToken, its only caller.
ResendConfirmation(i) ==
  /\ status[i] = "submitted"
  /\ i \notin confirmed
  /\ calls' = calls \cup {[op |-> "resend", inv |-> i]}
  /\ UNCHANGED <<rowVars, buyerVars, scoreVars>>

\* The new hash replaces the old one: links sent before stop working.
GenerateConfirmationToken(k) ==
  /\ k.op = "resend"
  /\ token' = [token EXCEPT ![k.inv] = "live"]
  /\ calls' = calls \ {k}
  /\ UNCHANGED <<rowVars, confirmed, disputed, confirm, scoreVars>>

\* 48 hours pass.
ExpireToken(i) ==
  /\ token[i] = "live"
  /\ token' = [token EXCEPT ![i] = "expired"]
  /\ UNCHANGED <<rowVars, confirmed, disputed, confirm, calls, scoreVars>>

\* validateTokenForDispute looks at the status, not at the expiry.
RaiseDispute(i) ==
  /\ token[i] # "none"
  /\ status[i] = "submitted"
  /\ calls' = calls \cup {[op |-> "dispute", inv |-> i]}
  /\ UNCHANGED <<rowVars, buyerVars, scoreVars>>

CreateDispute(k) ==
  /\ k.op = "dispute"
  /\ disputed' = disputed \cup {k.inv}
  /\ calls' = calls \ {k}
  /\ UNCHANGED <<rowVars, token, confirmed, confirm, scoreVars>>

\* Mutant: verifyEfris is not called.
ValidateTokenOnly(c) ==
  /\ confirm[c] = "idle"
  /\ token[Target[c]] = "live"
  /\ Target[c] \notin confirmed
  /\ confirm' = [confirm EXCEPT ![c] = "validated"]
  /\ UNCHANGED <<rowVars, token, confirmed, disputed, calls, scoreVars>>

\* validateToken, then verifyEfris: the reference must be there, and URA's
\* answer does not depend on this state.
ValidateToken(c) ==
  /\ confirm[c] = "idle"
  /\ token[Target[c]] = "live"
  /\ Target[c] \notin confirmed
  /\ Target[c] \in efris
  /\ confirm' = [confirm EXCEPT ![c] = "validated"]
  /\ UNCHANGED <<rowVars, token, confirmed, disputed, calls, scoreVars>>

\* Mutant: the UPDATE relies on the check validateToken made.
ConfirmAsValidated(c) ==
  /\ confirm[c] = "validated"
  /\ status' = [status EXCEPT ![Target[c]] = "buyer_confirmed"]
  /\ confirmed' = confirmed \cup {Target[c]}
  /\ confirm' = [confirm EXCEPT ![c] = "queue"]
  /\ UNCHANGED <<value, flagged, efris, token, disputed, calls, scoreVars>>

\* confirmInvoiceWithClient: UPDATE ... WHERE buyer_confirmed_at IS NULL, and
\* a ROLLBACK when that finds no row.
RunConfirmationTx(c) ==
  /\ confirm[c] = "validated"
  /\ Target[c] \notin confirmed
  /\ status' = [status EXCEPT ![Target[c]] = "buyer_confirmed"]
  /\ confirmed' = confirmed \cup {Target[c]}
  /\ confirm' = [confirm EXCEPT ![c] = "queue"]
  /\ UNCHANGED <<value, flagged, efris, token, disputed, calls, scoreVars>>

AlreadyConfirmed(c) ==
  /\ confirm[c] = "validated"
  /\ Target[c] \in confirmed
  /\ confirm' = [confirm EXCEPT ![c] = "done"]
  /\ UNCHANGED <<rowVars, token, confirmed, disputed, calls, scoreVars>>

QueueRiskScoring(c) ==
  /\ confirm[c] = "queue"
  /\ job' = [job EXCEPT ![c].state = "waiting"]
  /\ confirm' = [confirm EXCEPT ![c] = "done"]
  /\ UNCHANGED <<rowVars, token, confirmed, disputed, calls, scorer, score,
                 priceJobs>>

\* The server dies or a call fails, before or after the COMMIT.
DropConfirmation(c) ==
  /\ MayFail
  /\ confirm[c] \in {"validated", "queue"}
  /\ confirm' = [confirm EXCEPT ![c] = "done"]
  /\ UNCHANGED <<rowVars, token, confirmed, disputed, calls, scoreVars>>

-----------------------------------------------------------------------------
(* The risk engine: scoreInvoice in a BullMQ worker.                       *)

\* Two servers may run one job: a worker whose lock expired does not notice.
Owns(w, c) == job[c].owner = w

\* Mutant: one attempt more than configured.
FailAttemptOneMore(j) ==
  [j EXCEPT !.attempts = @ + 1,
            !.state = IF j.attempts < MaxAttempts THEN "waiting" ELSE "failed",
            !.owner = NoWorker]

\* Mutant: failed attempts are not counted.
FailAttemptUncounted(j) ==
  [j EXCEPT !.state = "waiting", !.owner = NoWorker]

\* A throw: retried while attempts are left.
FailAttempt(j) ==
  [j EXCEPT !.attempts = @ + 1,
            !.state = IF j.attempts + 1 < MaxAttempts THEN "waiting"
                                                     ELSE "failed",
            !.owner = NoWorker]

\* fetchAndValidateInvoice.  Its two reads are one here: a score row that
\* appears between them is refused by the INSERT as well.
Scorable(i) == status[i] = "buyer_confirmed" /\ score[i] = "none"

ScoreInvoice(w, c) ==
  /\ scorer[w].pc = "idle"
  /\ job[c].state = "waiting"
  /\ Scorable(Target[c])
  /\ job' = [job EXCEPT ![c].state = "active", ![c].owner = w]
  /\ scorer' = [scorer EXCEPT ![w] = [pc |-> "loaded", job |-> c]]
  /\ UNCHANGED <<rowVars, buyerVars, calls, score, priceJobs>>

RefuseScoring(w, c) ==
  /\ scorer[w].pc = "idle"
  /\ job[c].state = "waiting"
  /\ ~ Scorable(Target[c])
  /\ job' = [job EXCEPT ![c] = FailAttempt(job[c])]
  /\ UNCHANGED <<rowVars, buyerVars, calls, scorer, score, priceJobs>>

\* Mutant: the INSERT overwrites a score that is there.
ScoreOverwritten(i) == TRUE

\* UNIQUE(invoice_id) of risk_scores.
ScoreFree(i) == score[i] = "none"

\* persistScoreWithClient and the status update WHERE status =
\* 'buyer_confirmed', in one transaction.  The factors decide.
PersistScore(w, rec) ==
  LET i == Target[scorer[w].job] IN
  /\ scorer[w].pc = "loaded"
  /\ ScoreFree(i)
  /\ score' = [score EXCEPT ![i] = rec]
  /\ status' = IF status[i] = "buyer_confirmed"
                 THEN [status EXCEPT ![i] = IF rec = "reject" THEN "rejected"
                                                              ELSE "scored"]
                 ELSE status
  /\ scorer' = [scorer EXCEPT ![w].pc = "queue"]
  /\ UNCHANGED <<value, flagged, efris, buyerVars, calls, job, priceJobs>>

\* queuePricing, or the rejection's notification.
QueuePricing(w) ==
  LET i == Target[scorer[w].job] IN
  /\ scorer[w].pc = "queue"
  /\ priceJobs' = IF score[i] = "reject" THEN priceJobs
                  ELSE [priceJobs EXCEPT ![i] = @ + 1]
  /\ scorer' = [scorer EXCEPT ![w].pc = "finish"]
  /\ UNCHANGED <<rowVars, buyerVars, calls, job, score>>

\* BullMQ completes the job if the worker still holds its lock.
FinishJob(w) ==
  LET c == scorer[w].job IN
  /\ scorer[w].pc = "finish"
  /\ job' = IF Owns(w, c)
              THEN [job EXCEPT ![c].state = "done", ![c].owner = NoWorker]
              ELSE job
  /\ scorer' = [scorer EXCEPT ![w] = Idle]
  /\ UNCHANGED <<rowVars, buyerVars, calls, score, priceJobs>>

Throw(w) ==
  LET c == scorer[w].job IN
  /\ job' = IF Owns(w, c) THEN [job EXCEPT ![c] = FailAttempt(job[c])] ELSE job
  /\ scorer' = [scorer EXCEPT ![w] = Idle]
  /\ UNCHANGED <<rowVars, buyerVars, calls, score, priceJobs>>

\* The INSERT hits the UNIQUE constraint and the transaction rolls back.
DuplicateScore(w) ==
  /\ scorer[w].pc = "loaded"
  /\ ~ ScoreFree(Target[scorer[w].job])
  /\ Throw(w)

\* A query or Redis fails, or the weights do not add up to 1.
ThrowInScoring(w) ==
  /\ MayFail
  /\ scorer[w].pc \in {"loaded", "queue"}
  /\ Throw(w)

CrashWorker(w) ==
  /\ MayFail
  /\ scorer[w].pc # "idle"
  /\ scorer' = [scorer EXCEPT ![w] = Idle]
  /\ UNCHANGED <<rowVars, buyerVars, calls, job, score, priceJobs>>

\* The lock of an active job expires, with its worker dead or only slow: once
\* the job is given to another worker, the second time it fails.
StallJob(c) ==
  /\ MayFail
  /\ job[c].state = "active"
  /\ job' = [job EXCEPT ![c] = [@ EXCEPT
       !.state = IF job[c].stalled THEN "failed" ELSE "waiting",
       !.stalled = TRUE,
       !.owner = NoWorker]]
  /\ UNCHANGED <<rowVars, buyerVars, calls, scorer, score, priceJobs>>

-----------------------------------------------------------------------------
SupplierStep(i) ==
  \/ SubmitDraft(i)
  \/ \E v \in Values : SaveDraft(i, v) \/ UpdateDraft(i, v)
                         \/ SubmitInvoice(i, v)

CallStep(k) ==
  \/ PromoteToSubmitted(k)
  \/ CreateInvoice(k)
  \/ GenerateConfirmationToken(k)
  \/ CreateDispute(k)
  \/ RollbackCall(k)

ConfirmStep(c) ==
  RunConfirmationTx(c) \/ AlreadyConfirmed(c) \/ QueueRiskScoring(c)

StartStep(c) == \E w \in Workers : ScoreInvoice(w, c) \/ RefuseScoring(w, c)

ScorerStep(w) ==
  \/ \E rec \in Recommendation : PersistScore(w, rec)
  \/ DuplicateScore(w)
  \/ QueuePricing(w)
  \/ FinishJob(w)

Next ==
  \/ \E i \in Invoices : SupplierStep(i) \/ ResendConfirmation(i)
                           \/ ExpireToken(i) \/ RaiseDispute(i)
  \/ \E k \in calls : CallStep(k)
  \/ \E c \in Confirms : ValidateToken(c) \/ ConfirmStep(c)
                           \/ DropConfirmation(c) \/ StartStep(c)
                           \/ StallJob(c)
  \/ \E w \in Workers : ScorerStep(w) \/ ThrowInScoring(w) \/ CrashWorker(w)

\* BullMQ's stalled check gives up on a job nobody works on any more.
Orphaned(c) == \A w \in Workers : scorer[w].job = c => ~ Owns(w, c)

\* A handler that runs goes on, workers consume, dead workers' jobs are
\* reclaimed.
Fairness ==
  /\ \A c \in Confirms : /\ WF_vars(ConfirmStep(c))
                         /\ WF_vars(StartStep(c))
                         /\ WF_vars(Orphaned(c) /\ StallJob(c))
  /\ \A w \in Workers : WF_vars(ScorerStep(w))

Spec == Init /\ [][Next]_vars /\ Fairness

-----------------------------------------------------------------------------
(* Properties.                                                             *)

\* What goes on to scoring was held against the limit and the AML threshold
\* with the face value it has, although submitDraft screens the value it has
\* read and a draft may be edited before its transaction: verifyEfris stops
\* an invoice that was a draft.
ScreenedBeforeScoring ==
  \A i \in confirmed :
    WithinLimit(value[i]) /\ (value[i] > AmlThreshold => i \in flagged)

\* However many buyers' clicks race, an invoice is confirmed by one request
\* and one score-invoice job is enqueued for it.
OneScoringJob ==
  \A c, d \in Confirms :
    (c # d /\ Target[c] = Target[d]) => "none" \in {job[c].state, job[d].state}

\* The score on record, the status it led to and the hand-over to pricing
\* agree, with two servers scoring one invoice, retries and crashes.
ScoreDecides ==
  \A i \in Invoices :
    /\ score[i] = "advance" <=> status[i] = "scored"
    /\ score[i] = "reject" <=> status[i] = "rejected"
    /\ score[i] # "none" => i \in confirmed
    /\ priceJobs[i] > 0 => score[i] = "advance"

\* A score-invoice job is not lost: the invoice gets its score or the job
\* lands in the failed set.
JobSettles ==
  \A c \in Confirms :
    job[c].state = "waiting" ~>
      (status[Target[c]] \in {"scored", "rejected"} \/ job[c].state = "failed")

Lifecycle == INSTANCE InvoiceLifecycle WITH
  stage <- status, terms <- value, asked <- priceJobs

\* Every step moves an invoice forward as InvoiceLifecycle allows, or leaves
\* its stage, its terms and the requests to pricing alone.
ImplementsLifecycle == Lifecycle!LSpec

=============================================================================
