----------------------------- MODULE Approvals ------------------------------
(***************************************************************************)
(* From scored to approved or rejected: pricing offers terms               *)
(* (src/src/services/pricing), the supplier accepts, rejects or disputes   *)
(* them, and credit officers and management approve or reject the invoice  *)
(* in one of four tiers (src/src/services/approvals).                      *)
(*                                                                         *)
(* A decision reads the invoice without a lock, then runs a transaction    *)
(* that locks the row (FOR UPDATE NOWAIT), reads the decisions made so     *)
(* far, inserts its own, enqueues jobs, and commits.  Nobody else writes   *)
(* a locked row; everybody sees the committed one.                         *)
(***************************************************************************)
EXTENDS Integers, FiniteSets

CONSTANTS
  Invoices,      \* invoice ids
  FaceValue,     \* invoices.face_value, in UGX
  Score,         \* risk_scores.final_score
  AmlFlagged,    \* invoices.aml_flagged
  Officers,      \* users allowed to decide
  Management,    \* those of them whose role is management
  Reviews,       \* approve and reject requests: the decision, by whom, on what
  Threshold,     \* risk_config tier3_auto_reject_threshold
  Faulty         \* invoices whose requests may lose Redis or the database

ASSUME ConstantsAssumption ==
  /\ FaceValue \in [Invoices -> Nat]
  /\ Score \in [Invoices -> Nat]
  /\ AmlFlagged \in [Invoices -> BOOLEAN]
  /\ Management \subseteq Officers
  /\ \A r \in Reviews : /\ r.inv \in Invoices
                        /\ r.officer \in Officers
                        /\ r.decision \in {"APPROVED", "REJECTED"}
  /\ IsFiniteSet(Reviews)
  /\ Threshold \in Nat \ {0}
  /\ Faulty \subseteq Invoices

VARIABLES
  invoice,     \* invoices.status
  terms,       \* which of pricing_{accepted,rejected,disputed}_at are set
  calls,       \* supplier requests that passed their check
  rejections,  \* invoices.tier3_rejection_count
  review,      \* where each request stands
  rows,        \* requests whose row in approvals is committed
  queued,      \* requests that enqueued a process-payment job
  notified     \* requests that enqueued an invoice-rejected notification

vars == <<invoice, terms, calls, rejections, review, rows, queued, notified>>

InvoiceStatus == {"scored", "priced", "approved", "rejected"}

Answers == {"accepted", "rejected", "disputed"}

\* The states in which a request's transaction holds the row lock: it has
\* inserted its row only, or also approved, or also rejected the invoice.
Open == {"recording", "approving", "rejecting"}

TypeOK ==
  /\ invoice \in [Invoices -> InvoiceStatus]
  /\ terms \in [Invoices -> SUBSET Answers]
  /\ calls \in SUBSET (Answers \X Invoices)
  /\ rejections \in [Invoices -> Nat]
  /\ review \in [Reviews -> {"new", "fetched", "done"} \cup Open]
  /\ rows \in SUBSET Reviews
  /\ queued \in SUBSET Reviews
  /\ notified \in SUBSET Reviews

Init ==
  /\ invoice = [i \in Invoices |-> "scored"]
  /\ terms = [i \in Invoices |-> {}]
  /\ calls = {}
  /\ rejections = [i \in Invoices |-> 0]
  /\ review = [r \in Reviews |-> "new"]
  /\ rows = {}
  /\ queued = {}
  /\ notified = {}

-----------------------------------------------------------------------------
\* determineTier.
Tier(i) ==
  IF FaceValue[i] > 200000000 \/ Score[i] < 30 THEN "TIER_4"
  ELSE IF FaceValue[i] > 50000000 \/ Score[i] < 50 THEN "TIER_3"
  ELSE IF FaceValue[i] >= 10000000 \/ Score[i] < 75 \/ AmlFlagged[i]
       THEN "TIER_2"
  ELSE "AUTO"

\* The constraint chk_approvals_tier of migration 007, which migration 013
\* does not drop when it adds approvals_tier_check.
RecordableTiers == {"AUTO", "TIER_2", "TIER_3"}

\* Mutant: the expected status is not part of the WHERE clause.
UpdateAnyStatus(i, new, expected) ==
  invoice' = [invoice EXCEPT ![i] = new]

\* repo.updateInvoiceStatus: UPDATE ... WHERE status = expected.
UpdateInvoiceStatus(i, new, expected) ==
  invoice' = [invoice EXCEPT ![i] = IF @ = expected THEN new ELSE @]

Locked(i) == \E r \in Reviews : r.inv = i /\ review[r] \in Open

\* getApprovalsByInvoiceId and countApprovals.
Existing(i) == {r \in rows : r.inv = i}
Approved(i) == {r \in Existing(i) : r.decision = "APPROVED"}
Rejected(i) == {r \in Existing(i) : r.decision = "REJECTED"}

-----------------------------------------------------------------------------
(* Pricing and the supplier's answer.                                      *)

\* persistPricing.
PriceInvoice(i) ==
  /\ invoice[i] = "scored"
  /\ invoice' = [invoice EXCEPT ![i] = "priced"]
  /\ UNCHANGED <<terms, calls, rejections, review, rows, queued, notified>>

\* What each of acceptPricing, rejectPricing and disputePricing refuses.
Refusing(answer) ==
  CASE answer = "accepted" -> {"accepted"}
    [] answer = "rejected" -> {"rejected"}
    [] answer = "disputed" -> Answers

\* fetchAndValidatePricingAcceptance: priced at some time, any status since.
SupplierCall(answer, i) ==
  /\ invoice[i] # "scored"
  /\ terms[i] \cap Refusing(answer) = {}
  /\ calls' = calls \cup {<<answer, i>>}
  /\ UNCHANGED <<invoice, terms, rejections, review, rows, queued, notified>>

\* persistAcceptance, persistRejection and persistDispute.  Their UPDATE
\* waits for the row lock; only a rejection moves the invoice, from 'priced'.
SupplierAnswer(answer, i) ==
  /\ <<answer, i>> \in calls
  /\ ~ Locked(i)
  /\ calls' = calls \ {<<answer, i>>}
  /\ terms' = [terms EXCEPT ![i] = @ \cup {answer}]
  /\ IF answer = "rejected"
     THEN UpdateInvoiceStatus(i, "rejected", "priced")
     ELSE UNCHANGED invoice
  /\ UNCHANGED <<rejections, review, rows, queued, notified>>

-----------------------------------------------------------------------------
(* Decisions.                                                              *)

\* fetchAndValidate, and the checks of the summary and the credit memo.
FetchAndValidate(r) ==
  /\ review[r] = "new"
  /\ invoice[r.inv] = "priced"
  /\ review' = [review EXCEPT ![r] = "fetched"]
  /\ UNCHANGED <<invoice, terms, calls, rejections, rows, queued, notified>>

\* Mutants: a lock that excludes nobody, a quorum of one.
LockFree(r) == r \in Reviews
QuorumOfOne(r) == r.decision = "APPROVED"

\* lockInvoiceForReview: FOR UPDATE NOWAIT.  The row's status, read with the
\* lock, is not looked at.
LockInvoice(r) == ~ Locked(r.inv)

\* validateTier3Officer and validateTier4Officer.
ValidateOfficer(r) ==
  \/ Tier(r.inv) \in {"AUTO", "TIER_2"}
  \/ Tier(r.inv) = "TIER_3" /\ r.officer \in Management
  \/ \A a \in Existing(r.inv) : a.officer # r.officer

\* The quorums of processTier3Approval and checkTier4Quorum.
QuorumReached(r) ==
  LET total == Cardinality(Approved(r.inv)) + 1 IN
  CASE Tier(r.inv) \in {"AUTO", "TIER_2"} -> TRUE
    [] Tier(r.inv) = "TIER_3" -> total >= 2
    [] Tier(r.inv) = "TIER_4" -> total >= 2 /\ r.officer \in Management

\* Mutant: the job is left for after the commit, and lost.
ProcessWithoutQueue(r) ==
  /\ review[r] = "fetched"
  /\ r.decision = "APPROVED"
  /\ LockInvoice(r)
  /\ ValidateOfficer(r)
  /\ review' = [review EXCEPT
                  ![r] = IF QuorumReached(r) THEN "approving" ELSE "recording"]
  /\ UNCHANGED <<invoice, terms, calls, rejections, rows, queued, notified>>

\* executeApproval up to its COMMIT.  approveAndQueuePayment enqueues the
\* job inside the transaction, whether or not its UPDATE found the invoice
\* 'priced'.
ProcessApproval(r) ==
  /\ review[r] = "fetched"
  /\ r.decision = "APPROVED"
  /\ LockInvoice(r)
  /\ ValidateOfficer(r)
  /\ Tier(r.inv) \in RecordableTiers
  /\ review' = [review EXCEPT
                  ![r] = IF QuorumReached(r) THEN "approving" ELSE "recording"]
  /\ queued' = IF QuorumReached(r) THEN queued \cup {r} ELSE queued
  /\ UNCHANGED <<invoice, terms, calls, rejections, rows, notified>>

\* Mutant: the threshold is compared with the count to come.
RejectsEarly(r) ==
  Tier(r.inv) = "TIER_3" => rejections[r.inv] + 2 >= Threshold

\* handleTier3Rejection.
RejectsInvoice(r) ==
  Tier(r.inv) = "TIER_3" => rejections[r.inv] + 1 >= Threshold

\* executeRejection up to its COMMIT.
ProcessRejection(r) ==
  /\ review[r] = "fetched"
  /\ r.decision = "REJECTED"
  /\ LockInvoice(r)
  /\ Tier(r.inv) \in RecordableTiers
  /\ review' = [review EXCEPT
                  ![r] = IF RejectsInvoice(r) THEN "rejecting" ELSE "recording"]
  /\ notified' = IF RejectsInvoice(r) THEN notified \cup {r} ELSE notified
  /\ UNCHANGED <<invoice, terms, calls, rejections, rows, queued>>

\* Mutant: only a decision that moves the invoice is committed.
CommitQuorumOnly(r) ==
  /\ review[r] \in Open
  /\ review' = [review EXCEPT ![r] = "done"]
  /\ rows' = IF review[r] = "recording" THEN rows ELSE rows \cup {r}
  /\ IF review[r] = "approving"
     THEN UpdateInvoiceStatus(r.inv, "approved", "priced")
     ELSE UNCHANGED invoice
  /\ UNCHANGED <<terms, calls, rejections, queued, notified>>

\* The COMMIT makes the row, the Tier 3 counter and the status visible.
CommitDecision(r) ==
  /\ review[r] \in Open
  /\ review' = [review EXCEPT ![r] = "done"]
  /\ rows' = rows \cup {r}
  /\ CASE review[r] = "approving" ->
            UpdateInvoiceStatus(r.inv, "approved", "priced")
       [] review[r] = "rejecting" ->
            UpdateInvoiceStatus(r.inv, "rejected", "priced")
       [] review[r] = "recording" -> UNCHANGED invoice
  /\ rejections' = IF r.decision = "REJECTED" /\ Tier(r.inv) = "TIER_3"
                   THEN [rejections EXCEPT ![r.inv] = @ + 1]
                   ELSE rejections
  /\ UNCHANGED <<terms, calls, queued, notified>>

\* The request ends in an error before it wrote anything: the row is locked,
\* the officer or the tier is refused, or the database failed.
RefuseDecision(r) ==
  /\ review[r] = "fetched"
  /\ \/ Locked(r.inv)
     \/ r.decision = "APPROVED" /\ ~ ValidateOfficer(r)
     \/ Tier(r.inv) \notin RecordableTiers
     \/ r.inv \in Faulty
  /\ review' = [review EXCEPT ![r] = "done"]
  /\ UNCHANGED <<invoice, terms, calls, rejections, rows, queued, notified>>

\* ROLLBACK, or the connection is lost; the jobs stay in Redis.
RollbackDecision(r) ==
  /\ r.inv \in Faulty
  /\ review[r] \in Open
  /\ review' = [review EXCEPT ![r] = "done"]
  /\ UNCHANGED <<invoice, terms, calls, rejections, rows, queued, notified>>

\* Mutant: a reset forgives one rejection.
ForgiveOneRejection(i) ==
  /\ ~ Locked(i)
  /\ rejections' = [rejections EXCEPT ![i] = @ - 1]
  /\ UNCHANGED <<invoice, terms, calls, review, rows, queued, notified>>

\* resetTier3RejectionCount: waits for the row lock.
ResetTier3RejectionCount(i) ==
  /\ ~ Locked(i)
  /\ rejections' = [rejections EXCEPT ![i] = 0]
  /\ UNCHANGED <<invoice, terms, calls, review, rows, queued, notified>>

-----------------------------------------------------------------------------
DecisionStep(r) ==
  \/ ProcessApproval(r)
  \/ ProcessRejection(r)
  \/ CommitDecision(r)
  \/ RefuseDecision(r)

Next ==
  \/ \E i \in Invoices : \/ PriceInvoice(i)
                         \/ \E a \in Answers : \/ SupplierCall(a, i)
                                               \/ SupplierAnswer(a, i)
                         \/ ResetTier3RejectionCount(i)
  \/ \E r \in Reviews : \/ FetchAndValidate(r)
                        \/ DecisionStep(r)
                        \/ RollbackDecision(r)

\* A request that started runs to its end.
Fairness == \A r \in Reviews : WF_vars(DecisionStep(r))

Spec == Init /\ [][Next]_vars /\ Fairness

-----------------------------------------------------------------------------
(* Properties.                                                             *)

\* An approved invoice has the signatures its tier asks for: at Tier 3 two
\* approvals, by two people unless management signed.  (executeApproval
\* counts rows it reads after the lock, from a tier it chose before it.)
ApprovedByQuorum ==
  \A i \in Invoices : invoice[i] = "approved" =>
    /\ Approved(i) # {}
    /\ Tier(i) = "TIER_3" =>
         \E a, b \in Approved(i) :
           a # b /\ (a.officer # b.officer \/ a.officer \in Management)

\* At Tier 3 no credit officer approves an invoice twice, not even with two
\* requests that were both let in while no decision existed.
OneApprovalPerOfficer ==
  \A i \in Invoices : \A a, b \in Approved(i) :
    (Tier(i) = "TIER_3" /\ a # b /\ a.officer = b.officer)
      => a.officer \in Management

\* A rejected invoice was rejected by its supplier, or the supplier is told
\* and there is a rejection on record, at Tier 3 as many as the threshold
\* asks for.  (handleTier3Rejection compares the counter, which
\* resetTier3RejectionCount clears; rejectAndNotify tells the supplier.)
RejectedWithGrounds ==
  \A i \in Invoices : invoice[i] = "rejected" =>
    \/ "rejected" \in terms[i]
    \/ /\ \E r \in notified : r.inv = i
       /\ \/ Tier(i) # "TIER_3" /\ Rejected(i) # {}
          \/ Cardinality(Rejected(i)) >= Threshold

\* Approval and rejection are final, although a decision or a supplier's
\* answer may come from a request that saw the invoice 'priced'.
DecisionIsFinal ==
  [][\A i \in Invoices :
       invoice[i] \in {"approved", "rejected"} => invoice'[i] = invoice[i]]_vars

\* An approve or reject request that was let in leads to a recorded decision
\* on the invoice, as long as Redis and the database answer: a request that
\* FOR UPDATE NOWAIT refuses is refused for the sake of another.
DecisionLands ==
  \A r \in {q \in Reviews : q.inv \notin Faulty} :
    review[r] = "fetched" ~> Existing(r.inv) # {}

Promise == INSTANCE Handoff WITH
  enqueued <- {r.inv : r \in queued},
  approved <- {i \in Invoices : invoice[i] = "approved"}

\* Payments gets what it relies on: no invoice is approved without its
\* process-payment job in the queue, whatever rolls back.
ImplementsHandoff == Promise!HSpec

=============================================================================
