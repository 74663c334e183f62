-------------------------- MODULE ApprovalsProofs ---------------------------
(***************************************************************************)
(* Approvals, for every set of invoices, officers and requests: the typing *)
(* of the state, the quorum rules, the finality of decisions and the       *)
(* refinement of Handoff.                                                  *)
(***************************************************************************)
EXTENDS Approvals, FiniteSetTheorems, TLAPS

\* At most one transaction holds the lock of an invoice.
Exclusive ==
  \A r, s \in Reviews :
    (review[r] \in Open /\ review[s] \in Open /\ r.inv = s.inv) => r = s

\* Rows belong to requests that have ended.
RowShape == \A r \in rows : review[r] = "done"

\* What an approving transaction found under its lock stays true: it has
\* enqueued the job, and at Tier 3 there is another signature to go with its
\* own.
ApprovingShape ==
  \A r \in Reviews : review[r] = "approving" =>
    /\ r.decision = "APPROVED"
    /\ r \in queued
    /\ Tier(r.inv) = "TIER_3" =>
         \E a \in Approved(r.inv) :
           a.officer # r.officer \/ a.officer \in Management

\* So does what any approval found: no decision by the same officer.
SignerShape ==
  \A r \in Reviews :
    (/\ review[r] \in Open
     /\ r.decision = "APPROVED"
     /\ Tier(r.inv) = "TIER_3"
     /\ r.officer \notin Management) =>
      \A a \in Existing(r.inv) : a.officer # r.officer

\* A rejecting transaction has grounds to reject, and has told the supplier.
RejectingShape ==
  \A r \in Reviews : review[r] = "rejecting" =>
    /\ r.decision = "REJECTED"
    /\ r \in notified
    /\ Tier(r.inv) = "TIER_3" => rejections[r.inv] + 1 >= Threshold

\* The counter never exceeds the rejections on record.
CounterShape ==
  \A i \in Invoices : rejections[i] <= Cardinality(Rejected(i))

\* An approved invoice has a job.
JobShape ==
  \A i \in Invoices : invoice[i] = "approved" => \E r \in queued : r.inv = i

Inv ==
  /\ TypeOK
  /\ Exclusive
  /\ RowShape
  /\ ApprovingShape
  /\ SignerShape
  /\ RejectingShape
  /\ CounterShape
  /\ JobShape
  /\ ApprovedByQuorum
  /\ OneApprovalPerOfficer
  /\ RejectedWithGrounds

\* Decisions are finite in number, and counting them is counting in Nat.
LEMMA FiniteRows ==
  ASSUME TypeOK, NEW i \in Invoices
  PROVE  /\ IsFiniteSet(Approved(i)) /\ Cardinality(Approved(i)) \in Nat
         /\ IsFiniteSet(Rejected(i)) /\ Cardinality(Rejected(i)) \in Nat
<1>1. Approved(i) \in SUBSET Reviews /\ Rejected(i) \in SUBSET Reviews
  BY DEF TypeOK, Approved, Rejected, Existing
<1> QED BY <1>1, FS_Subset, FS_CardinalityType, ConstantsAssumption

\* The initial state satisfies the invariant.
LEMMA InitInv == Init => Inv
<1> SUFFICES ASSUME Init PROVE Inv
  OBVIOUS
<1>1. TypeOK
  BY DEF Init, TypeOK, InvoiceStatus, Open
<1>2. \A i \in Invoices : Rejected(i) = {}
  BY DEF Init, Rejected, Existing
<1>3. CounterShape
  BY <1>2, FS_EmptySet DEF Init, CounterShape
<1>4. Exclusive /\ RowShape /\ ApprovingShape /\ SignerShape /\ RejectingShape
  BY DEF Init, Exclusive, RowShape, ApprovingShape, SignerShape,
         RejectingShape, Open
<1>5. JobShape /\ ApprovedByQuorum /\ RejectedWithGrounds
  BY DEF Init, JobShape, ApprovedByQuorum, RejectedWithGrounds
<1>6. OneApprovalPerOfficer
  BY DEF Init, OneApprovalPerOfficer, Approved, Existing
<1> QED BY <1>1, <1>3, <1>4, <1>5, <1>6 DEF Inv

\* What a step that writes no row leaves alone.
LEMMA SameRows ==
  ASSUME rows' = rows
  PROVE  \A i \in Invoices : /\ Existing(i)' = Existing(i)
                             /\ Approved(i)' = Approved(i)
                             /\ Rejected(i)' = Rejected(i)
  BY DEF Existing, Approved, Rejected

\* The tier of an invoice does not change.
LEMMA SameTier == \A i \in Invoices : Tier(i)' = Tier(i)
  BY DEF Tier

\* priceInvoice preserves the invariant.
LEMMA PriceInvoiceStep ==
  ASSUME Inv, NEW i \in Invoices, PriceInvoice(i) PROVE Inv'
<1> USE DEF PriceInvoice, Inv
<1>1. TypeOK'
  BY DEF TypeOK, InvoiceStatus
<1>2. (Exclusive /\ RowShape /\ ApprovingShape /\ SignerShape /\ RejectingShape
        /\ CounterShape /\ OneApprovalPerOfficer)'
  BY SameRows, SameTier, ConstantsAssumption
     DEF Exclusive, RowShape, ApprovingShape, SignerShape, RejectingShape,
         CounterShape, OneApprovalPerOfficer
<1>3. \A k \in Invoices : invoice'[k] \in {"approved", "rejected"} =>
        invoice[k] = invoice'[k]
  BY DEF TypeOK
<1>4. (JobShape /\ ApprovedByQuorum /\ RejectedWithGrounds)'
  BY <1>3, SameRows, SameTier
     DEF JobShape, ApprovedByQuorum, RejectedWithGrounds
<1> QED BY <1>1, <1>2, <1>4

\* So do the steps that touch nothing the invariant is about.
LEMMA AsideStep ==
  ASSUME Inv, UNCHANGED <<invoice, terms, rejections, review, rows, queued,
                          notified>>,
         calls' \in SUBSET (Answers \X Invoices)
  PROVE  Inv'
<1> USE DEF Inv
<1>1. TypeOK'
  BY DEF TypeOK
<1>2. (Exclusive /\ RowShape /\ ApprovingShape /\ SignerShape /\ RejectingShape
        /\ CounterShape /\ OneApprovalPerOfficer)'
  BY SameRows, SameTier, ConstantsAssumption
     DEF Exclusive, RowShape, ApprovingShape, SignerShape, RejectingShape,
         CounterShape, OneApprovalPerOfficer
<1>3. (JobShape /\ ApprovedByQuorum /\ RejectedWithGrounds)'
  BY SameRows, SameTier DEF JobShape, ApprovedByQuorum, RejectedWithGrounds
<1> QED BY <1>1, <1>2, <1>3

\* A supplier's answer preserves the invariant.
LEMMA SupplierAnswerStep ==
  ASSUME Inv, NEW a \in Answers, NEW i \in Invoices, SupplierAnswer(a, i)
  PROVE  Inv'
<1> USE DEF SupplierAnswer, Inv
<1>1. invoice' \in [Invoices -> InvoiceStatus]
  BY DEF TypeOK, InvoiceStatus, UpdateInvoiceStatus
<1>2. TypeOK'
  BY <1>1 DEF TypeOK
<1>3. (Exclusive /\ RowShape /\ ApprovingShape /\ SignerShape /\ RejectingShape
        /\ CounterShape /\ OneApprovalPerOfficer)'
  BY SameRows, SameTier, ConstantsAssumption
     DEF Exclusive, RowShape, ApprovingShape, SignerShape, RejectingShape,
         CounterShape, OneApprovalPerOfficer
<1>4. \A k \in Invoices :
        /\ invoice'[k] = "approved" => invoice[k] = "approved"
        /\ invoice'[k] = "rejected" =>
             invoice[k] = "rejected" \/ "rejected" \in terms'[k]
        /\ terms[k] \subseteq terms'[k]
  BY DEF TypeOK, UpdateInvoiceStatus
<1>5. (JobShape /\ ApprovedByQuorum)'
  BY <1>4, SameRows, SameTier DEF JobShape, ApprovedByQuorum
<1>6. RejectedWithGrounds'
  BY <1>4, SameRows, SameTier DEF RejectedWithGrounds
<1> QED BY <1>2, <1>3, <1>5, <1>6

\* A request that is let in, or ends without a row, preserves the invariant.
LEMMA ReviewOnly ==
  ASSUME Inv, NEW r \in Reviews, NEW s \in {"fetched", "done"},
         review' = [review EXCEPT ![r] = s],
         s = "fetched" => review[r] = "new",
         UNCHANGED <<invoice, terms, calls, rejections, rows, queued, notified>>
  PROVE  Inv'
<1> USE DEF Inv
<1>1. TypeOK'
  BY DEF TypeOK
<1>2. \A q \in Reviews : review'[q] \in Open => review'[q] = review[q]
  BY DEF TypeOK, Open
<1>3. Exclusive'
  BY <1>2 DEF Exclusive
<1>4. RowShape'
  BY DEF RowShape, TypeOK
<1>5. ApprovingShape'
  BY <1>2, SameRows, SameTier, ConstantsAssumption DEF ApprovingShape, Open
<1>6. SignerShape'
  BY <1>2, SameRows, SameTier, ConstantsAssumption DEF SignerShape
<1>7. RejectingShape'
  BY <1>2, SameRows, SameTier, ConstantsAssumption DEF RejectingShape, Open
<1>8. (CounterShape /\ OneApprovalPerOfficer /\ JobShape /\ ApprovedByQuorum
        /\ RejectedWithGrounds)'
  BY SameRows, SameTier
     DEF CounterShape, OneApprovalPerOfficer, JobShape, ApprovedByQuorum,
         RejectedWithGrounds
<1> QED BY <1>1, <1>3, <1>4, <1>5, <1>6, <1>7, <1>8

\* With the lock free, no other transaction on the invoice is open.
LEMMA Unlocked ==
  ASSUME NEW r \in Reviews, LockInvoice(r), NEW q \in Reviews,
         review[q] \in Open
  PROVE  q.inv # r.inv
  BY DEF LockInvoice, Locked

\* The steps that open a transaction preserve what does not depend on it.
LEMMA OpenStep ==
  ASSUME Inv, NEW r \in Reviews, NEW s \in Open,
         review[r] = "fetched", LockInvoice(r),
         review' = [review EXCEPT ![r] = s],
         queued \subseteq queued', queued' \subseteq Reviews,
         notified \subseteq notified', notified' \subseteq Reviews,
         UNCHANGED <<invoice, terms, calls, rejections, rows>>
  PROVE  /\ TypeOK' /\ Exclusive' /\ RowShape' /\ CounterShape' /\ JobShape'
         /\ ApprovedByQuorum' /\ OneApprovalPerOfficer' /\ RejectedWithGrounds'
         /\ \A q \in Reviews \ {r} : review'[q] = review[q]
         /\ review'[r] = s
<1> USE DEF Inv
<1>1. TypeOK'
  BY DEF TypeOK
<1>2. /\ \A q \in Reviews \ {r} : review'[q] = review[q]
      /\ review'[r] = s
  BY DEF TypeOK
<1>3. Exclusive'
  BY <1>2, Unlocked DEF Exclusive
<1>4. RowShape'
  BY <1>2 DEF RowShape, TypeOK
<1>5. (CounterShape /\ OneApprovalPerOfficer /\ JobShape /\ ApprovedByQuorum
        /\ RejectedWithGrounds)'
  BY SameRows, SameTier
     DEF CounterShape, OneApprovalPerOfficer, JobShape, ApprovedByQuorum,
         RejectedWithGrounds
<1> QED BY <1>1, <1>2, <1>3, <1>4, <1>5

\* executeApproval up to its COMMIT preserves the invariant: at Tier 3 a
\* quorum means that another signature is on record.
LEMMA ProcessApprovalStep ==
  ASSUME Inv, NEW r \in Reviews, ProcessApproval(r) PROVE Inv'
<1> DEFINE s == IF QuorumReached(r) THEN "approving" ELSE "recording"
<1>1. /\ review[r] = "fetched" /\ LockInvoice(r) /\ r.decision = "APPROVED"
      /\ ValidateOfficer(r) /\ r.inv \in Invoices
      /\ review' = [review EXCEPT ![r] = s]
      /\ queued' = IF QuorumReached(r) THEN queued \cup {r} ELSE queued
      /\ UNCHANGED <<invoice, terms, calls, rejections, rows, notified>>
  BY ConstantsAssumption DEF ProcessApproval
<1>2. s \in Open /\ s # "rejecting"
  BY DEF Open
<1>3. s = "approving" => QuorumReached(r) /\ r \in queued'
  BY <1>1
<1>4. queued \subseteq queued' /\ queued' \subseteq Reviews
      /\ notified \subseteq notified' /\ notified' \subseteq Reviews
  BY <1>1 DEF Inv, TypeOK
<1> HIDE DEF s
<1>5. /\ TypeOK' /\ Exclusive' /\ RowShape' /\ CounterShape' /\ JobShape'
      /\ ApprovedByQuorum' /\ OneApprovalPerOfficer' /\ RejectedWithGrounds'
      /\ \A q \in Reviews \ {r} : review'[q] = review[q]
      /\ review'[r] = s
  BY <1>1, <1>2, <1>4, OpenStep
<1>6. ASSUME Tier(r.inv) = "TIER_3", QuorumReached(r)
      PROVE  \E a \in Approved(r.inv) :
               a.officer # r.officer \/ a.officer \in Management
  <2>1. Cardinality(Approved(r.inv)) + 1 >= 2
    BY <1>6 DEF QuorumReached
  <2>2. Approved(r.inv) # {}
    BY <2>1, FS_EmptySet
  <2>3. PICK a \in Approved(r.inv) : TRUE
    BY <2>2
  <2>4. a \in Existing(r.inv)
    BY <2>3 DEF Approved
  <2>5. r.officer \in Management \/ a.officer # r.officer
    BY <1>1, <1>6, <2>4 DEF ValidateOfficer
  <2> QED BY <2>3, <2>5
<1>7. ApprovingShape'
  <2> SUFFICES ASSUME NEW q \in Reviews, review'[q] = "approving"
               PROVE  /\ q.decision = "APPROVED"
                      /\ q \in queued'
                      /\ Tier(q.inv) = "TIER_3" =>
                           \E a \in Approved(q.inv) :
                             a.officer # q.officer \/ a.officer \in Management
    BY <1>1, SameRows, SameTier, ConstantsAssumption DEF ApprovingShape
  <2>1. CASE q = r
    BY <1>1, <1>3, <1>5, <1>6, <2>1
  <2>2. CASE q # r
    BY <1>4, <1>5, <2>2 DEF Inv, ApprovingShape
  <2> QED BY <2>1, <2>2
<1>8. SignerShape'
  <2> SUFFICES ASSUME NEW q \in Reviews, review'[q] \in Open,
                      q.decision = "APPROVED", Tier(q.inv) = "TIER_3",
                      q.officer \notin Management,
                      NEW a \in Existing(q.inv)
               PROVE  a.officer # q.officer
    BY <1>1, SameRows, SameTier, ConstantsAssumption DEF SignerShape
  <2>1. CASE q = r
    BY <1>1, <2>1 DEF ValidateOfficer
  <2>2. CASE q # r
    BY <1>5, <2>2 DEF Inv, SignerShape
  <2> QED BY <2>1, <2>2
<1>9. RejectingShape'
  <2>1. \A q \in Reviews : review'[q] = "rejecting" => review[q] = "rejecting"
    BY <1>2, <1>5
  <2> QED BY <1>1, <2>1, SameTier, ConstantsAssumption DEF Inv, RejectingShape
<1> QED BY <1>5, <1>7, <1>8, <1>9 DEF Inv

\* executeRejection up to its COMMIT preserves the invariant.
LEMMA ProcessRejectionStep ==
  ASSUME Inv, NEW r \in Reviews, ProcessRejection(r) PROVE Inv'
<1> DEFINE s == IF RejectsInvoice(r) THEN "rejecting" ELSE "recording"
<1>1. /\ review[r] = "fetched" /\ LockInvoice(r) /\ r.decision = "REJECTED"
      /\ r.inv \in Invoices
      /\ review' = [review EXCEPT ![r] = s]
      /\ UNCHANGED <<invoice, terms, calls, rejections, rows, queued>>
      /\ notified' = IF RejectsInvoice(r) THEN notified \cup {r} ELSE notified
  BY ConstantsAssumption DEF ProcessRejection
<1>2. s \in Open /\ s # "approving"
  BY DEF Open
<1>3. s = "rejecting" => RejectsInvoice(r) /\ r \in notified'
  BY <1>1
<1>4. /\ queued \subseteq queued' /\ queued' \subseteq Reviews
      /\ notified \subseteq notified' /\ notified' \subseteq Reviews
  BY <1>1 DEF Inv, TypeOK
<1> HIDE DEF s
<1>5. /\ TypeOK' /\ Exclusive' /\ RowShape' /\ CounterShape' /\ JobShape'
      /\ ApprovedByQuorum' /\ OneApprovalPerOfficer' /\ RejectedWithGrounds'
      /\ \A q \in Reviews \ {r} : review'[q] = review[q]
      /\ review'[r] = s
  BY <1>1, <1>2, <1>4, OpenStep
<1>6. ApprovingShape'
  <2>1. \A q \in Reviews : review'[q] = "approving" => review[q] = "approving"
    BY <1>2, <1>5
  <2> QED BY <1>1, <2>1, SameRows, SameTier, ConstantsAssumption
          DEF Inv, ApprovingShape
<1>7. SignerShape'
  <2>1. \A q \in Reviews : (review'[q] \in Open /\ q.decision = "APPROVED")
                             => review[q] \in Open
    BY <1>1, <1>5
  <2> QED BY <1>1, <2>1, SameRows, SameTier, ConstantsAssumption
          DEF Inv, SignerShape
<1>8. RejectingShape'
  <2> SUFFICES ASSUME NEW q \in Reviews, review'[q] = "rejecting"
               PROVE  /\ q.decision = "REJECTED"
                      /\ q \in notified'
                      /\ Tier(q.inv) = "TIER_3" =>
                           rejections[q.inv] + 1 >= Threshold
    BY <1>1, SameTier, ConstantsAssumption DEF RejectingShape
  <2>1. CASE q = r
    BY <1>1, <1>3, <1>5, <2>1 DEF RejectsInvoice
  <2>2. CASE q # r
    BY <1>4, <1>5, <2>2 DEF Inv, RejectingShape
  <2> QED BY <2>1, <2>2
<1> QED BY <1>5, <1>6, <1>7, <1>8 DEF Inv

\* What the commit of a decision does to the records of each invoice.
LEMMA CommitRows ==
  ASSUME Inv, NEW r \in Reviews, CommitDecision(r), NEW k \in Invoices
  PROVE  /\ r \notin rows
         /\ k # r.inv => Existing(k)' = Existing(k)
         /\ Existing(k) \subseteq Existing(k)'
         /\ Existing(k)' \subseteq Existing(k) \cup {r}
         /\ Approved(k)' = IF k = r.inv /\ r.decision = "APPROVED"
                           THEN Approved(k) \cup {r} ELSE Approved(k)
         /\ Rejected(k)' = IF k = r.inv /\ r.decision = "REJECTED"
                           THEN Rejected(k) \cup {r} ELSE Rejected(k)
<1>1. rows' = rows \cup {r} /\ review[r] \in Open
  BY DEF CommitDecision
<1>2. r \notin rows
  BY <1>1 DEF Inv, RowShape, Open
<1> QED BY <1>1, <1>2 DEF Existing, Approved, Rejected

\* What it does to the status and to the counter of each invoice.
LEMMA CommitEffect ==
  ASSUME Inv, NEW r \in Reviews, CommitDecision(r), NEW k \in Invoices
  PROVE  /\ invoice'[k] = "approved" =>
              invoice[k] = "approved" \/ (k = r.inv /\ review[r] = "approving")
         /\ invoice'[k] = "rejected" =>
              invoice[k] = "rejected" \/ (k = r.inv /\ review[r] = "rejecting")
         /\ rejections'[k] =
              IF k = r.inv /\ r.decision = "REJECTED" /\ Tier(k) = "TIER_3"
              THEN rejections[k] + 1 ELSE rejections[k]
         /\ invoice' \in [Invoices -> InvoiceStatus]
         /\ rejections' \in [Invoices -> Nat]
<1> USE DEF Inv, TypeOK
<1>1. rejections' = IF r.decision = "REJECTED" /\ Tier(r.inv) = "TIER_3"
                    THEN [rejections EXCEPT ![r.inv] = @ + 1]
                    ELSE rejections
  BY DEF CommitDecision
<1>2. \/ review[r] = "approving"
         /\ UpdateInvoiceStatus(r.inv, "approved", "priced")
      \/ review[r] = "rejecting"
         /\ UpdateInvoiceStatus(r.inv, "rejected", "priced")
      \/ UNCHANGED invoice
  BY DEF CommitDecision, Open
<1>3. /\ invoice'[k] = "approved" =>
           invoice[k] = "approved" \/ (k = r.inv /\ review[r] = "approving")
      /\ invoice'[k] = "rejected" =>
           invoice[k] = "rejected" \/ (k = r.inv /\ review[r] = "rejecting")
      /\ invoice' \in [Invoices -> InvoiceStatus]
  BY <1>2 DEF UpdateInvoiceStatus, InvoiceStatus
<1> QED BY <1>1, <1>3, ConstantsAssumption

\* The COMMIT of a decision preserves the invariant.
LEMMA CommitDecisionStep ==
  ASSUME Inv, NEW r \in Reviews, CommitDecision(r) PROVE Inv'
<1>1. /\ review[r] \in Open /\ r.inv \in Invoices
      /\ review' = [review EXCEPT ![r] = "done"]
      /\ rows' = rows \cup {r}
      /\ UNCHANGED <<terms, calls, queued, notified>>
  BY ConstantsAssumption DEF CommitDecision
<1>2. TypeOK'
  BY <1>1, CommitEffect DEF Inv, TypeOK
<1>3. \A q \in Reviews :
        /\ review'[q] \in Open => q # r /\ review'[q] = review[q]
        /\ q # r => review'[q] = review[q]
  BY <1>1 DEF Inv, TypeOK, Open
<1>4. \A q \in Reviews : review'[q] \in Open => q.inv # r.inv
  BY <1>1, <1>3 DEF Inv, Exclusive
<1>5. Exclusive'
  BY <1>3 DEF Inv, Exclusive
<1>6. RowShape'
  BY <1>1, <1>3 DEF Inv, RowShape, TypeOK
<1>7. ApprovingShape'
  <2> SUFFICES ASSUME NEW q \in Reviews, review'[q] = "approving"
               PROVE  /\ q.decision = "APPROVED"
                      /\ q \in queued
                      /\ Tier(q.inv) = "TIER_3" =>
                           \E a \in Approved(q.inv)' :
                             a.officer # q.officer \/ a.officer \in Management
    BY <1>1, SameTier, ConstantsAssumption DEF ApprovingShape
  <2>1. review[q] = "approving"
    BY <1>3 DEF Open
  <2>2. Approved(q.inv) \subseteq Approved(q.inv)'
    BY CommitRows, ConstantsAssumption
  <2> QED BY <2>1, <2>2 DEF Inv, ApprovingShape
<1>8. SignerShape'
  <2> SUFFICES ASSUME NEW q \in Reviews, review'[q] \in Open,
                      q.decision = "APPROVED", Tier(q.inv) = "TIER_3",
                      q.officer \notin Management,
                      NEW a \in Existing(q.inv)'
               PROVE  a.officer # q.officer
    BY SameTier, ConstantsAssumption DEF SignerShape
  <2>1. a \in Existing(q.inv) /\ review[q] \in Open
    BY <1>3, <1>4, CommitRows, ConstantsAssumption
  <2> QED BY <2>1 DEF Inv, SignerShape
<1>9. RejectingShape'
  <2> SUFFICES ASSUME NEW q \in Reviews, review'[q] = "rejecting"
               PROVE  /\ q.decision = "REJECTED"
                      /\ q \in notified
                      /\ Tier(q.inv) = "TIER_3" =>
                           rejections'[q.inv] + 1 >= Threshold
    BY <1>1, SameTier, ConstantsAssumption DEF RejectingShape
  <2>1. review[q] = "rejecting" /\ q.inv # r.inv
    BY <1>3, <1>4 DEF Open
  <2>2. rejections'[q.inv] = rejections[q.inv]
    BY <2>1, CommitEffect, ConstantsAssumption
  <2> QED BY <2>1, <2>2 DEF Inv, RejectingShape
<1>10. \A k \in Invoices :
         /\ Cardinality(Rejected(k)) \in Nat
         /\ Cardinality(Rejected(k)') =
              IF k = r.inv /\ r.decision = "REJECTED"
              THEN Cardinality(Rejected(k)) + 1 ELSE Cardinality(Rejected(k))
  <2> TAKE k \in Invoices
  <2>1. IsFiniteSet(Rejected(k)) /\ Cardinality(Rejected(k)) \in Nat
    BY FiniteRows DEF Inv
  <2>2. r \notin Rejected(k)
    BY CommitRows DEF Rejected, Existing
  <2> QED BY <2>1, <2>2, CommitRows, FS_AddElement
<1>11. CounterShape'
  <2> SUFFICES ASSUME NEW k \in Invoices
               PROVE  rejections'[k] <= Cardinality(Rejected(k)')
    BY DEF CounterShape
  <2>1. rejections[k] \in Nat /\ rejections[k] <= Cardinality(Rejected(k))
    BY DEF Inv, TypeOK, CounterShape
  <2> QED BY <1>10, <2>1, CommitEffect
<1>12. JobShape'
  BY <1>1, CommitEffect DEF Inv, JobShape, ApprovingShape
<1>13. ApprovedByQuorum'
  <2> SUFFICES ASSUME NEW k \in Invoices, invoice'[k] = "approved"
               PROVE  /\ Approved(k)' # {}
                      /\ Tier(k) = "TIER_3" =>
                           \E a, b \in Approved(k)' :
                             /\ a # b
                             /\ a.officer # b.officer \/ a.officer \in Management
    BY SameTier DEF ApprovedByQuorum
  <2>1. Approved(k) \subseteq Approved(k)'
    BY CommitRows
  <2>2. CASE invoice[k] = "approved"
    BY <2>1, <2>2 DEF Inv, ApprovedByQuorum
  <2>3. CASE k = r.inv /\ review[r] = "approving"
    <3>1. r \in Approved(k)'
      BY <2>3, CommitRows DEF Inv, ApprovingShape
    <3>2. r \notin Approved(k)
      BY CommitRows DEF Approved, Existing
    <3>3. Tier(k) = "TIER_3" =>
            \E a \in Approved(k) :
              a.officer # r.officer \/ a.officer \in Management
      BY <2>3 DEF Inv, ApprovingShape
    <3> QED BY <2>1, <3>1, <3>2, <3>3
  <2> QED BY <2>2, <2>3, CommitEffect
<1>14. OneApprovalPerOfficer'
  <2> SUFFICES ASSUME NEW k \in Invoices,
                      NEW a \in Approved(k)', NEW b \in Approved(k)',
                      Tier(k) = "TIER_3", a # b, a.officer = b.officer,
                      a.officer \notin Management
               PROVE  FALSE
    BY SameTier DEF OneApprovalPerOfficer
  <2>1. \A x \in Approved(k)' : x \in Approved(k) \/
          (x = r /\ k = r.inv /\ r.decision = "APPROVED")
    BY CommitRows
  <2>2. ASSUME k = r.inv, r.decision = "APPROVED", r.officer \notin Management
        PROVE  \A x \in Approved(k) : x.officer # r.officer
    BY <1>1, <2>2 DEF Inv, SignerShape, Approved
  <2>3. ~ (a \in Approved(k) /\ b \in Approved(k))
    BY DEF Inv, OneApprovalPerOfficer
  <2> QED BY <2>1, <2>2, <2>3
<1>15. RejectedWithGrounds'
  <2> SUFFICES ASSUME NEW k \in Invoices, invoice'[k] = "rejected"
               PROVE  \/ "rejected" \in terms[k]
                      \/ /\ \E q \in notified : q.inv = k
                         /\ \/ Tier(k) # "TIER_3" /\ Rejected(k)' # {}
                            \/ Cardinality(Rejected(k)') >= Threshold
    BY <1>1, SameTier DEF RejectedWithGrounds
  <2>1. Rejected(k) \subseteq Rejected(k)'
    BY CommitRows
  <2>2. CASE invoice[k] = "rejected"
    <3>1. \/ "rejected" \in terms[k]
          \/ /\ \E q \in notified : q.inv = k
             /\ \/ Tier(k) # "TIER_3" /\ Rejected(k) # {}
                \/ Cardinality(Rejected(k)) >= Threshold
      BY <2>2 DEF Inv, RejectedWithGrounds
    <3> QED BY <1>10, <2>1, <3>1, ConstantsAssumption
  <2>3. CASE k = r.inv /\ review[r] = "rejecting"
    <3>1. /\ r.decision = "REJECTED" /\ r \in notified
          /\ Tier(k) = "TIER_3" => rejections[k] + 1 >= Threshold
      BY <2>3 DEF Inv, RejectingShape
    <3>2. r \in Rejected(k)'
      BY <2>3, <3>1, CommitRows
    <3>3. rejections[k] \in Nat /\ rejections[k] <= Cardinality(Rejected(k))
      BY DEF Inv, TypeOK, CounterShape
    <3> QED BY <1>10, <2>3, <3>1, <3>2, <3>3, ConstantsAssumption
  <2> QED BY <2>2, <2>3, CommitEffect
<1> QED BY <1>2, <1>5, <1>6, <1>7, <1>8, <1>9, <1>11, <1>12, <1>13, <1>14,
           <1>15 DEF Inv

\* Resetting the Tier 3 counter preserves the invariant: nobody has the
\* invoice locked, so no rejection rests on the old count.
LEMMA ResetStep ==
  ASSUME Inv, NEW i \in Invoices, ResetTier3RejectionCount(i) PROVE Inv'
<1> USE DEF ResetTier3RejectionCount, Inv
<1>1. TypeOK'
  BY DEF TypeOK
<1>2. (Exclusive /\ RowShape /\ ApprovingShape /\ SignerShape
        /\ OneApprovalPerOfficer /\ JobShape /\ ApprovedByQuorum
        /\ RejectedWithGrounds)'
  BY SameRows, SameTier, ConstantsAssumption
     DEF Exclusive, RowShape, ApprovingShape, SignerShape,
         OneApprovalPerOfficer, JobShape, ApprovedByQuorum, RejectedWithGrounds
<1>3. \A k \in Invoices : rejections'[k] = IF k = i THEN 0 ELSE rejections[k]
  BY DEF TypeOK
<1>4. CounterShape'
  <2> SUFFICES ASSUME NEW k \in Invoices
               PROVE  rejections'[k] <= Cardinality(Rejected(k))
    BY SameRows DEF CounterShape
  <2>1. Cardinality(Rejected(k)) \in Nat
    BY FiniteRows
  <2> QED BY <1>3, <2>1 DEF CounterShape
<1>5. RejectingShape'
  <2>1. \A q \in Reviews : review[q] = "rejecting" => q.inv # i
    BY DEF Locked, Open
  <2> QED BY <1>3, <2>1, SameTier, ConstantsAssumption DEF RejectingShape
<1> QED BY <1>1, <1>2, <1>4, <1>5

\* Every step preserves the invariant.
LEMMA NextInv == Inv /\ [Next]_vars => Inv'
<1> SUFFICES ASSUME Inv, [Next]_vars PROVE Inv'
  OBVIOUS
<1>1. CASE UNCHANGED vars
  BY <1>1, AsideStep DEF vars, Inv, TypeOK
<1>2. ASSUME NEW i \in Invoices, PriceInvoice(i) PROVE Inv'
  BY <1>2, PriceInvoiceStep
<1>3. ASSUME NEW i \in Invoices, NEW a \in Answers, SupplierCall(a, i)
      PROVE  Inv'
  BY <1>3, AsideStep DEF SupplierCall, Inv, TypeOK
<1>4. ASSUME NEW i \in Invoices, NEW a \in Answers, SupplierAnswer(a, i)
      PROVE  Inv'
  BY <1>4, SupplierAnswerStep
<1>5. ASSUME NEW i \in Invoices, ResetTier3RejectionCount(i) PROVE Inv'
  BY <1>5, ResetStep
<1>6. ASSUME NEW r \in Reviews, FetchAndValidate(r) PROVE Inv'
  BY <1>6, ReviewOnly DEF FetchAndValidate
<1>7. ASSUME NEW r \in Reviews, RefuseDecision(r) \/ RollbackDecision(r)
      PROVE  Inv'
  BY <1>7, ReviewOnly DEF RefuseDecision, RollbackDecision
<1>8. ASSUME NEW r \in Reviews, DecisionStep(r) PROVE Inv'
  BY <1>7, <1>8, ProcessApprovalStep, ProcessRejectionStep, CommitDecisionStep
     DEF DecisionStep
<1> QED BY <1>1, <1>2, <1>3, <1>4, <1>5, <1>6, <1>7, <1>8 DEF Next

-----------------------------------------------------------------------------
\* The inductive invariant holds in every reachable state.
THEOREM Invariance == Spec => []Inv
  BY InitInv, NextInv, PTL DEF Spec

\* The state of the approvals service keeps its type: in particular the
\* Tier 3 counter, which is incremented and reset, never goes below zero.
THEOREM TypeCorrect == Spec => []TypeOK
<1>1. Inv => TypeOK
  BY DEF Inv
<1> QED BY <1>1, Invariance, PTL

\* executeApproval approves an invoice only with the signatures of its tier,
\* however the requests interleave, fail and roll back.
THEOREM QuorumHolds == Spec => []ApprovedByQuorum
<1>1. Inv => ApprovedByQuorum
  BY DEF Inv
<1> QED BY <1>1, Invariance, PTL

\* validateTier3Officer, reading the records under the lock, keeps a credit
\* officer from signing a Tier 3 invoice twice.
THEOREM OfficerSignsOnce == Spec => []OneApprovalPerOfficer
<1>1. Inv => OneApprovalPerOfficer
  BY DEF Inv
<1> QED BY <1>1, Invariance, PTL

\* handleTier3Rejection rejects an invoice only when enough rejections are
\* on record, resets of the counter notwithstanding.
THEOREM RejectionGrounded == Spec => []RejectedWithGrounds
<1>1. Inv => RejectedWithGrounds
  BY DEF Inv
<1> QED BY <1>1, Invariance, PTL

\* Only UpdateInvoiceStatus, from 'priced', and pricing, from 'scored', write
\* the status of an invoice; nothing removes a job.
LEMMA StatusStep ==
  ASSUME Inv, [Next]_vars
  PROVE  /\ \A k \in Invoices :
              invoice[k] \in {"approved", "rejected"} => invoice'[k] = invoice[k]
         /\ queued \subseteq queued'
<1> USE DEF Inv, TypeOK, UpdateInvoiceStatus
<1>1. CASE UNCHANGED vars
  BY <1>1 DEF vars
<1>2. ASSUME NEW i \in Invoices, PriceInvoice(i)
      PROVE  /\ \A k \in Invoices : invoice[k] \in {"approved", "rejected"} =>
                                      invoice'[k] = invoice[k]
             /\ queued \subseteq queued'
  BY <1>2 DEF PriceInvoice
<1>3. ASSUME NEW i \in Invoices, NEW a \in Answers, SupplierAnswer(a, i)
      PROVE  /\ \A k \in Invoices : invoice[k] \in {"approved", "rejected"} =>
                                      invoice'[k] = invoice[k]
             /\ queued \subseteq queued'
  BY <1>3 DEF SupplierAnswer
<1>4. ASSUME NEW r \in Reviews, CommitDecision(r)
      PROVE  /\ \A k \in Invoices : invoice[k] \in {"approved", "rejected"} =>
                                      invoice'[k] = invoice[k]
             /\ queued \subseteq queued'
  BY <1>4 DEF CommitDecision, Open
<1>5. ASSUME UNCHANGED invoice, queued \subseteq queued'
      PROVE  \A k \in Invoices : invoice'[k] = invoice[k]
  BY <1>5
<1>6. ASSUME NEW i \in Invoices,
             \/ \E a \in Answers : SupplierCall(a, i)
             \/ ResetTier3RejectionCount(i)
      PROVE  UNCHANGED invoice /\ queued \subseteq queued'
  BY <1>6 DEF SupplierCall, ResetTier3RejectionCount
<1>7. ASSUME NEW r \in Reviews,
             \/ FetchAndValidate(r) \/ RefuseDecision(r) \/ RollbackDecision(r)
             \/ ProcessApproval(r) \/ ProcessRejection(r)
      PROVE  UNCHANGED invoice /\ queued \subseteq queued'
  BY <1>7 DEF FetchAndValidate, RefuseDecision, RollbackDecision,
              ProcessApproval, ProcessRejection
<1> QED BY <1>1, <1>2, <1>3, <1>4, <1>5, <1>6, <1>7 DEF Next, DecisionStep

\* No later decision, supplier's answer or pricing moves an invoice that was
\* approved or rejected.
THEOREM FinalityHolds == Spec => DecisionIsFinal
<1>1. Inv /\ [Next]_vars =>
        [\A i \in Invoices : invoice[i] \in {"approved", "rejected"} =>
                               invoice'[i] = invoice[i]]_vars
  BY StatusStep
<1> QED BY <1>1, Invariance, PTL DEF Spec, DecisionIsFinal

\* At most one invoice is approved, or gets a job, in a step.
LEMMA OneAtATime ==
  ASSUME Inv, [Next]_vars
  PROVE  \/ \E r \in Reviews : /\ queued' = queued \cup {r}
                               /\ UNCHANGED invoice
         \/ /\ UNCHANGED queued
            /\ \A k \in Invoices :
                 invoice'[k] = "approved" <=> invoice[k] = "approved"
         \/ /\ UNCHANGED queued
            /\ \E r \in Reviews :
                 /\ review[r] = "approving"
                 /\ invoice' = [invoice EXCEPT ![r.inv] = "approved"]
<1> DEFINE G == \/ \E r \in Reviews : /\ queued' = queued \cup {r}
                                      /\ UNCHANGED invoice
                \/ /\ UNCHANGED queued
                   /\ \A k \in Invoices :
                        invoice'[k] = "approved" <=> invoice[k] = "approved"
                \/ /\ UNCHANGED queued
                   /\ \E r \in Reviews :
                        /\ review[r] = "approving"
                        /\ invoice' = [invoice EXCEPT ![r.inv] = "approved"]
<1> USE DEF Inv, TypeOK
<1>1. ASSUME UNCHANGED <<invoice, queued>> PROVE G
  BY <1>1
<1>2. ASSUME NEW i \in Invoices, PriceInvoice(i) PROVE G
  BY <1>2 DEF PriceInvoice
<1>3. ASSUME NEW i \in Invoices, NEW a \in Answers, SupplierAnswer(a, i)
      PROVE  G
  BY <1>3 DEF SupplierAnswer, UpdateInvoiceStatus
<1>4. ASSUME NEW r \in Reviews, CommitDecision(r) PROVE G
  <2>1. UNCHANGED queued
    BY <1>4 DEF CommitDecision
  <2>2. CASE review[r] = "approving"
    <3>1. invoice' = [invoice EXCEPT ![r.inv] =
                        IF @ = "priced" THEN "approved" ELSE @]
      BY <1>4, <2>2 DEF CommitDecision, UpdateInvoiceStatus
    <3>2. CASE invoice[r.inv] = "priced"
      BY <2>1, <2>2, <3>1, <3>2
    <3>3. CASE invoice[r.inv] # "priced"
      BY <2>1, <3>1, <3>3
    <3> QED BY <3>2, <3>3
  <2>3. CASE review[r] = "rejecting"
    <3>1. invoice' = [invoice EXCEPT ![r.inv] =
                        IF @ = "priced" THEN "rejected" ELSE @]
      BY <1>4, <2>3 DEF CommitDecision, UpdateInvoiceStatus
    <3> QED BY <2>1, <3>1
  <2>4. CASE review[r] = "recording"
    BY <1>4, <2>1, <2>4 DEF CommitDecision
  <2> QED BY <1>4, <2>2, <2>3, <2>4 DEF CommitDecision, Open
<1>5. ASSUME NEW r \in Reviews, ProcessApproval(r) PROVE G
  BY <1>5 DEF ProcessApproval
<1>6. [Next]_vars =>
        \/ UNCHANGED <<invoice, queued>>
        \/ \E i \in Invoices : \/ PriceInvoice(i)
                               \/ \E a \in Answers : SupplierAnswer(a, i)
        \/ \E r \in Reviews : CommitDecision(r) \/ ProcessApproval(r)
  BY DEF Next, DecisionStep, vars, SupplierCall, ResetTier3RejectionCount,
         FetchAndValidate, RefuseDecision, RollbackDecision, ProcessRejection
<1> QED BY <1>1, <1>2, <1>3, <1>4, <1>5, <1>6

\* Every step of the service is a step of Handoff or invisible to it.
LEMMA StepMaps == Inv /\ [Next]_vars => [Promise!HNext]_(Promise!hvars)
<1> SUFFICES ASSUME Inv, [Next]_vars PROVE [Promise!HNext]_(Promise!hvars)
  OBVIOUS
<1> DEFINE jobs == {r.inv : r \in queued}
           done == {i \in Invoices : invoice[i] = "approved"}
<1>1. ASSUME NEW r \in Reviews, queued' = queued \cup {r}, UNCHANGED invoice
      PROVE  Promise!HNext
  <2>1. jobs' = jobs \cup {r.inv} /\ done' = done /\ r.inv \in Invoices
    BY <1>1, ConstantsAssumption
  <2> QED BY <2>1 DEF Promise!HNext, Promise!Enqueue
<1>2. ASSUME UNCHANGED queued,
             \A k \in Invoices :
               invoice'[k] = "approved" <=> invoice[k] = "approved"
      PROVE  UNCHANGED Promise!hvars
  BY <1>2 DEF Promise!hvars
<1>3. ASSUME UNCHANGED queued, NEW r \in Reviews, review[r] = "approving",
             invoice' = [invoice EXCEPT ![r.inv] = "approved"]
      PROVE  Promise!HNext
  <2>1. r \in queued /\ r.inv \in Invoices
    BY <1>3, ConstantsAssumption DEF Inv, ApprovingShape
  <2>2. r.inv \in jobs /\ jobs' = jobs /\ done' = done \cup {r.inv}
    BY <1>3, <2>1 DEF Inv, TypeOK
  <2> QED BY <2>1, <2>2 DEF Promise!HNext, Promise!Approve
<1> QED BY <1>1, <1>2, <1>3, OneAtATime

\* The approvals service implements Handoff: what it approves, payments has a
\* job for.
THEOREM Refinement == Spec => ImplementsHandoff
<1>1. Init => Promise!HInit
  BY DEF Init, Promise!HInit
<1> QED BY <1>1, StepMaps, Invariance, PTL
        DEF Spec, ImplementsHandoff, Promise!HSpec
=============================================================================
