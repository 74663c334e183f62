--------------------------------- MODULE Kyc ---------------------------------
(***************************************************************************)
(* The KYC application of one registered supplier: the documents it        *)
(* uploads, their review one by one, and suppliers.kyc_status, which three *)
(* handlers write: the upload (pending to documents_submitted once every   *)
(* required document is there), the document review (approved once every   *)
(* required document is approved) and the officers' own transitions.  Each *)
(* reads the row without a lock, decides, and writes the status by id.     *)
(***************************************************************************)
EXTENDS Integers, Sequences, FiniteSets

CONSTANTS
  KycCalls,  \* requests being served
  Staff,     \* credit and compliance officers
  Uploaders, \* the supplier's user, and other users who upload for it
  Required,  \* REQUIRED_DOC_TYPE_GROUPS: sets of interchangeable types
  MaxDocs,   \* bound on the uploads
  Nobody

ASSUME KycAssumption ==
  /\ Nobody \notin Staff
  /\ Required # {}
  /\ MaxDocs \in Nat

VARIABLES
  kyc,      \* the row of suppliers
  docs,     \* its rows of invoice_documents, oldest first
  kycCall,  \* what each request has read
  decided,  \* the status has been approved or rejected at some time
  kycLost   \* a server or a statement failed between two statements

kycVars == <<kyc, docs, kycCall, decided, kycLost>>

KycStatus ==
  {"pending", "documents_submitted", "under_review", "approved", "rejected"}
Decided == {"approved", "rejected"}
Types == UNION Required
Doc == [type : Types, by : Uploaders,
        review : {"pending", "approved", "rejected"}]
NoKycCall == [op |-> "idle"]

KycTypeOK ==
  /\ kyc \in [status : KycStatus, reviewer : Staff \cup {Nobody},
              approver : Staff \cup {Nobody}]
  /\ docs \in Seq(Doc) /\ Len(docs) <= MaxDocs
  /\ kycCall \in [KycCalls ->
       {NoKycCall}
         \cup [op : {"uploaded", "counting", "advance", "promote"}]
         \cup [op : {"review"}, doc : 1..MaxDocs, decision : Decided,
               read : KycStatus]
         \cup [op : {"reviewed"}, read : KycStatus \ Decided]
         \cup [op : {"checker", "status"}, by : Staff, next : KycStatus]]
  /\ decided \in BOOLEAN
  /\ kycLost \in BOOLEAN

KycInit ==
  /\ kyc = [status |-> "pending", reviewer |-> Nobody, approver |-> Nobody]
  /\ docs = << >>
  /\ kycCall = [c \in KycCalls |-> NoKycCall]
  /\ decided = FALSE
  /\ kycLost = FALSE

Serve(c, op, next) == kycCall[c].op = op /\ kycCall' = [kycCall EXCEPT ![c] = next]
Answer(c, op) == Serve(c, op, NoKycCall)

\* updateKycStatus, updateKycStatusWithClient: by id, whatever the row says.
WriteStatus(next, row) ==
  /\ kyc' = [row EXCEPT !.status = next]
  /\ decided' = (decided \/ next \in Decided)

Covers(types) == \A group \in Required : group \cap types # {}

---------------------------------------------------------------------------
(* Uploads.                                                               *)

\* The supplier for itself, or any other user for it; the INSERT and the audit
\* entry are statements of their own, and so is what follows.
UploadDocument(c, type, u) ==
  /\ Len(docs) < MaxDocs
  /\ docs' = Append(docs, [type |-> type, by |-> u, review |-> "pending"])
  /\ Serve(c, "idle", [op |-> "uploaded"])
  /\ UNCHANGED <<kyc, decided, kycLost>>

\* Mutant: the documents are counted only when none was there before.
AdvanceFirst(c) ==
  /\ Serve(c, "uploaded", IF kyc.status = "pending" /\ Len(docs) = 1
                          THEN [op |-> "counting"] ELSE NoKycCall)
  /\ UNCHANGED <<kyc, docs, decided, kycLost>>

\* autoAdvanceKycStatus: only a pending application, read before ...
AutoAdvance(c) ==
  /\ Serve(c, "uploaded", IF kyc.status = "pending"
                          THEN [op |-> "counting"] ELSE NoKycCall)
  /\ UNCHANGED <<kyc, docs, decided, kycLost>>

\* ... the uploaded types are.
ShouldAutoAdvance(c) ==
  /\ Serve(c, "counting",
           IF Covers({docs[i].type : i \in DOMAIN docs})
           THEN [op |-> "advance"] ELSE NoKycCall)
  /\ UNCHANGED <<kyc, docs, decided, kycLost>>

AdvanceToDocumentsSubmitted(c) ==
  /\ Answer(c, "advance")
  /\ WriteStatus("documents_submitted", kyc)
  /\ UNCHANGED <<docs, kycLost>>

---------------------------------------------------------------------------
(* Review of one document.                                                *)

\* reviewSupplierDocument reads the supplier and the document.
ReviewSupplierDocument(c, d, decision, u) ==
  /\ docs[d].by # u
  /\ Serve(c, "idle", [op |-> "review", doc |-> d, decision |-> decision,
                       read |-> kyc.status])
  /\ UNCHANGED <<kyc, docs, decided, kycLost>>

\* Mutant: the supplier's own status is not looked at.
ReviewAnyStatus(c) ==
  LET r == kycCall[c] IN
  /\ Serve(c, "review", IF r.decision = "approved"
                        THEN [op |-> "reviewed", read |-> r.read] ELSE NoKycCall)
  /\ docs' = [docs EXCEPT ![r.doc].review = r.decision]
  /\ UNCHANGED <<kyc, decided, kycLost>>

\* The UPDATE; an approval goes on to the supplier unless the row read at
\* the start was decided.
UpdateDocumentReview(c) ==
  LET r == kycCall[c] IN
  /\ Serve(c, "review",
           IF r.decision = "approved" /\ r.read \notin Decided
           THEN [op |-> "reviewed", read |-> r.read] ELSE NoKycCall)
  /\ docs' = [docs EXCEPT ![r.doc].review = r.decision]
  /\ UNCHANGED <<kyc, decided, kycLost>>

\* The newest upload of each type counts.
Newest(i) == \A j \in DOMAIN docs : docs[j].type = docs[i].type => j <= i
GetApprovedDocumentTypes ==
  {docs[i].type : i \in {j \in DOMAIN docs : Newest(j) /\ docs[j].review = "approved"}}

\* Mutant: an application that was not under review is left to the officers.
ApproveUnderReview(c) ==
  /\ Serve(c, "reviewed",
           IF Covers(GetApprovedDocumentTypes) /\ kycCall[c].read = "under_review"
           THEN [op |-> "promote"] ELSE NoKycCall)
  /\ UNCHANGED <<kyc, docs, decided, kycLost>>

MaybeAutoApprove(c) ==
  /\ Serve(c, "reviewed",
           IF Covers(GetApprovedDocumentTypes)
           THEN [op |-> "promote"] ELSE NoKycCall)
  /\ UNCHANGED <<kyc, docs, decided, kycLost>>

Promote(c) ==
  /\ Answer(c, "promote")
  /\ WriteStatus("approved", kyc)
  /\ UNCHANGED <<docs, kycLost>>

---------------------------------------------------------------------------
(* The officers' transitions.                                             *)

\* validateKycTransition
Transitions ==
  {<<"pending", "documents_submitted">>, <<"documents_submitted", "under_review">>,
   <<"under_review", "approved">>, <<"under_review", "rejected">>}

UpdateKycStatus(c, next, u) ==
  /\ <<kyc.status, next>> \in Transitions
  /\ Serve(c, "idle", [op |-> IF next = "approved" THEN "checker" ELSE "status",
                       by |-> u, next |-> next])
  /\ UNCHANGED <<kyc, docs, decided, kycLost>>

\* enforceKycMakerChecker: another SELECT.
EnforceMakerChecker(c) ==
  /\ Serve(c, "checker", IF kyc.reviewer = kycCall[c].by THEN NoKycCall
                         ELSE [kycCall[c] EXCEPT !.op = "status"])
  /\ UNCHANGED <<kyc, docs, decided, kycLost>>

\* Mutant: the reviewer is recorded when the review ends.
MarkRejector(next, u) ==
  CASE next = "rejected" -> [kyc EXCEPT !.reviewer = u]
    [] next = "approved" -> [kyc EXCEPT !.approver = u]
    [] OTHER -> kyc

SetKycRoleMarkers(next, u) ==
  CASE next = "under_review" -> [kyc EXCEPT !.reviewer = u]
    [] next = "approved" -> [kyc EXCEPT !.approver = u]
    [] OTHER -> kyc

ExecuteKycStatusTx(c) ==
  LET r == kycCall[c] IN
  /\ Answer(c, "status")
  /\ WriteStatus(r.next, SetKycRoleMarkers(r.next, r.by))
  /\ UNCHANGED <<docs, kycLost>>

---------------------------------------------------------------------------
\* The server stops, or a statement (the audit entries are some) fails.
KycFail(c) ==
  /\ kycCall[c] # NoKycCall /\ ~kycLost
  /\ kycCall' = [kycCall EXCEPT ![c] = NoKycCall]
  /\ kycLost' = TRUE
  /\ UNCHANGED <<kyc, docs, decided>>

KycNext ==
  \E c \in KycCalls :
    \/ \E type \in Types, u \in Uploaders : UploadDocument(c, type, u)
    \/ AutoAdvance(c)
    \/ ShouldAutoAdvance(c)
    \/ AdvanceToDocumentsSubmitted(c)
    \/ \E d \in DOMAIN docs, decision \in Decided, u \in Staff :
         ReviewSupplierDocument(c, d, decision, u)
    \/ UpdateDocumentReview(c)
    \/ MaybeAutoApprove(c)
    \/ Promote(c)
    \/ \E next \in KycStatus, u \in Staff : UpdateKycStatus(c, next, u)
    \/ EnforceMakerChecker(c)
    \/ ExecuteKycStatusTx(c)
    \/ KycFail(c)

---------------------------------------------------------------------------
KycQuiet == ~kycLost /\ \A c \in KycCalls : kycCall[c] = NoKycCall

\* However uploads overlap, the one whose count comes last sees them all: an
\* application with every required document does not stay pending.
AdvanceNotLost ==
  KycQuiet /\ Covers({docs[i].type : i \in DOMAIN docs}) => kyc.status # "pending"

\* However the reviews of its documents overlap, and whoever writes over
\* whose status: an application whose required documents are all approved was
\* decided, if only to be reopened by an officer who had read it before.
ApprovalNotLost ==
  KycQuiet /\ Covers(GetApprovedDocumentTypes) => decided

\* No officer approves an application that nobody took up for review, although
\* the status an approval starts from may be gone when it is written.
ReviewedFirst == kyc.approver # Nobody => kyc.reviewer # Nobody

\* uploadDocument, reviewSupplierDocument and updateKycStatus: no upload and no
\* review is lost to another one that overlaps it, and none is skipped.
KycSound == AdvanceNotLost /\ ApprovalNotLost /\ ReviewedFirst

---------------------------------------------------------------------------
(* What the comments of the code say, and the code does not do.           *)

\* updateKycStatus "Enforces maker-checker": the officer on record as reviewer
\* of an approved application is not the one on record as its approver.
MakerChecker ==
  kyc.status = "approved" /\ kyc.approver # Nobody => kyc.reviewer # kyc.approver
=============================================================================
