------------------------------- MODULE Buyers -------------------------------
(***************************************************************************)
(* Rows of buyers and the suppliers' requests for new ones.  A credit      *)
(* officer creates a buyer directly (check, INSERT, then the sanctions     *)
(* screening that flags the row), or answers a request: an approval that   *)
(* names no buyer makes one in the transaction that closes the request.    *)
(* Both read before they write, and buyers.registration_number is UNIQUE.  *)
(***************************************************************************)
EXTENDS Integers, FiniteSets

CONSTANTS
  Officers,    \* requests of credit officers being served
  Numbers,     \* registration numbers people type
  Requests,    \* ids of buyer_onboarding_requests
  ListedNames, \* registration numbers whose company is on the sanctions list
  NoNumber,    \* the request leaves the number out
  NoBuyer

ASSUME BuyersAssumption ==
  /\ ListedNames \subseteq Numbers
  /\ NoNumber \notin Numbers /\ NoBuyer \notin Numbers \cup Requests
  /\ Numbers \cap Requests = {}

VARIABLES
  buyers,    \* rows, by registration number
  request,   \* rows of buyer_onboarding_requests
  officer,   \* what each call has read
  unscreened \* a server stopped between the INSERT and the flag

buyersVars == <<buyers, request, officer, unscreened>>

\* autoRegistrationNumber: a number made of the request's id stands for it.
RegistrationNumber == Numbers \cup Requests

NoRequest == [status |-> "none"]
NoOfficer == [op |-> "idle"]

Buyer == [reg : RegistrationNumber, from : Requests \cup {NoBuyer}, flag : BOOLEAN]
BuyersTypeOK ==
  /\ buyers \subseteq Buyer
  /\ request \in [Requests -> {NoRequest} \cup
       [status : {"pending", "approved", "rejected"}, number : Numbers \cup {NoNumber},
        linked : RegistrationNumber \cup {NoBuyer}]]
  /\ officer \in [Officers ->
       {NoOfficer} \cup [op : {"create", "screen"}, reg : Numbers]
         \cup [op : {"answer"}, id : Requests, status : {"approved", "rejected"},
               linked : RegistrationNumber \cup {NoBuyer}]]
  /\ unscreened \in BOOLEAN

BuyersInit ==
  /\ buyers = {}
  /\ request = [r \in Requests |-> NoRequest]
  /\ officer = [o \in Officers |-> NoOfficer]
  /\ unscreened = FALSE

Attend(o, op, next) == officer[o].op = op /\ officer' = [officer EXCEPT ![o] = next]

\* Mutant: the numbers are not UNIQUE.
AnyNumber(reg) == TRUE

Free(reg) == \A b \in buyers : b.reg # reg

---------------------------------------------------------------------------
\* createBuyer: buyerRegistrationNumberExists ...
CreateBuyer(o, reg) ==
  /\ \A b \in buyers : b.reg # reg
  /\ Attend(o, "idle", [op |-> "create", reg |-> reg])
  /\ UNCHANGED <<buyers, request, unscreened>>

\* ... insertBuyerRecord, refused when the number was taken since ...
InsertBuyerRecord(o) ==
  LET reg == officer[o].reg IN
  /\ officer[o].op = "create"
  /\ IF Free(reg)
     THEN /\ buyers' = buyers \cup {[reg |-> reg, from |-> NoBuyer, flag |-> FALSE]}
          /\ Attend(o, "create", [op |-> "screen", reg |-> reg])
     ELSE UNCHANGED buyers /\ Attend(o, "create", NoOfficer)
  /\ UNCHANGED <<request, unscreened>>

\* Mutant: the flag is set only on rows that a request made.
FlagRequested(reg) ==
  {IF b.reg = reg /\ b.from # NoBuyer THEN [b EXCEPT !.flag = TRUE] ELSE b : b \in buyers}

\* raiseSanctionsFlag, setBuyerSanctionsFlag
RaiseFlag(reg) ==
  {IF b.reg = reg THEN [b EXCEPT !.flag = TRUE] ELSE b : b \in buyers}

\* ... postBuyerCreation: checkSanctions, which answers with an error but
\* leaves the row.
CheckSanctions(o) ==
  LET reg == officer[o].reg IN
  /\ Attend(o, "screen", NoOfficer)
  /\ buyers' = IF reg \in ListedNames THEN RaiseFlag(reg) ELSE buyers
  /\ UNCHANGED <<request, unscreened>>

\* The server stops after the INSERT.
StopBeforeScreening(o) ==
  /\ Attend(o, "screen", NoOfficer)
  /\ unscreened' = TRUE
  /\ UNCHANGED <<buyers, request>>

---------------------------------------------------------------------------
CreateBuyerRequest(r, number) ==
  /\ request[r] = NoRequest
  /\ request' = [request EXCEPT ![r] =
       [status |-> "pending", number |-> number, linked |-> NoBuyer]]
  /\ UNCHANGED <<buyers, officer, unscreened>>

\* reviewBuyerOnboardingRequest reads the request; the officer may name a
\* buyer, with either answer.
ReviewBuyerRequest(o, r, status, linked) ==
  /\ request[r].status = "pending"
  /\ Attend(o, "idle", [op |-> "answer", id |-> r, status |-> status,
                        linked |-> linked])
  /\ UNCHANGED <<buyers, request, unscreened>>

\* Mutant: the request keeps the buyer the officer named, or none.
LinkNamed(linked, made) == linked

\* resolvedLinkedBuyerId
Resolve(linked, made) == IF linked = NoBuyer THEN made ELSE linked

\* Mutant: a number that was left out stays out.
NumberGiven(r) == request[r].number

\* materialiseBuyerFromRequest: the request's number or one of its id.
NumberOf(r) == IF request[r].number = NoNumber THEN r ELSE request[r].number

\* Closes the request by id, whatever its status is by now; an approval
\* without a buyer inserts one, and a number that is taken refuses it all.
ExecuteReviewTx(o) ==
  LET a == officer[o]
      makes == a.status = "approved" /\ a.linked = NoBuyer
      reg == NumberOf(a.id)
  IN
  /\ Attend(o, "answer", NoOfficer)
  /\ IF makes /\ ~Free(reg) THEN UNCHANGED <<buyers, request>>
     ELSE /\ buyers' = IF makes
                       THEN buyers \cup {[reg |-> reg, from |-> a.id, flag |-> FALSE]}
                       ELSE buyers
          /\ request' = [request EXCEPT
               ![a.id].status = a.status,
               ![a.id].linked = IF a.status = "approved" THEN Resolve(a.linked, reg)
                                ELSE a.linked]
  /\ UNCHANGED unscreened

BuyersNext ==
  \/ \E o \in Officers :
       \/ \E reg \in Numbers : CreateBuyer(o, reg)
       \/ InsertBuyerRecord(o)
       \/ CheckSanctions(o)
       \/ StopBeforeScreening(o)
       \/ \E r \in Requests, status \in {"approved", "rejected"},
             linked \in {b.reg : b \in buyers} \cup {NoBuyer} :
            ReviewBuyerRequest(o, r, status, linked)
       \/ ExecuteReviewTx(o)
  \/ \E r \in Requests, number \in Numbers \cup {NoNumber} : CreateBuyerRequest(r, number)

---------------------------------------------------------------------------
\* "request never approves without a usable buyer underneath it", whatever
\* answers overlap; ...
ApprovedHasBuyer ==
  \A r \in Requests : request[r].status = "approved" =>
    \E b \in buyers : b.reg = request[r].linked

\* ... and two approvals of one request, or of two requests for one company,
\* and a direct creation in between, make one buyer.
OneBuyer ==
  /\ \A b, d \in buyers : b.reg = d.reg => b = d
  /\ \A r \in Requests : Cardinality({b \in buyers : b.from = r}) <= 1

\* A listed company an officer entered is flagged once the screening has run.
ListedIsFlagged ==
  \A b \in buyers :
    b.from = NoBuyer /\ b.reg \in ListedNames /\ ~unscreened
      /\ (\A o \in Officers : officer[o] # [op |-> "screen", reg |-> b.reg]) => b.flag

\* createBuyer, reviewBuyerOnboardingRequest: requests and direct creations
\* that overlap leave one usable, screened buyer.
BuyersSound == ApprovedHasBuyer /\ OneBuyer /\ ListedIsFlagged
=============================================================================
