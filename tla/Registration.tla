---------------------------- MODULE Registration ----------------------------
(***************************************************************************)
(* The way in for suppliers: the eligibility questionnaire with its        *)
(* progressive throttle, and the registration that its session token       *)
(* opens.  One applicant (one email, one address) answers the              *)
(* questionnaire; several people register at once.  The throttle counts    *)
(* rows in four windows, so a row is kept with the innermost window it is  *)
(* still in: 1 (five minutes) to 4 (thirty days); older rows are out of    *)
(* every query.                                                            *)
(***************************************************************************)
EXTENDS Integers, Sequences, FiniteSets

CONSTANTS
  Visits,         \* requests being served
  FailsRequired,  \* THROTTLE_TIERS[i].failsRequired
  TokenWindow,    \* expires_at: the window a session token is good for
  MaxChecks,      \* bound on the rows of thirty days
  Emails,
  RegNumbers,
  Listed          \* registration numbers of config/sanctions.json

Windows == 1..4

ASSUME RegistrationAssumption ==
  /\ IsFiniteSet(Visits)
  /\ FailsRequired \in [Windows -> Nat \ {0}]
  /\ TokenWindow \in Windows
  /\ MaxChecks \in Nat
  /\ Listed \subseteq RegNumbers

VARIABLES
  checks,    \* eligibility_checks of thirty days, oldest first
  accounts,  \* rows of users with their row of suppliers
  visit,     \* what each request has read
  welcomed   \* the calls answered 201, by registration number

registrationVars == <<checks, accounts, visit, welcomed>>

NoVisit == [op |-> "idle"]

RegistrationTypeOK ==
  /\ checks \in Seq([passed : BOOLEAN, window : Windows])
  /\ Len(checks) <= MaxChecks
  /\ \A i, j \in DOMAIN checks : i < j => checks[i].window >= checks[j].window
  /\ accounts \subseteq [email : Emails, reg : RegNumbers \ Listed]
  /\ visit \in [Visits -> {NoVisit} \cup [op : {"check"}]
                            \cup [op : {"register"}, email : Emails, reg : RegNumbers]]
  /\ welcomed \in [RegNumbers -> Nat]

RegistrationInit ==
  /\ checks = << >>
  /\ accounts = {}
  /\ visit = [v \in Visits |-> NoVisit]
  /\ welcomed = [r \in RegNumbers |-> 0]

---------------------------------------------------------------------------
(* The questionnaire.                                                     *)

Fails(w) == {i \in DOMAIN checks : ~checks[i].passed /\ checks[i].window <= w}
Passes == {i \in DOMAIN checks : checks[i].passed}

\* The newest row of the two kinds is a pass.
Forgiven == \E p \in Passes : \A i \in Fails(4) : i < p

\* Mutant: a tier bites one failure late.
TierAbove(w) == Cardinality(Fails(w)) > FailsRequired[w]

\* pickThrottleTier
Tier(w) == Cardinality(Fails(w)) >= FailsRequired[w]

Throttled == ~Forgiven /\ \E w \in Windows : Tier(w)

\* checkEligibility: the throttle reads the rows ...
CheckEligibility(v) ==
  /\ visit[v] = NoVisit
  /\ ~Throttled
  /\ visit' = [visit EXCEPT ![v] = [op |-> "check"]]
  /\ UNCHANGED <<checks, accounts, welcomed>>

\* ... and the answers are recorded, passed or not.
RecordEligibility(v, passed) ==
  /\ visit[v].op = "check"
  /\ Len(checks) < MaxChecks
  /\ checks' = Append(checks, [passed |-> passed, window |-> 1])
  /\ visit' = [visit EXCEPT ![v] = NoVisit]
  /\ UNCHANGED <<accounts, welcomed>>

\* Time: row i and those before it leave the window that i is in.
Elapse(i) ==
  LET w == checks[i].window
      older == {j \in 1..i : checks[j].window = w} IN
  /\ checks' = IF w = 4 THEN SubSeq(checks, i + 1, Len(checks))
               ELSE [j \in DOMAIN checks |->
                      IF j \in older THEN [checks[j] EXCEPT !.window = w + 1]
                      ELSE checks[j]]
  /\ UNCHANGED <<accounts, visit, welcomed>>

---------------------------------------------------------------------------
(* The registration.                                                      *)

\* findEligibilityByToken: a pass that is not over; one token opens any number
\* of registrations.
TokenValid == \E p \in Passes : checks[p].window <= TokenWindow

\* Mutant: the screening is left to the checks after the registration.
RegisterUnscreened(v, email, reg) ==
  /\ visit[v] = NoVisit
  /\ TokenValid
  /\ \A a \in accounts : a.email # email /\ a.reg # reg
  /\ visit' = [visit EXCEPT ![v] = [op |-> "register", email |-> email, reg |-> reg]]
  /\ UNCHANGED <<checks, accounts, welcomed>>

\* validateRegistrationPrereqs, validateConsents, and the screening, which
\* refuses before anything is written.
RegisterSupplier(v, email, reg) ==
  /\ visit[v] = NoVisit
  /\ TokenValid
  /\ \A a \in accounts : a.email # email /\ a.reg # reg
  /\ reg \notin Listed
  /\ visit' = [visit EXCEPT ![v] = [op |-> "register", email |-> email, reg |-> reg]]
  /\ UNCHANGED <<checks, accounts, welcomed>>

\* Mutant: the transaction trusts the checks made before it.
NoConflict(email, reg) == TRUE

\* users.email and suppliers.registration_number are UNIQUE.
Unique(email, reg) == \A a \in accounts : a.email # email /\ a.reg # reg

\* One transaction for the user, the supplier and the audit entry; a conflict
\* is answered EMAIL_TAKEN or REGISTRATION_NUMBER_TAKEN.
ExecuteRegistrationTx(v) ==
  LET r == visit[v] IN
  /\ r.op = "register"
  /\ visit' = [visit EXCEPT ![v] = NoVisit]
  /\ IF Unique(r.email, r.reg)
     THEN /\ accounts' = accounts \cup {[email |-> r.email, reg |-> r.reg]}
          /\ welcomed' = [welcomed EXCEPT ![r.reg] = @ + 1]
     ELSE UNCHANGED <<accounts, welcomed>>
  /\ UNCHANGED checks

RegistrationNext ==
  \/ \E v \in Visits :
       \/ CheckEligibility(v)
       \/ \E passed \in BOOLEAN : RecordEligibility(v, passed)
       \/ \E email \in Emails, reg \in RegNumbers : RegisterSupplier(v, email, reg)
       \/ ExecuteRegistrationTx(v)
  \/ \E i \in DOMAIN checks : Elapse(i)

---------------------------------------------------------------------------
\* The throttle is read before the row it is about is written, so overlapping
\* answers slip through, but no more than there are requests being served: in
\* no window are there more failures since the last pass than the tier
\* allows and those.
FailuresRated ==
  \A w \in Windows :
    Cardinality({i \in Fails(w) : \A p \in Passes : p < i})
      <= FailsRequired[w] + Cardinality(Visits) - 1

\* Of all the registrations that overlap, one is answered with an account for
\* a registration number, and an email is the email of one account.
OneAccount ==
  /\ \A r \in RegNumbers : welcomed[r] = Cardinality({a \in accounts : a.reg = r})
  /\ \A a, b \in accounts : a.email = b.email \/ a.reg = b.reg => a = b
  /\ \A r \in RegNumbers : welcomed[r] <= 1

\* checkEligibility and registerSupplier: neither the throttle nor the unique
\* keys give way to requests that overlap.
RegistrationSound == FailuresRated /\ OneAccount
=============================================================================
