---------------------------- MODULE Facilities ----------------------------
(***************************************************************************)
(* Bank credit: a drawdown takes part of a facility's limit, its repayment *)
(* gives it back, and a nightly job adds interest to the drawdowns it has  *)
(* found active.  createDrawdown and processRepayment hold the facility's  *)
(* row (SELECT ... FOR UPDATE) to their COMMIT and are one action each;    *)
(* the accrual job reads without a lock and writes later.                  *)
(*                                                                         *)
(* Interest is counted in days: the daily amount is fixed by principal and *)
(* rate.  The tables are those of migration 006, which the queries are     *)
(* written for.                                                            *)
(***************************************************************************)
EXTENDS Integers, FiniteSets, FiniteSetsExt

CONSTANTS
  BankFacilities,
  TotalLimit,      \* total_limit of each facility
  Matures,         \* maturity_date of each facility, as a day
  Drawdowns,       \* ids of drawdown rows, uuidv4() draws a fresh one
  Principals,      \* amounts drawn
  DueDays,         \* due days of the invoices
  Accruals,        \* accrual jobs, one per server
  LastDay          \* bound on the calendar

ASSUME FacilitiesAssumption ==
  /\ IsFiniteSet(BankFacilities) /\ IsFiniteSet(Drawdowns)
  /\ TotalLimit \in [BankFacilities -> Nat \ {0}]
  /\ Matures \in [BankFacilities -> Nat]
  /\ Principals \subseteq Nat
  /\ DueDays \subseteq Nat
  /\ LastDay \in Nat

VARIABLES
  facility,    \* rows of bank_facilities
  drawdown,    \* rows of facility_drawdowns
  repayments,  \* rows of facility_repayments per drawdown
  today,       \* CURRENT_DATE
  accrual      \* the drawdowns each job has read and not yet written

facilityVars == <<facility, drawdown, repayments, today, accrual>>

\* available_amount is total_limit - drawn_amount, kept so by a trigger.
Facility == [status : {"active", "suspended"}, drawn : Nat]

NoDrawdown == [status |-> "none"]

Drawdown ==
  {NoDrawdown}
    \cup [status : {"active", "repaid"}, fac : BankFacilities,
          principal : Nat \ {0}, opened : Nat, interest : Nat, last : Nat]

\* The last_accrued_date that was read, and the day of the job.
Pending == [dd : Drawdowns, last : Nat, until : Nat]

FacilitiesTypeOK ==
  /\ facility \in [BankFacilities -> Facility]
  /\ drawdown \in [Drawdowns -> Drawdown]
  /\ repayments \in [Drawdowns -> Nat]
  /\ today \in 0..LastDay
  /\ accrual \in [Accruals -> SUBSET Pending]

FacilitiesInit ==
  /\ facility = [f \in BankFacilities |-> [status |-> "active", drawn |-> 0]]
  /\ drawdown = [d \in Drawdowns |-> NoDrawdown]
  /\ repayments = [d \in Drawdowns |-> 0]
  /\ today = 0
  /\ accrual = [a \in Accruals |-> {}]

-----------------------------------------------------------------------------

\* calculateUtilisation: hundredths of a percent, rounded down.
CalculateUtilisation(drawn, limit) ==
  IF limit = 0 THEN 0 ELSE (drawn * 10000) \div limit

\* Mutant: above the critical threshold only.
SuspendAbove(f, drawn) ==
  IF CalculateUtilisation(drawn, TotalLimit[f]) > 9000 THEN "suspended"
                                                      ELSE facility[f].status

\* handleUtilisationThresholds, with UTILISATION_CRITICAL = 90.
StatusAt(f, drawn) ==
  IF CalculateUtilisation(drawn, TotalLimit[f]) >= 9000 THEN "suspended"
                                                       ELSE facility[f].status

\* validateAvailableAmount.
FitsAvailable(f, p) == p <= TotalLimit[f] - facility[f].drawn

\* createDrawdown.
CreateDrawdown(f, d, p, due) ==
  LET drawn == facility[f].drawn + p IN
  /\ drawdown[d] = NoDrawdown
  /\ facility[f].status = "active"
  /\ Matures[f] >= due
  /\ FitsAvailable(f, p)
  /\ p > 0
  /\ drawdown' = [drawdown EXCEPT ![d] =
                    [status |-> "active", fac |-> f, principal |-> p,
                     opened |-> today, interest |-> 0, last |-> today]]
  /\ facility' = [facility EXCEPT ![f] =
                    [status |-> StatusAt(f, drawn), drawn |-> drawn]]
  /\ UNCHANGED <<repayments, today, accrual>>

\* Mutant: the drawdown's status is not looked at under the lock.
AnyDrawdown(d) == drawdown[d] # NoDrawdown

\* loadRepayableDrawdown.
Repayable(d) == drawdown[d].status = "active"

\* Mutant: no constraint keeps drawn_amount from going negative.
RepayUnchecked(f, d) ==
  /\ Repayable(d)
  /\ repayments' = [repayments EXCEPT ![d] = @ + 1]
  /\ drawdown' = [drawdown EXCEPT ![d].status = "repaid"]
  /\ facility' = [facility EXCEPT ![f].drawn = @ - drawdown[d].principal]
  /\ UNCHANGED <<today, accrual>>

\* processRepayment of a drawdown through any facility: the request names
\* both, and nothing compares the drawdown's facility_id.  The facility stays
\* suspended; drawn_amount >= 0 is a constraint.
ProcessRepayment(f, d) ==
  /\ Repayable(d)
  /\ facility[f].drawn >= drawdown[d].principal
  /\ repayments' = [repayments EXCEPT ![d] = @ + 1]
  /\ drawdown' = [drawdown EXCEPT ![d].status = "repaid"]
  /\ facility' = [facility EXCEPT ![f].drawn = @ - drawdown[d].principal]
  /\ UNCHANGED <<today, accrual>>

\* checkUtilisationAlerts, for one active facility.
SendUtilisationAlert(f) ==
  /\ facility[f].status = "active"
  /\ facility' = [facility EXCEPT ![f].status = StatusAt(f, facility[f].drawn)]
  /\ UNCHANGED <<drawdown, repayments, today, accrual>>

\* accrueInterest: getActiveDrawdowns, those not yet accrued today.
AccrueInterest(a) ==
  /\ accrual[a] = {}
  /\ accrual' = [accrual EXCEPT ![a] =
       {[dd |-> d, last |-> drawdown[d].last, until |-> today] :
          d \in {e \in Drawdowns : /\ drawdown[e].status = "active"
                                   /\ drawdown[e].last < today}}]
  /\ accrual'[a] # {}
  /\ UNCHANGED <<facility, drawdown, repayments, today>>

\* Mutant: the days that were missed are not made up for.
OneDay(p) == 1

\* accrueEachDay: one addition for each day after the one that was read.
DaysToAccrue(p) == p.until - p.last

\* applyAccrualTxn, for one drawdown, by id and whatever became of it.
ApplyAccrual(a, p) ==
  /\ p \in accrual[a]
  /\ drawdown' = [drawdown EXCEPT ![p.dd].interest = @ + DaysToAccrue(p),
                                  ![p.dd].last = p.until]
  /\ accrual' = [accrual EXCEPT ![a] = @ \ {p}]
  /\ UNCHANGED <<facility, repayments, today>>

\* A failed transaction is logged and passed over; the next run makes up.
SkipAccrual(a, p) ==
  /\ p \in accrual[a]
  /\ accrual' = [accrual EXCEPT ![a] = @ \ {p}]
  /\ UNCHANGED <<facility, drawdown, repayments, today>>

Midnight ==
  /\ today < LastDay
  /\ today' = today + 1
  /\ UNCHANGED <<facility, drawdown, repayments, accrual>>

FacilitiesNext ==
  \/ \E f \in BankFacilities, d \in Drawdowns :
       \/ \E p \in Principals, due \in DueDays : CreateDrawdown(f, d, p, due)
       \/ ProcessRepayment(f, d)
  \/ \E f \in BankFacilities : SendUtilisationAlert(f)
  \/ \E a \in Accruals :
       \/ AccrueInterest(a)
       \/ \E p \in accrual[a] : ApplyAccrual(a, p) \/ SkipAccrual(a, p)
  \/ Midnight

-----------------------------------------------------------------------------

\* The sum of the amounts in a table.
TotalOf(amount) == MapThenSumSet(LAMBDA x : amount[x], DOMAIN amount)

Drawn == [f \in BankFacilities |-> facility[f].drawn]
Owed == [d \in Drawdowns |->
           IF drawdown[d].status = "active" THEN drawdown[d].principal ELSE 0]

\* The bank's books: whatever facility a repayment is booked to, what all
\* facilities have drawn is what the open drawdowns owe, and a drawdown is
\* closed by one repayment.
DrawnIsOwed ==
  /\ TotalOf(Drawn) = TotalOf(Owed)
  /\ \A d \in Drawdowns :
       repayments[d] = IF drawdown[d].status = "repaid" THEN 1 ELSE 0

\* accrueInterest: whatever runs overlap, fail or are missed, the bank is owed
\* interest for every day up to the last one accrued.  (It may be owed more:
\* two runs that read the same date both add the day.)
InterestNotLost ==
  \A d \in Drawdowns :
    drawdown[d] # NoDrawdown
      => drawdown[d].interest >= drawdown[d].last - drawdown[d].opened

\* handleUtilisationThresholds: the limit is never exceeded, and a facility
\* at 90% is suspended before anybody can draw again.
LimitGuarded ==
  \A f \in BankFacilities :
    /\ facility[f].drawn <= TotalLimit[f]
    /\ facility[f].drawn * 10 >= TotalLimit[f] * 9
         => facility[f].status = "suspended"

\* createDrawdown, processRepayment and accrueInterest keep the bank's books:
\* principal, interest and limits.
BooksBalance == DrawnIsOwed /\ InterestNotLost /\ LimitGuarded
=============================================================================
