------------------------------- MODULE Terms --------------------------------
(***************************************************************************)
(* What an invoice is scored with and what its supplier is offered: the    *)
(* five factors and their bands, the recommendation, and the BigInt        *)
(* arithmetic of the price with its truncations.  Rates are NUMERIC(5,4)   *)
(* and appear here in 1/10000; weights in 1/100.  Where the code adds      *)
(* binary fractions (the score, the rate under the cap), a sum that lies   *)
(* exactly on a boundary may come out on either side.                      *)
(***************************************************************************)
EXTENDS Integers, FiniteSets, FiniteSetsExt

CONSTANTS
  FaceValues, Tenors, Ratings, Collaterals,
  Records,         \* [collected, defaulted]: the supplier's past invoices
  Utilisations,    \* projected utilisation of the buyer's limit, in %
  ReferThresholds, \* values of threshold_refer_manager
  BankRates, MarginRates,
  Precision        \* PRECISION

ASSUME TermsAssumption ==
  /\ FaceValues \subseteq Nat \ {0} /\ Tenors \subseteq 7..90
  /\ Records \subseteq [collected : Nat, defaulted : Nat]
  /\ Utilisations \subseteq Nat /\ ReferThresholds \subseteq 0..75
  /\ BankRates \subseteq Nat /\ MarginRates \subseteq Nat

ASSUME PrecisionAssumption ==
  Precision \in Nat \ {0} /\ Precision % 10000 = 0

VARIABLES
  deal,   \* invoice, buyer, supplier and configuration, as they are
  score,  \* risk_scores: the row's scores, or none
  price   \* its pricing columns, or none

termVars == <<deal, score, price>>

Factors5 == {"buyer_credit", "tenor", "track_record", "concentration", "collateral"}

Weight == [buyer_credit |-> 30, tenor |-> 20, track_record |-> 20,
           concentration |-> 15, collateral |-> 15]

Unscored == [state |-> "none"]
Unpriced == [state |-> "none"]

TermsTypeOK ==
  /\ score # Unscored =>
       /\ score.final \in Nat /\ score.final <= 100
       /\ score.recommendation \in {"AUTO_APPROVE", "REFER_TO_MANAGER", "REJECT"}
       /\ score.advance \in Nat /\ score.advance <= 10000
       /\ score.premium \in Nat /\ score.premium <= 10000
  /\ price.state = "priced" => score.recommendation # "REJECT"

TermsInit ==
  /\ deal \in [face : FaceValues, tenor : Tenors, rating : Ratings, record : Records,
               util : Utilisations, collateral : Collaterals, refer : ReferThresholds]
  /\ score = Unscored
  /\ price = Unpriced

---------------------------------------------------------------------------
\* The factors.
CreditRatingScores(rating) ==
  CASE rating = "A" -> 100 [] rating = "B" -> 75 [] rating = "C" -> 50
    [] rating = "D" -> 25 [] OTHER -> 0

CalculateTenorRaw(days) ==
  CASE days \in 1..30 -> 100 [] days \in 31..60 -> 75 [] days \in 61..90 -> 50
    [] OTHER -> 0

\* getSupplierTrackRecord: the invoices that were collected or defaulted.
InvoiceCount(r) == r.collected + r.defaulted
OnTime(r, pct) == 100 * r.collected > pct * InvoiceCount(r)

CalculateTrackRecordRaw(r) ==
  CASE r.defaulted > 0 -> 25
    [] r.defaulted = 0 /\ InvoiceCount(r) = 0 -> 50
    [] r.defaulted = 0 /\ InvoiceCount(r) \in 1..3 -> IF OnTime(r, 90) THEN 70 ELSE 50
    [] r.defaulted = 0 /\ InvoiceCount(r) \in 4..10 ->
         IF OnTime(r, 95) THEN 100 ELSE IF OnTime(r, 90) THEN 85 ELSE 70
    [] OTHER -> IF OnTime(r, 95) THEN 100 ELSE 85

CalculateConcentrationRaw(pct) ==
  CASE pct <= 40 -> 100 [] pct \in 41..60 -> 75 [] pct \in 61..75 -> 50
    [] pct \in 76..90 -> 25 [] OTHER -> 0

CalculateCollateralRaw(type) ==
  CASE type = "bank_guarantee" -> 100 [] type = "fixed_deposit_lien" -> 85
    [] type = "assignment_of_receivables" -> 75 [] type = "performance_bond" -> 70
    [] type = "post_dated_cheque_full_value" -> 60 [] type = "corporate_guarantee" -> 40
    [] OTHER -> 0

Raw(d) ==
  [buyer_credit |-> CreditRatingScores(d.rating),
   tenor |-> CalculateTenorRaw(d.tenor),
   track_record |-> CalculateTrackRecordRaw(d.record),
   concentration |-> CalculateConcentrationRaw(d.util),
   collateral |-> CalculateCollateralRaw(d.collateral)]

SumOfFactors(s) ==
  s.buyer_credit + s.tenor + s.track_record + s.concentration + s.collateral

\* Mutant: a factor that cannot be read is given the middle of its scale.
FailedIsNeutral(d, failed) ==
  SumOfFactors([f \in Factors5 |-> Weight[f] * (IF f \in failed THEN 50 ELSE Raw(d)[f])])

\* A factor whose query fails counts as zero.
RawSum(d, failed) ==
  SumOfFactors([f \in Factors5 |-> IF f \in failed THEN 0 ELSE Weight[f] * Raw(d)[f]])

\* Math.round of the sum.
FinalScores(sum) ==
  {n \in 0..100 : 200 * n - 100 <= 2 * sum /\ 2 * sum <= 200 * n + 100}

---------------------------------------------------------------------------
\* The bands of the score.
DetermineRecommendation(s, refer) ==
  CASE s >= 75 -> "AUTO_APPROVE"
    [] s < 75 /\ s >= refer -> "REFER_TO_MANAGER"
    [] OTHER -> "REJECT"

DetermineMaxAdvance(s, refer) ==
  CASE s >= 75 -> 9500
    [] s \in 60..74 -> 9000
    [] s < 60 /\ s >= refer -> 8500
    [] OTHER -> 0

\* Mutant: the premiums of the two middle bands are swapped.
PremiumSwapped(s) ==
  CASE s >= 80 -> 0 [] s \in 70..79 -> 100 [] s \in 60..69 -> 50
    [] s \in 50..59 -> 150 [] OTHER -> 0

DetermineRiskPremium(s) ==
  CASE s >= 80 -> 0 [] s \in 70..79 -> 50 [] s \in 60..69 -> 100
    [] s \in 50..59 -> 150 [] OTHER -> 0

\* Mutant: scores above the last band are counted as they are.
BonusPoint(failed, n) ==
  /\ score = Unscored
  /\ n \in FinalScores(RawSum(deal, failed))
  /\ score' = [final |-> n + 1,
               recommendation |-> DetermineRecommendation(n + 1, deal.refer),
               advance |-> DetermineMaxAdvance(n + 1, deal.refer),
               premium |-> DetermineRiskPremium(n + 1)]
  /\ UNCHANGED <<deal, price>>

ScoreTerms(failed, n) ==
  /\ score = Unscored
  /\ n \in FinalScores(RawSum(deal, failed))
  /\ score' = [final |-> n,
               recommendation |-> DetermineRecommendation(n, deal.refer),
               advance |-> DetermineMaxAdvance(n, deal.refer),
               premium |-> DetermineRiskPremium(n)]
  /\ UNCHANGED <<deal, price>>

---------------------------------------------------------------------------
\* The price.
ToScaled(rate) == rate * (Precision \div 10000)

CalculatePricing(face, tenor, advancePct, bank, premium, margin) ==
  LET discountRate == ((ToScaled(bank) + ToScaled(premium) + ToScaled(margin)) * tenor) \div 365
      advance == (face * ToScaled(advancePct)) \div Precision
      discount == (face * discountRate) \div Precision
      bankCost == (advance * ((ToScaled(bank) * tenor) \div 365)) \div Precision
  IN [advance |-> advance, discount |-> discount, net |-> advance - discount,
      bankCost |-> bankCost, profit |-> discount - bankCost]

\* Mutant: each component is taken for a whole year.
BreakdownOfYear(face, tenor, rate) == (face * ToScaled(rate)) \div Precision

\* One component of the breakdown shown to the supplier.
BuildFeeBreakdown(face, tenor, rate) == (face * ToScaled(rate) * tenor) \div (365 * Precision)

\* Mutant: the cap is put on the costs, without the company's margin.
CapOnCosts(bank, premium, margin) ==
  (IF bank + premium <= 1500 THEN {TRUE} ELSE {}) \cup
  (IF bank + premium >= 1500 THEN {FALSE} ELSE {})

\* Whether the rate may be charged: at the cap itself, the fractions decide.
ValidateRateCap(bank, premium, margin) ==
  LET annual == bank + premium + margin IN
  (IF annual <= 1500 THEN {TRUE} ELSE {}) \cup (IF annual >= 1500 THEN {FALSE} ELSE {})

PriceDeal(bank, margin) ==
  LET offer == CalculatePricing(deal.face, deal.tenor, score.advance, bank, score.premium, margin)
      Component(rate) == BuildFeeBreakdown(deal.face, deal.tenor, rate)
  IN
  /\ score # Unscored
  /\ score.recommendation # "REJECT"
  /\ price = Unpriced
  /\ \/ /\ TRUE \in ValidateRateCap(bank, score.premium, margin)
        /\ price' = [state |-> "priced", bank |-> bank, margin |-> margin, offer |-> offer,
                     fees |-> Component(bank) + Component(score.premium) + Component(margin)]
     \/ /\ FALSE \in ValidateRateCap(bank, score.premium, margin)
        /\ price' = [state |-> "refused", bank |-> bank, margin |-> margin]
  /\ UNCHANGED <<deal, score>>

TermsNext ==
  \/ \E failed \in SUBSET Factors5 :
       \E n \in FinalScores(RawSum(deal, failed)) : ScoreTerms(failed, n)
  \/ \E bank \in BankRates, margin \in MarginRates : PriceDeal(bank, margin)

---------------------------------------------------------------------------
Rank(recommendation) ==
  CASE recommendation = "REJECT" -> 0 [] recommendation = "REFER_TO_MANAGER" -> 1
    [] OTHER -> 2

\* A query that fails while a factor is computed never gets an invoice a better
\* recommendation or a higher advance than it would have got.
FailureNeverHelps ==
  score # Unscored =>
    LET best == Max(FinalScores(RawSum(deal, {}))) IN
    /\ Rank(score.recommendation) <= Rank(DetermineRecommendation(best, deal.refer))
    /\ score.advance <= DetermineMaxAdvance(best, deal.refer)

\* A lower score never pays the supplier more, whatever the truncations do,
\* as long as nobody lowers the threshold below the last band with a premium.
BetterScorePaysMore ==
  price.state = "priced" /\ deal.refer >= 50 =>
    \A s \in 0..score.final :
      DetermineRecommendation(s, deal.refer) # "REJECT" =>
        CalculatePricing(deal.face, deal.tenor, DetermineMaxAdvance(s, deal.refer),
                         price.bank, DetermineRiskPremium(s), price.margin).net
          <= price.offer.net

\* An offer stays within the invoice and under the cap, in shillings: the
\* supplier is never asked to pay, the bank's cost is covered, and the
\* discount is at most 15% a year of the face value.
OfferSound ==
  price.state = "priced" =>
    /\ 0 <= price.offer.net /\ price.offer.net <= price.offer.advance
    /\ price.offer.advance <= deal.face
    /\ price.offer.profit >= 0
    /\ price.offer.discount * 365 * 10000 <= deal.face * deal.tenor * 1500

\* The components shown to the supplier add up to the discount that is taken,
\* up to the truncations of the three components and of the daily rate.
BreakdownAddsUp ==
  price.state = "priced" =>
    /\ price.fees >= price.offer.discount - 2
    /\ price.fees <= price.offer.discount + (deal.face \div Precision) + 1

\* scoreInvoice and priceInvoice: failures and lower scores never pay, and an
\* offer is sound and explained.
TermsSound == FailureNeverHelps /\ BetterScorePaysMore /\ OfferSound /\ BreakdownAddsUp
=============================================================================
