---------------------------- MODULE MCApprovals -----------------------------
(* Small instances of Approvals for TLC.                                   *)
EXTENDS Approvals, TLC

CONSTANTS i1, i2, o1, o2, m1

Request(i, officer, decision, n) ==
  [inv |-> i, officer |-> officer, decision |-> decision, nr |-> n]

\* The upper boundary of determineTier's Tier 3.
Tier3Value == i1 :> 200000000 @@ i2 :> 200000000
GoodScore == i1 :> 75 @@ i2 :> 75
NotFlagged == i1 :> FALSE @@ i2 :> FALSE

\* On i1 a committee, one officer of which approves twice and rejects twice
\* while management approves once; on i2 one officer approves twice and the
\* other rejects.
Decisions ==
  {Request(i1, o1, "APPROVED", 1), Request(i1, o1, "APPROVED", 2),
   Request(i1, m1, "APPROVED", 1),
   Request(i1, o1, "REJECTED", 1), Request(i1, o1, "REJECTED", 2),
   Request(i2, o1, "APPROVED", 1), Request(i2, o1, "APPROVED", 2),
   Request(i2, o2, "REJECTED", 1)}

\* Decisions on different invoices share no row and no lock: one of the two
\* is priced, the other is left alone.
OnePriced == invoice[i1] = "scored" \/ invoice[i2] = "scored"

MCNext == Next /\ OnePriced'

MCSpec == Init /\ [][MCNext]_vars /\ Fairness
=============================================================================
