----------------------------- MODULE Repayment -----------------------------
(***************************************************************************)
(* What collecting an invoice promises: the buyer pays it once, the credit *)
(* it took up is given back in the same instant, and the settlement of a   *)
(* paid invoice is asked for once.                                         *)
(***************************************************************************)
EXTENDS Integers

CONSTANTS Invoices, FaceValue, InitialUsed

VARIABLES
  paid,    \* invoices the buyer has paid
  credit,  \* what the buyer's unpaid invoices take up
  asked    \* invoices whose settlement was asked for

pvars == <<paid, credit, asked>>

PInit == paid = {} /\ credit \in InitialUsed /\ asked = {}

Pay(i) ==
  /\ i \notin paid
  /\ paid' = paid \cup {i}
  /\ credit' = credit - FaceValue[i]
  /\ credit' >= 0
  /\ UNCHANGED asked

Settle(i) ==
  /\ i \in paid \ asked
  /\ asked' = asked \cup {i}
  /\ UNCHANGED <<paid, credit>>

PNext == \E i \in Invoices : Pay(i) \/ Settle(i)

PSpec == PInit /\ [][PNext]_pvars
=============================================================================
