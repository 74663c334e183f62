-------------------------- MODULE InvoiceLifecycle --------------------------
(***************************************************************************)
(* What intake promises the rest of the platform about an invoice: it goes *)
(* forward only, its terms are those it was submitted with, the buyer      *)
(* confirms it once, it is accepted or declined once, and pricing is asked *)
(* for an accepted invoice, once.                                          *)
(***************************************************************************)
EXTENDS Naturals

CONSTANTS Invoices, Values

VARIABLES
  stage,  \* how far each invoice has come
  terms,  \* its face value
  asked   \* how many times pricing was asked for it

lvars == <<stage, terms, asked>>

LInit ==
  /\ stage = [i \in Invoices |-> "none"]
  /\ terms = [i \in Invoices |-> 0]
  /\ asked = [i \in Invoices |-> 0]

Move(i, from, to) ==
  /\ stage[i] = from
  /\ stage' = [stage EXCEPT ![i] = to]

Record(i, to) ==
  /\ Move(i, "none", to)
  /\ \E v \in Values : terms' = [terms EXCEPT ![i] = v]
  /\ UNCHANGED asked

Revise(i) ==
  /\ stage[i] = "draft"
  /\ \E v \in Values : terms' = [terms EXCEPT ![i] = v]
  /\ UNCHANGED <<stage, asked>>

Progress(i) ==
  /\ \/ Move(i, "draft", "submitted")
     \/ Move(i, "submitted", "buyer_confirmed")
     \/ Move(i, "buyer_confirmed", "scored")
     \/ Move(i, "buyer_confirmed", "rejected")
  /\ UNCHANGED <<terms, asked>>

Ask(i) ==
  /\ stage[i] = "scored"
  /\ asked[i] = 0
  /\ asked' = [asked EXCEPT ![i] = 1]
  /\ UNCHANGED <<stage, terms>>

LNext ==
  \E i \in Invoices :
    Record(i, "draft") \/ Record(i, "submitted") \/ Revise(i) \/ Progress(i)
      \/ Ask(i)

LSpec == LInit /\ [][LNext]_lvars
=============================================================================
