------------------------------ MODULE MCIntake ------------------------------
(* Small instances of Intake for TLC.                                      *)
EXTENDS Intake

CONSTANTS i1, n1

\* Two rows that want the same number.
SameNumber == [i \in Invoices |-> n1]

\* Two clicks on the link of the first.
TwoClicks == [c \in Confirms |-> i1]
=============================================================================
