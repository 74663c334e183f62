--------------------------- MODULE MCCollections ---------------------------
(* Instances of Collections for TLC.                                       *)
EXTENDS Collections, TLC

CONSTANTS i1, w1, w2, r1, r2

MCInvoices == {i1}
MCSweeps == {w1, w2}
MCRequests == {r1, r2}

\* At the AML threshold.
MCFaceValue == [i \in MCInvoices |-> 5]

\* The seed's rows, and one that has waited long enough to be in default.
MCOldRows ==
  {[status |-> "overdue", level |-> l, days |-> d, total |-> 0,
    sar |-> FALSE] : <<l, d>> \in {<<0, 22>>, <<1, 36>>, <<2, 90>>}}

\* On time, and late beyond the cap.
MCLateDays == {-1, 45}
=============================================================================
