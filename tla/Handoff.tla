------------------------------ MODULE Handoff -------------------------------
(***************************************************************************)
(* What approvals promises payments, and payments relies on: an invoice    *)
(* becomes approved only once a process-payment job for it is in the       *)
(* queue, and neither is ever taken back.  A job may be there without the  *)
(* approval: the transaction that enqueued it has not committed, or has    *)
(* rolled back.                                                            *)
(***************************************************************************)
CONSTANT Invoices

VARIABLES
  enqueued,  \* invoices with a process-payment job
  approved   \* invoices whose approval committed

hvars == <<enqueued, approved>>

HInit == enqueued = {} /\ approved = {}

Enqueue(i) ==
  /\ enqueued' = enqueued \cup {i}
  /\ UNCHANGED approved

Approve(i) ==
  /\ i \in enqueued
  /\ approved' = approved \cup {i}
  /\ UNCHANGED enqueued

HNext == \E i \in Invoices : Enqueue(i) \/ Approve(i)

HSpec == HInit /\ [][HNext]_hvars
=============================================================================
