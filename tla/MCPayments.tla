----------------------------- MODULE MCPayments -----------------------------
(* Small instances of Payments for TLC.                                    *)
EXTENDS Payments, TLC

CONSTANTS i1, j1, j2, e1, e2, m1, m2, m3

\* Two jobs for one invoice: the duplicate a second approver enqueues.
DuplicateJobs == j1 :> i1 @@ j2 :> i1
SingleJob == j1 :> i1

\* Two calls of executePayment for the same payment.
TwoExecutions == e1 :> i1 @@ e2 :> i1

\* One instance for two questions: the initiation by two jobs and all their
\* attempts, or the authorisation and execution of the payment that the
\* first attempt of a single job created.
OneConcern ==
  \/ requests = {} /\ \A e \in Executions : exec[e] = "idle"
  \/ job[j2].state = "none" /\ job[j1].attempts = 0

MCNext == Next /\ OneConcern'

MCSpec == Init /\ [][MCNext]_vars /\ Fairness
=============================================================================
