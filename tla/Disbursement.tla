---------------------------- MODULE Disbursement ----------------------------
(***************************************************************************)
(* What the payments service promises about money, with nothing of how: a  *)
(* disbursement is opened once per invoice, collects at most two           *)
(* signatures, each of a different manager, and money may be sent only     *)
(* when it has both.  Signatures, once given, stay; sent money stays sent. *)
(***************************************************************************)
CONSTANTS Invoices, Managers

VARIABLES
  opened,      \* invoices with a disbursement
  signatures,  \* who signed each disbursement
  sent         \* invoices for which money was sent

dvars == <<opened, signatures, sent>>

DInit ==
  /\ opened = {}
  /\ signatures = [i \in Invoices |-> {}]
  /\ sent = {}

Open(i) ==
  /\ i \notin opened
  /\ opened' = opened \cup {i}
  /\ UNCHANGED <<signatures, sent>>

\* A signature is the first, or the second by somebody else.
Sign(i, u) ==
  /\ i \in opened
  /\ \/ signatures[i] = {}
     \/ \E v \in Managers \ {u} : signatures[i] = {v}
  /\ signatures' = [signatures EXCEPT ![i] = @ \cup {u}]
  /\ UNCHANGED <<opened, sent>>

Send(i) ==
  /\ \E u, v \in signatures[i] : u # v
  /\ sent' = sent \cup {i}
  /\ UNCHANGED <<opened, signatures>>

DNext ==
  \E i \in Invoices :
    \/ Open(i)
    \/ \E u \in Managers : Sign(i, u)
    \/ Send(i)

DSpec == DInit /\ [][DNext]_dvars
=============================================================================
