--------------------------- MODULE PaymentsProofs ---------------------------
(***************************************************************************)
(* Payments, for every set of invoices, managers, jobs and executions: the *)
(* typing of the state, the dual-authorisation rule and its companions,    *)
(* the history of a payment row and the refinement of Disbursement.        *)
(***************************************************************************)
EXTENDS Payments, TLAPS

Authorised == {"executing", "funded", "failed"}

\* The authorisers of a row are determined by its status.
RowShape ==
  \A i \in Invoices :
    /\ payment[i].status \in {"none", "pending_first_auth"} =>
         payment[i].user1 = NoUser /\ payment[i].user2 = NoUser
    /\ payment[i].status = "pending_second_auth" =>
         payment[i].user1 # NoUser /\ payment[i].user2 = NoUser
    /\ payment[i].status \in Authorised => DualAuthTrigger(payment[i])

\* A call past its first read belongs to an authorised row, and money is sent
\* only for one.
ExecShape ==
  /\ \A e \in Executions :
       exec[e] \notin {"idle", "done"} =>
         payment[ExecInvoice[e]].status \in Authorised
  /\ \A i \in Invoices :
       sentBy[i] # {} => payment[i].status \in Authorised

\* A call with a positive answer is one that sent the money.
AnswerShape ==
  /\ \A e \in Executions :
       exec[e] \in {"success", "pending", "notify"} =>
         sentBy[ExecInvoice[e]] # {}
  /\ \A i \in Invoices :
       (payment[i].status = "funded" \/ i \in monitored) => sentBy[i] # {}

\* What a job has checked stays true over its awaits.
JobShape ==
  /\ \A j \in Jobs :
       job[j].state \in {"lookup", "create"} =>
         invoice[JobInvoice[j]] # "priced" /\ ~ amlHold[JobInvoice[j]]
  /\ \A j \in Jobs : job[j].state = "done" => HasRow(JobInvoice[j])
  /\ \A j \in Jobs :
       job[j].state \in {"none", "waiting"} \cup ActiveStates =>
         job[j].attempts < MaxAttempts

Inv ==
  /\ TypeOK
  /\ RowShape
  /\ ExecShape
  /\ AnswerShape
  /\ JobShape
  /\ RowIffPastApproved
  /\ NoPaymentUnderAmlHold

\* The initial state has the types of TypeOK.
LEMMA InitTypeOK == Init => TypeOK
<1> SUFFICES ASSUME Init PROVE TypeOK
  OBVIOUS
<1> USE ConstantsAssumption DEF Init
<1>1. invoice \in [Invoices -> InvoiceStatus] /\ amlHold \in [Invoices -> BOOLEAN]
  BY DEF InvoiceStatus
<1>2. payment \in [Invoices -> Row]
  BY DEF Row, NoRow, PaymentStatus
<1>3. job \in [Jobs -> Job]
  BY DEF Job, JobState
<1>4. killSwitch \in BOOLEAN /\ reported \in SUBSET Invoices
      /\ requests \in SUBSET Request /\ monitored \in SUBSET Invoices
  OBVIOUS
<1>5. exec \in [Executions -> ExecState] /\ sentBy \in [Invoices -> SUBSET Executions]
  BY DEF ExecState
<1> QED BY <1>1, <1>2, <1>3, <1>4, <1>5 DEF TypeOK
\* FailAttempt counts the attempt of one job, which waits again only while
\* attempts are left.
LEMMA FailAttemptShape ==
  ASSUME Inv, NEW j \in Jobs, job[j].state \in {"waiting"} \cup ActiveStates,
         FailAttempt(j)
  PROVE  /\ job' \in [Jobs -> Job]
         /\ \A k \in Jobs \ {j} : job'[k] = job[k]
         /\ job'[j].state \in {"waiting", "exhausted"}
         /\ job'[j].state = "waiting" => job'[j].attempts < MaxAttempts
<1> DEFINE made == job[j].attempts + 1
           next == IF made >= MaxAttempts THEN "exhausted" ELSE "waiting"
<1>1. job[j] \in Job /\ job[j].attempts < MaxAttempts
  BY DEF Inv, TypeOK, JobShape
<1>2. made \in 0..MaxAttempts /\ next \in JobState
  BY <1>1, ConstantsAssumption DEF Job, JobState
<1>3. job' = [job EXCEPT ![j] = [@ EXCEPT !.attempts = made, !.state = next]]
  BY DEF FailAttempt, Inv, TypeOK
<1>4. [job[j] EXCEPT !.attempts = made, !.state = next] \in Job
  BY <1>1, <1>2 DEF Job
<1> HIDE DEF made, next
<1>5. job' \in [Jobs -> Job] /\ job'[j].state = next /\ job'[j].attempts = made
  BY <1>1, <1>3, <1>4 DEF Inv, TypeOK, Job
<1> QED BY <1>1, <1>2, <1>3, <1>5, ConstantsAssumption DEF Inv, TypeOK, Job, made, next

\* Advance moves the state of one job and nothing else.
LEMMA AdvanceShape ==
  ASSUME Inv, NEW j \in Jobs, NEW s \in JobState, Advance(j, s)
  PROVE  /\ job' \in [Jobs -> Job]
         /\ \A k \in Jobs \ {j} : job'[k] = job[k]
         /\ job'[j].state = s
         /\ job'[j].attempts = job[j].attempts
  BY DEF Inv, TypeOK, Advance, Job

\* An invoice that becomes 'approved' has no payment row.
LEMMA CommitApprovalStep == ASSUME Inv, NEW i \in Invoices, CommitApproval(i) PROVE Inv'
<1>1. TypeOK'
  BY ConstantsAssumption DEF Inv, CommitApproval, jobVars, execVars, TypeOK,
         InvoiceStatus, PaymentStatus, Row, Job, JobState,
         ExecState, Request
<1>2. JobShape'
  BY ConstantsAssumption DEF Inv, CommitApproval, jobVars, execVars, JobShape,
         ActiveStates, HasRow, TypeOK, InvoiceStatus, PaymentStatus,
         Row, Job, JobState, ExecState, Request
<1>3. RowIffPastApproved'
  BY ConstantsAssumption DEF Inv, CommitApproval, jobVars, execVars, RowIffPastApproved,
         HasRow, TypeOK, InvoiceStatus, PaymentStatus, Row, Job,
         JobState, ExecState, Request
<1>4. RowShape' /\ ExecShape' /\ AnswerShape' /\ NoPaymentUnderAmlHold'
  BY DEF Inv, CommitApproval, jobVars, execVars, envVars, RowShape,
         Authorised, DualAuthTrigger, ExecShape, AnswerShape,
         NoPaymentUnderAmlHold, HasRow
<1> QED BY <1>1, <1>2, <1>3, <1>4 DEF Inv

\* A hold is only ever lifted.
LEMMA ClearAmlStep == ASSUME Inv, NEW i \in Invoices, ClearAml(i) PROVE Inv'
<1>1. TypeOK'
  BY ConstantsAssumption DEF Inv, ClearAml, jobVars, execVars, TypeOK, InvoiceStatus,
         PaymentStatus, Row, Job, JobState, ExecState, Request
<1>2. JobShape'
  BY ConstantsAssumption DEF Inv, ClearAml, jobVars, execVars, JobShape, ActiveStates,
         HasRow, TypeOK, InvoiceStatus, PaymentStatus, Row, Job,
         JobState, ExecState, Request
<1>3. NoPaymentUnderAmlHold'
  BY ConstantsAssumption DEF Inv, ClearAml, jobVars, execVars, NoPaymentUnderAmlHold,
         HasRow, TypeOK, InvoiceStatus, PaymentStatus, Row, Job,
         JobState, ExecState, Request
<1>4. RowShape' /\ ExecShape' /\ AnswerShape' /\ RowIffPastApproved'
  BY DEF Inv, ClearAml, jobVars, execVars, envVars, RowShape,
         Authorised, DualAuthTrigger, ExecShape, AnswerShape,
         RowIffPastApproved, HasRow
<1> QED BY <1>1, <1>2, <1>3, <1>4 DEF Inv

\* The kill switch fails executing rows and leaves their authorisers.
LEMMA ActivateKillSwitchStep == ASSUME Inv, ActivateKillSwitch PROVE Inv'
<1>1. TypeOK'
  BY ConstantsAssumption DEF Inv, ActivateKillSwitch, FailExecutingPayments, jobVars, execVars, HasRow, TypeOK,
         InvoiceStatus, PaymentStatus, Row, Job, JobState,
         ExecState, Request
<1>2. RowShape'
  BY ConstantsAssumption DEF Inv, ActivateKillSwitch, FailExecutingPayments, jobVars, execVars, HasRow,
         RowShape, Authorised, DualAuthTrigger, TypeOK,
         InvoiceStatus, PaymentStatus, Row, Job, JobState,
         ExecState, Request
<1>3. ExecShape'
  BY ConstantsAssumption DEF Inv, ActivateKillSwitch, FailExecutingPayments, jobVars, execVars, HasRow,
         ExecShape, Authorised, TypeOK, InvoiceStatus,
         PaymentStatus, Row, Job, JobState, ExecState, Request
<1>4. AnswerShape'
  BY ConstantsAssumption DEF Inv, ActivateKillSwitch, FailExecutingPayments, jobVars, execVars, HasRow,
         AnswerShape, TypeOK, InvoiceStatus, PaymentStatus, Row,
         Job, JobState, ExecState, Request
<1>5. \A i \in Invoices : HasRow(i)' <=> HasRow(i)
  BY DEF Inv, ActivateKillSwitch, FailExecutingPayments, HasRow, TypeOK, Row
<1>6. JobShape' /\ RowIffPastApproved' /\ NoPaymentUnderAmlHold'
  BY <1>5, ConstantsAssumption
  DEF Inv, ActivateKillSwitch, FailExecutingPayments, jobVars, JobShape, ActiveStates,
      RowIffPastApproved, NoPaymentUnderAmlHold
<1> QED BY <1>1, <1>2, <1>3, <1>4, <1>6 DEF Inv

\* Lifting the kill switch, or writing the setting only, touches no row.
LEMMA ToggleKillSwitchStep ==
  ASSUME Inv,
         DeactivateKillSwitch \/ \E enabled \in BOOLEAN :
                                   ToggleKillSwitch(enabled)
  PROVE  Inv'
<1> USE DEF DeactivateKillSwitch, ToggleKillSwitch
<1>1. TypeOK'
  BY DEF Inv, jobVars, execVars, TypeOK
<1>2. RowShape' /\ ExecShape' /\ AnswerShape' /\ JobShape' /\ RowIffPastApproved' /\ NoPaymentUnderAmlHold'
  BY DEF Inv, jobVars, execVars, envVars,
         RowShape, Authorised, DualAuthTrigger, ExecShape,
         AnswerShape, JobShape, ActiveStates, HasRow,
         RowIffPastApproved, NoPaymentUnderAmlHold
<1> QED BY <1>1, <1>2 DEF Inv

\* A step that changes jobs only keeps the other invariants.
LEMMA JobOnly ==
  ASSUME Inv, job' \in [Jobs -> Job], JobShape',
         UNCHANGED <<invoice, amlHold, payment, killSwitch, reported,
                     requests, exec, sentBy, monitored>>
  PROVE  Inv'
  BY DEF Inv, TypeOK, RowShape, ExecShape, AnswerShape, RowIffPastApproved,
         NoPaymentUnderAmlHold, HasRow

\* A new job has all its attempts.
LEMMA QueuePaymentStep == ASSUME Inv, NEW j \in Jobs, QueuePayment(j) PROVE Inv'
<1>1. Advance(j, "waiting")
  BY DEF QueuePayment, Advance
<1>2. job' \in [Jobs -> Job] /\ JobShape'
  BY <1>1, AdvanceShape
  DEF QueuePayment, Inv, JobShape, JobState, ActiveStates, HasRow, envVars
<1>3. UNCHANGED <<invoice, amlHold, payment, killSwitch, reported, requests,
                  exec, sentBy, monitored>>
  BY DEF QueuePayment, envVars, execVars
<1> QED BY <1>2, <1>3, JobOnly

\* Starting a job reads the kill switch only.
LEMMA StartJobStep == ASSUME Inv, NEW j \in Jobs, StartJob(j) PROVE Inv'
<1>1. FailAttempt(j) \/ Advance(j, "validate")
  BY DEF StartJob
<1>2. job' \in [Jobs -> Job] /\ JobShape'
  <2>1. CASE FailAttempt(j)
    BY <2>1, FailAttemptShape
    DEF StartJob, Inv, JobShape, HasRow, envVars, ActiveStates
  <2>2. CASE Advance(j, "validate")
    BY <2>2, AdvanceShape
    DEF StartJob, Inv, JobShape, JobState, ActiveStates, HasRow, envVars
  <2> QED BY <1>1, <2>1, <2>2
<1>3. UNCHANGED <<invoice, amlHold, payment, killSwitch, reported, requests,
                  exec, sentBy, monitored>>
  BY DEF StartJob, envVars, execVars
<1> QED BY <1>2, <1>3, JobOnly

\* The guards of a job establish what JobShape says of "lookup".
LEMMA ValidateInvoiceForPaymentStep ==
  ASSUME Inv, NEW j \in Jobs, ValidateInvoiceForPayment(j)
  PROVE  Inv'
<1>1. \/ FailAttempt(j)
      \/ /\ Advance(j, "lookup")
         /\ invoice[JobInvoice[j]] = "approved" /\ ~ amlHold[JobInvoice[j]]
  BY DEF ValidateInvoiceForPayment
<1>2. job' \in [Jobs -> Job] /\ JobShape'
  <2>1. CASE FailAttempt(j)
    BY <2>1, FailAttemptShape
    DEF ValidateInvoiceForPayment, Inv, JobShape, HasRow, envVars, ActiveStates
  <2>2. CASE /\ Advance(j, "lookup")
             /\ invoice[JobInvoice[j]] = "approved" /\ ~ amlHold[JobInvoice[j]]
    BY <2>2, AdvanceShape
    DEF ValidateInvoiceForPayment, Inv, JobShape, JobState, ActiveStates,
        HasRow, envVars
  <2> QED BY <1>1, <2>1, <2>2
<1>3. UNCHANGED <<invoice, amlHold, payment, killSwitch, reported, requests,
                  exec, sentBy, monitored>>
  BY DEF ValidateInvoiceForPayment, envVars, execVars
<1> QED BY <1>2, <1>3, JobOnly

\* A job that finds the row is done.
LEMMA LookupPaymentStep == ASSUME Inv, NEW j \in Jobs, LookupPayment(j) PROVE Inv'
<1>1. job' \in [Jobs -> Job] /\ JobShape'
  BY AdvanceShape
  DEF LookupPayment, Inv, JobShape, JobState, ActiveStates, HasRow, envVars
<1>2. UNCHANGED <<invoice, amlHold, payment, killSwitch, reported, requests,
                  exec, sentBy, monitored>>
  BY DEF LookupPayment, envVars, execVars
<1> QED BY <1>1, <1>2, JobOnly

\* An exception in a job costs an attempt.
LEMMA ThrowInJobStep == ASSUME Inv, NEW j \in Jobs, ThrowInJob(j) PROVE Inv'
<1>1. job' \in [Jobs -> Job] /\ JobShape'
  BY FailAttemptShape DEF ThrowInJob, Inv, JobShape, HasRow, envVars, ActiveStates
<1>2. UNCHANGED <<invoice, amlHold, payment, killSwitch, reported, requests,
                  exec, sentBy, monitored>>
  BY DEF ThrowInJob, envVars, execVars
<1> QED BY <1>1, <1>2, JobOnly

\* A stalled job goes back to the queue, or fails.
LEMMA StallJobStep == ASSUME Inv, NEW j \in Jobs, StallJob(j) PROVE Inv'
<1> DEFINE next == IF job[j].stalled THEN "failed" ELSE "waiting"
<1>1. job' = [job EXCEPT ![j] = [@ EXCEPT !.state = next, !.stalled = TRUE]]
  BY DEF StallJob, Inv, TypeOK
<1>2. next \in {"failed", "waiting"}
  OBVIOUS
<1> HIDE DEF next
<1>3. [job[j] EXCEPT !.state = next, !.stalled = TRUE] \in Job
  BY <1>2 DEF Inv, TypeOK, Job, JobState
<1>4. /\ job' \in [Jobs -> Job]
      /\ \A k \in Jobs \ {j} : job'[k] = job[k]
      /\ job'[j].state = next
      /\ job'[j].attempts = job[j].attempts
  BY <1>1, <1>3 DEF Inv, TypeOK, Job
<1>5. JobShape'
  BY <1>2, <1>4 DEF StallJob, Inv, JobShape, ActiveStates, HasRow, envVars
<1>6. UNCHANGED <<invoice, amlHold, payment, killSwitch, reported, requests,
                  exec, sentBy, monitored>>
  BY DEF StallJob, envVars, execVars
<1> QED BY <1>4, <1>5, <1>6, JobOnly

\* Reporting a terminal failure only adds to the audit log.
LEMMA ReportTerminalFailureStep ==
  ASSUME Inv, NEW j \in Jobs, ReportTerminalFailure(j)
  PROVE  Inv'
<1>1. job' \in [Jobs -> Job] /\ JobShape'
  BY AdvanceShape
  DEF ReportTerminalFailure, Inv, JobShape, JobState, ActiveStates, HasRow, envVars
<1>2. reported' \in SUBSET Invoices
  BY ConstantsAssumption DEF ReportTerminalFailure, Inv, TypeOK
<1> QED BY <1>1, <1>2
        DEF ReportTerminalFailure, envVars, execVars, Inv, TypeOK, RowShape,
            ExecShape, AnswerShape, RowIffPastApproved, NoPaymentUnderAmlHold,
            HasRow

\* The new row has no authoriser, and its invoice was 'approved'.
LEMMA CreatePaymentStep == ASSUME Inv, NEW j \in Jobs, CreatePayment(j) PROVE Inv'
<1> DEFINE i == JobInvoice[j]
<1>1. i \in Invoices /\ job[j].state = "create"
  BY ConstantsAssumption DEF CreatePayment
<1>2. CASE HasRow(i)
  <2>1. FailAttempt(j) /\ UNCHANGED <<invoice, payment>>
    BY <1>2 DEF CreatePayment
  <2>2. UNCHANGED <<invoice, amlHold, payment, killSwitch, reported, requests,
                    exec, sentBy, monitored>>
    BY <2>1 DEF CreatePayment, execVars
  <2>3. job' \in [Jobs -> Job] /\ JobShape'
    BY <1>1, <2>1, <2>2, FailAttemptShape
    DEF Inv, JobShape, HasRow, ActiveStates
  <2> QED BY <2>2, <2>3, JobOnly
<1>3. CASE ~ HasRow(i)
  <2>1. /\ Advance(j, "done")
        /\ payment' = [payment EXCEPT ![i].status = "pending_first_auth"]
        /\ invoice' = IF invoice[i] = "approved"
                      THEN [invoice EXCEPT ![i] = "pending_first_auth"]
                      ELSE invoice
        /\ UNCHANGED <<amlHold, killSwitch, reported, requests, exec, sentBy,
                       monitored>>
    BY <1>3 DEF CreatePayment, UpdateInvoiceStatus, execVars
  <2>2. invoice[i] = "approved" /\ ~ amlHold[i]
    BY <1>1, <1>3
    DEF Inv, JobShape, RowIffPastApproved, TypeOK, InvoiceStatus
  <2>3. invoice' = [invoice EXCEPT ![i] = "pending_first_auth"]
    BY <2>1, <2>2
  <2>4. /\ job' \in [Jobs -> Job]
        /\ \A k \in Jobs \ {j} : job'[k] = job[k]
        /\ job'[j].state = "done"
    BY <2>1, AdvanceShape DEF JobState
  <2>5. payment'[i] = [status |-> "pending_first_auth",
                       user1 |-> NoUser, user2 |-> NoUser]
        /\ \A k \in Invoices \ {i} : payment'[k] = payment[k]
    BY <1>1, <1>3, <2>1 DEF Inv, TypeOK, RowShape, Row, HasRow
  <2> HIDE DEF i
  <2>6. TypeOK'
    BY <1>1, <2>1, <2>3, <2>4
    DEF Inv, TypeOK, Row, PaymentStatus, InvoiceStatus
  <2>7. RowShape'
    BY <1>1, <2>1, <2>5 DEF Inv, RowShape, Authorised, TypeOK
  <2>8. ExecShape' /\ AnswerShape'
    <3>1. payment[i].status \notin Authorised
      BY <1>3 DEF HasRow, Authorised
    <3>2. ExecShape'
      BY <1>1, <2>1, <2>5, <3>1, ConstantsAssumption DEF Inv, ExecShape, TypeOK
    <3>3. AnswerShape'
      BY <1>1, <2>1, <2>5, ConstantsAssumption DEF Inv, AnswerShape, TypeOK
    <3> QED BY <3>2, <3>3
  <2>9. JobShape'
    BY <1>1, <2>1, <2>3, <2>4, <2>5
    DEF Inv, JobShape, HasRow, TypeOK, ActiveStates, i
  <2>10. RowIffPastApproved' /\ NoPaymentUnderAmlHold'
    BY <1>1, <2>1, <2>2, <2>3, <2>5
    DEF Inv, RowIffPastApproved, NoPaymentUnderAmlHold, HasRow, TypeOK
  <2> QED BY <2>6, <2>7, <2>8, <2>9, <2>10 DEF Inv
<1> QED BY <1>2, <1>3

\* The authorise handler's read changes no row.
LEMMA AuthoriseReadStep ==
  ASSUME Inv, NEW u \in Managers, NEW i \in Invoices, AuthoriseRead(u, i)
  PROVE  Inv'
<1>1. requests' \in SUBSET Request
  BY DEF AuthoriseRead, Inv, TypeOK, Request
<1> QED BY <1>1
        DEF AuthoriseRead, envVars, jobVars, execVars, Inv, TypeOK, RowShape,
            ExecShape, AnswerShape, JobShape, RowIffPastApproved,
            NoPaymentUnderAmlHold, HasRow

\* A rejected request changes no row.
LEMMA RejectRequestStep == ASSUME Inv, NEW r \in requests, RejectRequest(r) PROVE Inv'
<1>1. requests' \in SUBSET Request
  BY DEF RejectRequest, Inv, TypeOK
<1> QED BY <1>1
        DEF RejectRequest, envVars, jobVars, execVars, Inv, TypeOK, RowShape,
            ExecShape, AnswerShape, JobShape, RowIffPastApproved,
            NoPaymentUnderAmlHold, HasRow

\* A step that rewrites one existing payment row, keeping it out of "none",
\* keeps what relates payments to jobs and invoices.
LEMMA RowOnly ==
  ASSUME Inv, NEW i \in Invoices, HasRow(i), NEW row \in Row,
         row.status # "none", payment' = [payment EXCEPT ![i] = row],
         UNCHANGED <<invoice, amlHold, killSwitch, job, reported>>
  PROVE  /\ payment' \in [Invoices -> Row]
         /\ JobShape' /\ RowIffPastApproved' /\ NoPaymentUnderAmlHold'
<1>1. payment' \in [Invoices -> Row]
  BY DEF Inv, TypeOK
<1>2. \A k \in Invoices : HasRow(k)' <=> HasRow(k)
  BY DEF Inv, TypeOK, HasRow
<1> QED BY <1>1, <1>2, ConstantsAssumption
        DEF Inv, JobShape, RowIffPastApproved, NoPaymentUnderAmlHold

\* The first authorisation makes the row pending_second_auth.
LEMMA RecordFirstAuthStep ==
  ASSUME Inv, NEW r \in requests, RecordFirstAuth(r)
  PROVE  Inv'
<1> DEFINE row == [payment[r.inv] EXCEPT !.user1 = r.user,
                                         !.status = "pending_second_auth"]
<1>1. r.inv \in Invoices /\ r.user \in Managers /\ r.user # NoUser
  BY ConstantsAssumption DEF Inv, TypeOK, Request
<1>2. /\ row \in Row /\ row.status = "pending_second_auth"
      /\ row.user1 = r.user /\ row.user2 = NoUser
  BY <1>1 DEF RecordFirstAuth, Inv, TypeOK, Row, PaymentStatus, RowShape
<1>3. payment' = [payment EXCEPT ![r.inv] = row]
  BY <1>1 DEF RecordFirstAuth, Inv, TypeOK
<1>4. /\ HasRow(r.inv) /\ payment[r.inv].status = "pending_first_auth"
      /\ requests' \in SUBSET Request
      /\ UNCHANGED <<invoice, amlHold, killSwitch, job, reported, exec,
                     sentBy, monitored>>
  BY DEF RecordFirstAuth, HasRow, envVars, jobVars, execVars, Inv, TypeOK
<1> HIDE DEF row
<1>5. /\ payment' \in [Invoices -> Row]
      /\ JobShape' /\ RowIffPastApproved' /\ NoPaymentUnderAmlHold'
  BY <1>1, <1>2, <1>3, <1>4, RowOnly
<1>6. RowShape'
  BY <1>1, <1>2, <1>3 DEF Inv, TypeOK, RowShape, Authorised
<1>7. ExecShape' /\ AnswerShape'
  BY <1>1, <1>2, <1>3, <1>4, ConstantsAssumption
  DEF Inv, TypeOK, ExecShape, AnswerShape, Authorised
<1> QED BY <1>4, <1>5, <1>6, <1>7 DEF Inv, TypeOK

\* The second authorisation, by somebody else, makes the row executing.
LEMMA RecordSecondAuthStep ==
  ASSUME Inv, NEW r \in requests, RecordSecondAuth(r)
  PROVE  Inv'
<1> DEFINE row == [payment[r.inv] EXCEPT !.user2 = r.user,
                                         !.status = "executing"]
<1>1. r.inv \in Invoices /\ r.user \in Managers /\ r.user # NoUser
  BY ConstantsAssumption DEF Inv, TypeOK, Request
<1>2. /\ row \in Row /\ row.status = "executing"
      /\ row.user1 # NoUser /\ row.user1 # row.user2 /\ row.user2 = r.user
  BY <1>1 DEF RecordSecondAuth, DifferentAuthoriser, Inv, TypeOK, Row,
              PaymentStatus, RowShape
<1>3. payment' = [payment EXCEPT ![r.inv] = row]
  BY <1>1 DEF RecordSecondAuth, Inv, TypeOK
<1>4. /\ HasRow(r.inv) /\ payment[r.inv].status = "pending_second_auth"
      /\ requests' \in SUBSET Request
      /\ UNCHANGED <<invoice, amlHold, killSwitch, job, reported, exec,
                     sentBy, monitored>>
  BY DEF RecordSecondAuth, HasRow, envVars, jobVars, execVars, Inv, TypeOK
<1> HIDE DEF row
<1>5. /\ payment' \in [Invoices -> Row]
      /\ JobShape' /\ RowIffPastApproved' /\ NoPaymentUnderAmlHold'
  BY <1>1, <1>2, <1>3, <1>4, RowOnly
<1>6. RowShape'
  BY <1>1, <1>2, <1>3 DEF Inv, TypeOK, RowShape, Authorised, DualAuthTrigger
<1>7. ExecShape' /\ AnswerShape'
  BY <1>1, <1>2, <1>3, <1>4, ConstantsAssumption
  DEF Inv, TypeOK, ExecShape, AnswerShape, Authorised
<1> QED BY <1>4, <1>5, <1>6, <1>7 DEF Inv, TypeOK

\* A step that only moves one call, to a state the row and the money sent
\* allow, keeps the invariant.
LEMMA ExecOnly ==
  ASSUME Inv, NEW e \in Executions, NEW to \in ExecState,
         exec' = [exec EXCEPT ![e] = to],
         to \notin {"idle", "done"} =>
           payment[ExecInvoice[e]].status \in Authorised,
         to \in {"success", "pending", "notify"} =>
           sentBy[ExecInvoice[e]] # {},
         UNCHANGED <<envVars, payment, jobVars, requests, sentBy, monitored>>
  PROVE  Inv'
<1>1. exec' \in [Executions -> ExecState]
  BY DEF Inv, TypeOK
<1>2. ExecShape' /\ AnswerShape'
  BY ConstantsAssumption DEF Inv, TypeOK, ExecShape, AnswerShape
<1> QED BY <1>1, <1>2
        DEF envVars, jobVars, Inv, TypeOK, RowShape, JobShape,
            RowIffPastApproved, NoPaymentUnderAmlHold, HasRow

\* Loading needs an executing row.
LEMMA LoadExecutablePaymentStep ==
  ASSUME Inv, NEW e \in Executions, LoadExecutablePayment(e)
  PROVE  Inv'
  BY ExecOnly DEF LoadExecutablePayment, Step, ExecState, Authorised

\* Finding the payment funded ends the call.
LEMMA AlreadyFundedStep ==
  ASSUME Inv, NEW e \in Executions, AlreadyFunded(e)
  PROVE  Inv'
  BY ExecOnly DEF AlreadyFunded, Step, ExecState

\* Recording a pending confirmation ends the call.
LEMMA RecordPendingStep ==
  ASSUME Inv, NEW e \in Executions, RecordPending(e)
  PROVE  Inv'
  BY ExecOnly DEF RecordPending, Step, ExecState

\* A crash ends the call.
LEMMA CrashExecutionStep ==
  ASSUME Inv, NEW e \in Executions, CrashExecution(e)
  PROVE  Inv'
  BY ExecOnly DEF CrashExecution, ExecState

\* An exception keeps the call alive, on a row that is authorised.
LEMMA ThrowInRouteStep ==
  ASSUME Inv, NEW e \in Executions, ThrowInRoute(e)
  PROVE  Inv'
<1>1. exec' = [exec EXCEPT ![e] = "failing"] /\ exec[e] \notin {"idle", "done"}
  BY DEF ThrowInRoute, Step
<1>2. payment[ExecInvoice[e]].status \in Authorised
  BY <1>1 DEF Inv, ExecShape
<1> QED BY <1>1, <1>2, ExecOnly DEF ThrowInRoute, ExecState

\* The provider is called for an authorised row only.
LEMMA CallProviderStep ==
  ASSUME Inv, NEW e \in Executions,
         NEW answer \in {"success", "pending", "failure"},
         CallProvider(e, answer)
  PROVE  Inv'
<1> DEFINE i == ExecInvoice[e]
<1>1. i \in Invoices /\ payment[i].status \in Authorised
  BY ConstantsAssumption DEF CallProvider, Step, Inv, ExecShape
<1>2. /\ exec' = [exec EXCEPT ![e] = answer]
      /\ UNCHANGED <<envVars, payment, jobVars, requests, monitored>>
  BY DEF CallProvider, Step
<1>3. CASE answer = "failure"
  BY <1>1, <1>2, <1>3, ExecOnly DEF CallProvider, ExecState
<1>4. CASE answer # "failure"
  <2>1. sentBy' = [sentBy EXCEPT ![i] = @ \cup {e}]
    BY <1>4 DEF CallProvider
  <2>2. /\ sentBy' \in [Invoices -> SUBSET Executions]
        /\ sentBy'[i] # {}
        /\ \A k \in Invoices : sentBy[k] # {} => sentBy'[k] # {}
        /\ \A k \in Invoices \ {i} : sentBy'[k] = sentBy[k]
    BY <1>1, <2>1 DEF Inv, TypeOK
  <2>3. exec' \in [Executions -> ExecState]
    BY <1>2 DEF Inv, TypeOK, ExecState
  <2> HIDE DEF i
  <2>4. TypeOK' /\ RowShape' /\ JobShape' /\ RowIffPastApproved'
          /\ NoPaymentUnderAmlHold'
    BY <1>2, <2>2, <2>3
    DEF envVars, jobVars, Inv, TypeOK, RowShape, JobShape,
        RowIffPastApproved, NoPaymentUnderAmlHold, HasRow
  <2>5. ExecShape'
    BY <1>1, <1>2, <2>2, ConstantsAssumption DEF Inv, TypeOK, ExecShape, i
  <2>6. AnswerShape'
    BY <1>1, <1>2, <2>2, ConstantsAssumption DEF Inv, TypeOK, AnswerShape, i
  <2> QED BY <2>4, <2>5, <2>6 DEF Inv
<1> QED BY <1>3, <1>4

\* A result changes the status of an authorised row to another authorised
\* status and leaves its authorisers; 'funded' needs money that was sent.
LEMMA ResultOnly ==
  ASSUME Inv, NEW e \in Executions, NEW to \in ExecState,
         NEW status \in {"funded", "failed"},
         payment[ExecInvoice[e]].status \in Authorised,
         exec' = [exec EXCEPT ![e] = to],
         payment' = [payment EXCEPT ![ExecInvoice[e]].status = status],
         (to \in {"success", "pending", "notify"} \/ status = "funded") =>
           sentBy[ExecInvoice[e]] # {},
         UNCHANGED <<envVars, jobVars, requests, sentBy, monitored>>
  PROVE  Inv'
<1> DEFINE i == ExecInvoice[e]
           row == [payment[i] EXCEPT !.status = status]
<1>1. i \in Invoices /\ payment[i] \in Row /\ HasRow(i)
  BY ConstantsAssumption DEF Inv, TypeOK, HasRow, Authorised
<1>2. /\ row \in Row /\ row.status = status
      /\ row.user1 = payment[i].user1 /\ row.user2 = payment[i].user2
  BY <1>1 DEF Row, PaymentStatus
<1>3. payment' = [payment EXCEPT ![i] = row]
  BY <1>1 DEF Inv, TypeOK
<1>4. status \in Authorised /\ status # "none"
  BY DEF Authorised
<1>5. UNCHANGED <<invoice, amlHold, killSwitch, job, reported>>
  BY DEF envVars, jobVars
<1>6. DualAuthTrigger(payment[i])
  BY <1>1 DEF Inv, RowShape
<1> HIDE DEF row
<1>7. /\ payment' \in [Invoices -> Row]
      /\ JobShape' /\ RowIffPastApproved' /\ NoPaymentUnderAmlHold'
  BY <1>1, <1>2, <1>3, <1>4, <1>5, RowOnly
<1>8. RowShape'
  <2>1. DualAuthTrigger(row)
    BY <1>2, <1>6 DEF DualAuthTrigger
  <2> QED BY <1>1, <1>2, <1>3, <2>1 DEF Inv, TypeOK, RowShape, Authorised
<1>9. exec' \in [Executions -> ExecState]
  BY DEF Inv, TypeOK
<1>10. ExecShape'
  BY <1>1, <1>2, <1>3, <1>4, ConstantsAssumption DEF Inv, TypeOK, ExecShape
<1>11. AnswerShape'
  BY <1>1, <1>2, <1>3, ConstantsAssumption DEF Inv, TypeOK, AnswerShape
<1> QED BY <1>5, <1>7, <1>8, <1>9, <1>10, <1>11 DEF Inv, TypeOK

\* Recording a success: the invoice's own transition never applies, because
\* an invoice with a payment row is not 'approved' any more.
LEMMA RecordSuccessStep ==
  ASSUME Inv, NEW e \in Executions, RecordSuccess(e)
  PROVE  Inv'
<1>1. /\ ExecInvoice[e] \in Invoices
      /\ payment[ExecInvoice[e]].status \in Authorised
      /\ sentBy[ExecInvoice[e]] # {}
  BY ConstantsAssumption
  DEF RecordSuccess, Step, Inv, ExecShape, AnswerShape
<1>2. invoice[ExecInvoice[e]] # "approved"
  BY <1>1 DEF Inv, RowIffPastApproved, HasRow, Authorised
<1>3. UNCHANGED <<envVars, jobVars, requests, sentBy, monitored>>
  BY <1>2 DEF RecordSuccess, UpdateInvoiceStatus, envVars, jobVars
<1> QED BY <1>1, <1>3, ResultOnly
        DEF RecordSuccess, UpdatePaymentResult, Step, ExecState

\* Recording a failure.
LEMMA RecordFailureStep ==
  ASSUME Inv, NEW e \in Executions, RecordFailure(e)
  PROVE  Inv'
<1>1. PICK to \in {"done", "failing"} : exec' = [exec EXCEPT ![e] = to]
  BY DEF RecordFailure, Step
<1>2. exec[e] \notin {"idle", "done"}
  BY DEF RecordFailure, Step
<1>3. payment[ExecInvoice[e]].status \in Authorised
  BY <1>2 DEF Inv, ExecShape
<1> QED BY <1>1, <1>3, ResultOnly
        DEF RecordFailure, UpdatePaymentResult, ExecState

\* Enqueueing the follow-up jobs: the money was sent.
LEMMA NotifyFundedStep ==
  ASSUME Inv, NEW e \in Executions, NotifyFunded(e)
  PROVE  Inv'
<1>1. ExecInvoice[e] \in Invoices /\ sentBy[ExecInvoice[e]] # {}
  BY ConstantsAssumption DEF NotifyFunded, Step, Inv, AnswerShape
<1>2. exec' \in [Executions -> ExecState] /\ monitored' \in SUBSET Invoices
  BY <1>1 DEF NotifyFunded, Step, Inv, TypeOK, ExecState
<1>3. ExecShape' /\ AnswerShape'
  BY <1>1, ConstantsAssumption
  DEF NotifyFunded, Step, Inv, TypeOK, ExecShape, AnswerShape
<1> QED BY <1>2, <1>3
        DEF NotifyFunded, envVars, jobVars, Inv, TypeOK, RowShape, JobShape,
            RowIffPastApproved, NoPaymentUnderAmlHold, HasRow

\* The invariant holds initially.
LEMMA InitInv == Init => Inv
<1> SUFFICES ASSUME Init PROVE Inv
  OBVIOUS
<1>1. TypeOK
  BY InitTypeOK
<1>2. RowShape /\ ExecShape /\ AnswerShape
  BY ConstantsAssumption
  DEF Init, RowShape, ExecShape, AnswerShape, NoRow, Authorised
<1>3. JobShape /\ RowIffPastApproved /\ NoPaymentUnderAmlHold
  BY ConstantsAssumption
  DEF Init, JobShape, RowIffPastApproved, NoPaymentUnderAmlHold, HasRow,
      NoRow, ActiveStates
<1> QED BY <1>1, <1>2, <1>3 DEF Inv

\* Every step of the service keeps it.
LEMMA NextInv == Inv /\ [Next]_vars => Inv'
<1> SUFFICES ASSUME Inv, [Next]_vars PROVE Inv'
  OBVIOUS
<1>1. CASE UNCHANGED vars
  BY <1>1 DEF vars, Inv, TypeOK, RowShape, ExecShape, AnswerShape, JobShape,
              RowIffPastApproved, NoPaymentUnderAmlHold, HasRow
<1>2. ASSUME NEW i \in Invoices,
             \/ CommitApproval(i) \/ ClearAml(i)
             \/ \E u \in Managers : AuthoriseRead(u, i)
      PROVE  Inv'
  BY <1>2, CommitApprovalStep, ClearAmlStep, AuthoriseReadStep
<1>3. CASE ActivateKillSwitch \/ DeactivateKillSwitch
             \/ \E enabled \in BOOLEAN : ToggleKillSwitch(enabled)
  BY <1>3, ActivateKillSwitchStep, ToggleKillSwitchStep
<1>4. ASSUME NEW j \in Jobs,
             QueuePayment(j) \/ WorkerStep(j) \/ ThrowInJob(j) \/ StallJob(j)
      PROVE  Inv'
  BY <1>4, QueuePaymentStep, StartJobStep, ValidateInvoiceForPaymentStep,
     LookupPaymentStep, CreatePaymentStep, ReportTerminalFailureStep,
     ThrowInJobStep, StallJobStep DEF WorkerStep
<1>5. ASSUME NEW r \in requests,
             RecordFirstAuth(r) \/ RecordSecondAuth(r) \/ RejectRequest(r)
      PROVE  Inv'
  BY <1>5, RecordFirstAuthStep, RecordSecondAuthStep, RejectRequestStep
<1>6. ASSUME NEW e \in Executions,
             \/ LoadExecutablePayment(e) \/ ExecuteStep(e)
             \/ ThrowInRoute(e) \/ CrashExecution(e)
      PROVE  Inv'
  BY <1>6, LoadExecutablePaymentStep, AlreadyFundedStep, CallProviderStep,
     RecordSuccessStep, NotifyFundedStep, RecordPendingStep,
     RecordFailureStep, ThrowInRouteStep, CrashExecutionStep DEF ExecuteStep
<1> QED BY <1>1, <1>2, <1>3, <1>4, <1>5, <1>6 DEF Next

\* Inv is an invariant of the payments service.
THEOREM Invariance == Spec => []Inv
  BY InitInv, NextInv, PTL DEF Spec

\* The state of the service is always well typed.
THEOREM TypeCorrect == Spec => []TypeOK
<1>1. Inv => TypeOK
  BY DEF Inv
<1> QED BY <1>1, Invariance, PTL

\* Money leaves only under the signatures of two different finance managers,
\* for any number of invoices, managers, jobs and concurrent executions.
THEOREM DualAuthorisation == Spec => []DualAuthorised
<1>1. Inv => DualAuthorised
  BY DEF Inv, RowShape, ExecShape, Authorised, DualAuthorised
<1> QED BY <1>1, Invariance, PTL

\* Payment row and invoice move together, under any duplicate job, retry or
\* second worker.
THEOREM RowsInStep == Spec => []RowIffPastApproved
<1>1. Inv => RowIffPastApproved
  BY DEF Inv
<1> QED BY <1>1, Invariance, PTL

\* No payment row exists under an AML hold.
THEOREM AmlRespected == Spec => []NoPaymentUnderAmlHold
<1>1. Inv => NoPaymentUnderAmlHold
  BY DEF Inv
<1> QED BY <1>1, Invariance, PTL

\* Completed jobs have rows, funded and monitored payments were sent.
THEOREM CompletionReal == Spec => []CompletionIsReal
<1>1. Inv => CompletionIsReal
  BY DEF Inv, JobShape, AnswerShape, CompletionIsReal
<1> QED BY <1>1, Invariance, PTL

-----------------------------------------------------------------------------
(* What a single step may do to a payment row.                             *)

\* The ways a step can change the payment rows.
RowStep ==
  \/ UNCHANGED payment
  \/ \E i \in Invoices :
       \/ /\ ~ HasRow(i)
          /\ payment' = [payment EXCEPT ![i].status = "pending_first_auth"]
       \/ \E u \in Managers :
            \/ /\ payment[i].status = "pending_first_auth"
               /\ payment' = [payment EXCEPT
                                ![i].user1 = u,
                                ![i].status = "pending_second_auth"]
            \/ /\ payment[i].status = "pending_second_auth"
               /\ payment[i].user1 # u
               /\ payment' = [payment EXCEPT ![i].user2 = u,
                                             ![i].status = "executing"]
       \/ /\ payment[i].status \in Authorised
          /\ \E s \in {"funded", "failed"} :
               payment' = [payment EXCEPT ![i].status = s]
  \/ payment' = [i \in Invoices |->
                   IF payment[i].status = "executing"
                   THEN [payment[i] EXCEPT !.status = "failed"]
                   ELSE payment[i]]

\* Every step changes the rows in one of these ways.
LEMMA NextRowStep == Inv /\ [Next]_vars => RowStep
<1> SUFFICES ASSUME Inv, [Next]_vars PROVE RowStep
  OBVIOUS
<1>1. CASE UNCHANGED payment
  BY <1>1 DEF RowStep
<1>2. CASE ActivateKillSwitch
  BY <1>2 DEF ActivateKillSwitch, FailExecutingPayments, RowStep
<1>3. ASSUME NEW j \in Jobs, CreatePayment(j) PROVE RowStep
  BY <1>3, ConstantsAssumption DEF CreatePayment, RowStep
<1>4. ASSUME NEW r \in requests, RecordFirstAuth(r) \/ RecordSecondAuth(r)
      PROVE  RowStep
  <2>1. r.inv \in Invoices /\ r.user \in Managers
    BY DEF Inv, TypeOK, Request
  <2> QED BY <1>4, <2>1
          DEF RecordFirstAuth, RecordSecondAuth, DifferentAuthoriser, RowStep
<1>5. ASSUME NEW e \in Executions, RecordSuccess(e) \/ RecordFailure(e)
      PROVE  RowStep
  <2>1. ExecInvoice[e] \in Invoices
        /\ payment[ExecInvoice[e]].status \in Authorised
    BY <1>5, ConstantsAssumption
    DEF RecordSuccess, RecordFailure, Step, Inv, ExecShape
  <2> QED BY <1>5, <2>1
          DEF RecordSuccess, RecordFailure, UpdatePaymentResult, RowStep
<1> QED
  BY <1>1, <1>2, <1>3, <1>4, <1>5
  DEF Next, vars, WorkerStep, ExecuteStep, CommitApproval, ClearAml,
      AuthoriseRead, DeactivateKillSwitch, ToggleKillSwitch,
      QueuePayment, StartJob,
      ValidateInvoiceForPayment, LookupPayment, ThrowInJob, StallJob,
      ReportTerminalFailure, RejectRequest, LoadExecutablePayment,
      AlreadyFunded, CallProvider, NotifyFunded, RecordPending,
      ThrowInRoute, CrashExecution

\* What a change may do to the row of i.
RowChange(i) ==
  /\ payment[i].user1 # NoUser => payment'[i].user1 = payment[i].user1
  /\ payment[i].user2 # NoUser => payment'[i].user2 = payment[i].user2
  /\ Rank(payment[i].status) <= Rank(payment'[i].status)

\* One row keeps its authorisers and its rank in every such change.
LEMMA RowStepHistory ==
  ASSUME Inv, RowStep, NEW i \in Invoices
  PROVE  RowChange(i)
<1>1. payment[i] \in Row /\ payment \in [Invoices -> Row]
  BY DEF Inv, TypeOK
<1>2. /\ Rank("none") = 0 /\ Rank("pending_first_auth") = 1
      /\ Rank("pending_second_auth") = 2 /\ Rank("executing") = 3
      /\ Rank("funded") = 4 /\ Rank("failed") = 4
  BY DEF Rank
<1> USE <1>2 DEF PaymentStatus, Authorised
<1>3. CASE UNCHANGED payment
  BY <1>1, <1>3 DEF Row, RowChange
<1>4. ASSUME NEW k \in Invoices, ~ HasRow(k),
             payment' = [payment EXCEPT ![k].status = "pending_first_auth"]
      PROVE  RowChange(i)
  <2>1. payment'[k] = [payment[k] EXCEPT !.status = "pending_first_auth"]
        /\ (i # k => payment'[i] = payment[i])
    BY <1>1, <1>4
  <2> QED BY <1>1, <1>4, <2>1 DEF Row, RowChange, HasRow
<1>5. ASSUME NEW k \in Invoices, NEW u \in Managers,
             payment[k].status = "pending_first_auth",
             payment' = [payment EXCEPT ![k].user1 = u,
                                        ![k].status = "pending_second_auth"]
      PROVE  RowChange(i)
  <2>1. payment[k].user1 = NoUser
    BY <1>5 DEF Inv, RowShape
  <2>2. payment'[k] = [payment[k] EXCEPT !.user1 = u,
                                         !.status = "pending_second_auth"]
        /\ (i # k => payment'[i] = payment[i])
    BY <1>1, <1>5
  <2> QED BY <1>1, <1>5, <2>1, <2>2 DEF Row, RowChange
<1>6. ASSUME NEW k \in Invoices, NEW u \in Managers,
             payment[k].status = "pending_second_auth",
             payment' = [payment EXCEPT ![k].user2 = u,
                                        ![k].status = "executing"]
      PROVE  RowChange(i)
  <2>1. payment[k].user2 = NoUser
    BY <1>6 DEF Inv, RowShape
  <2>2. payment'[k] = [payment[k] EXCEPT !.user2 = u, !.status = "executing"]
        /\ (i # k => payment'[i] = payment[i])
    BY <1>1, <1>6
  <2> QED BY <1>1, <1>6, <2>1, <2>2 DEF Row, RowChange
<1>7. ASSUME NEW k \in Invoices, payment[k].status \in Authorised,
             NEW s \in {"funded", "failed"},
             payment' = [payment EXCEPT ![k].status = s]
      PROVE  RowChange(i)
  <2>1. payment'[k] = [payment[k] EXCEPT !.status = s]
        /\ (i # k => payment'[i] = payment[i])
    BY <1>1, <1>7
  <2> QED BY <1>1, <1>7, <2>1 DEF Row, RowChange
<1>8. CASE payment' = [k \in Invoices |->
                         IF payment[k].status = "executing"
                         THEN [payment[k] EXCEPT !.status = "failed"]
                         ELSE payment[k]]
  <2>1. payment'[i] = IF payment[i].status = "executing"
                      THEN [payment[i] EXCEPT !.status = "failed"]
                      ELSE payment[i]
    BY <1>8
  <2> QED BY <1>1, <2>1 DEF Row, RowChange
<1> QED BY <1>3, <1>4, <1>5, <1>6, <1>7, <1>8 DEF RowStep

\* No step replaces an authoriser or moves a row back.
THEOREM RowHistoryHolds == Spec => RowHistory
<1>1. Inv /\ [Next]_vars =>
        [\A i \in Invoices :
           /\ payment[i].user1 # NoUser => payment'[i].user1 = payment[i].user1
           /\ payment[i].user2 # NoUser => payment'[i].user2 = payment[i].user2
           /\ Rank(payment[i].status) <= Rank(payment'[i].status)]_vars
  BY NextRowStep, RowStepHistory DEF RowChange
<1> QED BY <1>1, Invariance, PTL DEF Spec, RowHistory

-----------------------------------------------------------------------------
(* Refinement.                                                             *)

\* Who sent money, as Disbursement sees it, for one step.
SentStep ==
  \/ UNCHANGED sentBy
  \/ /\ UNCHANGED payment
     /\ \E i \in Invoices, e \in Executions :
          /\ payment[i].status \in Authorised
          /\ sentBy' = [sentBy EXCEPT ![i] = @ \cup {e}]

\* Money is sent in steps of their own, for an authorised row.
LEMMA NextSentStep == Inv /\ [Next]_vars => SentStep
<1> SUFFICES ASSUME Inv, [Next]_vars PROVE SentStep
  OBVIOUS
<1>1. CASE UNCHANGED sentBy
  BY <1>1 DEF SentStep
<1>2. ASSUME NEW e \in Executions,
             NEW answer \in {"success", "pending", "failure"},
             CallProvider(e, answer)
      PROVE  SentStep
  <2>1. ExecInvoice[e] \in Invoices
        /\ payment[ExecInvoice[e]].status \in Authorised
    BY <1>2, ConstantsAssumption DEF CallProvider, Step, Inv, ExecShape
  <2> QED BY <1>2, <2>1 DEF CallProvider, SentStep
<1> QED
  BY <1>1, <1>2
  DEF Next, vars, WorkerStep, ExecuteStep, CommitApproval, ClearAml,
      ActivateKillSwitch, AuthoriseRead, DeactivateKillSwitch, ToggleKillSwitch,
      QueuePayment,
      StartJob, ValidateInvoiceForPayment, LookupPayment, CreatePayment,
      ThrowInJob, StallJob, ReportTerminalFailure, RecordFirstAuth,
      RecordSecondAuth, RejectRequest, LoadExecutablePayment, AlreadyFunded,
      RecordSuccess, NotifyFunded, RecordPending, RecordFailure,
      ThrowInRoute, CrashExecution, execVars

\* The three abstract variables as the mapping defines them.
Opened == {i \in Invoices : HasRow(i)}
Signatures == [i \in Invoices |-> Signers(payment[i])]
Sent == {i \in Invoices : sentBy[i] # {}}

\* A change of statuses that opens no row is invisible.
LEMMA StatusOnly ==
  ASSUME \A i \in Invoices : /\ HasRow(i)' <=> HasRow(i)
                             /\ payment'[i].user1 = payment[i].user1
                             /\ payment'[i].user2 = payment[i].user2
  PROVE  UNCHANGED <<Opened, Signatures>>
  BY DEF Opened, Signatures, Signers

\* Each change of the rows is an abstract step or invisible.
LEMMA RowStepMaps ==
  ASSUME Inv, RowStep, UNCHANGED sentBy
  PROVE  \/ UNCHANGED <<Opened, Signatures, Sent>>
         \/ \E i \in Invoices :
              \/ Promise!Open(i)
              \/ \E u \in Managers : Promise!Sign(i, u)
<1>1. payment \in [Invoices -> Row]
  BY DEF Inv, TypeOK
<1>2. UNCHANGED Sent
  BY DEF Sent
<1>3. CASE UNCHANGED payment
  BY <1>2, <1>3, StatusOnly DEF HasRow
<1>4. ASSUME NEW k \in Invoices, ~ HasRow(k),
             payment' = [payment EXCEPT ![k].status = "pending_first_auth"]
      PROVE  Promise!Open(k)
  <2>1. /\ payment'[k] = [payment[k] EXCEPT !.status = "pending_first_auth"]
        /\ \A i \in Invoices \ {k} : payment'[i] = payment[i]
    BY <1>1, <1>4
  <2>2. k \notin Opened /\ Opened' = Opened \cup {k}
    BY <1>1, <1>4, <2>1 DEF Opened, HasRow, Row
  <2>3. UNCHANGED Signatures
    BY <1>1, <2>1 DEF Signatures, Signers, Row
  <2> QED BY <1>2, <2>2, <2>3 DEF Promise!Open, Opened, Signatures, Sent
<1>5. ASSUME NEW k \in Invoices, NEW u \in Managers,
             payment[k].status = "pending_first_auth",
             payment' = [payment EXCEPT ![k].user1 = u,
                                        ![k].status = "pending_second_auth"]
      PROVE  Promise!Sign(k, u)
  <2>1. /\ payment'[k] = [payment[k] EXCEPT !.user1 = u,
                                            !.status = "pending_second_auth"]
        /\ \A i \in Invoices \ {k} : payment'[i] = payment[i]
    BY <1>1, <1>5
  <2>2. k \in Opened /\ UNCHANGED Opened
    BY <1>1, <1>5, <2>1 DEF Opened, HasRow, Row
  <2>3. Signatures[k] = {} /\ Signers(payment'[k]) = {u}
    BY <1>1, <1>5, <2>1, ConstantsAssumption
    DEF Signatures, Signers, Row, Inv, RowShape
  <2>4. Signatures' = [Signatures EXCEPT ![k] = @ \cup {u}]
    BY <2>1, <2>3 DEF Signatures
  <2> QED BY <1>2, <2>2, <2>3, <2>4
          DEF Promise!Sign, Opened, Signatures, Sent
<1>6. ASSUME NEW k \in Invoices, NEW u \in Managers,
             payment[k].status = "pending_second_auth",
             payment[k].user1 # u,
             payment' = [payment EXCEPT ![k].user2 = u,
                                        ![k].status = "executing"]
      PROVE  Promise!Sign(k, u)
  <2> DEFINE v == payment[k].user1
  <2>1. /\ payment'[k] = [payment[k] EXCEPT !.user2 = u, !.status = "executing"]
        /\ \A i \in Invoices \ {k} : payment'[i] = payment[i]
    BY <1>1, <1>6
  <2>2. k \in Opened /\ UNCHANGED Opened
    BY <1>1, <1>6, <2>1 DEF Opened, HasRow, Row
  <2>3. v \in Managers \ {u} /\ payment[k].user2 = NoUser
    BY <1>1, <1>6 DEF Row, Inv, RowShape
  <2>4. Signatures[k] = {v} /\ Signers(payment'[k]) = {v, u}
    BY <1>1, <2>1, <2>3, ConstantsAssumption DEF Signatures, Signers, Row
  <2>5. Signatures' = [Signatures EXCEPT ![k] = @ \cup {u}]
    BY <2>1, <2>4 DEF Signatures
  <2> HIDE DEF v
  <2> QED BY <1>2, <2>2, <2>3, <2>4, <2>5
          DEF Promise!Sign, Opened, Signatures, Sent
<1>7. ASSUME NEW k \in Invoices, payment[k].status \in Authorised,
             NEW s \in {"funded", "failed"},
             payment' = [payment EXCEPT ![k].status = s]
      PROVE  UNCHANGED <<Opened, Signatures>>
  <2>1. /\ payment'[k] = [payment[k] EXCEPT !.status = s]
        /\ \A i \in Invoices \ {k} : payment'[i] = payment[i]
    BY <1>1, <1>7
  <2> QED BY <1>1, <1>7, <2>1, StatusOnly DEF HasRow, Row, Authorised
<1>8. CASE payment' = [k \in Invoices |->
                         IF payment[k].status = "executing"
                         THEN [payment[k] EXCEPT !.status = "failed"]
                         ELSE payment[k]]
  <2>1. \A i \in Invoices :
          payment'[i] = IF payment[i].status = "executing"
                        THEN [payment[i] EXCEPT !.status = "failed"]
                        ELSE payment[i]
    BY <1>8
  <2> QED BY <1>1, <1>2, <2>1, StatusOnly DEF HasRow, Row
<1> QED BY <1>2, <1>3, <1>4, <1>5, <1>6, <1>7, <1>8 DEF RowStep

\* Sending money is an abstract Send, or repeats one.
LEMMA SentStepMaps ==
  ASSUME Inv, UNCHANGED payment, NEW i \in Invoices, NEW e \in Executions,
         payment[i].status \in Authorised,
         sentBy' = [sentBy EXCEPT ![i] = @ \cup {e}]
  PROVE  Promise!Send(i)
<1>1. UNCHANGED <<Opened, Signatures>>
  BY StatusOnly DEF HasRow
<1>2. Sent' = Sent \cup {i}
  BY DEF Sent, Inv, TypeOK
<1>3. DualAuthTrigger(payment[i])
  BY DEF Inv, RowShape
<1>4. \E u, v \in Signatures[i] : u # v
  BY <1>3 DEF Signatures, Signers, DualAuthTrigger
<1> QED BY <1>1, <1>2, <1>4 DEF Promise!Send, Opened, Signatures, Sent

\* Every step of the service is a step of Disbursement or invisible to it.
LEMMA StepMaps == Inv /\ [Next]_vars => [Promise!DNext]_(Promise!dvars)
<1> SUFFICES ASSUME Inv, [Next]_vars PROVE [Promise!DNext]_(Promise!dvars)
  OBVIOUS
<1>1. RowStep /\ SentStep
  BY NextRowStep, NextSentStep
<1>2. CASE UNCHANGED sentBy
  BY <1>1, <1>2, RowStepMaps
  DEF Promise!DNext, Promise!dvars, Opened, Signatures, Sent
<1>3. ASSUME UNCHANGED payment, NEW i \in Invoices, NEW e \in Executions,
             payment[i].status \in Authorised,
             sentBy' = [sentBy EXCEPT ![i] = @ \cup {e}]
      PROVE  Promise!DNext
  BY <1>3, SentStepMaps DEF Promise!DNext
<1> QED BY <1>1, <1>2, <1>3 DEF SentStep

\* The payments service implements Disbursement: whatever the schedule, it
\* opens a disbursement once, collects two signatures of different managers
\* and sends money only after both.
THEOREM Refinement == Spec => ImplementsDisbursement
<1>1. Init => Promise!DInit
  BY DEF Init, Promise!DInit, HasRow, NoRow, Signers
<1> QED BY <1>1, StepMaps, Invariance, PTL
        DEF Spec, ImplementsDisbursement, Promise!DSpec
=============================================================================
