------------------------- MODULE CollectionsProofs -------------------------
(***************************************************************************)
(* Collections, for every set of invoices, jobs and requests: the typing   *)
(* of the state, the one receipt, the review flag, the way an invoice goes *)
(* and the refinement of Repayment.                                        *)
(***************************************************************************)
EXTENDS Collections, TLAPS

\* A job's row is one of its invoice's: rows are never deleted.
SweepShape ==
  \A w \in Sweeps :
    LET s == sweep[w] IN
    /\ s.op = "overdue" => s.row <= Len(rows[s.inv])
    /\ s.op \in {"escalate", "default"} =>
         1 <= s.row /\ s.row <= Len(rows[s.inv])

\* So is a request's; a request that takes a payment has seen the invoice
\* uncollected, and one that lowers a level has seen a level.
CallShape ==
  \A r \in Requests :
    LET c == calls[r] IN
    /\ c.op = "receive" => c.row <= Len(rows[c.inv]) /\ c.status # "collected"
    /\ c.op \in {"pay", "raise", "lower", "resolve"} =>
         1 <= c.row /\ c.row <= Len(rows[c.inv])
    /\ c.op = "lower" => c.level > 0

\* A receipt whose jobs are not enqueued yet belongs to one request.
JobsShape ==
  /\ \A r \in Requests :
       calls[r].op = "jobs" =>
         receipts[calls[r].inv] = 1 /\ settleJobs[calls[r].inv] = 0
  /\ \A r, q \in Requests :
       /\ calls[r].op = "jobs"
       /\ calls[q].op = "jobs"
       /\ calls[r].inv = calls[q].inv
       => r = q

Inv ==
  /\ CollectionsSound
  /\ SweepShape
  /\ CallShape
  /\ JobsShape

\* What the record of a job holds, by the job.
LEMMA SweepFields ==
  ASSUME NEW s \in Sweep
  PROVE  /\ s.op \in {"idle", "monitor", "overdue", "default", "escalate"}
         /\ s.op = "idle" => s = NoSweep
         /\ s.op # "idle" => s.inv \in Invoices
         /\ s.op \in {"overdue", "default", "escalate"} => s.row \in Nat
         /\ s.op = "escalate" => s.level \in 0..3 /\ s.days \in Nat
  BY DEF Sweep, NoSweep

\* What the record of a request holds, by the request.
LEMMA CallFields ==
  ASSUME NEW c \in Call
  PROVE  /\ c.op \in {"idle", "done", "receive", "pay", "raise", "lower",
                      "resolve", "jobs"}
         /\ c.op \notin {"idle", "done"} => c.inv \in Invoices
         /\ c.op \in {"receive", "pay", "raise", "lower", "resolve"} =>
              c.row \in Nat
         /\ c.op \in {"receive", "pay"} => c.amount \in Amounts
         /\ c.op \in {"raise", "lower"} => c.level \in 0..3
         /\ c.op = "receive" => c.status \in Status
         /\ c.op = "resolve" => c.status \in RowStatus
  BY DEF Call

\* The fields of a row.
LEMMA RowFields ==
  ASSUME NEW row \in Row
  PROVE  /\ row.status \in RowStatus /\ row.level \in 0..3 /\ row.days \in Nat
         /\ row.total \in Nat /\ row.sar \in BOOLEAN
  BY DEF Row

\* A row with a new status, level and days is a row.
LEMMA RowWithDays ==
  ASSUME NEW row \in Row, NEW s \in RowStatus, NEW l \in 0..3, NEW d \in Nat
  PROVE  /\ [row EXCEPT !.status = s, !.level = l, !.days = d] \in Row
         /\ [row EXCEPT !.status = s, !.level = l, !.days = d].level = l
  BY DEF Row

\* A row with a new status, level and total is a row.
LEMMA RowWithTotal ==
  ASSUME NEW row \in Row, NEW s \in RowStatus, NEW l \in 0..3, NEW t \in Nat
  PROVE  /\ [row EXCEPT !.status = s, !.level = l, !.total = t] \in Row
         /\ [row EXCEPT !.status = s, !.level = l, !.total = t].level = l
  BY DEF Row

\* The row an invoice falls overdue with.
LEMMA OverdueRow ==
  ASSUME NEW row \in Row
  PROVE  /\ [row EXCEPT !.status = "overdue", !.level = 0, !.days = 1] \in Row
         /\ [row EXCEPT !.status = "overdue", !.level = 0, !.days = 1].level # 3
<1>1. 0 \in 0..3 /\ 1 \in Nat /\ "overdue" \in RowStatus
  BY DEF RowStatus
<1>2. [row EXCEPT !.status = "overdue", !.level = 0, !.days = 1] \in Row
  BY <1>1, RowWithDays, Zenon
<1>3. [row EXCEPT !.status = "overdue", !.level = 0, !.days = 1].level = 0
  BY DEF Row
<1> QED BY <1>2, <1>3

\* An UPDATE of one row by its id leaves every other row as it was.
LEMMA RowWritten ==
  ASSUME rows \in [Invoices -> Seq(Row)],
         NEW i \in Invoices, NEW n \in 1..Len(rows[i]), NEW row \in Row,
         rows' = [rows EXCEPT ![i] = [rows[i] EXCEPT ![n] = row]]
  PROVE  /\ rows' \in [Invoices -> Seq(Row)]
         /\ \A j \in Invoices : Len(rows'[j]) = Len(rows[j])
         /\ rows'[i][n] = row
         /\ \A j \in Invoices : \A m \in DOMAIN rows[j] :
              j # i \/ m # n => rows'[j][m] = rows[j][m]
<1>1. rows[i] \in Seq(Row)
  OBVIOUS
<1>2. [rows[i] EXCEPT ![n] = row] \in Seq(Row)
      /\ Len([rows[i] EXCEPT ![n] = row]) = Len(rows[i])
  BY <1>1
<1>3. rows' \in [Invoices -> Seq(Row)]
      /\ \A j \in Invoices : Len(rows'[j]) = Len(rows[j])
  BY <1>2
<1>4. rows'[i][n] = row
  BY <1>1
<1>5. ASSUME NEW j \in Invoices, NEW m \in DOMAIN rows[j], j # i \/ m # n
      PROVE  rows'[j][m] = rows[j][m]
  BY <1>1, <1>5
<1> QED BY <1>3, <1>4, <1>5

\* An INSERT leaves every row as it was.
LEMMA RowInserted ==
  ASSUME rows \in [Invoices -> Seq(Row)],
         NEW i \in Invoices, NEW row \in Row,
         rows' = [rows EXCEPT ![i] = Append(@, row)]
  PROVE  /\ rows' \in [Invoices -> Seq(Row)]
         /\ \A j \in Invoices : Len(rows'[j]) >= Len(rows[j])
         /\ \A j \in Invoices : \A m \in DOMAIN rows'[j] :
              \/ rows'[j][m] = row
              \/ m \in DOMAIN rows[j] /\ rows'[j][m] = rows[j][m]
<1>1. rows[i] \in Seq(Row)
  OBVIOUS
<1>2. /\ Append(rows[i], row) \in Seq(Row)
      /\ Len(Append(rows[i], row)) = Len(rows[i]) + 1
      /\ \A m \in 1..Len(rows[i]) + 1 :
           Append(rows[i], row)[m] = IF m <= Len(rows[i]) THEN rows[i][m]
                                                          ELSE row
  BY <1>1
<1>3. rows' \in [Invoices -> Seq(Row)]
  BY <1>2
<1>4. \A j \in Invoices : Len(rows'[j]) >= Len(rows[j])
  BY <1>2
<1>5. ASSUME NEW j \in Invoices, NEW m \in DOMAIN rows'[j]
      PROVE  \/ rows'[j][m] = row
             \/ m \in DOMAIN rows[j] /\ rows'[j][m] = rows[j][m]
  <2>1. CASE j = i
    <3>1. rows'[i] = Append(rows[i], row)
      OBVIOUS
    <3>2. m \in 1..Len(rows[i]) + 1
      BY <1>2, <2>1, <3>1
    <3> QED BY <1>1, <1>2, <2>1, <3>1, <3>2
  <2>2. CASE j # i
    BY <2>2
  <2> QED BY <2>1, <2>2
<1> QED BY <1>3, <1>4, <1>5

\* The initial state.
LEMMA InitInv == Init => Inv
<1> SUFFICES ASSUME Init PROVE Inv
  OBVIOUS
<1>1. rows \in [Invoices -> Seq(Row)]
  <2>1. CASE rows = [i \in Invoices |-> << >>]
    BY <2>1
  <2>2. ASSUME NEW row \in OldRows, rows = [i \in Invoices |-> <<row>>]
        PROVE  rows \in [Invoices -> Seq(Row)]
    <3>1. row \in Row
      BY OldRowsAssumption
    <3>2. <<row>> \in Seq(Row)
      BY <3>1
    <3> QED BY <2>2, <3>2
  <2> QED BY <2>1, <2>2 DEF Init
<1>2. TypeOK
  BY <1>1, ConstantsAssumption
  DEF Init, TypeOK, Status, Sweep, Call, NoSweep, NoCall
<1>3. OneReceipt
  <2>1. /\ receipts = [i \in Invoices |-> 0]
        /\ settleJobs = [i \in Invoices |-> 0]
    BY DEF Init
  <2>2. \A j \in Invoices :
          receipts[j] = 0 /\ receipts[j] # 1 /\ settleJobs[j] = 0
    BY <2>1
  <2> QED BY <2>2 DEF OneReceipt, Final
<1>4. SarFlagged
  <2>1. CASE rows = [i \in Invoices |-> << >>]
    BY <2>1 DEF SarFlagged
  <2>2. ASSUME NEW row \in OldRows, rows = [i \in Invoices |-> <<row>>]
        PROVE  SarFlagged
    <3>1. \A i \in Invoices : \A n \in DOMAIN rows[i] : rows[i][n] = row
      BY <2>2
    <3>2. row.level # 3
      BY OldRowsAssumption DEF Row
    <3> QED BY <3>1, <3>2 DEF SarFlagged
  <2> QED BY <2>1, <2>2 DEF Init
<1>5. SweepShape /\ CallShape /\ JobsShape
  BY DEF Init, SweepShape, CallShape, JobsShape, NoSweep, NoCall
<1> QED BY <1>2, <1>3, <1>4, <1>5 DEF Inv, CollectionsSound

\* What a job or a request has read stays good as rows are written: they are
\* never deleted.
LEMMA ShapesKept ==
  ASSUME Inv,
         \A j \in Invoices : Len(rows'[j]) \in Nat /\ Len(rows'[j]) >= Len(rows[j]),
         \A w \in Sweeps : sweep'[w] = sweep[w] \/ sweep'[w].op = "idle",
         \A r \in Requests :
           calls'[r] = calls[r] \/ calls'[r].op \in {"done", "jobs"}
  PROVE  SweepShape' /\ CallShape'
<1>1. \A j \in Invoices : Len(rows[j]) \in Nat
  BY DEF Inv, CollectionsSound, TypeOK
<1>2. ASSUME NEW w \in Sweeps, sweep'[w] = sweep[w]
      PROVE  LET s == sweep'[w] IN
             /\ s.op = "overdue" => s.row <= Len(rows'[s.inv])
             /\ s.op \in {"escalate", "default"} =>
                  1 <= s.row /\ s.row <= Len(rows'[s.inv])
  <2>1. sweep[w] \in Sweep
    BY DEF Inv, CollectionsSound, TypeOK
  <2> QED BY <1>1, <1>2, <2>1, SweepFields DEF Inv, SweepShape
<1>3. SweepShape'
  BY <1>2 DEF SweepShape
<1>4. ASSUME NEW r \in Requests, calls'[r] = calls[r]
      PROVE  LET c == calls'[r] IN
             /\ c.op = "receive" =>
                  c.row <= Len(rows'[c.inv]) /\ c.status # "collected"
             /\ c.op \in {"pay", "raise", "lower", "resolve"} =>
                  1 <= c.row /\ c.row <= Len(rows'[c.inv])
             /\ c.op = "lower" => c.level > 0
  <2>1. calls[r] \in Call
    BY DEF Inv, CollectionsSound, TypeOK
  <2> QED BY <1>1, <1>4, <2>1, CallFields DEF Inv, CallShape
<1>5. CallShape'
  BY <1>4 DEF CallShape
<1> QED BY <1>3, <1>5

\* No new request with a committed receipt, no new receipt.
LEMMA JobsKept ==
  ASSUME Inv, UNCHANGED <<receipts, settleJobs>>,
         \A r \in Requests : calls'[r] = calls[r] \/ calls'[r].op # "jobs"
  PROVE  JobsShape'
  BY DEF Inv, JobsShape

\* Whatever leaves a collected invoice collected keeps its one receipt.
LEMMA ReceiptKept ==
  ASSUME Inv, UNCHANGED <<receipts, settleJobs>>,
         \A i \in Invoices : invoice[i] = "collected" => invoice'[i] = "collected",
         rows' \in [Invoices -> Seq(Row)],
         \A j \in Invoices : Len(rows'[j]) >= Len(rows[j])
  PROVE  OneReceipt'
<1>1. ASSUME NEW i \in Invoices, rows[i] # << >>
      PROVE  rows'[i] # << >>
  <2>1. rows[i] \in Seq(Row) /\ rows'[i] \in Seq(Row)
    BY DEF Inv, CollectionsSound, TypeOK
  <2>2. Len(rows[i]) # 0
    BY <1>1, <2>1
  <2> QED BY <2>1, <2>2
<1> QED BY <1>1 DEF Inv, CollectionsSound, OneReceipt, Final

\* A conditional update of a status other than 'collected'.
LEMMA StatusUpdated ==
  ASSUME TypeOK, NEW i \in Invoices, NEW new \in Status,
         NEW expected \in Status \ {"collected"},
         invoice' = UpdateInvoiceStatus(i, new, expected)
  PROVE  /\ invoice' \in [Invoices -> Status]
         /\ \A j \in Invoices : invoice[j] = "collected" => invoice'[j] = "collected"
  BY DEF TypeOK, UpdateInvoiceStatus

\* A job or a request that only reads.
LEMMA SweepReads ==
  ASSUME Inv, NEW w \in Sweeps, NEW s \in Sweep,
         s.op = "overdue" => s.row <= Len(rows[s.inv]),
         s.op \in {"escalate", "default"} =>
           1 <= s.row /\ s.row <= Len(rows[s.inv]),
         sweep' = [sweep EXCEPT ![w] = s],
         tries' \in [Invoices -> 0..MonitorAttempts],
         UNCHANGED <<invoice, rows, used, paymentScore, receipts, settleJobs,
                     calls>>
  PROVE  Inv'
<1>1. CollectionsSound'
  BY DEF Inv, CollectionsSound, TypeOK, OneReceipt, Final, SarFlagged
<1>2. SweepShape'
  BY DEF Inv, CollectionsSound, TypeOK, SweepShape
<1>3. CallShape' /\ JobsShape'
  BY DEF Inv, CallShape, JobsShape
<1> QED BY <1>1, <1>2, <1>3 DEF Inv

\* What most steps leave alone keeps its type.
LEMMA OtherKept ==
  ASSUME Inv, UNCHANGED otherVars
  PROVE  /\ tries' \in [Invoices -> 0..MonitorAttempts]
         /\ UNCHANGED <<used, paymentScore, receipts, settleJobs>>
  BY DEF Inv, CollectionsSound, TypeOK, otherVars

\* A request that reads, or ends without a write.
LEMMA CallReads ==
  ASSUME Inv, NEW r \in Requests, NEW c \in Call, c.op # "jobs",
         c.op = "receive" => c.row <= Len(rows[c.inv]) /\ c.status # "collected",
         c.op \in {"pay", "raise", "lower", "resolve"} =>
           1 <= c.row /\ c.row <= Len(rows[c.inv]),
         c.op = "lower" => c.level > 0,
         calls' = [calls EXCEPT ![r] = c],
         UNCHANGED <<invoice, rows, otherVars, sweep>>
  PROVE  Inv'
<1>1. CollectionsSound'
  BY DEF Inv, CollectionsSound, TypeOK, OneReceipt, Final, SarFlagged, otherVars
<1>2. CallShape'
  BY DEF Inv, CollectionsSound, TypeOK, CallShape
<1>3. JobsShape'
  BY JobsKept DEF Inv, CollectionsSound, TypeOK, otherVars
<1>4. SweepShape'
  BY DEF Inv, SweepShape
<1> QED BY <1>1, <1>2, <1>3, <1>4 DEF Inv

\* A transaction that updates one row and perhaps the invoice's status.
LEMMA RowTxn ==
  ASSUME Inv, NEW i \in Invoices, NEW n \in 1..Len(rows[i]), NEW row \in Row,
         row.level = 3 /\ FaceValue[i] >= AmlThreshold => row.sar,
         rows' = [rows EXCEPT ![i] = [rows[i] EXCEPT ![n] = row]],
         invoice' \in [Invoices -> Status],
         \A j \in Invoices : invoice[j] = "collected" => invoice'[j] = "collected",
         UNCHANGED otherVars,
         sweep' \in [Sweeps -> Sweep],
         \A w \in Sweeps : sweep'[w] = sweep[w] \/ sweep'[w].op = "idle",
         calls' \in [Requests -> Call],
         \A r \in Requests : calls'[r] = calls[r] \/ calls'[r].op = "done"
  PROVE  Inv'
<1>1. /\ rows' \in [Invoices -> Seq(Row)]
      /\ \A j \in Invoices : Len(rows'[j]) = Len(rows[j])
      /\ rows'[i][n] = row
      /\ \A j \in Invoices : \A m \in DOMAIN rows[j] :
           j # i \/ m # n => rows'[j][m] = rows[j][m]
  BY RowWritten DEF Inv, CollectionsSound, TypeOK
<1>2. \A j \in Invoices : /\ DOMAIN rows'[j] = DOMAIN rows[j]
                          /\ Len(rows'[j]) \in Nat
                          /\ Len(rows'[j]) >= Len(rows[j])
  BY <1>1 DEF Inv, CollectionsSound, TypeOK
<1>3. TypeOK'
  BY <1>1 DEF Inv, CollectionsSound, TypeOK, otherVars
<1>4. SarFlagged'
  BY <1>1, <1>2 DEF Inv, CollectionsSound, SarFlagged
<1>5. OneReceipt'
  BY <1>1, <1>2, ReceiptKept DEF otherVars
<1>6. SweepShape' /\ CallShape'
  BY <1>2, ShapesKept
<1>7. JobsShape'
  BY JobsKept DEF otherVars
<1> QED BY <1>3, <1>4, <1>5, <1>6, <1>7 DEF Inv, CollectionsSound

\* A job's transaction that inserts a row.
LEMMA InsertTxn ==
  ASSUME Inv, NEW i \in Invoices, NEW s \in RowStatus, NEW d \in Nat,
         rows' = [rows EXCEPT ![i] = Append(@, NewRow(s, d))],
         invoice' \in [Invoices -> Status],
         \A j \in Invoices : invoice[j] = "collected" => invoice'[j] = "collected",
         NEW w \in Sweeps, End(w), UNCHANGED <<otherVars, calls>>
  PROVE  Inv'
<1>1. NewRow(s, d) \in Row /\ NewRow(s, d).level # 3
  BY DEF NewRow, Row
<1>2. /\ rows' \in [Invoices -> Seq(Row)]
      /\ \A j \in Invoices : Len(rows'[j]) >= Len(rows[j])
      /\ \A j \in Invoices : \A m \in DOMAIN rows'[j] :
           \/ rows'[j][m] = NewRow(s, d)
           \/ m \in DOMAIN rows[j] /\ rows'[j][m] = rows[j][m]
  BY <1>1, RowInserted DEF Inv, CollectionsSound, TypeOK
<1>3. /\ sweep' \in [Sweeps -> Sweep]
      /\ \A v \in Sweeps : sweep'[v] = sweep[v] \/ sweep'[v].op = "idle"
  BY DEF End, NoSweep, Sweep, Inv, CollectionsSound, TypeOK
<1>4. TypeOK'
  BY <1>2, <1>3 DEF Inv, CollectionsSound, TypeOK, otherVars
<1>5. SarFlagged'
  BY <1>1, <1>2 DEF Inv, CollectionsSound, SarFlagged
<1>6. OneReceipt'
  BY <1>2, ReceiptKept DEF otherVars
<1>7. SweepShape' /\ CallShape'
  BY <1>2, <1>3, ShapesKept
<1>8. JobsShape'
  BY JobsKept DEF otherVars
<1> QED BY <1>4, <1>5, <1>6, <1>7, <1>8 DEF Inv, CollectionsSound

-----------------------------------------------------------------------------
(* The jobs.                                                               *)

\* What the job is about to read is a row of the invoice.
LEMMA SweepReadStep ==
  ASSUME Inv, NEW w \in Sweeps, NEW i \in Invoices,
         \/ StartCollectionMonitoring(w, i)
         \/ ProcessOverdueInvoice(w, i)
         \/ \E n \in DOMAIN rows[i] :
              ProcessEscalation(w, i, n) \/ ProcessDefaulted(w, i, n)
  PROVE  Inv'
<1>1. rows[i] \in Seq(Row) /\ Len(rows[i]) \in Nat
  BY DEF Inv, CollectionsSound, TypeOK
<1>2. CASE StartCollectionMonitoring(w, i)
  <2> DEFINE s == [op |-> "monitor", inv |-> i]
  <2>1. s \in Sweep /\ s.op = "monitor"
    BY DEF Sweep
  <2>2. /\ sweep' = [sweep EXCEPT ![w] = s]
        /\ UNCHANGED <<invoice, rows, used, paymentScore, receipts, settleJobs,
                       calls>>
    BY <1>2 DEF StartCollectionMonitoring, Begin
  <2>3. tries' \in [Invoices -> 0..MonitorAttempts]
    BY <1>2, ConstantsAssumption
    DEF StartCollectionMonitoring, Inv, CollectionsSound, TypeOK
  <2> HIDE DEF s
  <2> QED BY <2>1, <2>2, <2>3, SweepReads
<1>3. CASE ProcessOverdueInvoice(w, i)
  <2> DEFINE s == [op |-> "overdue", inv |-> i, row |-> Len(rows[i])]
  <2>1. s \in Sweep /\ s.op = "overdue" /\ s.row <= Len(rows[s.inv])
    BY <1>1 DEF Sweep
  <2>2. sweep' = [sweep EXCEPT ![w] = s] /\ UNCHANGED <<invoice, rows, otherVars, calls>>
    BY <1>3 DEF ProcessOverdueInvoice, Begin, Latest
  <2> HIDE DEF s
  <2> QED BY <2>1, <2>2, OtherKept, SweepReads
<1>4. ASSUME NEW n \in DOMAIN rows[i], ProcessEscalation(w, i, n)
      PROVE  Inv'
  <2> DEFINE level == DetermineEscalationLevel(rows[i][n].days)
             s == [op |-> "escalate", inv |-> i, row |-> Len(rows[i]),
                   level |-> level, days |-> rows[i][n].days]
  <2>1. n \in 1..Len(rows[i]) /\ rows[i][n] \in Row
    BY <1>1
  <2>2. rows[i][n].days \in Nat
    BY <2>1 DEF Row
  <2>3. level \in 0..3
    BY <2>2 DEF DetermineEscalationLevel
  <2>4. sweep' = [sweep EXCEPT ![w] = s] /\ UNCHANGED <<invoice, rows, otherVars, calls>>
    BY <1>4 DEF ProcessEscalation, Begin, Latest
  <2> HIDE DEF level
  <2>5. /\ s \in Sweep /\ s.op = "escalate"
        /\ 1 <= s.row /\ s.row <= Len(rows[s.inv])
    BY <1>1, <2>1, <2>2, <2>3 DEF Sweep
  <2> HIDE DEF s
  <2> QED BY <2>4, <2>5, OtherKept, SweepReads
<1>5. ASSUME NEW n \in DOMAIN rows[i], ProcessDefaulted(w, i, n)
      PROVE  Inv'
  <2> DEFINE s == [op |-> "default", inv |-> i, row |-> n]
  <2>1. n \in 1..Len(rows[i]) /\ n \in Nat
    BY <1>1
  <2>2. /\ s \in Sweep /\ s.op = "default"
        /\ 1 <= s.row /\ s.row <= Len(rows[s.inv])
    BY <1>1, <2>1 DEF Sweep
  <2>3. sweep' = [sweep EXCEPT ![w] = s] /\ UNCHANGED <<invoice, rows, otherVars, calls>>
    BY <1>5 DEF ProcessDefaulted, Begin
  <2> HIDE DEF s
  <2> QED BY <2>2, <2>3, OtherKept, SweepReads
<1> QED BY <1>2, <1>3, <1>4, <1>5

\* A job that is rolled back has written nothing.
LEMMA RollbackSweepStep ==
  ASSUME Inv, NEW w \in Sweeps, RollbackSweep(w) PROVE Inv'
<1>1. NoSweep \in Sweep /\ NoSweep.op = "idle"
  BY DEF Sweep, NoSweep
<1> QED BY <1>1, OtherKept, SweepReads DEF RollbackSweep, End

\* The end of a job's transaction.
LEMMA SweepEnds ==
  ASSUME Inv, NEW w \in Sweeps, End(w), UNCHANGED calls
  PROVE  /\ sweep' \in [Sweeps -> Sweep]
         /\ \A v \in Sweeps : sweep'[v] = sweep[v] \/ sweep'[v].op = "idle"
         /\ calls' \in [Requests -> Call]
         /\ \A r \in Requests : calls'[r] = calls[r] \/ calls'[r].op = "done"
  BY DEF End, NoSweep, Sweep, Inv, CollectionsSound, TypeOK

\* The first row of an invoice, or a second one.
LEMMA PersistCollectionStartedStep ==
  ASSUME Inv, NEW w \in Sweeps, PersistCollectionStarted(w) PROVE Inv'
<1> DEFINE i == sweep[w].inv
<1>1. sweep[w] \in Sweep /\ sweep[w].op = "monitor" /\ TypeOK
  BY DEF PersistCollectionStarted, Inv, CollectionsSound, TypeOK
<1>2. i \in Invoices
  BY <1>1, SweepFields
<1>3. /\ rows' = [rows EXCEPT ![i] = Append(@, NewRow("pending", 0))]
      /\ invoice' = UpdateInvoiceStatus(i, "collecting", "funded")
      /\ End(w) /\ UNCHANGED <<otherVars, calls>>
  BY DEF PersistCollectionStarted
<1> HIDE DEF i
<1>4. /\ invoice' \in [Invoices -> Status]
      /\ \A j \in Invoices : invoice[j] = "collected" => invoice'[j] = "collected"
  BY <1>1, <1>2, <1>3, StatusUpdated DEF Status
<1> QED BY <1>2, <1>3, <1>4, InsertTxn DEF RowStatus

\* An invoice falls overdue, with a row of its own or the one that was read.
LEMMA ExecuteOverdueTxnStep ==
  ASSUME Inv, NEW w \in Sweeps, ExecuteOverdueTxn(w) PROVE Inv'
<1> DEFINE i == sweep[w].inv
           n == sweep[w].row
<1>1. sweep[w] \in Sweep /\ sweep[w].op = "overdue" /\ TypeOK
  BY DEF ExecuteOverdueTxn, Inv, CollectionsSound, TypeOK
<1>2. i \in Invoices /\ n \in Nat
  BY <1>1, SweepFields
<1>3. n <= Len(rows[i]) /\ Len(rows[i]) \in Nat
  BY <1>1, <1>2 DEF Inv, SweepShape, TypeOK
<1>4. /\ invoice' = UpdateInvoiceStatus(i, "overdue", "collecting")
      /\ End(w) /\ UNCHANGED <<otherVars, calls>>
  BY DEF ExecuteOverdueTxn
<1>5. \/ n = 0 /\ rows' = [rows EXCEPT ![i] = Append(@, NewRow("overdue", 1))]
      \/ n # 0 /\ rows' = [rows EXCEPT ![i][n] =
                             [@ EXCEPT !.status = "overdue", !.level = 0,
                                       !.days = 1]]
  BY DEF ExecuteOverdueTxn
<1> HIDE DEF i, n
<1>6. /\ invoice' \in [Invoices -> Status]
      /\ \A j \in Invoices : invoice[j] = "collected" => invoice'[j] = "collected"
  BY <1>1, <1>2, <1>4, StatusUpdated DEF Status
<1>7. CASE n = 0
  BY <1>2, <1>4, <1>5, <1>6, <1>7, InsertTxn DEF RowStatus
<1>8. CASE n # 0
  <2> DEFINE row == [rows[i][n] EXCEPT !.status = "overdue", !.level = 0,
                                       !.days = 1]
  <2>1. n \in 1..Len(rows[i])
    BY <1>2, <1>3, <1>8
  <2>2. rows[i][n] \in Row
    BY <1>1, <1>2, <2>1 DEF TypeOK
  <2>3. row \in Row /\ row.level # 3
    BY <2>2, OverdueRow
  <2>4. rows' = [rows EXCEPT ![i] = [rows[i] EXCEPT ![n] = row]]
    BY <1>1, <1>2, <1>5, <1>8, <2>1 DEF TypeOK
  <2> HIDE DEF row
  <2> QED BY <1>2, <1>4, <1>6, <2>1, <2>3, <2>4, SweepEnds, RowTxn
<1> QED BY <1>7, <1>8

\* The legal level comes with the flag.
LEMMA ExecuteEscalationTxnStep ==
  ASSUME Inv, NEW w \in Sweeps, ExecuteEscalationTxn(w) PROVE Inv'
<1> DEFINE s == sweep[w]
           i == s.inv
           n == s.row
           flag == rows[i][n].sar \/ SarFlag(i, s.level)
           row == [rows[i][n] EXCEPT !.status = "escalated", !.level = s.level,
                                     !.days = s.days, !.sar = flag]
<1>1. s \in Sweep /\ s.op = "escalate" /\ TypeOK
  BY DEF ExecuteEscalationTxn, Inv, CollectionsSound, TypeOK
<1>2. i \in Invoices /\ n \in Nat /\ s.level \in 0..3 /\ s.days \in Nat
  BY <1>1, SweepFields
<1>3. n \in 1..Len(rows[i])
  BY <1>1, <1>2 DEF Inv, SweepShape, TypeOK
<1>4. rows[i][n] \in Row
  BY <1>1, <1>2, <1>3 DEF TypeOK
<1>5. rows' = [rows EXCEPT ![i] = [rows[i] EXCEPT ![n] = row]]
  BY <1>1, <1>2, <1>3 DEF TypeOK, ExecuteEscalationTxn
<1>6. End(w) /\ UNCHANGED <<invoice, otherVars, calls>>
  BY DEF ExecuteEscalationTxn
<1>7. flag \in BOOLEAN
  OBVIOUS
<1>8. s.level = 3 /\ FaceValue[i] >= AmlThreshold => flag
  BY DEF SarFlag
<1> HIDE DEF flag, i, n, s
<1>9. row \in Row /\ row.level = s.level /\ row.sar = flag
  BY <1>2, <1>4, <1>7 DEF Row, RowStatus
<1> HIDE DEF row
<1>10. /\ invoice' \in [Invoices -> Status]
       /\ \A j \in Invoices : invoice[j] = "collected" => invoice'[j] = "collected"
  BY <1>1, <1>6 DEF TypeOK
<1> QED BY <1>2, <1>3, <1>5, <1>6, <1>8, <1>9, <1>10, SweepEnds, RowTxn

\* Writing off changes the row's status and an overdue invoice's.
LEMMA DefaultSingleCollectionStep ==
  ASSUME Inv, NEW w \in Sweeps, DefaultSingleCollection(w) PROVE Inv'
<1> DEFINE s == sweep[w]
           i == s.inv
           n == s.row
           row == [rows[i][n] EXCEPT !.status = "bad_debt"]
<1>1. s \in Sweep /\ s.op = "default" /\ TypeOK
  BY DEF DefaultSingleCollection, Inv, CollectionsSound, TypeOK
<1>2. i \in Invoices /\ n \in Nat
  BY <1>1, SweepFields
<1>3. n \in 1..Len(rows[i])
  BY <1>1, <1>2 DEF Inv, SweepShape, TypeOK
<1>4. rows[i][n] \in Row
  BY <1>1, <1>2, <1>3 DEF TypeOK
<1>5. rows' = [rows EXCEPT ![i] = [rows[i] EXCEPT ![n] = row]]
  BY <1>1, <1>2, <1>3 DEF TypeOK, DefaultSingleCollection
<1>6. /\ invoice' = UpdateInvoiceStatus(i, "defaulted", "overdue")
      /\ End(w) /\ UNCHANGED <<otherVars, calls>>
  BY DEF DefaultSingleCollection
<1>7. row \in Row /\ row.level = rows[i][n].level /\ row.sar = rows[i][n].sar
  BY <1>4 DEF Row, RowStatus
<1>8. row.level = 3 /\ FaceValue[i] >= AmlThreshold => row.sar
  BY <1>2, <1>3, <1>7, <1>1 DEF Inv, CollectionsSound, SarFlagged, TypeOK
<1> HIDE DEF row, s, i, n
<1>9. /\ invoice' \in [Invoices -> Status]
      /\ \A j \in Invoices : invoice[j] = "collected" => invoice'[j] = "collected"
  BY <1>1, <1>2, <1>6, StatusUpdated DEF Status
<1> QED BY <1>2, <1>3, <1>5, <1>6, <1>7, <1>8, <1>9, SweepEnds, RowTxn

-----------------------------------------------------------------------------
(* The requests.                                                           *)

\* What a request is about to read is a row of the invoice, or that there is
\* none.
LEMMA CallReadStep ==
  ASSUME Inv, NEW r \in Requests, NEW i \in Invoices,
         \/ \E a \in Amounts : RecordPaymentReceived(r, i, a)
         \/ \E n \in DOMAIN rows[i] :
              \/ \E a \in Amounts : RecordCollectionPayment(r, i, n, a)
              \/ EscalateCollection(r, i, n)
              \/ DeescalateCollection(r, i, n)
              \/ ResolveCollectionById(r, i, n)
  PROVE  Inv'
<1>1. rows[i] \in Seq(Row) /\ Len(rows[i]) \in Nat /\ invoice[i] \in Status
  BY DEF Inv, CollectionsSound, TypeOK
<1>3. ASSUME NEW a \in Amounts, RecordPaymentReceived(r, i, a)
      PROVE  Inv'
  <2> DEFINE c == [op |-> "receive", inv |-> i, row |-> Len(rows[i]),
                   status |-> invoice[i], amount |-> a]
  <2>1. /\ c \in Call /\ c.op = "receive"
        /\ c.row <= Len(rows[c.inv]) /\ c.status # "collected"
    BY <1>1, <1>3 DEF Call, RecordPaymentReceived
  <2>2. /\ calls' = [calls EXCEPT ![r] = c]
        /\ UNCHANGED <<invoice, rows, otherVars, sweep>>
    BY <1>3 DEF RecordPaymentReceived, Receive, Latest
  <2> HIDE DEF c
  <2> QED BY <2>1, <2>2, CallReads
<1>4. ASSUME NEW n \in DOMAIN rows[i]
      PROVE  /\ n \in Nat /\ 1 <= n /\ n <= Len(rows[i])
             /\ rows[i][n].level \in 0..3 /\ rows[i][n].status \in RowStatus
  <2>1. n \in 1..Len(rows[i]) /\ rows[i][n] \in Row
    BY <1>1, <1>4
  <2> QED BY <1>1, <2>1, RowFields
<1>5. ASSUME NEW n \in DOMAIN rows[i], NEW a \in Amounts,
             RecordCollectionPayment(r, i, n, a)
      PROVE  Inv'
  <2> DEFINE c == [op |-> "pay", inv |-> i, row |-> n, amount |-> a]
  <2>1. /\ c \in Call /\ c.op = "pay"
        /\ 1 <= c.row /\ c.row <= Len(rows[c.inv])
    BY <1>4 DEF Call
  <2>2. /\ calls' = [calls EXCEPT ![r] = c]
        /\ UNCHANGED <<invoice, rows, otherVars, sweep>>
    BY <1>5 DEF RecordCollectionPayment, Receive
  <2> HIDE DEF c
  <2> QED BY <2>1, <2>2, CallReads
<1>6. ASSUME NEW n \in DOMAIN rows[i], EscalateCollection(r, i, n)
      PROVE  Inv'
  <2> DEFINE c == [op |-> "raise", inv |-> i, row |-> n,
                   level |-> rows[i][n].level]
  <2>1. /\ c \in Call /\ c.op = "raise"
        /\ 1 <= c.row /\ c.row <= Len(rows[c.inv])
    BY <1>4 DEF Call
  <2>2. /\ calls' = [calls EXCEPT ![r] = c]
        /\ UNCHANGED <<invoice, rows, otherVars, sweep>>
    BY <1>6 DEF EscalateCollection, Receive
  <2> HIDE DEF c
  <2> QED BY <2>1, <2>2, CallReads
<1>7. ASSUME NEW n \in DOMAIN rows[i], DeescalateCollection(r, i, n)
      PROVE  Inv'
  <2> DEFINE c == [op |-> "lower", inv |-> i, row |-> n,
                   level |-> rows[i][n].level]
  <2>1. /\ c \in Call /\ c.op = "lower" /\ c.level > 0
        /\ 1 <= c.row /\ c.row <= Len(rows[c.inv])
    BY <1>4, <1>7 DEF Call, DeescalateCollection
  <2>2. /\ calls' = [calls EXCEPT ![r] = c]
        /\ UNCHANGED <<invoice, rows, otherVars, sweep>>
    BY <1>7 DEF DeescalateCollection, Receive
  <2> HIDE DEF c
  <2> QED BY <2>1, <2>2, CallReads
<1>8. ASSUME NEW n \in DOMAIN rows[i], ResolveCollectionById(r, i, n)
      PROVE  Inv'
  <2> DEFINE c == [op |-> "resolve", inv |-> i, row |-> n,
                   status |-> rows[i][n].status]
  <2>1. /\ c \in Call /\ c.op = "resolve"
        /\ 1 <= c.row /\ c.row <= Len(rows[c.inv])
    BY <1>4 DEF Call
  <2>2. /\ calls' = [calls EXCEPT ![r] = c]
        /\ UNCHANGED <<invoice, rows, otherVars, sweep>>
    BY <1>8 DEF ResolveCollectionById, Receive
  <2> HIDE DEF c
  <2> QED BY <2>1, <2>2, CallReads
<1> QED BY <1>3, <1>5, <1>6, <1>7, <1>8

\* A request that is given up has written nothing.
LEMMA RollbackCallStep ==
  ASSUME Inv, NEW r \in Requests, RollbackCall(r) PROVE Inv'
<1>1. Done \in Call /\ Done.op = "done"
  BY DEF Call, Done
<1>2. /\ calls' = [calls EXCEPT ![r] = Done]
      /\ UNCHANGED <<invoice, rows, otherVars, sweep>>
  BY DEF RollbackCall, Answer
<1> QED BY <1>1, <1>2, CallReads

\* The end of a request's transaction.
LEMMA CallEnds ==
  ASSUME Inv, NEW r \in Requests, Answer(r), UNCHANGED sweep
  PROVE  /\ sweep' \in [Sweeps -> Sweep]
         /\ \A w \in Sweeps : sweep'[w] = sweep[w] \/ sweep'[w].op = "idle"
         /\ calls' \in [Requests -> Call]
         /\ \A q \in Requests : calls'[q] = calls[q] \/ calls'[q].op = "done"
  BY DEF Answer, Done, Call, Inv, CollectionsSound, TypeOK

\* What the transaction of a request on one row has to go by.
LEMMA CallRow ==
  ASSUME Inv, NEW r \in Requests,
         calls[r].op \in {"pay", "raise", "lower", "resolve"}
  PROVE  /\ calls[r].inv \in Invoices
         /\ calls[r].row \in 1..Len(rows[calls[r].inv])
         /\ rows[calls[r].inv][calls[r].row] \in Row
         /\ LET row == rows[calls[r].inv][calls[r].row] IN
            row.level = 3 /\ FaceValue[calls[r].inv] >= AmlThreshold => row.sar
<1> DEFINE i == calls[r].inv
           n == calls[r].row
<1>1. calls[r] \in Call /\ rows \in [Invoices -> Seq(Row)]
  BY DEF Inv, CollectionsSound, TypeOK
<1>2. i \in Invoices /\ n \in Nat
  BY <1>1, CallFields
<1>3. n \in 1..Len(rows[i])
  BY <1>1, <1>2 DEF Inv, CallShape
<1>4. rows[i][n] \in Row
  BY <1>1, <1>2, <1>3
<1>5. rows[i][n].level = 3 /\ FaceValue[i] >= AmlThreshold => rows[i][n].sar
  BY <1>1, <1>2, <1>3 DEF Inv, CollectionsSound, SarFlagged
<1> QED BY <1>2, <1>3, <1>4, <1>5

\* A part payment adds to the total.
LEMMA ExecuteCollectionPaymentTxnStep ==
  ASSUME Inv, NEW r \in Requests, ExecuteCollectionPaymentTxn(r) PROVE Inv'
<1> DEFINE c == calls[r]
           i == c.inv
           n == c.row
           old == rows[i][n]
           total == old.total + c.amount
           row == [old EXCEPT !.total = total]
<1>1. c \in Call /\ c.op = "pay" /\ TypeOK
  BY DEF ExecuteCollectionPaymentTxn, Inv, CollectionsSound, TypeOK
<1>2. /\ i \in Invoices /\ n \in 1..Len(rows[i]) /\ old \in Row
      /\ old.level = 3 /\ FaceValue[i] >= AmlThreshold => old.sar
  BY <1>1, CallRow
<1>3. total \in Nat
  <2>1. c.amount \in Nat
    BY <1>1, CallFields, ConstantsAssumption
  <2>2. old.total \in Nat
    BY <1>2, RowFields
  <2> QED BY <2>1, <2>2
<1>4. rows' = [rows EXCEPT ![i] = [rows[i] EXCEPT ![n] = row]]
  BY <1>1, <1>2 DEF TypeOK, ExecuteCollectionPaymentTxn
<1>5. Answer(r) /\ UNCHANGED <<invoice, otherVars, sweep>>
  BY DEF ExecuteCollectionPaymentTxn
<1> HIDE DEF total, old
<1>6. row \in Row /\ row.level = old.level /\ row.sar = old.sar
  BY <1>2, <1>3 DEF Row
<1> HIDE DEF row, i, n, c
<1>7. row.level = 3 /\ FaceValue[i] >= AmlThreshold => row.sar
  BY <1>2, <1>6
<1>8. /\ invoice' \in [Invoices -> Status]
      /\ \A j \in Invoices : invoice[j] = "collected" => invoice'[j] = "collected"
  BY <1>1, <1>5 DEF TypeOK
<1> QED BY <1>2, <1>4, <1>5, <1>6, <1>7, <1>8, CallEnds, RowTxn

\* A row set to a level above 0 is escalated.
LEMMA SetLevelRow ==
  ASSUME NEW row \in Row, NEW l \in 0..3
  PROVE  /\ SetLevel(row, l) \in Row
         /\ SetLevel(row, l).level = l
         /\ SetLevel(row, l).sar = row.sar
  BY DEF SetLevel, Row, RowStatus

\* A level raised by hand comes with the flag as well.
LEMMA ExecuteManualEscalationTxnStep ==
  ASSUME Inv, NEW r \in Requests, ExecuteManualEscalationTxn(r) PROVE Inv'
<1> DEFINE c == calls[r]
           i == c.inv
           n == c.row
           old == rows[i][n]
           l == IF c.level < 3 THEN c.level + 1 ELSE 3
           flag == old.sar \/ SarFlag(i, l)
           row == [SetLevel(old, l) EXCEPT !.sar = flag]
<1>1. c \in Call /\ c.op = "raise" /\ TypeOK
  BY DEF ExecuteManualEscalationTxn, Inv, CollectionsSound, TypeOK
<1>2. i \in Invoices /\ n \in 1..Len(rows[i]) /\ old \in Row
  BY <1>1, CallRow
<1>3. c.level \in 0..3
  BY <1>1, CallFields
<1>4. l \in 0..3
  BY <1>3
<1>5. rows' = [rows EXCEPT ![i] = [rows[i] EXCEPT ![n] = row]]
  BY <1>1, <1>2 DEF TypeOK, ExecuteManualEscalationTxn
<1>6. Answer(r) /\ UNCHANGED <<invoice, otherVars, sweep>>
  BY DEF ExecuteManualEscalationTxn
<1>7. flag \in BOOLEAN /\ (l = 3 /\ FaceValue[i] >= AmlThreshold => flag)
  BY <1>4 DEF SarFlag
<1> HIDE DEF flag, l, old
<1>8. row \in Row /\ row.level = l /\ row.sar = flag
  <2>1. SetLevel(old, l) \in Row /\ SetLevel(old, l).level = l
    BY <1>2, <1>4, SetLevelRow
  <2> QED BY <1>7, <2>1 DEF Row
<1> HIDE DEF row, i, n, c
<1>9. row.level = 3 /\ FaceValue[i] >= AmlThreshold => row.sar
  BY <1>7, <1>8
<1>10. /\ invoice' \in [Invoices -> Status]
       /\ \A j \in Invoices : invoice[j] = "collected" => invoice'[j] = "collected"
  BY <1>1, <1>6 DEF TypeOK
<1> QED BY <1>2, <1>5, <1>6, <1>8, <1>9, <1>10, CallEnds, RowTxn

\* A level that is lowered is below the legal one.
LEMMA ExecuteDeescalationTxnStep ==
  ASSUME Inv, NEW r \in Requests, ExecuteDeescalationTxn(r) PROVE Inv'
<1> DEFINE c == calls[r]
           i == c.inv
           n == c.row
           old == rows[i][n]
           l == c.level - 1
           set == SetLevel(old, l)
           row == IF l = 0 THEN [set EXCEPT !.status = "overdue"] ELSE set
<1>1. c \in Call /\ c.op = "lower" /\ TypeOK
  BY DEF ExecuteDeescalationTxn, Inv, CollectionsSound, TypeOK
<1>2. i \in Invoices /\ n \in 1..Len(rows[i]) /\ old \in Row
  BY <1>1, CallRow
<1>3. c.level \in 0..3 /\ c.level > 0
  BY <1>1, CallFields DEF Inv, CallShape
<1>4. l \in 0..3 /\ l # 3
  BY <1>3
<1>5. rows' = [rows EXCEPT ![i] = [rows[i] EXCEPT ![n] = row]]
  BY <1>1, <1>2 DEF TypeOK, ExecuteDeescalationTxn
<1>6. Answer(r) /\ UNCHANGED <<invoice, otherVars, sweep>>
  BY DEF ExecuteDeescalationTxn
<1>7. set \in Row /\ set.level = l
  BY <1>2, <1>4, SetLevelRow
<1> HIDE DEF set, l, old
<1>8. row \in Row /\ row.level = l
  BY <1>7 DEF Row, RowStatus
<1> HIDE DEF row, i, n, c
<1>9. row.level # 3
  BY <1>4, <1>8
<1>10. /\ invoice' \in [Invoices -> Status]
       /\ \A j \in Invoices : invoice[j] = "collected" => invoice'[j] = "collected"
  BY <1>1, <1>6 DEF TypeOK
<1> QED BY <1>2, <1>5, <1>6, <1>8, <1>9, <1>10, CallEnds, RowTxn

\* Resolving writes the row's status and an overdue invoice's, no receipt.
LEMMA ExecuteResolveTxnStep ==
  ASSUME Inv, NEW r \in Requests, ExecuteResolveTxn(r) PROVE Inv'
<1> DEFINE c == calls[r]
           i == c.inv
           n == c.row
           old == rows[i][n]
           row == [old EXCEPT !.status = "collected"]
<1>1. c \in Call /\ c.op = "resolve" /\ TypeOK
  BY DEF ExecuteResolveTxn, Inv, CollectionsSound, TypeOK
<1>2. /\ i \in Invoices /\ n \in 1..Len(rows[i]) /\ old \in Row
      /\ old.level = 3 /\ FaceValue[i] >= AmlThreshold => old.sar
  BY <1>1, CallRow
<1>3. rows' = [rows EXCEPT ![i] = [rows[i] EXCEPT ![n] = row]]
  BY <1>1, <1>2 DEF TypeOK, ExecuteResolveTxn
<1>4. /\ invoice' = UpdateInvoiceStatus(i, "collected", "overdue")
      /\ Answer(r) /\ UNCHANGED <<otherVars, sweep>>
  BY DEF ExecuteResolveTxn
<1> HIDE DEF old
<1>5. row \in Row /\ row.level = old.level /\ row.sar = old.sar
  BY <1>2 DEF Row, RowStatus
<1> HIDE DEF row, i, n, c
<1>6. row.level = 3 /\ FaceValue[i] >= AmlThreshold => row.sar
  BY <1>2, <1>5
<1>7. /\ invoice' \in [Invoices -> Status]
      /\ \A j \in Invoices : invoice[j] = "collected" => invoice'[j] = "collected"
  BY <1>1, <1>2, <1>4, StatusUpdated DEF Status
<1> QED BY <1>2, <1>3, <1>4, <1>5, <1>6, <1>7, CallEnds, RowTxn

\* The score stays between 0 and 100.
LEMMA ScoreClamped ==
  ASSUME NEW s \in 0..100, NEW late \in Int
  PROVE  AdjustScore(s, late) \in 0..100
  BY DEF AdjustScore

\* What a payment's transaction has to go by: the invoice is as it was read,
\* so it has no receipt yet.
LEMMA PaymentReads ==
  ASSUME Inv, NEW r \in Requests, NEW late \in LateDays,
         ExecutePaymentReceivedTxn(r, late)
  PROVE  /\ calls[r] \in Call /\ calls[r].op = "receive"
         /\ calls[r].inv \in Invoices
         /\ calls[r].row \in 1..Len(rows[calls[r].inv])
         /\ calls[r].amount \in Nat
         /\ receipts[calls[r].inv] = 0 /\ settleJobs[calls[r].inv] = 0
<1> DEFINE c == calls[r]
           i == c.inv
<1>1. /\ c \in Call /\ c.op = "receive" /\ TypeOK
      /\ invoice[i] = c.status /\ c.row # 0
  BY DEF ExecutePaymentReceivedTxn, AssertCollectedTransition, Inv,
         CollectionsSound, TypeOK
<1>2. i \in Invoices /\ c.row \in Nat /\ c.amount \in Amounts
  BY <1>1, CallFields
<1>3. c.row <= Len(rows[i]) /\ c.status # "collected"
  BY <1>1 DEF Inv, CallShape
<1>4. c.row \in 1..Len(rows[i])
  BY <1>1, <1>2, <1>3 DEF TypeOK
<1>5. receipts[i] # 1 /\ receipts[i] <= 1 /\ settleJobs[i] <= receipts[i]
  BY <1>1, <1>2, <1>3 DEF Inv, CollectionsSound, OneReceipt, Final
<1>6. receipts[i] = 0 /\ settleJobs[i] = 0
  <2>1. receipts[i] \in Nat /\ settleJobs[i] \in Nat
    BY <1>1, <1>2 DEF TypeOK
  <2> HIDE DEF c, i
  <2> QED BY <1>5, <2>1
<1>7. c.amount \in Nat
  BY <1>2, ConstantsAssumption
<1> QED BY <1>1, <1>2, <1>4, <1>6, <1>7

\* The first and only receipt of an invoice.
LEMMA ExecutePaymentReceivedTxnStep ==
  ASSUME Inv, NEW r \in Requests, NEW late \in LateDays,
         ExecutePaymentReceivedTxn(r, late)
  PROVE  Inv'
<1> DEFINE c == calls[r]
           i == c.inv
           n == c.row
           old == rows[i][n]
           row == [old EXCEPT !.status = "collected", !.level = 0,
                              !.total = c.amount]
           after == [op |-> "jobs", inv |-> i]
<1>1. /\ i \in Invoices /\ n \in 1..Len(rows[i]) /\ c.amount \in Nat
      /\ receipts[i] = 0 /\ settleJobs[i] = 0
  BY PaymentReads
<1>2. TypeOK
  BY DEF Inv, CollectionsSound
<1>3. old \in Row
  BY <1>1, <1>2 DEF TypeOK
<1>4. /\ rows' = [rows EXCEPT ![i] = [rows[i] EXCEPT ![n] = row]]
      /\ invoice' = [invoice EXCEPT ![i] = "collected"]
      /\ used >= FaceValue[i] /\ used' = used - FaceValue[i]
      /\ paymentScore' = AdjustScore(paymentScore, late)
      /\ receipts' = [receipts EXCEPT ![i] = @ + 1]
      /\ calls' = [calls EXCEPT ![r] = after]
      /\ UNCHANGED <<settleJobs, tries, sweep>>
  BY <1>1, <1>2 DEF TypeOK, ExecutePaymentReceivedTxn
<1>5. row \in Row /\ row.level # 3
  <2>1. 0 \in 0..3 /\ "collected" \in RowStatus
    BY DEF RowStatus
  <2>2. row \in Row
    BY <1>1, <1>3, <2>1, RowWithTotal, Zenon
  <2>3. row.level = 0
    BY <1>3 DEF Row
  <2> QED BY <2>2, <2>3
<1>6. after \in Call /\ after.op = "jobs" /\ after.inv = i
  BY <1>1 DEF Call
<1> HIDE DEF row, old, after, i, n, c
<1>7. /\ rows' \in [Invoices -> Seq(Row)]
      /\ \A j \in Invoices : Len(rows'[j]) = Len(rows[j])
      /\ rows'[i][n] = row
      /\ \A j \in Invoices : \A m \in DOMAIN rows[j] :
           j # i \/ m # n => rows'[j][m] = rows[j][m]
  BY <1>1, <1>2, <1>4, <1>5, RowWritten DEF TypeOK
<1>8. \A j \in Invoices : /\ DOMAIN rows'[j] = DOMAIN rows[j]
                          /\ Len(rows'[j]) \in Nat
                          /\ Len(rows'[j]) >= Len(rows[j])
  BY <1>2, <1>7 DEF TypeOK
<1>9. TypeOK'
  <2>1. used' \in Nat
    <3>1. FaceValue[i] \in Nat
      BY <1>1, ConstantsAssumption
    <3>2. used \in Nat /\ used >= FaceValue[i] /\ used' = used - FaceValue[i]
      BY <1>2, <1>4 DEF TypeOK
    <3> QED BY <3>1, <3>2
  <2>2. paymentScore' \in 0..100
    BY <1>2, <1>4, ScoreClamped, ConstantsAssumption DEF TypeOK
  <2>3. receipts' \in [Invoices -> Nat]
    BY <1>1, <1>2, <1>4 DEF TypeOK
  <2>4. invoice' \in [Invoices -> Status] /\ calls' \in [Requests -> Call]
    BY <1>2, <1>4, <1>6 DEF TypeOK, Status
  <2> QED BY <1>2, <1>4, <1>7, <2>1, <2>2, <2>3, <2>4 DEF TypeOK
<1>10. SarFlagged'
  BY <1>5, <1>7, <1>8 DEF Inv, CollectionsSound, SarFlagged
<1>11. OneReceipt'
  <2>1. /\ receipts'[i] = 1 /\ settleJobs'[i] = 0 /\ invoice'[i] = "collected"
        /\ \A j \in Invoices \ {i} :
             receipts'[j] = receipts[j] /\ invoice'[j] = invoice[j]
    BY <1>1, <1>2, <1>4 DEF TypeOK
  <2>2. rows'[i] # << >>
    BY <1>1, <1>7, <1>8
  <2>3. \A j \in Invoices : rows[j] # << >> => rows'[j] # << >>
    BY <1>2, <1>7 DEF TypeOK
  <2>4. ASSUME NEW j \in Invoices
        PROVE  /\ receipts'[j] <= 1
               /\ settleJobs'[j] <= receipts'[j]
               /\ receipts'[j] = 1 => invoice'[j] = "collected" /\ rows'[j] # << >>
    <3>1. CASE j = i
      BY <2>1, <2>2, <3>1
    <3>2. CASE j # i
      BY <1>4, <2>1, <2>3, <3>2
      DEF Inv, CollectionsSound, OneReceipt, Final
    <3> QED BY <3>1, <3>2
  <2> QED BY <2>4 DEF OneReceipt, Final
<1>12. \A q \in Requests : calls'[q] = calls[q] \/ calls'[q] = after
  BY <1>2, <1>4 DEF TypeOK
<1>13. SweepShape' /\ CallShape'
  BY <1>4, <1>6, <1>8, <1>12, ShapesKept
<1>14. JobsShape'
  <2>1. calls'[r] = after /\ \A q \in Requests \ {r} : calls'[q] = calls[q]
    BY <1>2, <1>4 DEF TypeOK
  <2>2. \A q \in Requests \ {r} : calls[q].op = "jobs" => calls[q].inv # i
    BY <1>1 DEF Inv, JobsShape
  <2>3. receipts'[i] = 1 /\ settleJobs'[i] = 0
    BY <1>1, <1>2, <1>4 DEF TypeOK
  <2>4. ASSUME NEW q \in Requests \ {r}, calls[q].op = "jobs"
        PROVE  receipts'[calls[q].inv] = 1 /\ settleJobs'[calls[q].inv] = 0
    <3>1. calls[q].inv \in Invoices
      BY <1>2, <2>4, CallFields DEF TypeOK
    <3> QED BY <1>2, <1>4, <2>2, <2>4, <3>1 DEF Inv, JobsShape, TypeOK
  <2> QED BY <1>6, <2>1, <2>2, <2>3, <2>4 DEF Inv, JobsShape
<1> QED BY <1>9, <1>10, <1>11, <1>13, <1>14 DEF Inv, CollectionsSound

\* The one settlement job of a receipt.
LEMMA DispatchPostPaymentJobsStep ==
  ASSUME Inv, NEW r \in Requests, DispatchPostPaymentJobs(r) PROVE Inv'
<1> DEFINE i == calls[r].inv
<1>1. TypeOK /\ calls[r] \in Call /\ calls[r].op = "jobs"
  BY DEF DispatchPostPaymentJobs, Inv, CollectionsSound, TypeOK
<1>2. i \in Invoices
  BY <1>1, CallFields
<1>3. receipts[i] = 1 /\ settleJobs[i] = 0
  BY <1>1 DEF Inv, JobsShape
<1>4. \A q \in Requests \ {r} : calls[q].op = "jobs" => calls[q].inv # i
  BY <1>1 DEF Inv, JobsShape
<1>5. /\ settleJobs' = [settleJobs EXCEPT ![i] = @ + 1]
      /\ calls' = [calls EXCEPT ![r] = Done]
      /\ UNCHANGED <<invoice, rows, used, paymentScore, receipts, tries, sweep>>
  BY DEF DispatchPostPaymentJobs, Answer
<1> HIDE DEF i
<1>6. Done \in Call /\ Done.op = "done"
  BY DEF Call, Done
<1>7. calls'[r] = Done /\ \A q \in Requests \ {r} : calls'[q] = calls[q]
  BY <1>1, <1>5 DEF TypeOK
<1>8. settleJobs'[i] = 1 /\ \A j \in Invoices \ {i} : settleJobs'[j] = settleJobs[j]
  BY <1>1, <1>2, <1>3, <1>5 DEF TypeOK
<1>9. TypeOK'
  BY <1>1, <1>2, <1>5, <1>6 DEF TypeOK
<1>10. OneReceipt'
  BY <1>3, <1>5, <1>8 DEF Inv, CollectionsSound, OneReceipt, Final
<1>11. SarFlagged'
  BY <1>5 DEF Inv, CollectionsSound, SarFlagged
<1>12. SweepShape' /\ CallShape'
  BY <1>1, <1>5, <1>6, <1>7, ShapesKept DEF TypeOK
<1>13. JobsShape'
  <2>1. ASSUME NEW q \in Requests, calls'[q].op = "jobs"
        PROVE  /\ q # r /\ calls'[q] = calls[q]
               /\ receipts'[calls'[q].inv] = 1 /\ settleJobs'[calls'[q].inv] = 0
    <3>1. q # r /\ calls'[q] = calls[q]
      BY <1>6, <1>7, <2>1
    <3>2. calls[q].inv \in Invoices
      BY <1>1, <2>1, <3>1, CallFields DEF TypeOK
    <3> QED BY <1>4, <1>5, <1>8, <2>1, <3>1, <3>2 DEF Inv, JobsShape
  <2> QED BY <2>1 DEF Inv, JobsShape
<1> QED BY <1>9, <1>10, <1>11, <1>12, <1>13 DEF Inv, CollectionsSound

\* Every step of a job or of a request keeps the invariant.
LEMMA NextInv == Inv /\ [Next]_vars => Inv'
<1> SUFFICES ASSUME Inv, [Next]_vars PROVE Inv'
  OBVIOUS
<1>1. CASE UNCHANGED vars
  BY <1>1 DEF vars, Inv, CollectionsSound, TypeOK, OneReceipt, Final, SarFlagged,
              SweepShape, CallShape, JobsShape
<1>2. ASSUME NEW w \in Sweeps, SweepTxn(w) PROVE Inv'
  BY <1>2, PersistCollectionStartedStep, ExecuteOverdueTxnStep,
     ExecuteEscalationTxnStep, DefaultSingleCollectionStep DEF SweepTxn
<1>3. ASSUME NEW r \in Requests, CallTxn(r) PROVE Inv'
  BY <1>3, ExecutePaymentReceivedTxnStep, DispatchPostPaymentJobsStep,
     ExecuteCollectionPaymentTxnStep, ExecuteManualEscalationTxnStep,
     ExecuteDeescalationTxnStep, ExecuteResolveTxnStep DEF CallTxn
<1> QED BY <1>1, <1>2, <1>3, RollbackSweepStep, SweepReadStep,
           RollbackCallStep, CallReadStep DEF Next

\* The inductive invariant holds in every state.
LEMMA Invariance == Spec => []Inv
  BY InitInv, NextInv, PTL DEF Spec

\* However many jobs and requests work on an invoice from stale reads, it has
\* one receipt and one settlement job at most, stays collected once it is
\* paid, and reaches the legal level only with the review flag where its face
\* value calls for one.
THEOREM Soundness == Spec => []CollectionsSound
<1>1. Inv => CollectionsSound
  BY DEF Inv
<1> QED BY <1>1, Invariance, PTL

-----------------------------------------------------------------------------
(* The way of an invoice.                                                  *)

\* The rank of each status.
LEMMA Ranks ==
  /\ Rank("funded") = 0 /\ Rank("collecting") = 1 /\ Rank("overdue") = 2
  /\ Rank("defaulted") = 3 /\ Rank("collected") = 4
  BY DEF Rank

\* Every status has a rank, and none is above 'collected'.
LEMMA RankBound ==
  ASSUME NEW s \in Status
  PROVE  Rank(s) \in Nat /\ Rank(s) <= Rank("collected")
  BY Ranks DEF Status

\* A conditional update to a status of higher rank.
LEMMA UpdateForward ==
  ASSUME TypeOK, NEW i \in Invoices, NEW new \in Status, NEW expected \in Status,
         Rank(expected) <= Rank(new),
         invoice' = UpdateInvoiceStatus(i, new, expected)
  PROVE  \A j \in Invoices : Rank(invoice[j]) <= Rank(invoice'[j])
<1>1. \A j \in Invoices : Rank(invoice[j]) \in Nat
  BY RankBound DEF TypeOK
<1>2. \A j \in Invoices :
        \/ invoice'[j] = invoice[j]
        \/ invoice[j] = expected /\ invoice'[j] = new
  BY DEF TypeOK, UpdateInvoiceStatus
<1> QED BY <1>1, <1>2

\* No step of a job or a request takes an invoice back.
LEMMA StepForward ==
  ASSUME Inv, [Next]_vars
  PROVE  \A i \in Invoices : Rank(invoice[i]) <= Rank(invoice'[i])
<1> DEFINE Ahead == \A i \in Invoices : Rank(invoice[i]) <= Rank(invoice'[i])
<1>1. TypeOK /\ \A i \in Invoices : Rank(invoice[i]) \in Nat
  BY RankBound DEF Inv, CollectionsSound, TypeOK
<1>2. ASSUME UNCHANGED invoice PROVE Ahead
  BY <1>1, <1>2
<1>3. ASSUME NEW w \in Sweeps, PersistCollectionStarted(w) PROVE Ahead
  <2>1. sweep[w] \in Sweep /\ sweep[w].op = "monitor"
    BY <1>1, <1>3 DEF PersistCollectionStarted, TypeOK
  <2>2. sweep[w].inv \in Invoices
    BY <2>1, SweepFields
  <2>3. invoice' = UpdateInvoiceStatus(sweep[w].inv, "collecting", "funded")
    BY <1>3 DEF PersistCollectionStarted
  <2>4. "collecting" \in Status /\ "funded" \in Status /\ Rank("funded") <= Rank("collecting")
    BY Ranks DEF Status
  <2> QED BY <1>1, <2>2, <2>3, <2>4, UpdateForward
<1>4. ASSUME NEW w \in Sweeps, ExecuteOverdueTxn(w) PROVE Ahead
  <2>1. sweep[w] \in Sweep /\ sweep[w].op = "overdue"
    BY <1>1, <1>4 DEF ExecuteOverdueTxn, TypeOK
  <2>2. sweep[w].inv \in Invoices
    BY <2>1, SweepFields
  <2>3. invoice' = UpdateInvoiceStatus(sweep[w].inv, "overdue", "collecting")
    BY <1>4 DEF ExecuteOverdueTxn
  <2>4. "overdue" \in Status /\ "collecting" \in Status /\ Rank("collecting") <= Rank("overdue")
    BY Ranks DEF Status
  <2> QED BY <1>1, <2>2, <2>3, <2>4, UpdateForward
<1>5. ASSUME NEW w \in Sweeps, DefaultSingleCollection(w) PROVE Ahead
  <2>1. sweep[w] \in Sweep /\ sweep[w].op = "default"
    BY <1>1, <1>5 DEF DefaultSingleCollection, TypeOK
  <2>2. sweep[w].inv \in Invoices
    BY <2>1, SweepFields
  <2>3. invoice' = UpdateInvoiceStatus(sweep[w].inv, "defaulted", "overdue")
    BY <1>5 DEF DefaultSingleCollection
  <2>4. "defaulted" \in Status /\ "overdue" \in Status /\ Rank("overdue") <= Rank("defaulted")
    BY Ranks DEF Status
  <2> QED BY <1>1, <2>2, <2>3, <2>4, UpdateForward
<1>6. ASSUME NEW r \in Requests, ExecuteResolveTxn(r) PROVE Ahead
  <2>1. calls[r] \in Call /\ calls[r].op = "resolve"
    BY <1>1, <1>6 DEF ExecuteResolveTxn, TypeOK
  <2>2. calls[r].inv \in Invoices
    BY <2>1, CallFields
  <2>3. invoice' = UpdateInvoiceStatus(calls[r].inv, "collected", "overdue")
    BY <1>6 DEF ExecuteResolveTxn
  <2>4. "collected" \in Status /\ "overdue" \in Status /\ Rank("overdue") <= Rank("collected")
    BY Ranks DEF Status
  <2> QED BY <1>1, <2>2, <2>3, <2>4, UpdateForward
<1>7. ASSUME NEW r \in Requests, NEW late \in LateDays,
             ExecutePaymentReceivedTxn(r, late)
      PROVE  Ahead
  <2>1. invoice' = [invoice EXCEPT ![calls[r].inv] = "collected"]
    BY <1>7 DEF ExecutePaymentReceivedTxn
  <2>2. \A j \in Invoices : invoice'[j] = invoice[j] \/ invoice'[j] = "collected"
    BY <1>1, <2>1 DEF TypeOK
  <2>3. \A j \in Invoices : Rank(invoice[j]) <= Rank("collected")
    BY <1>1, RankBound DEF TypeOK
  <2> QED BY <1>1, <2>2, <2>3
<1> HIDE DEF Ahead
<1>8. ASSUME NEW w \in Sweeps, SweepTxn(w) PROVE Ahead
  <2>1. CASE ExecuteEscalationTxn(w)
    BY <1>2, <2>1 DEF ExecuteEscalationTxn
  <2> QED BY <1>3, <1>4, <1>5, <1>8, <2>1 DEF SweepTxn
<1>9. ASSUME NEW r \in Requests, CallTxn(r) PROVE Ahead
  <2>1. CASE \/ DispatchPostPaymentJobs(r) \/ ExecuteCollectionPaymentTxn(r)
             \/ ExecuteManualEscalationTxn(r) \/ ExecuteDeescalationTxn(r)
    BY <1>2, <2>1
    DEF DispatchPostPaymentJobs, ExecuteCollectionPaymentTxn,
        ExecuteManualEscalationTxn, ExecuteDeescalationTxn
  <2> QED BY <1>6, <1>7, <1>9, <2>1 DEF CallTxn
<1>10. UNCHANGED invoice \/ (\E w \in Sweeps : SweepTxn(w))
                         \/ (\E r \in Requests : CallTxn(r))
  BY DEF Next, vars, RollbackSweep, StartCollectionMonitoring,
         ProcessOverdueInvoice, ProcessEscalation, ProcessDefaulted,
         RollbackCall, RecordPaymentReceived, RecordCollectionPayment,
         EscalateCollection, DeescalateCollection, ResolveCollectionById
<1> QED BY <1>2, <1>8, <1>9, <1>10 DEF Ahead

\* Stale jobs and requests never take an invoice back.
THEOREM Forward == Spec => InvoiceForward
<1>1. Inv /\ [Next]_vars =>
        [\A i \in Invoices : Rank(invoice[i]) <= Rank(invoice'[i])]_vars
  BY StepForward
<1> QED BY <1>1, Invariance, PTL DEF Spec, InvoiceForward

-----------------------------------------------------------------------------
(* The refinement of Repayment.                                            *)

\* Only a payment and its jobs touch the credit, the receipts and the
\* settlement jobs.
LEMMA MoneySteps ==
  ASSUME [Next]_vars
  PROVE  \/ UNCHANGED <<used, receipts, settleJobs>>
         \/ \E r \in Requests :
              \/ \E late \in LateDays : ExecutePaymentReceivedTxn(r, late)
              \/ DispatchPostPaymentJobs(r)
<1>1. ASSUME NEW w \in Sweeps, SweepTxn(w)
      PROVE  UNCHANGED <<used, receipts, settleJobs>>
  BY <1>1 DEF SweepTxn, PersistCollectionStarted, ExecuteOverdueTxn,
              ExecuteEscalationTxn, DefaultSingleCollection, otherVars
<1>2. ASSUME NEW r \in Requests, CallTxn(r)
      PROVE  \/ UNCHANGED <<used, receipts, settleJobs>>
             \/ \E late \in LateDays : ExecutePaymentReceivedTxn(r, late)
             \/ DispatchPostPaymentJobs(r)
  BY <1>2 DEF CallTxn, ExecuteCollectionPaymentTxn,
              ExecuteManualEscalationTxn, ExecuteDeescalationTxn,
              ExecuteResolveTxn, otherVars
<1>3. \/ UNCHANGED vars \/ UNCHANGED otherVars
      \/ \E w \in Sweeps, i \in Invoices : StartCollectionMonitoring(w, i)
      \/ \E w \in Sweeps : SweepTxn(w)
      \/ \E r \in Requests : CallTxn(r)
  BY DEF Next, RollbackSweep, RollbackCall,
         ProcessOverdueInvoice, ProcessEscalation, ProcessDefaulted,
         RecordPaymentReceived, RecordCollectionPayment,
         EscalateCollection, DeescalateCollection, ResolveCollectionById
<1>4. \/ UNCHANGED vars \/ UNCHANGED otherVars
      \/ \E w \in Sweeps, i \in Invoices : StartCollectionMonitoring(w, i)
      => UNCHANGED <<used, receipts, settleJobs>>
  BY DEF vars, otherVars, StartCollectionMonitoring
<1> QED BY <1>1, <1>2, <1>3, <1>4

\* A payment's transaction is the abstract payment of its invoice.
LEMMA PaymentMaps ==
  ASSUME Inv, NEW r \in Requests, NEW late \in LateDays,
         ExecutePaymentReceivedTxn(r, late), NEW i, i = calls[r].inv
  PROVE  Promise!Pay(i)
<1>1. i \in Invoices /\ receipts[i] = 0
  BY PaymentReads
<1>2. /\ used >= FaceValue[i] /\ used' = used - FaceValue[i]
      /\ receipts' = [receipts EXCEPT ![i] = @ + 1] /\ UNCHANGED settleJobs
  BY DEF ExecutePaymentReceivedTxn
<1>3. receipts \in [Invoices -> Nat] /\ used \in Nat /\ FaceValue[i] \in Nat
  BY <1>1, ConstantsAssumption DEF Inv, CollectionsSound, TypeOK
<1>4. receipts'[i] = 1 /\ \A j \in Invoices \ {i} : receipts'[j] = receipts[j]
  BY <1>1, <1>2, <1>3
<1>5. ~ (receipts[i] > 0) /\ receipts'[i] > 0
  BY <1>1, <1>4
<1>6. /\ i \notin {k \in Invoices : receipts[k] > 0}
      /\ {k \in Invoices : receipts'[k] > 0}
           = {k \in Invoices : receipts[k] > 0} \cup {i}
  BY <1>1, <1>4, <1>5
<1>7. used' >= 0
  BY <1>2, <1>3
<1>8. UNCHANGED {k \in Invoices : settleJobs[k] > 0}
  BY <1>2
<1> QED BY <1>2, <1>6, <1>7, <1>8 DEF Promise!Pay

\* The settlement job of a receipt is the abstract settlement.
LEMMA DispatchMaps ==
  ASSUME Inv, NEW r \in Requests, DispatchPostPaymentJobs(r),
         NEW i, i = calls[r].inv
  PROVE  Promise!Settle(i)
<1>1. calls[r] \in Call /\ calls[r].op = "jobs"
  BY DEF DispatchPostPaymentJobs, Inv, CollectionsSound, TypeOK
<1>2. i \in Invoices
  BY <1>1, CallFields
<1>3. receipts[i] = 1 /\ settleJobs[i] = 0
  BY <1>1 DEF Inv, JobsShape
<1>4. settleJobs' = [settleJobs EXCEPT ![i] = @ + 1] /\ UNCHANGED <<receipts, used>>
  BY DEF DispatchPostPaymentJobs
<1>5. settleJobs \in [Invoices -> Nat]
  BY DEF Inv, CollectionsSound, TypeOK
<1>6. settleJobs'[i] = 1 /\ \A j \in Invoices \ {i} : settleJobs'[j] = settleJobs[j]
  BY <1>2, <1>3, <1>4, <1>5
<1>7. receipts[i] > 0 /\ ~ (settleJobs[i] > 0) /\ settleJobs'[i] > 0
  BY <1>3, <1>6
<1>8. /\ i \in {k \in Invoices : receipts[k] > 0}
                 \ {k \in Invoices : settleJobs[k] > 0}
      /\ {k \in Invoices : settleJobs'[k] > 0}
           = {k \in Invoices : settleJobs[k] > 0} \cup {i}
  BY <1>2, <1>6, <1>7
<1>9. UNCHANGED <<{k \in Invoices : receipts[k] > 0}, used>>
  BY <1>4
<1> QED BY <1>8, <1>9 DEF Promise!Settle

\* Every step of collections is a step of Repayment or invisible to it.
LEMMA StepMaps == Inv /\ [Next]_vars => [Promise!PNext]_(Promise!pvars)
<1> SUFFICES ASSUME Inv, [Next]_vars PROVE [Promise!PNext]_(Promise!pvars)
  OBVIOUS
<1>1. CASE UNCHANGED <<used, receipts, settleJobs>>
  BY <1>1 DEF Promise!pvars
<1>2. ASSUME NEW r \in Requests, NEW late \in LateDays,
             ExecutePaymentReceivedTxn(r, late)
      PROVE  Promise!PNext
  <2>1. PICK i \in Invoices : i = calls[r].inv
    BY <1>2, PaymentReads
  <2>2. Promise!Pay(i)
    BY <1>2, <2>1, PaymentMaps
  <2> QED BY <2>2 DEF Promise!PNext
<1>3. ASSUME NEW r \in Requests, DispatchPostPaymentJobs(r)
      PROVE  Promise!PNext
  <2>1. calls[r] \in Call /\ calls[r].op = "jobs"
    BY <1>3 DEF DispatchPostPaymentJobs, Inv, CollectionsSound, TypeOK
  <2>2. PICK i \in Invoices : i = calls[r].inv
    BY <2>1, CallFields
  <2>3. Promise!Settle(i)
    BY <1>3, <2>2, DispatchMaps
  <2> QED BY <2>3 DEF Promise!PNext
<1> QED BY <1>1, <1>2, <1>3, MoneySteps

\* Collections implements Repayment: whatever the schedule, an invoice is paid
\* once, its face value leaves the buyer's used limit with that payment and at
\* no other time, and only a paid invoice is settled, once.
THEOREM Refinement == Spec => ImplementsRepayment
<1>1. Init => Promise!PInit
  <2> SUFFICES ASSUME Init PROVE Promise!PInit
    OBVIOUS
  <2>1. /\ receipts = [i \in Invoices |-> 0]
        /\ settleJobs = [i \in Invoices |-> 0]
        /\ used \in InitialUsed
    BY DEF Init
  <2>2. \A j \in Invoices : ~ (receipts[j] > 0) /\ ~ (settleJobs[j] > 0)
    BY <2>1
  <2> QED BY <2>1, <2>2 DEF Promise!PInit
<1> QED BY <1>1, StepMaps, Invariance, PTL
        DEF Spec, ImplementsRepayment, Promise!PSpec
=============================================================================
