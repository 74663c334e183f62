---------------------------- MODULE IntakeProofs ----------------------------
(***************************************************************************)
(* Intake, for every set of invoices, requests and workers: the typing of  *)
(* the state, the screening of what is scored, one scoring job, the        *)
(* agreement of score, status and price requests, and the refinement of    *)
(* InvoiceLifecycle.                                                       *)
(***************************************************************************)
EXTENDS Intake, TLAPS

\* A row has a face value.
ValueShape == \A i \in Invoices : status[i] # "none" => value[i] \in Values

\* What the buyer sees, asks for and did belongs to a submitted invoice.
StatusShape ==
  /\ \A i \in Invoices :
       /\ i \in confirmed <=>
            status[i] \in {"buyer_confirmed", "scored", "rejected"}
       /\ token[i] # "none" => status[i] \notin {"none", "draft"}
  /\ \A k \in calls :
       k.op \in {"resend", "dispute"} => status[k.inv] \notin {"none", "draft"}
  /\ \A c \in Confirms :
       confirm[c] = "validated" => status[Target[c]] \notin {"none", "draft"}

\* An invoice with a URA reference was screened with the value it has; only
\* such an invoice is confirmed.
ScreenShape ==
  /\ \A i \in efris :
       /\ status[i] \notin {"none", "draft"}
       /\ WithinLimit(value[i])
       /\ value[i] > AmlThreshold => i \in flagged
  /\ confirmed \subseteq efris
  /\ \A c \in Confirms : confirm[c] = "validated" => Target[c] \in efris
  /\ \A k \in calls : k.op = "submit" => WithinLimit(k.value)

\* A request that has committed and will enqueue, or has enqueued.
Committed(c) == confirm[c] = "queue" \/ job[c].state # "none"

\* One request commits for an invoice.
CommitShape ==
  /\ \A c \in Confirms : Committed(c) => Target[c] \in confirmed
  /\ \A c, d \in Confirms :
       (Committed(c) /\ Committed(d) /\ Target[c] = Target[d]) => c = d

\* A job that runs or will run has attempts left, an owned job is running, and
\* a request enqueues its job last.
JobShape ==
  \A c \in Confirms :
    /\ job[c].state \notin {"done", "failed"} => job[c].attempts < MaxAttempts
    /\ job[c].owner # NoWorker => job[c].state = "active"
    /\ confirm[c] # "done" => job[c].state = "none"

\* A worker works on a job that was enqueued.
ScorerShape ==
  \A w \in Workers : scorer[w].pc # "idle" =>
    scorer[w].job \in Confirms /\ job[scorer[w].job].state # "none"

\* One worker at most is about to ask pricing, for an invoice with a score
\* that pricing was not asked for.
OfferShape ==
  /\ \A w \in Workers : scorer[w].pc = "queue" =>
       /\ score[Target[scorer[w].job]] # "none"
       /\ priceJobs[Target[scorer[w].job]] = 0
  /\ \A w, x \in Workers :
       (/\ scorer[w].pc = "queue"
        /\ scorer[x].pc = "queue"
        /\ Target[scorer[w].job] = Target[scorer[x].job]) => w = x

Inv ==
  /\ TypeOK
  /\ ValueShape
  /\ StatusShape
  /\ ScreenShape
  /\ CommitShape
  /\ JobShape
  /\ ScorerShape
  /\ ScoreDecides
  /\ OfferShape

-----------------------------------------------------------------------------
\* The fields of a request.
LEMMA CallFields ==
  \A k \in Call : /\ k.inv \in Invoices
                  /\ k.op \in {"submit", "promote", "resend", "dispute"}
                  /\ k.op \in {"submit", "promote"} => k.value \in Values
  BY DEF Call

\* A request with the fields its operation asks for is a Call.
LEMMA CallMade ==
  ASSUME NEW i \in Invoices
  PROVE  /\ \A v \in Values, o \in {"submit", "promote"} :
              [op |-> o, inv |-> i, value |-> v] \in Call
         /\ [op |-> "resend", inv |-> i] \in Call
         /\ [op |-> "dispute", inv |-> i] \in Call
  BY DEF Call

\* The initial state satisfies the invariant.
LEMMA InitInv == Init => Inv
<1> SUFFICES ASSUME Init PROVE Inv
  OBVIOUS
<1>1. TypeOK
  BY ConstantsAssumption
     DEF Init, TypeOK, Status, Job, Scorer, Idle, Recommendation
<1>2. ValueShape /\ StatusShape /\ ScreenShape
  BY ConstantsAssumption DEF Init, ValueShape, StatusShape, ScreenShape
<1>3. CommitShape /\ JobShape /\ ScorerShape /\ ScoreDecides /\ OfferShape
  BY ConstantsAssumption
     DEF Init, CommitShape, Committed, JobShape, ScorerShape, ScoreDecides,
         OfferShape, Idle
<1> QED BY <1>1, <1>2, <1>3 DEF Inv

-----------------------------------------------------------------------------
(* Frames: what a step on one side leaves of the other.                    *)

\* Steps of suppliers and of buyers before they confirm keep the scoring
\* side.
LEMMA ScoringFrame ==
  ASSUME Inv,
         UNCHANGED <<confirmed, scoreVars>>,
         \A c \in Confirms :
           /\ confirm'[c] = "queue" => confirm[c] = "queue"
           /\ confirm'[c] # "done" => confirm[c] # "done",
         \A i \in Invoices :
           /\ status'[i] = "scored" <=> status[i] = "scored"
           /\ status'[i] = "rejected" <=> status[i] = "rejected"
  PROVE  (CommitShape /\ JobShape /\ ScorerShape /\ ScoreDecides /\ OfferShape)'
<1> USE DEF Inv, scoreVars
<1>1. CommitShape'
  BY DEF CommitShape, Committed
<1>2. JobShape'
  BY DEF JobShape
<1>3. ScorerShape' /\ ScoreDecides' /\ OfferShape'
  BY DEF ScorerShape, ScoreDecides, OfferShape
<1> QED BY <1>1, <1>2, <1>3

\* Steps of workers that write no invoice keep the other side.
LEMMA IntakeFrame ==
  ASSUME Inv, UNCHANGED <<rowVars, buyerVars, calls>>
  PROVE  (ValueShape /\ StatusShape /\ ScreenShape)'
  BY DEF Inv, rowVars, buyerVars, ValueShape, StatusShape, ScreenShape

\* Jobs change state, but never go back to "none".
LEMMA JobFrame ==
  ASSUME Inv, UNCHANGED buyerVars,
         \A c \in Confirms : job'[c].state = "none" <=> job[c].state = "none"
  PROVE  CommitShape'
  BY DEF Inv, buyerVars, CommitShape, Committed

\* A new request.
LEMMA NewCall ==
  ASSUME Inv, NEW k \in Call, calls' = calls \cup {k},
         k.op \in {"resend", "dispute"} =>
           status[k.inv] \notin {"none", "draft"},
         k.op = "submit" => WithinLimit(k.value),
         UNCHANGED <<rowVars, buyerVars, scoreVars>>
  PROVE  Inv'
<1> USE DEF Inv, rowVars, buyerVars
<1>1. TypeOK'
  BY DEF TypeOK, scoreVars
<1>2. (ValueShape /\ StatusShape /\ ScreenShape)'
  BY DEF ValueShape, StatusShape, ScreenShape
<1>3. (CommitShape /\ JobShape /\ ScorerShape /\ ScoreDecides /\ OfferShape)'
  BY ScoringFrame
<1> QED BY <1>1, <1>2, <1>3

-----------------------------------------------------------------------------
(* The supplier's steps.                                                   *)

\* saveDraft preserves the invariant.
LEMMA SaveDraftStep ==
  ASSUME Inv, NEW i \in Invoices, NEW v \in Values, SaveDraft(i, v)
  PROVE  Inv'
<1> USE DEF Inv, SaveDraft, buyerVars, scoreVars
<1>1. TypeOK'
  BY DEF TypeOK, Status
<1>2. ValueShape'
  BY DEF TypeOK, ValueShape
<1>3. ScreenShape'
  <2>1. i \notin efris
    BY DEF ScreenShape, Fresh
  <2> QED BY <2>1 DEF TypeOK, ScreenShape
<1>4. StatusShape'
  <2>1. \A c \in Confirms : Target[c] \in Invoices
    BY ConstantsAssumption
  <2> QED BY <2>1, CallFields DEF TypeOK, StatusShape, Fresh
<1>5. (CommitShape /\ JobShape /\ ScorerShape /\ ScoreDecides /\ OfferShape)'
  BY ScoringFrame DEF TypeOK, Fresh
<1> QED BY <1>1, <1>2, <1>3, <1>4, <1>5

\* updateDraft preserves the invariant.
LEMMA UpdateDraftStep ==
  ASSUME Inv, NEW i \in Invoices, NEW v \in Values, UpdateDraft(i, v)
  PROVE  Inv'
<1> USE DEF Inv, UpdateDraft, buyerVars, scoreVars
<1>1. TypeOK'
  BY DEF TypeOK
<1>2. ValueShape'
  BY DEF TypeOK, ValueShape
<1>3. StatusShape'
  BY DEF StatusShape
<1>4. ScreenShape'
  <2>1. i \notin efris
    BY DEF ScreenShape
  <2> QED BY <2>1 DEF TypeOK, ScreenShape
<1>5. (CommitShape /\ JobShape /\ ScorerShape /\ ScoreDecides /\ OfferShape)'
  BY ScoringFrame
<1> QED BY <1>1, <1>2, <1>3, <1>4, <1>5

\* submitDraft and submitInvoice, up to their transactions.
LEMMA SubmitStep ==
  ASSUME Inv, NEW i \in Invoices,
         SubmitDraft(i) \/ \E v \in Values : SubmitInvoice(i, v)
  PROVE  Inv'
<1>1. CASE SubmitDraft(i)
  <2> DEFINE k == [op |-> "promote", inv |-> i, value |-> value[i]]
  <2>1. k \in Call
    BY <1>1, CallMade DEF SubmitDraft, Inv, ValueShape
  <2>2. k.op = "promote"
    OBVIOUS
  <2>3. calls' = calls \cup {k} /\ UNCHANGED <<rowVars, buyerVars, scoreVars>>
    BY <1>1 DEF SubmitDraft
  <2> HIDE DEF k
  <2> QED BY <2>1, <2>2, <2>3, NewCall
<1>2. ASSUME NEW v \in Values, SubmitInvoice(i, v) PROVE Inv'
  <2> DEFINE k == [op |-> "submit", inv |-> i, value |-> v]
  <2>1. k \in Call /\ k.op = "submit"
    BY CallMade
  <2>2. /\ calls' = calls \cup {k} /\ UNCHANGED <<rowVars, buyerVars, scoreVars>>
        /\ WithinLimit(k.value)
    BY <1>2 DEF SubmitInvoice
  <2> HIDE DEF k
  <2> QED BY <2>1, <2>2, NewCall
<1> QED BY <1>1, <1>2

\* The transaction of submitDraft preserves the invariant.
LEMMA PromoteStep ==
  ASSUME Inv, NEW k \in calls, PromoteToSubmitted(k)
  PROVE  Inv'
<1> USE DEF Inv, PromoteToSubmitted, buyerVars, scoreVars
<1>0. k.inv \in Invoices
  BY CallFields DEF TypeOK
<1>1. TypeOK'
  BY <1>0 DEF TypeOK, Status, AmlFlag
<1>2. ValueShape' /\ ScreenShape'
  BY <1>0 DEF TypeOK, ValueShape, ScreenShape, AmlFlag
<1>3. StatusShape'
  <2>1. \A c \in Confirms : Target[c] \in Invoices
    BY ConstantsAssumption
  <2>2. \A l \in calls : l.inv \in Invoices
    BY CallFields DEF TypeOK
  <2>3. \A j \in Invoices : status'[j] = status[j]
                              \/ (status[j] = "draft" /\ status'[j] = "submitted")
    BY <1>0 DEF TypeOK
  <2> QED BY <2>1, <2>2, <2>3 DEF StatusShape
<1>4. (CommitShape /\ JobShape /\ ScorerShape /\ ScoreDecides /\ OfferShape)'
  BY <1>0, ScoringFrame DEF TypeOK
<1> QED BY <1>1, <1>2, <1>3, <1>4

\* So does the INSERT of submitInvoice.
LEMMA CreateInvoiceStep ==
  ASSUME Inv, NEW k \in calls, CreateInvoice(k)
  PROVE  Inv'
<1> USE DEF Inv, CreateInvoice, buyerVars, scoreVars
<1>0. k.inv \in Invoices /\ k.value \in Values
  BY CallFields DEF TypeOK
<1>1. TypeOK'
  BY <1>0 DEF TypeOK, Status, AmlFlag
<1>2. ValueShape'
  BY <1>0 DEF TypeOK, ValueShape
<1>3. ScreenShape'
  <2>1. k.inv \notin efris /\ WithinLimit(k.value)
    BY DEF ScreenShape
  <2> QED BY <1>0, <2>1 DEF TypeOK, ScreenShape, AmlFlag
<1>4. StatusShape'
  <2>1. \A c \in Confirms : Target[c] \in Invoices
    BY ConstantsAssumption
  <2>2. \A l \in calls : l.inv \in Invoices
    BY CallFields DEF TypeOK
  <2>3. \A j \in Invoices : status'[j] = status[j]
                              \/ (status[j] = "none" /\ status'[j] = "submitted")
    BY <1>0 DEF TypeOK
  <2> QED BY <2>1, <2>2, <2>3 DEF StatusShape
<1>5. (CommitShape /\ JobShape /\ ScorerShape /\ ScoreDecides /\ OfferShape)'
  BY <1>0, ScoringFrame DEF TypeOK
<1> QED BY <1>1, <1>2, <1>3, <1>4, <1>5

-----------------------------------------------------------------------------
(* The buyer's steps.                                                      *)

\* resendConfirmation and raiseDispute, up to their transactions.
LEMMA AskStep ==
  ASSUME Inv, NEW i \in Invoices, ResendConfirmation(i) \/ RaiseDispute(i)
  PROVE  Inv'
<1>1. CASE ResendConfirmation(i)
  <2> DEFINE k == [op |-> "resend", inv |-> i]
  <2>1. k \in Call /\ k.inv = i /\ k.op # "submit"
    BY CallMade
  <2>2. /\ calls' = calls \cup {k}
        /\ status[i] = "submitted"
        /\ UNCHANGED <<rowVars, buyerVars, scoreVars>>
    BY <1>1 DEF ResendConfirmation
  <2> HIDE DEF k
  <2> QED BY <2>1, <2>2, NewCall
<1>2. CASE RaiseDispute(i)
  <2> DEFINE k == [op |-> "dispute", inv |-> i]
  <2>1. k \in Call /\ k.inv = i /\ k.op # "submit"
    BY CallMade
  <2>2. /\ calls' = calls \cup {k}
        /\ status[i] = "submitted"
        /\ UNCHANGED <<rowVars, buyerVars, scoreVars>>
    BY <1>2 DEF RaiseDispute
  <2> HIDE DEF k
  <2> QED BY <2>1, <2>2, NewCall
<1> QED BY <1>1, <1>2

\* Their transactions, a rollback and the expiry of a link.
LEMMA LinkStep ==
  ASSUME Inv,
         \/ \E k \in calls : \/ GenerateConfirmationToken(k)
                             \/ CreateDispute(k)
                             \/ RollbackCall(k)
         \/ \E i \in Invoices : ExpireToken(i)
  PROVE  Inv'
<1> USE DEF Inv, rowVars
<1>1. /\ UNCHANGED <<status, value, flagged, efris, confirmed, confirm,
                     scoreVars>>
      /\ calls' \in SUBSET calls
      /\ disputed' \in SUBSET Invoices
      /\ token' \in [Invoices -> {"none", "live", "expired"}]
      /\ \A i \in Invoices : token'[i] # "none" =>
           token[i] # "none" \/ status[i] \notin {"none", "draft"}
  <2>1. ASSUME NEW k \in calls, GenerateConfirmationToken(k) PROVE <1>1!:
    <3>1. k.inv \in Invoices /\ status[k.inv] \notin {"none", "draft"}
      BY <2>1, CallFields DEF TypeOK, GenerateConfirmationToken, StatusShape
    <3> QED BY <2>1, <3>1 DEF TypeOK, GenerateConfirmationToken
  <2>2. ASSUME NEW k \in calls, CreateDispute(k) PROVE <1>1!:
    BY <2>2, CallFields DEF TypeOK, CreateDispute
  <2>3. ASSUME NEW k \in calls, RollbackCall(k) PROVE <1>1!:
    BY <2>3 DEF TypeOK, RollbackCall, buyerVars
  <2>4. ASSUME NEW i \in Invoices, ExpireToken(i) PROVE <1>1!:
    BY <2>4 DEF TypeOK, ExpireToken
  <2> QED BY <2>1, <2>2, <2>3, <2>4
<1>2. TypeOK'
  BY <1>1 DEF TypeOK, scoreVars
<1>3. ValueShape' /\ ScreenShape'
  BY <1>1 DEF ValueShape, ScreenShape
<1>4. StatusShape'
  BY <1>1 DEF StatusShape
<1>5. (CommitShape /\ JobShape /\ ScorerShape /\ ScoreDecides /\ OfferShape)'
  BY <1>1, ScoringFrame
<1> QED BY <1>2, <1>3, <1>4, <1>5

\* validateToken, and the requests that end without a confirmation.
LEMMA ClickStep ==
  ASSUME Inv, NEW c \in Confirms,
         ValidateToken(c) \/ AlreadyConfirmed(c) \/ DropConfirmation(c)
  PROVE  Inv'
<1> USE DEF Inv, rowVars, ValidateToken, AlreadyConfirmed, DropConfirmation
<1>1. /\ UNCHANGED <<status, value, flagged, efris, token, confirmed, disputed,
                     calls, scoreVars>>
      /\ confirm' \in [Confirms -> {"idle", "validated", "queue", "done"}]
      /\ \A d \in Confirms :
           /\ confirm'[d] = "queue" => confirm[d] = "queue"
           /\ confirm'[d] # "done" => confirm[d] # "done"
           /\ confirm'[d] = "validated" =>
                \/ confirm[d] = "validated"
                \/ token[Target[d]] = "live" /\ Target[d] \in efris
  BY DEF TypeOK
<1>2. TypeOK'
  BY <1>1 DEF TypeOK, scoreVars
<1>3. ValueShape' /\ ScreenShape'
  BY <1>1 DEF ValueShape, ScreenShape
<1>4. StatusShape'
  BY <1>1, ConstantsAssumption DEF StatusShape
<1>5. (CommitShape /\ JobShape /\ ScorerShape /\ ScoreDecides /\ OfferShape)'
  BY <1>1, ScoringFrame
<1> QED BY <1>2, <1>3, <1>4, <1>5

\* A confirmation that commits found a submitted invoice without a score.
LEMMA ConfirmsSubmitted ==
  ASSUME Inv, NEW c \in Confirms, RunConfirmationTx(c)
  PROVE  Target[c] \in Invoices /\ status[Target[c]] = "submitted"
<1>1. Target[c] \in Invoices
  BY ConstantsAssumption
<1>2. status[Target[c]] \in Status
  BY <1>1 DEF Inv, TypeOK
<1> QED BY <1>1, <1>2 DEF Inv, Status, StatusShape, RunConfirmationTx

\* runConfirmationTx preserves the invariant: no other request has committed
\* for this invoice, or it would be confirmed.
LEMMA RunConfirmationTxStep ==
  ASSUME Inv, NEW c \in Confirms, RunConfirmationTx(c)
  PROVE  Inv'
<1> USE DEF Inv, RunConfirmationTx, scoreVars
<1>0. Target[c] \in Invoices /\ status[Target[c]] = "submitted"
  BY ConfirmsSubmitted
<1>1. TypeOK'
  BY <1>0 DEF TypeOK, Status
<1>2. ValueShape' /\ ScreenShape'
  BY <1>0 DEF TypeOK, ValueShape, ScreenShape
<1>3. StatusShape'
  <2>1. \A d \in Confirms : Target[d] \in Invoices
    BY ConstantsAssumption
  <2>2. \A l \in calls : l.inv \in Invoices
    BY CallFields DEF TypeOK
  <2> QED BY <1>0, <2>1, <2>2 DEF TypeOK, StatusShape
<1>4. CommitShape'
  <2>1. \A d \in Confirms : Committed(d)' => d = c \/ Committed(d)
    BY DEF TypeOK, Committed
  <2>2. \A d \in Confirms : Committed(d) => Target[d] # Target[c]
    BY DEF CommitShape
  <2> QED BY <2>1, <2>2 DEF CommitShape
<1>5. JobShape' /\ ScorerShape' /\ OfferShape'
  BY DEF TypeOK, JobShape, ScorerShape, OfferShape
<1>6. ScoreDecides'
  BY <1>0 DEF TypeOK, ScoreDecides
<1> QED BY <1>1, <1>2, <1>3, <1>4, <1>5, <1>6

\* queueRiskScoring preserves the invariant.
LEMMA QueueRiskScoringStep ==
  ASSUME Inv, NEW c \in Confirms, QueueRiskScoring(c)
  PROVE  Inv'
<1> USE DEF Inv, QueueRiskScoring, rowVars
<1>1. TypeOK'
  BY DEF TypeOK, Job
<1>2. ValueShape' /\ ScreenShape'
  BY DEF TypeOK, ValueShape, ScreenShape
<1>3. StatusShape'
  BY DEF TypeOK, StatusShape
<1>4. \A d \in Confirms :
        job[d].state # "none" => job'[d].state # "none"
  BY DEF TypeOK, Job
<1>5. CommitShape'
  <2>1. \A d \in Confirms : Committed(d)' => Committed(d)
    BY DEF TypeOK, Committed
  <2> QED BY <2>1 DEF CommitShape
<1>6. JobShape' /\ ScorerShape'
  BY <1>4 DEF TypeOK, Job, JobShape, ScorerShape
<1>7. ScoreDecides' /\ OfferShape'
  BY DEF ScoreDecides, OfferShape
<1> QED BY <1>1, <1>2, <1>3, <1>5, <1>6, <1>7

-----------------------------------------------------------------------------
(* The worker's steps.                                                     *)

\* A failed attempt is a job again while attempts are left to count.
LEMMA FailAttemptType ==
  ASSUME NEW j \in Job, j.attempts < MaxAttempts
  PROVE  /\ FailAttempt(j) \in Job
         /\ FailAttempt(j).owner = NoWorker
         /\ FailAttempt(j).state \in {"waiting", "failed"}
         /\ FailAttempt(j).state = "waiting" =>
              FailAttempt(j).attempts < MaxAttempts
<1> DEFINE k == FailAttempt(j)
<1>1. j.attempts \in 0..MaxAttempts
  BY DEF Job
<1>2. j.attempts + 1 \in 0..MaxAttempts
  BY <1>1, ConstantsAssumption
<1>3. CASE j.attempts + 1 < MaxAttempts
  <2>1. k = [j EXCEPT !.attempts = j.attempts + 1, !.state = "waiting",
                      !.owner = NoWorker]
    BY <1>3 DEF FailAttempt
  <2> QED BY <1>2, <1>3, <2>1 DEF Job
<1>4. CASE ~ (j.attempts + 1 < MaxAttempts)
  <2>1. k = [j EXCEPT !.attempts = j.attempts + 1, !.state = "failed",
                      !.owner = NoWorker]
    BY <1>4 DEF FailAttempt
  <2> QED BY <1>2, <1>4, <2>1 DEF Job
<1> QED BY <1>3, <1>4

\* What a worker's job is, in every state but idle.
LEMMA ScorerJob ==
  ASSUME Inv, NEW w \in Workers, scorer[w].pc # "idle"
  PROVE  /\ scorer[w].job \in Confirms
         /\ Target[scorer[w].job] \in Invoices
         /\ Target[scorer[w].job] \in confirmed
<1>1. scorer[w].job \in Confirms /\ Committed(scorer[w].job)
  BY DEF Inv, ScorerShape, Committed
<1> QED BY <1>1, ConstantsAssumption DEF Inv, CommitShape

\* A job whose state changes, while the workers stay or become idle.
LEMMA JobStep ==
  ASSUME Inv, NEW c \in Confirms, NEW j \in Job,
         job' = [job EXCEPT ![c] = j] \/ job' = job,
         job[c].state # "none",
         j.state # "none",
         j.state \in {"waiting", "active"} => j.attempts < MaxAttempts,
         j.owner # NoWorker => j.state = "active",
         scorer' \in [Workers -> Scorer],
         \A w \in Workers : scorer'[w] \in {scorer[w], Idle,
                                           [pc |-> "loaded", job |-> c]},
         UNCHANGED <<rowVars, buyerVars, calls, score, priceJobs>>
  PROVE  Inv'
<1> USE DEF Inv
<1>1. \A d \in Confirms : job'[d] = job[d] \/ (d = c /\ job'[d] = j)
  BY DEF TypeOK
<1>2. TypeOK'
  <2>1. job' \in [Confirms -> Job]
    BY DEF TypeOK
  <2> QED BY <2>1 DEF TypeOK, rowVars, buyerVars
<1>3. (ValueShape /\ StatusShape /\ ScreenShape)'
  BY IntakeFrame
<1>4. \A d \in Confirms : job'[d].state = "none" <=> job[d].state = "none"
  BY <1>1
<1>5. CommitShape'
  BY <1>4, JobFrame
<1>6. JobShape'
  <2> SUFFICES ASSUME NEW d \in Confirms
               PROVE  /\ job'[d].state \notin {"done", "failed"} =>
                           job'[d].attempts < MaxAttempts
                      /\ job'[d].owner # NoWorker => job'[d].state = "active"
                      /\ confirm'[d] # "done" => job'[d].state = "none"
    BY DEF JobShape
  <2>1. CASE job'[d] = job[d]
    BY <2>1 DEF JobShape, buyerVars
  <2>2. CASE d = c /\ job'[d] = j
    BY <2>2 DEF JobShape, buyerVars, Job
  <2> QED BY <1>1, <2>1, <2>2
<1>7. ScorerShape'
  BY <1>4 DEF ScorerShape, Idle
<1>8. ScoreDecides' /\ OfferShape'
  BY DEF ScoreDecides, OfferShape, rowVars, buyerVars, Idle
<1> QED BY <1>2, <1>3, <1>5, <1>6, <1>7, <1>8

\* A worker takes up a job.
LEMMA ScoreInvoiceStep ==
  ASSUME Inv, NEW w \in Workers, NEW c \in Confirms, ScoreInvoice(w, c)
  PROVE  Inv'
<1> USE DEF Inv, ScoreInvoice
<1> DEFINE j == [job[c] EXCEPT !.state = "active", !.owner = w]
<1>1. job[c] \in Job
  BY DEF TypeOK
<1>2. j \in Job
  BY <1>1 DEF Job
<1>3. j.state = "active" /\ j.attempts < MaxAttempts
  BY <1>1 DEF Job, JobShape
<1>4. job' = [job EXCEPT ![c] = j]
  BY DEF TypeOK
<1>5. scorer' \in [Workers -> Scorer]
  BY DEF TypeOK, Scorer
<1>6. \A x \in Workers : scorer'[x] \in {scorer[x], Idle,
                                         [pc |-> "loaded", job |-> c]}
  BY DEF TypeOK
<1> HIDE DEF j, Inv
<1> QED BY <1>2, <1>3, <1>4, <1>5, <1>6, JobStep

\* Or refuses it.
LEMMA RefuseScoringStep ==
  ASSUME Inv, NEW w \in Workers, NEW c \in Confirms, RefuseScoring(w, c)
  PROVE  Inv'
<1> USE DEF RefuseScoring
<1> DEFINE j == FailAttempt(job[c])
<1>1. job[c] \in Job /\ job[c].attempts < MaxAttempts
  BY DEF Inv, TypeOK, JobShape
<1>2. /\ j \in Job /\ j.owner = NoWorker /\ j.state \in {"waiting", "failed"}
      /\ j.state = "waiting" => j.attempts < MaxAttempts
  BY <1>1, FailAttemptType
<1>3. job' = [job EXCEPT ![c] = j]
  OBVIOUS
<1>4. scorer' \in [Workers -> Scorer] /\ scorer' = scorer
  BY DEF Inv, TypeOK
<1> HIDE DEF j
<1> QED BY <1>2, <1>3, <1>4, JobStep

\* A worker that throws or is done leaves its job, if it still owns it.
LEMMA ThrowStep ==
  ASSUME Inv, NEW w \in Workers, scorer[w].pc # "idle", Throw(w)
  PROVE  Inv'
<1> DEFINE c == scorer[w].job
           j == IF Owns(w, c) THEN FailAttempt(job[c]) ELSE job[c]
<1>1. c \in Confirms /\ job[c] \in Job /\ job[c].state # "none"
  BY ScorerJob DEF Inv, TypeOK, ScorerShape
<1>2. /\ scorer' \in [Workers -> Scorer]
      /\ \A x \in Workers : scorer'[x] \in {scorer[x], Idle}
  BY DEF Inv, TypeOK, Throw, Scorer, Idle
<1>3. UNCHANGED <<rowVars, buyerVars, calls, score, priceJobs>>
  BY DEF Throw
<1>4. CASE Owns(w, c)
  <2>1. job[c].attempts < MaxAttempts
    BY <1>1, <1>4, ConstantsAssumption DEF Inv, JobShape, Owns
  <2>2. /\ FailAttempt(job[c]) \in Job
        /\ FailAttempt(job[c]).owner = NoWorker
        /\ FailAttempt(job[c]).state \in {"waiting", "failed"}
        /\ FailAttempt(job[c]).state = "waiting" =>
             FailAttempt(job[c]).attempts < MaxAttempts
    BY <1>1, <2>1, FailAttemptType
  <2>3. job' = [job EXCEPT ![c] = FailAttempt(job[c])]
    BY <1>4 DEF Throw
  <2> HIDE DEF c
  <2> QED BY <1>1, <1>2, <1>3, <2>2, <2>3, JobStep
<1>5. CASE ~ Owns(w, c)
  <2>1. job' = job
    BY <1>5 DEF Throw
  <2>2. /\ job[c].state \in {"waiting", "active"} =>
             job[c].attempts < MaxAttempts
        /\ job[c].owner # NoWorker => job[c].state = "active"
    BY <1>1 DEF Inv, JobShape
  <2> HIDE DEF c
  <2> QED BY <1>1, <1>2, <1>3, <2>1, <2>2, JobStep
<1> QED BY <1>4, <1>5

\* BullMQ completes the job.
LEMMA FinishJobStep ==
  ASSUME Inv, NEW w \in Workers, FinishJob(w)
  PROVE  Inv'
<1> DEFINE c == scorer[w].job
           j == [job[c] EXCEPT !.state = "done", !.owner = NoWorker]
<1>1. c \in Confirms /\ job[c] \in Job /\ job[c].state # "none"
  BY ScorerJob DEF Inv, TypeOK, ScorerShape, FinishJob
<1>2. /\ scorer' \in [Workers -> Scorer]
      /\ \A x \in Workers : scorer'[x] \in {scorer[x], Idle}
  BY DEF Inv, TypeOK, FinishJob, Scorer, Idle
<1>3. UNCHANGED <<rowVars, buyerVars, calls, score, priceJobs>>
  BY DEF FinishJob
<1>4. j \in Job /\ j.state = "done" /\ j.owner = NoWorker
  BY <1>1 DEF Job
<1>5. job' = [job EXCEPT ![c] = j] \/ job' = job
  <2>1. job \in [Confirms -> Job]
    BY DEF Inv, TypeOK
  <2> QED BY <1>1, <2>1 DEF FinishJob
<1> HIDE DEF c, j
<1> QED BY <1>1, <1>2, <1>3, <1>4, <1>5, JobStep

\* A server dies; the job's lock expires.
LEMMA CrashWorkerStep ==
  ASSUME Inv, NEW w \in Workers, CrashWorker(w)
  PROVE  Inv'
<1> DEFINE c == scorer[w].job
<1>1. c \in Confirms /\ job[c] \in Job /\ job[c].state # "none"
  BY ScorerJob DEF Inv, TypeOK, ScorerShape, CrashWorker
<1>2. /\ scorer' \in [Workers -> Scorer]
      /\ \A x \in Workers : scorer'[x] \in {scorer[x], Idle}
  BY DEF Inv, TypeOK, CrashWorker, Scorer, Idle
<1>3. UNCHANGED <<rowVars, buyerVars, calls, score, priceJobs>> /\ job' = job
  BY DEF CrashWorker
<1>4. /\ job[c].state \in {"waiting", "active"} =>
           job[c].attempts < MaxAttempts
      /\ job[c].owner # NoWorker => job[c].state = "active"
  BY <1>1 DEF Inv, JobShape
<1> HIDE DEF c
<1> QED BY <1>1, <1>2, <1>3, <1>4, JobStep

\* The stalled check moves a job.
LEMMA StallJobStep ==
  ASSUME Inv, NEW c \in Confirms, StallJob(c)
  PROVE  Inv'
<1> DEFINE j == [job[c] EXCEPT
       !.state = IF job[c].stalled THEN "failed" ELSE "waiting",
       !.stalled = TRUE,
       !.owner = NoWorker]
<1>1. job[c] \in Job /\ job[c].state = "active"
  BY DEF Inv, TypeOK, StallJob
<1>2. job[c].attempts < MaxAttempts
  BY <1>1 DEF Inv, JobShape
<1>3. /\ j \in Job /\ j.owner = NoWorker /\ j.attempts = job[c].attempts
      /\ j.state \in {"waiting", "failed"}
  BY <1>1 DEF Job
<1>4. job' = [job EXCEPT ![c] = j]
  BY DEF StallJob
<1>5. scorer' = scorer /\ scorer' \in [Workers -> Scorer]
  BY DEF Inv, TypeOK, StallJob
<1>6. UNCHANGED <<rowVars, buyerVars, calls, score, priceJobs>>
  BY DEF StallJob
<1> HIDE DEF j
<1> QED BY <1>1, <1>2, <1>3, <1>4, <1>5, <1>6, JobStep

\* persistScore preserves the invariant: the invoice was confirmed and had no
\* score, so nobody is about to ask pricing for it.
LEMMA PersistScoreStep ==
  ASSUME Inv, NEW w \in Workers, NEW rec \in Recommendation,
         PersistScore(w, rec)
  PROVE  Inv'
<1> USE DEF PersistScore
<1> DEFINE i == Target[scorer[w].job]
<1>1. scorer[w].job \in Confirms /\ i \in Invoices /\ i \in confirmed
  BY ScorerJob
<1>2. score[i] = "none" /\ status[i] = "buyer_confirmed" /\ priceJobs[i] = 0
  <2>1. score[i] = "none"
    BY DEF ScoreFree
  <2>2. status[i] \notin {"scored", "rejected"}
    BY <1>1, <2>1 DEF Inv, ScoreDecides
  <2>3. ~ (priceJobs[i] > 0) /\ priceJobs[i] \in Nat
    BY <1>1, <2>1 DEF Inv, TypeOK, ScoreDecides
  <2> QED BY <1>1, <2>1, <2>2, <2>3 DEF Inv, StatusShape
<1>3. /\ score' = [score EXCEPT ![i] = rec]
      /\ status' = [status EXCEPT ![i] = IF rec = "reject" THEN "rejected"
                                                          ELSE "scored"]
      /\ scorer' = [scorer EXCEPT ![w].pc = "queue"]
      /\ UNCHANGED <<value, flagged, efris, buyerVars, calls, job, priceJobs>>
  BY <1>2
<1> HIDE DEF i, PersistScore
<1> USE DEF buyerVars
<1>4. TypeOK'
  <2>1. scorer' \in [Workers -> Scorer]
    BY <1>3 DEF Inv, TypeOK, Scorer
  <2>2. /\ status' \in [Invoices -> Status]
        /\ score' \in [Invoices -> Recommendation \cup {"none"}]
    BY <1>1, <1>3 DEF Inv, TypeOK, Status
  <2> QED BY <1>3, <2>1, <2>2 DEF Inv, TypeOK
<1>5. \A k \in Invoices : status'[k] = status[k]
        \/ (k = i /\ status'[k] \in {"scored", "rejected"})
  BY <1>1, <1>3 DEF Inv, TypeOK
<1>6. ValueShape' /\ ScreenShape'
  BY <1>2, <1>3, <1>5 DEF Inv, TypeOK, ValueShape, ScreenShape
<1>7. StatusShape'
  <2>1. \A d \in Confirms : Target[d] \in Invoices
    BY ConstantsAssumption
  <2>2. \A l \in calls : l.inv \in Invoices
    BY CallFields DEF Inv, TypeOK
  <2> QED BY <1>1, <1>3, <1>5, <2>1, <2>2 DEF Inv, StatusShape
<1>8. CommitShape' /\ JobShape'
  BY <1>3 DEF Inv, CommitShape, Committed, JobShape
<1>9. \A x \in Workers : /\ scorer'[x].job = scorer[x].job
                         /\ x # w => scorer'[x] = scorer[x]
  BY <1>3 DEF Inv, TypeOK, Scorer
<1>10. ScorerShape'
  BY <1>1, <1>3, <1>9 DEF Inv, ScorerShape, PersistScore
<1>11. ScoreDecides'
  BY <1>1, <1>2, <1>3 DEF Inv, TypeOK, ScoreDecides, Recommendation
<1>12. OfferShape'
  <2>1. \A x \in Workers : (x # w /\ scorer'[x].pc = "queue") =>
          Target[scorer[x].job] # i
    BY <1>2, <1>9 DEF Inv, OfferShape
  <2>2. \A x \in Workers : scorer'[x].pc = "queue" =>
          score'[Target[scorer[x].job]] # "none"
    BY <1>1, <1>3, <1>9 DEF Inv, TypeOK, OfferShape, Recommendation, i
  <2>3. \A x \in Workers : scorer'[x].pc = "queue" =>
          priceJobs[Target[scorer[x].job]] = 0
    BY <1>2, <1>9 DEF Inv, OfferShape, i
  <2> QED BY <1>3, <1>9, <2>1, <2>2, <2>3 DEF Inv, OfferShape, i
<1> QED BY <1>4, <1>6, <1>7, <1>8, <1>10, <1>11, <1>12 DEF Inv

\* So does queuePricing: the score says "advance", and this is the worker
\* that wrote it.
LEMMA QueuePricingStep ==
  ASSUME Inv, NEW w \in Workers, QueuePricing(w)
  PROVE  Inv'
<1> DEFINE i == Target[scorer[w].job]
<1>1. scorer[w].job \in Confirms /\ i \in Invoices /\ i \in confirmed
  BY ScorerJob DEF QueuePricing
<1>2. /\ priceJobs' = IF score[i] = "reject" THEN priceJobs
                       ELSE [priceJobs EXCEPT ![i] = @ + 1]
      /\ scorer[w].pc = "queue"
      /\ scorer' = [scorer EXCEPT ![w].pc = "finish"]
      /\ UNCHANGED <<rowVars, buyerVars, calls, job, score>>
  BY DEF QueuePricing
<1>3. score[i] \in Recommendation
  BY <1>1, <1>2 DEF Inv, TypeOK, OfferShape
<1>4. \A x \in Workers : x # w /\ scorer[x].pc = "queue" =>
        Target[scorer[x].job] # i
  BY <1>2 DEF Inv, OfferShape
<1> HIDE DEF i
<1>5. \A x \in Workers : /\ scorer'[x].job = scorer[x].job
                         /\ x # w => scorer'[x] = scorer[x]
                         /\ x = w => scorer'[x].pc = "finish"
  BY <1>2 DEF Inv, TypeOK, Scorer
<1>6. TypeOK'
  <2>1. scorer' \in [Workers -> Scorer]
    BY <1>2 DEF Inv, TypeOK, Scorer
  <2>2. priceJobs' \in [Invoices -> Nat]
    BY <1>1, <1>2 DEF Inv, TypeOK
  <2> QED BY <1>2, <2>1, <2>2 DEF Inv, TypeOK, rowVars, buyerVars
<1>7. (ValueShape /\ StatusShape /\ ScreenShape)'
  BY <1>2, IntakeFrame
<1>8. CommitShape' /\ JobShape'
  BY <1>2 DEF Inv, CommitShape, Committed, JobShape, buyerVars
<1>9. ScorerShape'
  BY <1>2, <1>5 DEF Inv, ScorerShape
<1>10. \A k \in Invoices : priceJobs'[k] = priceJobs[k]
         \/ (k = i /\ score[k] = "advance")
  BY <1>1, <1>2, <1>3 DEF Inv, TypeOK, Recommendation
<1>11. ScoreDecides'
  BY <1>2, <1>10 DEF Inv, ScoreDecides, rowVars, buyerVars
<1>12. OfferShape'
  <2>1. \A x \in Workers : scorer'[x].pc = "queue" =>
          /\ x # w
          /\ scorer[x].pc = "queue"
          /\ Target[scorer[x].job] \in Invoices
    BY <1>5, ScorerJob
  <2> QED BY <1>2, <1>4, <1>5, <1>10, <2>1 DEF Inv, OfferShape
<1> QED BY <1>6, <1>7, <1>8, <1>9, <1>11, <1>12 DEF Inv

-----------------------------------------------------------------------------
\* Every step preserves the invariant.
LEMMA NextInv == Inv /\ [Next]_vars => Inv'
<1> SUFFICES ASSUME Inv, [Next]_vars PROVE Inv'
  OBVIOUS
<1>1. ASSUME NEW i \in Invoices,
             SupplierStep(i) \/ ResendConfirmation(i) \/ ExpireToken(i)
               \/ RaiseDispute(i)
      PROVE  Inv'
  BY <1>1, SaveDraftStep, UpdateDraftStep, SubmitStep, AskStep, LinkStep
     DEF SupplierStep
<1>2. ASSUME NEW k \in calls, CallStep(k) PROVE Inv'
  BY <1>2, PromoteStep, CreateInvoiceStep, LinkStep DEF CallStep
<1>3. ASSUME NEW c \in Confirms,
             ValidateToken(c) \/ ConfirmStep(c) \/ DropConfirmation(c)
               \/ StartStep(c) \/ StallJob(c)
      PROVE  Inv'
  BY <1>3, ClickStep, RunConfirmationTxStep, QueueRiskScoringStep,
     ScoreInvoiceStep, RefuseScoringStep, StallJobStep
     DEF ConfirmStep, StartStep
<1>4. ASSUME NEW w \in Workers,
             ScorerStep(w) \/ ThrowInScoring(w) \/ CrashWorker(w)
      PROVE  Inv'
  <2>1. CASE DuplicateScore(w) \/ ThrowInScoring(w)
    BY <2>1, ThrowStep DEF DuplicateScore, ThrowInScoring
  <2> QED BY <1>4, <2>1, PersistScoreStep, QueuePricingStep, FinishJobStep,
             CrashWorkerStep DEF ScorerStep
<1>5. CASE UNCHANGED vars
  <2>1. TypeOK'
    BY <1>5 DEF Inv, TypeOK, vars
  <2>2. (ValueShape /\ StatusShape /\ ScreenShape)'
    BY <1>5, IntakeFrame DEF vars, rowVars, buyerVars
  <2>3. (CommitShape /\ JobShape /\ ScorerShape /\ ScoreDecides /\ OfferShape)'
    BY <1>5, ScoringFrame DEF vars, scoreVars
  <2> QED BY <2>1, <2>2, <2>3 DEF Inv
<1> QED BY <1>1, <1>2, <1>3, <1>4, <1>5 DEF Next

\* The invariant of the intake path holds in every reachable state.
THEOREM Invariance == Spec => []Inv
<1> QED BY InitInv, NextInv, PTL DEF Spec

\* The state keeps its type: no job is attempted more often than the queue
\* allows.
THEOREM TypeCorrect == Spec => []TypeOK
<1>1. Inv => TypeOK
  BY DEF Inv
<1> QED BY <1>1, Invariance, PTL

\* What confirmInvoice hands to scoring was screened by submitInvoice with
\* the value it has, whatever happens to drafts meanwhile.
THEOREM Screening == Spec => []ScreenedBeforeScoring
<1>1. Inv => ScreenedBeforeScoring
  BY DEF Inv, ScreenShape, ScreenedBeforeScoring
<1> QED BY <1>1, Invariance, PTL

\* One score-invoice job is enqueued for an invoice, however many clicks on
\* its link race through confirmInvoice.
THEOREM ScoredOnce == Spec => []OneScoringJob
<1>1. Inv => OneScoringJob
  BY DEF Inv, CommitShape, Committed, OneScoringJob
<1> QED BY <1>1, Invariance, PTL

\* scoreInvoice keeps the score, the status and the hand-over to pricing in
\* agreement, however many servers run it and wherever they stop.
THEOREM ScoreDecisive == Spec => []ScoreDecides
<1>1. Inv => ScoreDecides
  BY DEF Inv
<1> QED BY <1>1, Invariance, PTL

-----------------------------------------------------------------------------
(* The refinement.                                                         *)

\* A step that writes neither an invoice's status nor its value and asks
\* nothing of pricing is a stutter.
LEMMA Stutters ==
  ASSUME UNCHANGED <<status, value, priceJobs>>
  PROVE  UNCHANGED Lifecycle!lvars
  BY DEF Lifecycle!lvars

\* The supplier's steps record or revise an invoice.
LEMMA SupplierMaps ==
  ASSUME Inv, NEW i \in Invoices, SupplierStep(i)
  PROVE  [Lifecycle!LNext]_(Lifecycle!lvars)
<1>1. CASE SubmitDraft(i) \/ \E v \in Values : SubmitInvoice(i, v)
  BY <1>1, Stutters DEF SubmitDraft, SubmitInvoice, rowVars, scoreVars
<1>2. ASSUME NEW v \in Values, SaveDraft(i, v) PROVE Lifecycle!LNext
  <2>1. Lifecycle!Record(i, "draft")
    BY <1>2 DEF SaveDraft, Fresh, scoreVars, Lifecycle!Record, Lifecycle!Move
  <2> QED BY <2>1 DEF Lifecycle!LNext
<1>3. ASSUME NEW v \in Values, UpdateDraft(i, v) PROVE Lifecycle!LNext
  <2>1. Lifecycle!Revise(i)
    BY <1>3 DEF UpdateDraft, scoreVars, Lifecycle!Revise
  <2> QED BY <2>1 DEF Lifecycle!LNext
<1> QED BY <1>1, <1>2, <1>3 DEF SupplierStep

\* The transactions of pending requests submit an invoice, or stutter.
LEMMA CallMaps ==
  ASSUME Inv, NEW k \in calls, CallStep(k)
  PROVE  [Lifecycle!LNext]_(Lifecycle!lvars)
<1>0. k \in Call /\ k.inv \in Invoices
  BY CallFields DEF Inv, TypeOK
<1>1. CASE PromoteToSubmitted(k)
  <2>1. CASE status[k.inv] = "draft"
    <3>1. Lifecycle!Progress(k.inv)
      BY <1>1, <2>1 DEF PromoteToSubmitted, scoreVars, Lifecycle!Progress,
                        Lifecycle!Move
    <3> QED BY <1>0, <3>1 DEF Lifecycle!LNext
  <2>2. CASE status[k.inv] # "draft"
    BY <1>1, <2>2, Stutters DEF PromoteToSubmitted, scoreVars
  <2> QED BY <2>1, <2>2
<1>2. CASE CreateInvoice(k)
  <2>1. k.value \in Values
    BY <1>0, <1>2, CallFields DEF CreateInvoice
  <2>2. Lifecycle!Record(k.inv, "submitted")
    BY <1>2, <2>1 DEF CreateInvoice, scoreVars, Lifecycle!Record,
                      Lifecycle!Move
  <2> QED BY <1>0, <2>2 DEF Lifecycle!LNext
<1>3. CASE GenerateConfirmationToken(k) \/ CreateDispute(k) \/ RollbackCall(k)
  BY <1>3, Stutters
     DEF GenerateConfirmationToken, CreateDispute, RollbackCall, rowVars,
         scoreVars
<1> QED BY <1>1, <1>2, <1>3 DEF CallStep

\* A confirmation that commits moves a submitted invoice on.
LEMMA ConfirmMaps ==
  ASSUME Inv, NEW c \in Confirms, RunConfirmationTx(c)
  PROVE  Lifecycle!LNext
<1>1. Target[c] \in Invoices /\ status[Target[c]] = "submitted"
  BY ConfirmsSubmitted
<1>2. Lifecycle!Progress(Target[c])
  BY <1>1 DEF RunConfirmationTx, scoreVars, Lifecycle!Progress, Lifecycle!Move
<1> QED BY <1>1, <1>2 DEF Lifecycle!LNext

\* persistScore accepts or declines a confirmed invoice.
LEMMA PersistMaps ==
  ASSUME Inv, NEW w \in Workers, NEW rec \in Recommendation,
         PersistScore(w, rec)
  PROVE  [Lifecycle!LNext]_(Lifecycle!lvars)
<1> DEFINE i == Target[scorer[w].job]
<1>1. i \in Invoices
  BY ScorerJob DEF PersistScore
<1>2. CASE status[i] = "buyer_confirmed"
  <2>1. Lifecycle!Progress(i)
    BY <1>2 DEF PersistScore, Lifecycle!Progress, Lifecycle!Move
  <2> QED BY <1>1, <2>1 DEF Lifecycle!LNext
<1>3. CASE status[i] # "buyer_confirmed"
  BY <1>3, Stutters DEF PersistScore
<1> QED BY <1>2, <1>3

\* queuePricing asks once, for an accepted invoice.
LEMMA QueuePricingMaps ==
  ASSUME Inv, NEW w \in Workers, QueuePricing(w)
  PROVE  [Lifecycle!LNext]_(Lifecycle!lvars)
<1> DEFINE i == Target[scorer[w].job]
<1>1. i \in Invoices
  BY ScorerJob DEF QueuePricing
<1>2. /\ priceJobs[i] = 0
      /\ score[i] \in Recommendation
      /\ score[i] = "advance" => status[i] = "scored"
  BY <1>1 DEF Inv, TypeOK, OfferShape, ScoreDecides, QueuePricing
<1>3. CASE score[i] = "reject"
  BY <1>3, Stutters DEF QueuePricing, rowVars
<1>4. CASE score[i] = "advance"
  <2>1. Lifecycle!Ask(i)
    BY <1>2, <1>4 DEF QueuePricing, rowVars, Lifecycle!Ask
  <2> QED BY <1>1, <2>1 DEF Lifecycle!LNext
<1> QED BY <1>2, <1>3, <1>4 DEF Recommendation

\* Every step of the intake path is a step of the life cycle, or a stutter.
LEMMA StepMaps ==
  Inv /\ [Next]_vars => [Lifecycle!LNext]_(Lifecycle!lvars)
<1> SUFFICES ASSUME Inv, [Next]_vars
             PROVE  [Lifecycle!LNext]_(Lifecycle!lvars)
  OBVIOUS
<1>1. ASSUME NEW i \in Invoices,
             ResendConfirmation(i) \/ ExpireToken(i) \/ RaiseDispute(i)
      PROVE  UNCHANGED Lifecycle!lvars
  BY <1>1, Stutters
     DEF ResendConfirmation, ExpireToken, RaiseDispute, rowVars, scoreVars
<1>2. ASSUME NEW c \in Confirms,
             ValidateToken(c) \/ AlreadyConfirmed(c) \/ QueueRiskScoring(c)
               \/ DropConfirmation(c) \/ StartStep(c) \/ StallJob(c)
      PROVE  UNCHANGED Lifecycle!lvars
  BY <1>2, Stutters
     DEF ValidateToken, AlreadyConfirmed, QueueRiskScoring, DropConfirmation,
         StartStep, ScoreInvoice, RefuseScoring, StallJob, rowVars, scoreVars
<1>3. ASSUME NEW w \in Workers,
             DuplicateScore(w) \/ FinishJob(w) \/ ThrowInScoring(w)
               \/ CrashWorker(w)
      PROVE  UNCHANGED Lifecycle!lvars
  BY <1>3, Stutters
     DEF DuplicateScore, FinishJob, ThrowInScoring, CrashWorker, Throw, rowVars
<1>4. CASE UNCHANGED vars
  BY <1>4, Stutters DEF vars
<1> QED BY <1>1, <1>2, <1>3, <1>4, SupplierMaps, CallMaps, ConfirmMaps,
           PersistMaps, QueuePricingMaps DEF Next, ConfirmStep, ScorerStep

\* The intake path implements InvoiceLifecycle: forward only, on the terms
\* submitted, confirmed once, decided once, priced once.
THEOREM Refinement == Spec => ImplementsLifecycle
<1>1. Init => Lifecycle!LInit
  BY DEF Init, Lifecycle!LInit
<1> QED BY <1>1, StepMaps, Invariance, PTL
        DEF Spec, ImplementsLifecycle, Lifecycle!LSpec
=============================================================================
