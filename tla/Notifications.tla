---------------------------- MODULE Notifications ----------------------------
(***************************************************************************)
(* The notification worker: BullMQ hands a job to one of the servers, the  *)
(* service drops it when it has seen its id or when the channel's circuit  *)
(* breaker is open, and otherwise calls the provider.  The ids seen and    *)
(* the breaker live in the memory of each server.  Jobs of one channel.    *)
(***************************************************************************)
EXTENDS Integers, FiniteSets

CONSTANTS
  NoticeJobs,
  Mailers,        \* servers running the worker
  NoticeAttempts, \* attempts: 3
  BreakerLimit,   \* CIRCUIT_BREAKER_THRESHOLD
  Slots,          \* concurrency of one worker
  MaxStalls       \* bound on lost locks and on restarts

ASSUME NotificationsAssumption ==
  /\ NoticeAttempts \in Nat \ {0}
  /\ BreakerLimit \in Nat \ {0}
  /\ Slots \in Nat \ {0}
  /\ MaxStalls \in Nat

VARIABLES
  notice,     \* the job in Redis: state and attemptsMade
  running,    \* <<server, job, hand-out>>: calls of the provider under way
  processed,  \* processedJobs of each server
  breaker,    \* circuitBreakers of each server
  sent,       \* messages that left, by job
  tried,      \* attempts that called the provider or met an open breaker
  audited,    \* jobs whose terminal failure is in audit_logs
  stalls,     \* locks lost, by job
  restarts,   \* servers restarted
  auditLost   \* a terminal failure's transaction or server failed

noticeVars == <<notice, running, processed, breaker, sent, tried, audited,
                stalls, restarts, auditLost>>

Closed == [failures |-> 0, paused |-> FALSE]

NotificationsTypeOK ==
  /\ notice \in [NoticeJobs -> [state : {"waiting", "active", "done", "failed"},
                                made : 0..NoticeAttempts]]
  /\ running \subseteq Mailers \X NoticeJobs \X (0..MaxStalls)
  /\ processed \in [Mailers -> SUBSET NoticeJobs]
  /\ breaker \in [Mailers -> [failures : Nat, paused : BOOLEAN]]
  /\ sent \in [NoticeJobs -> Nat]
  /\ tried \in [NoticeJobs -> Nat]
  /\ audited \subseteq NoticeJobs
  /\ stalls \in [NoticeJobs -> 0..MaxStalls]
  /\ restarts \in 0..MaxStalls
  /\ auditLost \in BOOLEAN

NotificationsInit ==
  /\ notice = [j \in NoticeJobs |-> [state |-> "waiting", made |-> 0]]
  /\ running = {}
  /\ processed = [s \in Mailers |-> {}]
  /\ breaker = [s \in Mailers |-> Closed]
  /\ sent = [j \in NoticeJobs |-> 0]
  /\ tried = [j \in NoticeJobs |-> 0]
  /\ audited = {}
  /\ stalls = [j \in NoticeJobs |-> 0]
  /\ restarts = 0
  /\ auditLost = FALSE

\* worker.on('failed') after the last attempt: one transaction, whose failure
\* is only logged.
Audit(j, terminal) ==
  IF ~terminal THEN UNCHANGED <<audited, auditLost>>
  ELSE \/ audited' = audited \cup {j} /\ UNCHANGED auditLost
       \/ auditLost' = TRUE /\ UNCHANGED audited

\* Mutant: one attempt too many.
FailLate(j) ==
  LET made == notice[j].made + 1
      terminal == made > NoticeAttempts
  IN
  /\ notice' = [notice EXCEPT ![j] =
       [state |-> IF terminal THEN "failed" ELSE "waiting", made |-> made]]
  /\ Audit(j, terminal)

\* The processor throws: BullMQ retries after the backoff, or gives up.
FailAttemptOf(j) ==
  LET made == notice[j].made + 1
      terminal == made >= NoticeAttempts
  IN
  /\ notice' = [notice EXCEPT ![j] =
       [state |-> IF terminal THEN "failed" ELSE "waiting", made |-> made]]
  /\ Audit(j, terminal)

\* Mutant: a job that is skipped is completed.
SkipSilently(s, j) ==
  /\ notice[j].state = "waiting"
  /\ j \in processed[s] \/ breaker[s].paused
  /\ tried' = [tried EXCEPT ![j] = @ + (IF j \in processed[s] THEN 0 ELSE 1)]
  /\ notice' = [notice EXCEPT ![j].state = "done"]
  /\ UNCHANGED <<running, processed, breaker, sent, audited, stalls, restarts, auditLost>>

\* processNotification: buildSkipResult, success: false.
Skip(s, j) ==
  /\ notice[j].state = "waiting"
  /\ j \in processed[s] \/ breaker[s].paused
  /\ tried' = [tried EXCEPT ![j] = @ + (IF j \in processed[s] THEN 0 ELSE 1)]
  /\ FailAttemptOf(j)
  /\ UNCHANGED <<running, processed, breaker, sent, stalls, restarts>>

\* Mutant: the breaker only counts, and lets everything through.
BreakerIgnored(s, j) ==
  /\ notice[j].state = "waiting"
  /\ j \notin processed[s]
  /\ Cardinality({r \in running : r[1] = s}) < Slots
  /\ notice' = [notice EXCEPT ![j].state = "active"]
  /\ running' = running \cup {<<s, j, stalls[j]>>}
  /\ tried' = [tried EXCEPT ![j] = @ + 1]
  /\ UNCHANGED <<processed, breaker, sent, audited, stalls, restarts, auditLost>>

\* ... or dispatchToProvider.
Dispatch(s, j) ==
  /\ notice[j].state = "waiting"
  /\ j \notin processed[s] /\ ~breaker[s].paused
  /\ Cardinality({r \in running : r[1] = s}) < Slots
  /\ notice' = [notice EXCEPT ![j].state = "active"]
  /\ running' = running \cup {<<s, j, stalls[j]>>}
  /\ tried' = [tried EXCEPT ![j] = @ + 1]
  /\ UNCHANGED <<processed, breaker, sent, audited, stalls, restarts, auditLost>>

\* The lock of the hand-out is still held.
Holds(j, n) == notice[j].state = "active" /\ stalls[j] = n

\* trackProcessedJob, also after a failure.
TrackProcessedJob(s, j) == processed' = [processed EXCEPT ![s] = @ \cup {j}]

\* Mutant: the attempt is failed although the message has left.
ThrowAfterSend(s, j, n) ==
  /\ <<s, j, n>> \in running
  /\ running' = running \ {<<s, j, n>>}
  /\ sent' = [sent EXCEPT ![j] = @ + 1]
  /\ breaker' = [breaker EXCEPT ![s].failures = 0]
  /\ TrackProcessedJob(s, j)
  /\ IF Holds(j, n) THEN FailAttemptOf(j)
     ELSE UNCHANGED <<notice, audited, auditLost>>
  /\ UNCHANGED <<tried, stalls, restarts>>

\* The provider accepts the message: recordSuccess.  A job whose lock was lost
\* cannot be completed by the call that lost it.
SendSucceeds(s, j, n) ==
  /\ <<s, j, n>> \in running
  /\ running' = running \ {<<s, j, n>>}
  /\ sent' = [sent EXCEPT ![j] = @ + 1]
  /\ breaker' = [breaker EXCEPT ![s].failures = 0]
  /\ TrackProcessedJob(s, j)
  /\ notice' = IF Holds(j, n) THEN [notice EXCEPT ![j].state = "done"]
               ELSE notice
  /\ UNCHANGED <<tried, audited, stalls, restarts, auditLost>>

\* recordFailure: the threshold pauses the channel.
RecordFailure(s) ==
  LET n == breaker[s].failures + 1 IN
  breaker' = [breaker EXCEPT ![s] =
    [failures |-> n, paused |-> breaker[s].paused \/ n >= BreakerLimit]]

SendFails(s, j, n) ==
  /\ <<s, j, n>> \in running
  /\ running' = running \ {<<s, j, n>>}
  /\ RecordFailure(s)
  /\ TrackProcessedJob(s, j)
  /\ IF Holds(j, n) THEN FailAttemptOf(j)
     ELSE UNCHANGED <<notice, audited, auditLost>>
  /\ UNCHANGED <<sent, tried, stalls, restarts>>

\* isCircuitOpen after the pause.
ResetCircuitBreaker(s) ==
  /\ breaker[s].paused
  /\ breaker' = [breaker EXCEPT ![s] = Closed]
  /\ UNCHANGED <<notice, running, processed, sent, tried, audited, stalls, restarts, auditLost>>

\* A job's lock runs out while the provider is slow, and the job is handed
\* out again (maxStalledCount).
LockLost(j) ==
  /\ notice[j].state = "active" /\ stalls[j] < MaxStalls
  /\ notice' = [notice EXCEPT ![j].state = "waiting"]
  /\ stalls' = [stalls EXCEPT ![j] = @ + 1]
  /\ UNCHANGED <<running, processed, breaker, sent, tried, audited, restarts, auditLost>>

\* A server stops and starts: its memory is gone, and the provider may have
\* taken the messages it was sending.
Restart(s) ==
  LET calls == {r \in running : r[1] = s}
      mine == {r[2] : r \in {c \in calls : Holds(c[2], c[3])}}
  IN
  /\ restarts < MaxStalls
  /\ \A j \in mine : stalls[j] < MaxStalls
  /\ \E left \in SUBSET calls :
       sent' = [j \in NoticeJobs |-> sent[j] + Cardinality({r \in left : r[2] = j})]
  /\ restarts' = restarts + 1
  /\ running' = running \ calls
  /\ processed' = [processed EXCEPT ![s] = {}]
  /\ breaker' = [breaker EXCEPT ![s] = Closed]
  /\ notice' = [j \in NoticeJobs |->
       IF j \in mine
       THEN [notice[j] EXCEPT !.state = "waiting"] ELSE notice[j]]
  /\ stalls' = [j \in NoticeJobs |-> stalls[j] + (IF j \in mine THEN 1 ELSE 0)]
  /\ UNCHANGED <<tried, audited, auditLost>>

NotificationsNext ==
  \/ \E s \in Mailers, j \in NoticeJobs :
       \/ Skip(s, j)
       \/ Dispatch(s, j)
       \/ \E n \in 0..MaxStalls : SendSucceeds(s, j, n) \/ SendFails(s, j, n)
  \/ \E s \in Mailers : ResetCircuitBreaker(s) \/ Restart(s)
  \/ \E j \in NoticeJobs : LockLost(j)

---------------------------------------------------------------------------
\* A message leaves twice only when BullMQ handed its job out twice: retries
\* and the servers' separate memories add nothing.
SentOnce == \A j \in NoticeJobs : sent[j] <= 1 + stalls[j]

\* The provider of a channel that is down is called at most as often as the
\* breaker allows, and once more for each call that was already under way.
BreakerHolds == \A s \in Mailers : breaker[s].failures <= BreakerLimit + Slots - 1

\* processNotification: neither retries, stalls and restarts nor a channel that
\* is down make the worker call a provider more often than that.
ProviderSpared == SentOnce /\ BreakerHolds

\* No notification disappears: each one leaves, or its failure is on record,
\* unless recording it failed.  (None of these is ever undone.)
NothingSilent ==
  \A j \in NoticeJobs : sent[j] > 0 \/ j \in audited \/ auditLost

\* "retry 3x via Bull": a job is given up only after that many attempts that
\* reached the provider or found the channel paused.
EveryAttemptTries ==
  \A j \in NoticeJobs : notice[j].state = "failed" => tried[j] >= NoticeAttempts
=============================================================================
