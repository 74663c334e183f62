---------------------------- MODULE MCBackOffice ----------------------------
(* The components of the back office share no rows, so TLC explores them   *)
(* one at a time: `focus` is drawn in the initial state, and only that     *)
(* component acts.                                                         *)
EXTENDS Facilities, Settlements, Notifications, RiskConfig, Terms,
        Letters, ConfigChanges, TLC

CONSTANTS f1, f2, d1, d2, a1, a2, i1, r1, r2, r3, j1, j2, s1, s2, w1, c1, c2, byTenor, byCredit,
          e1, e2, k1, k2, k3, x1, x2, kill, bankRate, unknown, m1, m2, q1, q2

VARIABLE focus

others == <<letterVars, configVars>>
vars == <<focus, facilityVars, settlementVars, noticeVars, riskVars, termVars, others>>

MCFacilities == {f1, f2}
MCDrawdowns == {d1, d2}
MCAccruals == {a1, a2}
MCTotalLimit == [f \in MCFacilities |-> 10]
MCMatures == [f \in MCFacilities |-> IF f = f1 THEN 1 ELSE 3]

MCSettled == {i1}
MCSettlementCalls == {r1, r2, r3}

MCNoticeJobs == {j1, j2}
MCMailers == {s1, s2}

MCScorers == {w1}
MCScorings == {c1, c2}
MCFactors == {byTenor, byCredit}
MCDefaults == [f \in MCFactors |-> 1]

MCLetters == {e1, e2}
MCClerks == {k1, k2, k3}

MCSettingKeys == {kill, bankRate}
MCChanges == {x1, x2}
MCProposers == {m1, m2}
MCApprovers == {q1, q2}

MCRecords == {[collected |-> c, defaulted |-> 0] : c \in {0, 3, 11}}
               \cup {[collected |-> 4, defaulted |-> 1]}
MCDeal == [face |-> 1, tenor |-> 30, rating |-> "A", util |-> 40, refer |-> 50,
           record |-> [collected |-> 0, defaulted |-> 0], collateral |-> "corporate_guarantee"]

Init ==
  /\ focus \in {"facilities", "settlements", "notifications", "scoring", "terms",
               "letters", "config"}
  /\ FacilitiesInit
  /\ SettlementsInit
  /\ NotificationsInit
  /\ RiskConfigInit
  /\ TermsInit
  /\ LettersInit
  /\ ConfigInit
  /\ focus # "terms" => deal = MCDeal

Next ==
  /\ UNCHANGED focus
  /\ \/ /\ focus = "facilities"
        /\ FacilitiesNext
        /\ UNCHANGED <<settlementVars, noticeVars, riskVars, termVars, others>>
     \/ /\ focus = "settlements"
        /\ SettlementsNext
        /\ UNCHANGED <<facilityVars, noticeVars, riskVars, termVars, others>>
     \/ /\ focus = "notifications"
        /\ NotificationsNext
        /\ UNCHANGED <<facilityVars, settlementVars, riskVars, termVars, others>>
     \/ /\ focus = "scoring"
        /\ RiskConfigNext
        /\ UNCHANGED <<facilityVars, settlementVars, noticeVars, termVars, others>>
     \/ /\ focus = "terms"
        /\ TermsNext
        /\ UNCHANGED <<facilityVars, settlementVars, noticeVars, riskVars, others>>
     \/ /\ focus = "letters"
        /\ LettersNext
        /\ UNCHANGED <<facilityVars, settlementVars, noticeVars, riskVars, termVars,
                       configVars>>
     \/ /\ focus = "config"
        /\ ConfigNext
        /\ UNCHANGED <<facilityVars, settlementVars, noticeVars, riskVars, termVars,
                       letterVars>>

\* BullMQ runs a waiting job, and its transaction ends.
SettlementFairness ==
  \A i \in SettledInvoices :
    /\ WF_vars(/\ focus = "settlements"
               /\ InitiateByJob(i)
               /\ UNCHANGED <<focus, facilityVars, noticeVars, riskVars, termVars, others>>)
    /\ WF_vars(/\ focus = "settlements"
               /\ ExecuteInitiateByJob(i) \/ LoseAttempt(i)
               /\ UNCHANGED <<focus, facilityVars, noticeVars, riskVars, termVars, others>>)

\* BullMQ runs a waiting job on some server, and the provider's client
\* answers or times out.
NotificationFairness ==
  \A j \in NoticeJobs :
    /\ WF_vars(/\ focus = "notifications"
               /\ \E s \in Mailers : Skip(s, j) \/ Dispatch(s, j)
               /\ UNCHANGED <<focus, facilityVars, settlementVars, riskVars, termVars, others>>)
    /\ WF_vars(/\ focus = "notifications"
               /\ \E s \in Mailers, n \in 0..MaxStalls :
                    SendSucceeds(s, j, n) \/ SendFails(s, j, n)
               /\ UNCHANGED <<focus, facilityVars, settlementVars, riskVars, termVars, others>>)

Spec == Init /\ [][Next]_vars /\ SettlementFairness /\ NotificationFairness

\* The types of the rows, jobs and caches of all the components.
TypeOK ==
  /\ FacilitiesTypeOK
  /\ SettlementsTypeOK
  /\ NotificationsTypeOK
  /\ RiskConfigTypeOK
  /\ TermsTypeOK
  /\ LettersTypeOK
  /\ ConfigTypeOK

\* processRepayment and applyAccrualTxn, closeSettlement, finalizeAndSend,
\* approveConfigChange: the bank's books add up, profit is booked before a
\* settlement is closed, a letter stays what it was when it was sent, and two
\* managers stand behind every setting.
RecordsSound ==
  /\ BooksBalance
  /\ ProfitIsBooked
  /\ LettersFinal
  /\ SettingTraced

\* scoreInvoice and priceInvoice: the weights add up, and so does the offer.
OffersSound == ConsistentScore /\ TermsSound

\* handleSettlementJob, handleNotificationJob: a collected invoice gets its
\* settlement unless every attempt of the job was lost; a notification leaves,
\* or its failure is on record, unless recording it failed.
NothingDropped ==
  /\ []<>(focus = "settlements" => SettlementStarted)
  /\ []<>(focus = "notifications" => NothingSilent)
=============================================================================
