---------------------------- MODULE MCOnboarding ----------------------------
(* The three parts of onboarding share no rows, so TLC explores them one   *)
(* at a time: `focus` is drawn in the initial state, and only that part    *)
(* acts.                                                                   *)
EXTENDS Kyc, Registration, Buyers, TLC

CONSTANTS k1, k2, ann, bob, owner, v1, v2, e1, e2, r1, r2, r3, o1, o2, n1, n2, q1, q2

VARIABLE focus

onboardingVars == <<focus, kycVars, registrationVars, buyersVars>>

MCKycCalls == {k1, k2}
MCStaff == {ann, bob}
MCUploaders == {owner}
MCRequired == {{"coi"}, {"id"}}

MCVisits == {v1, v2}
MCFailsRequired == <<2, 2, 3, 3>>
MCEmails == {e1, e2}
MCRegNumbers == {r1, r2, r3}
MCListed == {r3}

MCOfficers == {o1, o2}
MCNumbers == {n1, n2}
MCListedNames == {n2}
MCRequests == {q1, q2}

Symmetry ==
  Permutations(MCKycCalls) \cup Permutations(MCStaff) \cup Permutations(MCVisits)
    \cup Permutations(MCOfficers)

Init ==
  /\ focus \in {"kyc", "registration", "buyers"}
  /\ KycInit
  /\ RegistrationInit
  /\ BuyersInit

Next ==
  /\ UNCHANGED focus
  /\ \/ /\ focus = "kyc"
        /\ KycNext
        /\ UNCHANGED <<registrationVars, buyersVars>>
     \/ /\ focus = "registration"
        /\ RegistrationNext
        /\ UNCHANGED <<kycVars, buyersVars>>
     \/ /\ focus = "buyers"
        /\ BuyersNext
        /\ UNCHANGED <<kycVars, registrationVars>>

Spec == Init /\ [][Next]_onboardingVars

\* The types of the rows and requests of all three parts.
TypeOK == KycTypeOK /\ RegistrationTypeOK /\ BuyersTypeOK
=============================================================================
