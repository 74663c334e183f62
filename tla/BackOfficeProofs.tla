-------------------------- MODULE BackOfficeProofs --------------------------
(***************************************************************************)
(* Theorems about the back office: each component of MCBackOffice on its   *)
(* own, and their composition.                                             *)
(***************************************************************************)
EXTENDS MCBackOffice, FiniteSetTheorems, WellFoundedInduction, TLAPS

-----------------------------------------------------------------------------
(* Settings and their changes.                                             *)

\* A request that got past validateConfigChangeForApproval names a change
\* that somebody else proposed; nothing deletes it or changes who did.
ApproverShape ==
  \A a \in Approvers :
    approver[a] # Resting =>
      /\ change[approver[a].id] # NoChange
      /\ change[approver[a].id].by # approver[a].who

\* What is marked approved was approved by another manager, also when a late
\* approval overwrites approved_by.
ChangeShape ==
  \A x \in Changes :
    change[x].status = "approved" => change[x].by # change[x].approvedBy

ConfigInv == ConfigTypeOK /\ SettingTraced /\ ApproverShape /\ ChangeShape

LEMMA ChangeFields ==
  ASSUME NEW y \in Change, y # NoChange
  PROVE  /\ y.key \in SettingKeys \cup {UnknownKey}
         /\ y.value \in SettingValues /\ y.by \in Proposers
         /\ y.status \in {"pending", "approved"}
  BY DEF Change, NoChange

LEMMA ConfigInitial ==
  ASSUME ConfigInit
  PROVE  ConfigInv
<1>1. ConfigTypeOK
  BY ConfigAssumption DEF ConfigInit, ConfigTypeOK, Change
<1>2. SettingTraced /\ ApproverShape /\ ChangeShape
  BY DEF ConfigInit, SettingTraced, ApproverShape, ChangeShape, NoChange
<1> QED BY <1>1, <1>2 DEF ConfigInv

LEMMA ConfigStep ==
  ASSUME ConfigInv, [ConfigNext]_configVars
  PROVE  ConfigInv'
<1> USE DEF ConfigInv
<1>1. ASSUME NEW v \in SettingValues, ToggleKillSwitch(v)
      PROVE  ConfigInv'
  BY <1>1, ConfigAssumption
     DEF ToggleKillSwitch, SetSystemSetting, ConfigTypeOK, SettingTraced,
         ApproverShape, ChangeShape
<1>2. ASSUME NEW x \in Changes, NEW u \in Proposers,
             NEW k \in SettingKeys \cup {UnknownKey}, NEW v \in SettingValues,
             ProposeConfigChange(x, k, v, u)
      PROVE  ConfigInv'
  <2>1. ConfigTypeOK'
    BY <1>2 DEF ProposeConfigChange, ConfigTypeOK, Change
  <2>2. \A y \in Changes : y # x => change'[y] = change[y]
    BY <1>2 DEF ProposeConfigChange, ConfigTypeOK
  <2>3. change[x].status = "none" /\ change'[x].status = "pending"
    BY <1>2 DEF ProposeConfigChange, ConfigTypeOK, NoChange
  <2>4. SettingTraced'
    BY <1>2, <2>2, <2>3 DEF ProposeConfigChange, SettingTraced
  <2>5. ChangeShape'
    BY <2>2, <2>3 DEF ChangeShape
  <2>6. \A a \in Approvers : approver[a] # Resting => approver[a].id # x
    BY <1>2 DEF ProposeConfigChange, ApproverShape
  <2>7. \A a \in Approvers : approver[a] # Resting => approver[a].id \in Changes
    BY DEF ConfigTypeOK, Resting
  <2>8. ApproverShape'
    BY <1>2, <2>2, <2>6, <2>7 DEF ProposeConfigChange, ApproverShape
  <2> QED BY <2>1, <2>4, <2>5, <2>8
<1>3. ASSUME NEW x \in Changes, NEW u \in Proposers, NEW a \in Approvers,
             ApproveConfigChange(a, x, u)
      PROVE  ConfigInv'
  <2>1. ConfigTypeOK'
    BY <1>3 DEF ApproveConfigChange, ConfigTypeOK
  <2>2. SettingTraced' /\ ChangeShape'
    BY <1>3 DEF ApproveConfigChange, SettingTraced, ChangeShape
  <2>3. change[x] # NoChange /\ change[x].by # u
    BY <1>3 DEF ApproveConfigChange, Approvable, NoChange
  <2>4. ApproverShape'
    BY <1>3, <2>3 DEF ApproveConfigChange, ConfigTypeOK, ApproverShape
  <2> QED BY <2>1, <2>2, <2>4
<1>4. ASSUME NEW a \in Approvers, ApplyConfigChange(a)
      PROVE  ConfigInv'
  <2> DEFINE x == approver[a].id
             y == change[x]
  <2>1. x \in Changes /\ approver[a].who \in Proposers
    BY <1>4 DEF ApplyConfigChange, ConfigTypeOK, Resting
  <2>2. y \in Change /\ y # NoChange /\ y.by # approver[a].who
    BY <1>4, <2>1 DEF ApplyConfigChange, ConfigTypeOK, ApproverShape
  <2>3. /\ y.key \in SettingKeys \cup {UnknownKey}
        /\ y.value \in SettingValues /\ y.by \in Proposers
    BY <2>2, ChangeFields
  <2>4. change' = [change EXCEPT ![x] =
           [status |-> "approved", key |-> y.key, value |-> y.value, by |-> y.by,
            approvedBy |-> approver[a].who]]
    BY <1>4, <2>1 DEF ApplyConfigChange, ConfigTypeOK
  <2>5. setting' = [q \in SettingKeys |-> IF q = y.key THEN y.value ELSE setting[q]]
    BY <1>4 DEF ApplyConfigChange, SetSystemSetting
  <2>6. approver' = [approver EXCEPT ![a] = Resting]
    BY <1>4 DEF ApplyConfigChange
  <2> HIDE DEF x, y
  <2>7. ConfigTypeOK'
    BY <2>1, <2>3, <2>4, <2>5, <2>6 DEF ConfigTypeOK, Change
  <2>8. /\ \A z \in Changes : z # x => change'[z] = change[z]
        /\ change'[x].status = "approved" /\ change'[x].key = y.key
        /\ change'[x].value = y.value /\ change'[x].by = y.by
        /\ change'[x].approvedBy = approver[a].who /\ change'[x] # NoChange
    BY <2>1, <2>4 DEF ConfigTypeOK, NoChange
  <2>9. SettingTraced'
    <3> SUFFICES ASSUME NEW k \in SettingKeys \ {KillSwitch}, setting'[k] # SeedValue
                 PROVE  \E z \in Changes :
                          /\ change'[z].status = "approved"
                          /\ change'[z].key = k /\ change'[z].value = setting'[k]
                          /\ change'[z].by # change'[z].approvedBy
      BY DEF SettingTraced
    <3>1. CASE y.key = k
      BY <3>1, <2>1, <2>2, <2>5, <2>8
    <3>2. CASE y.key # k
      <4>1. setting'[k] = setting[k]
        BY <3>2, <2>5
      <4>2. PICK z \in Changes : /\ change[z].status = "approved"
                                 /\ change[z].key = k /\ change[z].value = setting[k]
                                 /\ change[z].by # change[z].approvedBy
        BY <4>1 DEF SettingTraced
      <4>3. z # x
        BY <4>2, <3>2 DEF y
      <4> QED BY <4>1, <4>2, <4>3, <2>8
    <3> QED BY <3>1, <3>2
  <2>10. ChangeShape'
    BY <2>8, <2>2 DEF ChangeShape
  <2>11. ApproverShape'
    <3> SUFFICES ASSUME NEW b \in Approvers, approver'[b] # Resting
                 PROVE  /\ change'[approver'[b].id] # NoChange
                        /\ change'[approver'[b].id].by # approver'[b].who
      BY DEF ApproverShape
    <3>1. b # a /\ approver'[b] = approver[b] /\ approver[b].id \in Changes
      BY <2>6 DEF ConfigTypeOK, Resting
    <3>2. change[approver[b].id] # NoChange /\ change[approver[b].id].by # approver[b].who
      BY <3>1 DEF ApproverShape
    <3> QED BY <3>1, <3>2, <2>8 DEF y
  <2> QED BY <2>7, <2>9, <2>10, <2>11
<1>5. ASSUME NEW a \in Approvers, DropApproval(a)
      PROVE  ConfigInv'
  BY <1>5 DEF DropApproval, ConfigTypeOK, SettingTraced, ApproverShape, ChangeShape
<1>6. CASE UNCHANGED configVars
  BY <1>6 DEF configVars, ConfigTypeOK, SettingTraced, ApproverShape, ChangeShape
<1> QED BY <1>1, <1>2, <1>3, <1>4, <1>5, <1>6 DEF ConfigNext

\* approveConfigChange, "Enforces maker != checker", whatever the settings,
\* the managers and the approval requests that overlap.
THEOREM SettingsTraced == ConfigInit /\ [][ConfigNext]_configVars => []SettingTraced
<1>1. ConfigInv => SettingTraced
  BY DEF ConfigInv
<1> QED BY ConfigInitial, ConfigStep, <1>1, PTL

-----------------------------------------------------------------------------
(* Letters.                                                                *)

\* A letter that is marked as sent was released; a letter that somebody is
\* about to send exists; one that somebody is about to announce was released.
SentShape ==
  \A d \in Letters : letter[d].status = "sent" => released[d] # NoLetter

ClerkShape ==
  \A c \in Clerks :
    /\ clerk[c].op = "send" => letter[clerk[c].id] # NoLetter
    /\ clerk[c].op = "mail" => released[clerk[c].id] # NoLetter

LettersInv == LettersTypeOK /\ LettersFinal /\ SentShape /\ ClerkShape

ClerkCall ==
  {AtRest, [op |-> "draft"]}
    \cup [op : {"update"}, id : Letters, content : Contents]
    \cup [op : {"send", "mail"}, id : Letters]

LEMMA ClerkFields ==
  ASSUME NEW r \in ClerkCall
  PROVE  /\ r.op = "update" => r.id \in Letters /\ r.content \in Contents
         /\ r.op \in {"send", "mail"} => r.id \in Letters
         /\ r.op = "rest" <=> r = AtRest
  BY DEF ClerkCall, AtRest

LEMMA LetterFields ==
  ASSUME NEW y \in Letter
  PROVE  /\ y.status \in {"none", "draft", "sent"}
         /\ y.status = "none" <=> y = NoLetter
         /\ y # NoLetter => y.content \in Contents
         /\ y.status = "draft" => y = [status |-> "draft", content |-> y.content]
  BY DEF Letter, NoLetter

LEMMA SignedIsRelease ==
  ASSUME NEW v \in Contents, NEW c \in Clerks
  PROVE  /\ [content |-> v, by |-> c] \in Signed
         /\ [content |-> v, by |-> c] # NoLetter
<1>1. DOMAIN [content |-> v, by |-> c] = {"content", "by"} /\ DOMAIN NoLetter = {"status"}
  BY DEF NoLetter
<1> QED BY <1>1 DEF Signed

LEMMA ReleasedIsSent ==
  ASSUME LettersFinal, NEW d \in Letters, released[d] # NoLetter
  PROVE  letter[d].status = "sent"
<1>1. letter[d] = [status |-> "sent", content |-> released[d].content, by |-> released[d].by]
  BY Zenon DEF LettersFinal
<1> QED BY <1>1

LEMMA LettersInitial ==
  ASSUME LettersInit
  PROVE  LettersInv
  BY LettersAssumption
     DEF LettersInit, LettersInv, LettersTypeOK, LettersFinal, SentShape, ClerkShape,
         Letter, NoLetter, AtRest

\* A request that only reads, or gives up, or mails.
LEMMA ClerkTurns ==
  ASSUME LettersInv, NEW c \in Clerks, NEW r \in ClerkCall, Turns(c, r),
         UNCHANGED <<letter, released>>, latest' \in SUBSET Letters,
         edits' \in 0..MaxEdits, mails' \in [Letters -> Nat],
         \A d \in Letters : mails'[d] > 0 => released[d] # NoLetter,
         r.op = "send" => letter[r.id] # NoLetter,
         r.op = "mail" => released[r.id] # NoLetter
  PROVE  LettersInv'
<1>1. clerk' = [clerk EXCEPT ![c] = r] /\ clerk \in [Clerks -> ClerkCall]
  BY DEF Turns, LettersInv, LettersTypeOK, ClerkCall
<1>2. clerk' \in [Clerks -> ClerkCall]
  BY <1>1
<1>3. LettersTypeOK'
  BY <1>2 DEF LettersInv, LettersTypeOK, ClerkCall
<1>4. LettersFinal' /\ SentShape'
  BY DEF LettersInv, LettersFinal, SentShape
<1>5. ClerkShape'
  BY <1>1 DEF LettersInv, ClerkShape
<1> QED BY <1>3, <1>4, <1>5 DEF LettersInv

LEMMA LettersStep ==
  ASSUME LettersInv, [LettersNext]_letterVars
  PROVE  LettersInv'
<1>0. /\ letter \in [Letters -> Letter] /\ clerk \in [Clerks -> ClerkCall]
      /\ latest \in SUBSET Letters /\ edits \in 0..MaxEdits /\ mails \in [Letters -> Nat]
      /\ released \in [Letters -> {NoLetter} \cup Signed]
      /\ \A d \in Letters : mails[d] > 0 => released[d] # NoLetter
  BY DEF LettersInv, LettersTypeOK, LettersFinal, ClerkCall
<1>a. AtRest \in ClerkCall /\ AtRest.op = "rest"
  BY DEF ClerkCall, AtRest
<1>1. ASSUME NEW c \in Clerks, GenerateDraftDocument(c)
      PROVE  LettersInv'
  <2>1. Turns(c, [op |-> "draft"]) /\ [op |-> "draft"] \in ClerkCall
    BY <1>1 DEF GenerateDraftDocument, Begins, ClerkCall
  <2> QED BY <1>1, <2>1, <1>0, ClerkTurns DEF GenerateDraftDocument
<1>2. ASSUME NEW c \in Clerks, NEW d \in Letters, PersistDraftDocument(c, d)
      PROVE  LettersInv'
  <2> DEFINE fresh == [status |-> "draft", content |-> FirstContent]
  <2>1. /\ clerk' = [clerk EXCEPT ![c] = AtRest] /\ letter[d] = NoLetter
        /\ letter' = [letter EXCEPT ![d] = fresh] /\ latest' = {d}
        /\ UNCHANGED <<mails, released, edits>>
    BY <1>2 DEF PersistDraftDocument, Turns
  <2>2. fresh \in Letter /\ fresh # NoLetter /\ fresh.status = "draft"
    BY LettersAssumption DEF Letter, NoLetter
  <2> HIDE DEF fresh
  <2>3. LettersTypeOK'
    BY <2>1, <2>2, <1>0, <1>a DEF LettersTypeOK, ClerkCall
  <2>4. released[d] = NoLetter
    BY <2>1, ReleasedIsSent DEF LettersInv, NoLetter
  <2>5. \A e \in Letters : e # d => letter'[e] = letter[e]
    BY <2>1, <1>0
  <2>6. letter'[d] = fresh
    BY <2>1, <1>0
  <2>7. LettersFinal' /\ SentShape'
    <3> SUFFICES ASSUME NEW e \in Letters
        PROVE  /\ mails'[e] > 0 => released'[e] # NoLetter
               /\ released'[e] # NoLetter =>
                    letter'[e] = [status |-> "sent", content |-> released'[e].content,
                                  by |-> released'[e].by]
               /\ letter'[e].status = "sent" => released'[e] # NoLetter
      BY DEF LettersFinal, SentShape
    <3>1. CASE e = d
      BY <3>1, <2>1, <2>2, <2>4, <2>6, <1>0
    <3>2. CASE e # d
      BY <3>2, <2>1, <2>5 DEF LettersInv, LettersFinal, SentShape
    <3> QED BY <3>1, <3>2
  <2>8. ClerkShape'
    <3> SUFFICES ASSUME NEW b \in Clerks
                 PROVE  /\ clerk'[b].op = "send" => letter'[clerk'[b].id] # NoLetter
                        /\ clerk'[b].op = "mail" => released'[clerk'[b].id] # NoLetter
      BY DEF ClerkShape
    <3>1. CASE b = c
      BY <3>1, <2>1, <1>0, <1>a
    <3>2. CASE b # c
      <4>1. clerk'[b] = clerk[b] /\ clerk[b] \in ClerkCall
        BY <3>2, <2>1, <1>0
      <4>2. clerk[b].op = "send" => clerk[b].id \in Letters /\ letter[clerk[b].id] # NoLetter
        BY <4>1, ClerkFields DEF LettersInv, ClerkShape
      <4>3. clerk[b].op = "mail" => released[clerk[b].id] # NoLetter
        BY DEF LettersInv, ClerkShape
      <4> QED BY <4>1, <4>2, <4>3, <2>1, <2>2, <2>5, <2>6
    <3> QED BY <3>1, <3>2
  <2> QED BY <2>3, <2>7, <2>8 DEF LettersInv
<1>3. ASSUME NEW c \in Clerks, NEW d \in Letters, NEW v \in Contents,
             UpdateDraftParams(c, d, v)
      PROVE  LettersInv'
  <2> DEFINE r == [op |-> "update", id |-> d, content |-> v]
  <2>1. Turns(c, r) /\ r \in ClerkCall /\ r.op = "update"
    BY <1>3 DEF UpdateDraftParams, Begins, ClerkCall
  <2>2. edits' \in 0..MaxEdits
    BY <1>3, <1>0, LettersAssumption DEF UpdateDraftParams
  <2> HIDE DEF r
  <2> QED BY <1>3, <2>1, <2>2, <1>0, ClerkTurns DEF UpdateDraftParams
<1>4. ASSUME NEW c \in Clerks, PersistDraftUpdate(c)
      PROVE  LettersInv'
  <2>1. Turns(c, AtRest) /\ UNCHANGED <<latest, mails, released, edits>>
    BY <1>4 DEF PersistDraftUpdate
  <2>2. CASE letter' = letter
    BY <2>1, <2>2, <1>0, <1>a, ClerkTurns
  <2>3. CASE letter' # letter
    <3> DEFINE d == clerk[c].id
               v == clerk[c].content
    <3>1. d \in Letters /\ v \in Contents
      BY <1>4, <1>0, ClerkFields DEF PersistDraftUpdate
    <3>2. letter[d].status = "draft" /\ letter' = [letter EXCEPT ![d].content = v]
      BY <1>4, <2>3 DEF PersistDraftUpdate
    <3> HIDE DEF d, v
    <3>3. letter[d] = [status |-> "draft", content |-> letter[d].content]
      BY <3>1, <3>2, <1>0, LetterFields
    <3>4. letter'[d] = [status |-> "draft", content |-> v]
      BY <3>1, <3>2, <3>3, <1>0
    <3>5. /\ letter'[d] \in Letter /\ letter'[d] # NoLetter /\ letter'[d].status = "draft"
          /\ \A e \in Letters : e # d => letter'[e] = letter[e]
      BY <3>1, <3>2, <3>4, <1>0 DEF Letter, NoLetter
    <3>6. letter' \in [Letters -> Letter]
      BY <3>1, <3>2, <3>5, <1>0
    <3>7. clerk' = [clerk EXCEPT ![c] = AtRest]
      BY <2>1 DEF Turns
    <3>8. LettersTypeOK'
      BY <3>6, <3>7, <2>1, <1>0, <1>a DEF LettersTypeOK, ClerkCall
    <3>9. released[d] = NoLetter
      BY <3>1, <3>2, ReleasedIsSent DEF LettersInv
    <3>10. LettersFinal' /\ SentShape'
      <4> SUFFICES ASSUME NEW e \in Letters
          PROVE  /\ mails'[e] > 0 => released'[e] # NoLetter
                 /\ released'[e] # NoLetter =>
                      letter'[e] = [status |-> "sent", content |-> released'[e].content,
                                    by |-> released'[e].by]
                 /\ letter'[e].status = "sent" => released'[e] # NoLetter
        BY DEF LettersFinal, SentShape
      <4>1. CASE e = d
        BY <4>1, <2>1, <3>1, <3>5, <3>9, <1>0
      <4>2. CASE e # d
        BY <4>2, <2>1, <3>5 DEF LettersInv, LettersFinal, SentShape
      <4> QED BY <4>1, <4>2
    <3>11. ClerkShape'
      <4> SUFFICES ASSUME NEW b \in Clerks
                   PROVE  /\ clerk'[b].op = "send" => letter'[clerk'[b].id] # NoLetter
                          /\ clerk'[b].op = "mail" => released'[clerk'[b].id] # NoLetter
        BY DEF ClerkShape
      <4>1. CASE b = c
        BY <4>1, <3>7, <1>0, <1>a
      <4>2. CASE b # c
        <5>1. clerk'[b] = clerk[b] /\ clerk[b] \in ClerkCall
          BY <4>2, <3>7, <1>0
        <5>2. clerk[b].op = "send" => clerk[b].id \in Letters /\ letter[clerk[b].id] # NoLetter
          BY <5>1, ClerkFields DEF LettersInv, ClerkShape
        <5>3. clerk[b].op = "mail" => released[clerk[b].id] # NoLetter
          BY DEF LettersInv, ClerkShape
        <5> QED BY <5>1, <5>2, <5>3, <2>1, <3>5
      <4> QED BY <4>1, <4>2
    <3> QED BY <3>8, <3>10, <3>11 DEF LettersInv
  <2> QED BY <2>2, <2>3
<1>5. ASSUME NEW c \in Clerks, NEW d \in Letters, FinalizeAndSend(c, d)
      PROVE  LettersInv'
  <2> DEFINE r == [op |-> "send", id |-> d]
  <2>1. Turns(c, r) /\ r \in ClerkCall /\ r.op = "send" /\ r.id = d
    BY <1>5 DEF FinalizeAndSend, Begins, ClerkCall
  <2>2. letter[d] # NoLetter
    BY <1>5 DEF FinalizeAndSend, NoLetter
  <2> HIDE DEF r
  <2> QED BY <1>5, <2>1, <2>2, <1>0, ClerkTurns DEF FinalizeAndSend
<1>6. ASSUME NEW c \in Clerks, PersistFinalization(c)
      PROVE  LettersInv'
  <2> DEFINE d == clerk[c].id
             r == [op |-> "mail", id |-> d]
  <2>1. d \in Letters /\ letter[d] # NoLetter
    BY <1>6, <1>0, ClerkFields DEF PersistFinalization, LettersInv, ClerkShape
  <2>2. Turns(c, r) /\ r \in ClerkCall /\ r.op = "mail" /\ r.id = d
        /\ UNCHANGED <<latest, mails, edits>>
    BY <1>6, <2>1 DEF PersistFinalization, ClerkCall
  <2>3. CASE letter[d].status = "draft"
    <3> DEFINE v == letter[d].content
               sg == [content |-> v, by |-> c]
               now == [status |-> "sent", content |-> v, by |-> c]
    <3>1. letter' = [letter EXCEPT ![d] = now] /\ released' = [released EXCEPT ![d] = sg]
      BY <1>6, <2>1, <2>3, <1>0 DEF PersistFinalization
    <3>2. v \in Contents
      BY <2>1, <1>0, LetterFields
    <3>3. sg \in Signed /\ sg # NoLetter
      BY <3>2, SignedIsRelease
    <3>4. sg.content = v /\ sg.by = c
      OBVIOUS
    <3>5. now \in Letter /\ now # NoLetter
      BY <3>2 DEF Letter, NoLetter
    <3>6. clerk' = [clerk EXCEPT ![c] = r]
      BY <2>2 DEF Turns
    <3>7. now = [status |-> "sent", content |-> sg.content, by |-> sg.by]
      BY <3>4
    <3> HIDE DEF v, sg, now, r, d
    <3>8. LettersTypeOK'
      BY <3>1, <3>3, <3>5, <3>6, <2>1, <2>2, <1>0 DEF LettersTypeOK, ClerkCall
    <3>9. /\ \A e \in Letters : e # d => letter'[e] = letter[e] /\ released'[e] = released[e]
          /\ letter'[d] = now /\ released'[d] = sg
      BY <3>1, <2>1, <1>0
    <3>10. LettersFinal'
      <4> SUFFICES ASSUME NEW e \in Letters
                   PROVE  /\ mails'[e] > 0 => released'[e] # NoLetter
                          /\ released'[e] # NoLetter =>
                               letter'[e] = [status |-> "sent", content |-> released'[e].content,
                                             by |-> released'[e].by]
        BY DEF LettersFinal
      <4>1. CASE e = d
        BY <4>1, <3>3, <3>7, <3>9
      <4>2. CASE e # d
        BY <4>2, <3>9, <2>2 DEF LettersInv, LettersFinal
      <4> QED BY <4>1, <4>2
    <3>11. SentShape'
      BY <3>3, <3>9 DEF LettersInv, SentShape
    <3>12. ClerkShape'
      <4> SUFFICES ASSUME NEW b \in Clerks
                   PROVE  /\ clerk'[b].op = "send" => letter'[clerk'[b].id] # NoLetter
                          /\ clerk'[b].op = "mail" => released'[clerk'[b].id] # NoLetter
        BY DEF ClerkShape
      <4>1. CASE b = c
        BY <4>1, <3>3, <3>6, <3>9, <2>2, <1>0
      <4>2. CASE b # c
        <5>1. clerk'[b] = clerk[b] /\ clerk[b] \in ClerkCall
          BY <4>2, <3>6, <1>0
        <5>2. clerk[b].op = "send" => clerk[b].id \in Letters /\ letter[clerk[b].id] # NoLetter
          BY <5>1, ClerkFields DEF LettersInv, ClerkShape
        <5>3. clerk[b].op = "mail" => clerk[b].id \in Letters /\ released[clerk[b].id] # NoLetter
          BY <5>1, ClerkFields DEF LettersInv, ClerkShape
        <5> QED BY <5>1, <5>2, <5>3, <3>3, <3>5, <3>9
      <4> QED BY <4>1, <4>2
    <3> QED BY <3>8, <3>10, <3>11, <3>12 DEF LettersInv
  <2>4. CASE letter[d].status # "draft"
    <3>1. UNCHANGED <<letter, released>>
      BY <1>6, <2>4 DEF PersistFinalization
    <3>2. letter[d].status = "sent"
      BY <2>1, <2>4, <1>0, LetterFields
    <3>3. released[d] # NoLetter
      BY <3>2, <2>1 DEF LettersInv, SentShape
    <3> HIDE DEF r, d
    <3> QED BY <3>1, <3>3, <2>2, <1>0, ClerkTurns
  <2> QED BY <2>3, <2>4
<1>7. ASSUME NEW c \in Clerks, QueueDocumentNotification(c)
      PROVE  LettersInv'
  <2> DEFINE d == clerk[c].id
  <2>1. d \in Letters /\ released[d] # NoLetter
    BY <1>7, <1>0, ClerkFields DEF QueueDocumentNotification, LettersInv, ClerkShape
  <2>2. mails' = [mails EXCEPT ![d] = mails[d] + 1]
    BY <1>7 DEF QueueDocumentNotification
  <2> HIDE DEF d
  <2>3. /\ mails' \in [Letters -> Nat]
        /\ \A e \in Letters : mails'[e] > 0 => released[e] # NoLetter
    BY <2>1, <2>2, <1>0
  <2> QED BY <1>7, <2>3, <1>0, <1>a, ClerkTurns DEF QueueDocumentNotification
<1>8. ASSUME NEW c \in Clerks, GiveUp(c)
      PROVE  LettersInv'
  BY <1>8, <1>0, <1>a, ClerkTurns DEF GiveUp
<1>9. CASE UNCHANGED letterVars
  BY <1>9 DEF letterVars, LettersInv, LettersTypeOK, LettersFinal, SentShape, ClerkShape
<1> QED BY <1>1, <1>2, <1>3, <1>4, <1>5, <1>6, <1>7, <1>8, <1>9 DEF LettersNext

\* finalizeAndSend: what the buyer is told of is final, for any number of
\* letters, of clerks and of versions.
THEOREM LettersStayFinal == LettersInit /\ [][LettersNext]_letterVars => []LettersFinal
<1>1. LettersInv => LettersFinal
  BY DEF LettersInv
<1> QED BY LettersInitial, LettersStep, <1>1, PTL

-----------------------------------------------------------------------------
(* Settlements.                                                            *)

\* What the stages rely on when they write by id: the row they read is never
\* deleted, a request that may close it has seen its booking, and a booking
\* belongs to a settlement.
StageShape ==
  \A r \in SettlementCalls :
    /\ stage[r].op \in {"repay", "book", "close", "notify"}
         => settlement[stage[r].inv] # NoSettlement
    /\ stage[r].op \in {"close", "notify"} => booking[stage[r].inv] # {}

BookingShape ==
  \A i \in SettledInvoices : booking[i] # {} => settlement[i] # NoSettlement

\* A job that may still be tried has an attempt left.
SettleJobShape ==
  \A i \in SettledInvoices :
    settleJob[i].state \in {"waiting", "checked"}
      => settleJob[i].attempts < SettlementAttempts

SettlementsInv ==
  SettlementsTypeOK /\ ProfitIsBooked /\ StageShape /\ BookingShape /\ SettleJobShape

LEMMA StageFields ==
  ASSUME NEW q \in Stage
  PROVE  /\ q.op \in {"initiate", "repay", "book", "close", "notify"} =>
              /\ q.inv \in SettledInvoices
              /\ [q EXCEPT !.op = "notify"] \in Stage
              /\ [q EXCEPT !.op = "notify"].op = "notify"
              /\ [q EXCEPT !.op = "notify"].inv = q.inv
  BY DEF Stage

LEMMA SettlementFields ==
  ASSUME NEW y \in Settlement, y # NoSettlement,
         NEW s \in {"pending", "facility_repaid", "profit_booked", "closed"}
  PROVE  LET z == [y EXCEPT !.status = s] IN
         /\ z \in Settlement /\ z # NoSettlement /\ z.status = s /\ z.net = y.net
         /\ y.net \in Int
  BY DEF Settlement, NoSettlement

LEMMA BookedFields ==
  ASSUME NEW y \in Settlement, y # NoSettlement, NEW p \in Int
  PROVE  LET z == [y EXCEPT !.status = "profit_booked", !.net = p] IN
         z \in Settlement /\ z # NoSettlement /\ z.net = p
  BY DEF Settlement, NoSettlement

LEMMA SettlementsInitial ==
  ASSUME SettlementsInit
  PROVE  SettlementsInv
  BY SettlementsAssumption
     DEF SettlementsInit, SettlementsInv, SettlementsTypeOK, ProfitIsBooked, StageShape,
         BookingShape, SettleJobShape, Settlement, NoSettlement, SettleJob, Stage

\* Steps that touch the job only.
LEMMA JobMoves ==
  ASSUME SettlementsInv, NEW i \in SettledInvoices,
         settleJob[i].state \in {"waiting", "checked"},
         \/ JobGoes(i, "checked") \/ JobGoes(i, "done") \/ FailAttempt(i)
  PROVE  settleJob' \in [SettledInvoices -> SettleJob] /\ SettleJobShape'
<1>1. /\ settleJob \in [SettledInvoices -> SettleJob]
      /\ settleJob[i].attempts \in Nat /\ settleJob[i].attempts < SettlementAttempts
      /\ SettlementAttempts \in Nat
  BY SettlementsAssumption DEF SettlementsInv, SettlementsTypeOK, SettleJobShape, SettleJob
<1>2. CASE JobGoes(i, "checked") \/ JobGoes(i, "done")
  BY <1>1, <1>2 DEF JobGoes, SettlementsInv, SettleJobShape, SettleJob
<1>3. CASE FailAttempt(i)
  <2> DEFINE n == settleJob[i].attempts + 1
             z == [attempts |-> n,
                   state |-> IF n < SettlementAttempts THEN "waiting" ELSE "failed"]
  <2>1. settleJob' = [settleJob EXCEPT ![i] = z]
    BY <1>3 DEF FailAttempt
  <2>2. z \in SettleJob /\ (z.state \in {"waiting", "checked"} => z.attempts < SettlementAttempts)
    BY <1>1 DEF SettleJob
  <2> HIDE DEF z
  <2> QED BY <1>1, <2>1, <2>2 DEF SettlementsInv, SettleJobShape
<1> QED BY <1>2, <1>3

\* Steps that change what a request is about and nothing else.
LEMMA StageMoves ==
  ASSUME SettlementsInv, NEW r \in SettlementCalls, NEW q \in Stage,
         stage' = [stage EXCEPT ![r] = q],
         UNCHANGED <<settlement, booking, settleJob, notices>>,
         q.op \in {"repay", "book", "close", "notify"} => settlement[q.inv] # NoSettlement,
         q.op \in {"close", "notify"} => booking[q.inv] # {}
  PROVE  SettlementsInv'
<1>1. SettlementsTypeOK'
  BY DEF SettlementsInv, SettlementsTypeOK
<1>2. StageShape'
  BY DEF SettlementsInv, SettlementsTypeOK, StageShape
<1>3. ProfitIsBooked' /\ BookingShape' /\ SettleJobShape'
  BY DEF SettlementsInv, ProfitIsBooked, BookingShape, SettleJobShape
<1> QED BY <1>1, <1>2, <1>3 DEF SettlementsInv

\* A settlement is inserted where there was none.
LEMMA Inserts ==
  ASSUME SettlementsInv, NEW i \in SettledInvoices, NEW k \in {"job", "http"},
         settlement[i] = NoSettlement, Insert(i, k), UNCHANGED <<booking, notices>>,
         settleJob' \in [SettledInvoices -> SettleJob], SettleJobShape',
         stage' \in [SettlementCalls -> Stage],
         \A r \in SettlementCalls : stage'[r] = stage[r] \/ stage'[r] = [op |-> "done"]
  PROVE  SettlementsInv'
<1> DEFINE z == [status |-> "pending", key |-> k, net |-> 0]
<1>1. z \in Settlement /\ z # NoSettlement /\ z.status = "pending"
  BY DEF Settlement, NoSettlement
<1>2. settlement' = [settlement EXCEPT ![i] = z]
  BY DEF Insert
<1> HIDE DEF z
<1>3. settlement \in [SettledInvoices -> Settlement]
  BY DEF SettlementsInv, SettlementsTypeOK
<1>4. settlement'[i] = z /\ \A j \in SettledInvoices : j # i => settlement'[j] = settlement[j]
  BY <1>2, <1>3
<1>5. SettlementsTypeOK'
  BY <1>1, <1>2 DEF SettlementsInv, SettlementsTypeOK
<1>6. booking[i] = {}
  BY DEF SettlementsInv, BookingShape
<1>7. ProfitIsBooked' /\ BookingShape'
  BY <1>1, <1>4, <1>6 DEF SettlementsInv, ProfitIsBooked, BookingShape
<1>8. StageShape'
  <2> SUFFICES ASSUME NEW r \in SettlementCalls, stage'[r] = stage[r]
               PROVE  /\ stage[r].op \in {"repay", "book", "close", "notify"}
                           => settlement'[stage[r].inv] # NoSettlement
                      /\ stage[r].op \in {"close", "notify"} => booking'[stage[r].inv] # {}
    BY DEF StageShape
  <2>1. stage[r] \in Stage
    BY DEF SettlementsInv, SettlementsTypeOK
  <2>2. stage[r].op \in {"repay", "book", "close", "notify"} => stage[r].inv \in SettledInvoices
    BY <2>1, StageFields
  <2> QED BY <1>1, <1>4, <2>2 DEF SettlementsInv, StageShape
<1> QED BY <1>5, <1>7, <1>8 DEF SettlementsInv

\* A settlement is written by id, by a request that has read it.
LEMMA Writes ==
  ASSUME SettlementsInv, NEW i \in SettledInvoices, NEW z \in Settlement, z # NoSettlement,
         settlement' = [settlement EXCEPT ![i] = z], NEW b \in SUBSET Int,
         booking' = [booking EXCEPT ![i] = b], UNCHANGED <<settleJob, notices>>,
         booking[i] # {} => b # {},
         z.status \in {"profit_booked", "closed"} => b # {},
         b # {} => b = {z.net},
         stage' \in [SettlementCalls -> Stage],
         \A r \in SettlementCalls :
           \/ stage'[r] = stage[r]
           \/ stage'[r] = [op |-> "done"]
           \/ stage'[r].op = "notify" /\ stage'[r].inv = i /\ b # {}
  PROVE  SettlementsInv'
<1>1. /\ settlement \in [SettledInvoices -> Settlement]
      /\ booking \in [SettledInvoices -> SUBSET Int]
  BY DEF SettlementsInv, SettlementsTypeOK
<1>2. SettlementsTypeOK'
  BY DEF SettlementsInv, SettlementsTypeOK
<1>3. /\ settlement'[i] = z /\ booking'[i] = b
      /\ \A j \in SettledInvoices : j # i => settlement'[j] = settlement[j] /\ booking'[j] = booking[j]
  BY <1>1
<1>4. ProfitIsBooked' /\ BookingShape' /\ SettleJobShape'
  BY <1>3 DEF SettlementsInv, ProfitIsBooked, BookingShape, SettleJobShape
<1>5. StageShape'
  <2> SUFFICES ASSUME NEW r \in SettlementCalls
               PROVE  /\ stage'[r].op \in {"repay", "book", "close", "notify"}
                           => settlement'[stage'[r].inv] # NoSettlement
                      /\ stage'[r].op \in {"close", "notify"} => booking'[stage'[r].inv] # {}
    BY DEF StageShape
  <2>1. CASE stage'[r] = stage[r]
    <3>1. stage[r] \in Stage
      BY DEF SettlementsInv, SettlementsTypeOK
    <3>2. stage[r].op \in {"repay", "book", "close", "notify"} => stage[r].inv \in SettledInvoices
      BY <3>1, StageFields
    <3> QED BY <1>3, <2>1, <3>2 DEF SettlementsInv, StageShape
  <2>2. CASE stage'[r] = [op |-> "done"]
    BY <2>2
  <2>3. CASE stage'[r].op = "notify" /\ stage'[r].inv = i /\ b # {}
    BY <2>3, <1>3
  <2> QED BY <2>1, <2>2, <2>3
<1> QED BY <1>2, <1>4, <1>5 DEF SettlementsInv

LEMMA SettlementsStep ==
  ASSUME SettlementsInv, [SettlementsNext]_settlementVars
  PROVE  SettlementsInv'
<1>0. /\ settlement \in [SettledInvoices -> Settlement]
      /\ booking \in [SettledInvoices -> SUBSET Int]
      /\ stage \in [SettlementCalls -> Stage] /\ notices \in [SettledInvoices -> Nat]
  BY DEF SettlementsInv, SettlementsTypeOK
<1>a. [op |-> "done"] \in Stage
  BY DEF Stage
<1>b. \A r \in SettlementCalls : Leave(r) =>
        /\ stage' \in [SettlementCalls -> Stage]
        /\ \A q \in SettlementCalls : stage'[q] = stage[q] \/ stage'[q] = [op |-> "done"]
  BY <1>0, <1>a DEF Leave
<1>c. ASSUME NEW i \in SettledInvoices, settleJob' \in [SettledInvoices -> SettleJob],
             SettleJobShape', UNCHANGED <<settlement, booking, stage, notices>>
      PROVE  SettlementsInv'
  BY <1>c DEF SettlementsInv, SettlementsTypeOK, ProfitIsBooked, StageShape, BookingShape
<1>1. ASSUME NEW i \in SettledInvoices, InitiateByJob(i)
      PROVE  SettlementsInv'
  <2>1. settleJob' \in [SettledInvoices -> SettleJob] /\ SettleJobShape'
    BY <1>1, JobMoves DEF InitiateByJob
  <2> QED BY <1>1, <1>c, <2>1 DEF InitiateByJob
<1>2. ASSUME NEW i \in SettledInvoices, ExecuteInitiateByJob(i)
      PROVE  SettlementsInv'
  <2>1. settleJob' \in [SettledInvoices -> SettleJob] /\ SettleJobShape'
    BY <1>2, JobMoves DEF ExecuteInitiateByJob
  <2>2. UNCHANGED <<booking, stage, notices>>
    BY <1>2 DEF ExecuteInitiateByJob
  <2>3. CASE settlement[i] = NoSettlement
    <3>1. Insert(i, "job")
      BY <1>2, <2>3 DEF ExecuteInitiateByJob
    <3> QED BY <2>1, <2>2, <2>3, <3>1, <1>0, Inserts
  <2>4. CASE settlement[i] # NoSettlement
    <3>1. UNCHANGED settlement
      BY <1>2, <2>4 DEF ExecuteInitiateByJob
    <3> QED BY <2>1, <2>2, <3>1, <1>c
  <2> QED BY <2>3, <2>4
<1>3. ASSUME NEW i \in SettledInvoices, LoseAttempt(i)
      PROVE  SettlementsInv'
  <2>1. settleJob' \in [SettledInvoices -> SettleJob] /\ SettleJobShape'
    BY <1>3, JobMoves DEF LoseAttempt
  <2> QED BY <1>3, <1>c, <2>1 DEF LoseAttempt
<1>4. ASSUME NEW r \in SettlementCalls, NEW i \in SettledInvoices,
             NEW op \in {"initiate", "repay", "book", "close"}, Enter(r, op, i),
             op \in {"repay", "book", "close"} => settlement[i] # NoSettlement,
             op = "close" => booking[i] # {}
      PROVE  SettlementsInv'
  <2> DEFINE q == [op |-> op, inv |-> i]
  <2>1. q \in Stage /\ q.op = op /\ q.inv = i
    BY DEF Stage
  <2>2. stage' = [stage EXCEPT ![r] = q] /\ UNCHANGED <<settlement, booking, settleJob, notices>>
    BY <1>4 DEF Enter
  <2> HIDE DEF q
  <2> QED BY <1>4, <2>1, <2>2, StageMoves
<1>5. ASSUME NEW r \in SettlementCalls, NEW i \in SettledInvoices, InitiateSettlement(r, i)
      PROVE  SettlementsInv'
  BY <1>5, <1>4 DEF InitiateSettlement
<1>6. ASSUME NEW r \in SettlementCalls, NEW i \in SettledInvoices, RepayFacility(r, i)
      PROVE  SettlementsInv'
  <2>1. settlement[i] # NoSettlement
    BY <1>6 DEF RepayFacility, AllowsTransition, NoSettlement
  <2> QED BY <1>6, <2>1, <1>4 DEF RepayFacility
<1>7. ASSUME NEW r \in SettlementCalls, NEW i \in SettledInvoices, BookProfit(r, i)
      PROVE  SettlementsInv'
  <2>1. settlement[i] # NoSettlement
    BY <1>7 DEF BookProfit, AllowsTransition, NoSettlement
  <2> QED BY <1>7, <2>1, <1>4 DEF BookProfit
<1>8. ASSUME NEW r \in SettlementCalls, NEW i \in SettledInvoices, CloseSettlement(r, i)
      PROVE  SettlementsInv'
  <2>1. settlement[i].status = "profit_booked"
    BY <1>8 DEF CloseSettlement, AllowsTransition
  <2>2. settlement[i] # NoSettlement /\ booking[i] # {}
    BY <2>1 DEF NoSettlement, SettlementsInv, ProfitIsBooked
  <2> QED BY <1>8, <2>2, <1>4 DEF CloseSettlement
<1>9. ASSUME NEW r \in SettlementCalls, ExecuteInitiateTxn(r)
      PROVE  SettlementsInv'
  <2>1. stage[r].inv \in SettledInvoices
    BY <1>9, <1>0, StageFields DEF ExecuteInitiateTxn
  <2>2. settleJob' \in [SettledInvoices -> SettleJob] /\ SettleJobShape'
    BY <1>9 DEF ExecuteInitiateTxn, SettlementsInv, SettlementsTypeOK, SettleJobShape
  <2> QED BY <1>9, <1>b, <2>1, <2>2, Inserts DEF ExecuteInitiateTxn
<1>10. ASSUME NEW r \in SettlementCalls, ExecuteRepayFacilityTxn(r)
       PROVE  SettlementsInv'
  <2> DEFINE i == stage[r].inv
             z == [settlement[i] EXCEPT !.status = "facility_repaid"]
             b == booking[i]
  <2>1. i \in SettledInvoices /\ settlement[i] # NoSettlement
    BY <1>10, <1>0, StageFields DEF ExecuteRepayFacilityTxn, SettlementsInv, StageShape
  <2>2. /\ z \in Settlement /\ z # NoSettlement /\ z.status = "facility_repaid"
        /\ z.net = settlement[i].net
    BY <2>1, <1>0, SettlementFields
  <2>3. settlement' = [settlement EXCEPT ![i] = z] /\ booking' = [booking EXCEPT ![i] = b]
    BY <1>10, <2>1, <1>0 DEF ExecuteRepayFacilityTxn
  <2>4. b # {} => b = {z.net}
    BY <2>1, <2>2 DEF SettlementsInv, ProfitIsBooked
  <2>5. b \in SUBSET Int /\ UNCHANGED <<settleJob, notices>> /\ Leave(r)
    BY <1>10, <2>1, <1>0 DEF ExecuteRepayFacilityTxn
  <2>6. booking[i] # {} => b # {}
    OBVIOUS
  <2> HIDE DEF z, i, b
  <2> QED BY <2>1, <2>2, <2>3, <2>4, <2>5, <2>6, <1>b, Writes
<1>11. ASSUME NEW r \in SettlementCalls, NEW p \in Profits, ExecuteBookProfitTxn(r, p)
       PROVE  SettlementsInv'
  <2> DEFINE i == stage[r].inv
             z == [settlement[i] EXCEPT !.status = "profit_booked", !.net = p]
             b == {p}
  <2>1. i \in SettledInvoices /\ settlement[i] # NoSettlement /\ p \in Int
    BY <1>11, <1>0, StageFields, SettlementsAssumption
       DEF ExecuteBookProfitTxn, SettlementsInv, StageShape
  <2>2. z \in Settlement /\ z # NoSettlement /\ z.net = p
    BY <2>1, <1>0, BookedFields
  <2>3. settlement' = [settlement EXCEPT ![i] = z] /\ booking' = [booking EXCEPT ![i] = b]
    BY <1>11, <2>1, <1>0 DEF ExecuteBookProfitTxn
  <2>4. b # {} /\ b = {z.net} /\ b \in SUBSET Int
    BY <2>1, <2>2
  <2>5. UNCHANGED <<settleJob, notices>> /\ Leave(r)
    BY <1>11 DEF ExecuteBookProfitTxn
  <2> HIDE DEF z, i, b
  <2> QED BY <2>1, <2>2, <2>3, <2>4, <2>5, <1>b, Writes
<1>12. ASSUME NEW r \in SettlementCalls, ExecuteCloseTxn(r)
       PROVE  SettlementsInv'
  <2> DEFINE i == stage[r].inv
             z == [settlement[i] EXCEPT !.status = "closed"]
             b == booking[i]
             q == [stage[r] EXCEPT !.op = "notify"]
  <2>1. i \in SettledInvoices /\ settlement[i] # NoSettlement /\ b # {}
    BY <1>12, <1>0, StageFields DEF ExecuteCloseTxn, SettlementsInv, StageShape
  <2>2. z \in Settlement /\ z # NoSettlement /\ z.net = settlement[i].net
    BY <2>1, <1>0, SettlementFields
  <2>3. settlement' = [settlement EXCEPT ![i] = z] /\ booking' = [booking EXCEPT ![i] = b]
    BY <1>12, <2>1, <1>0 DEF ExecuteCloseTxn
  <2>4. b = {z.net}
    BY <2>1, <2>2 DEF SettlementsInv, ProfitIsBooked
  <2>5. b \in SUBSET Int /\ UNCHANGED <<settleJob, notices>>
    BY <1>12, <2>1, <1>0 DEF ExecuteCloseTxn
  <2>6. q \in Stage /\ q.op = "notify" /\ q.inv = i
    BY <1>12, <1>0, StageFields DEF ExecuteCloseTxn
  <2>7. stage' = [stage EXCEPT ![r] = q]
    BY <1>12, <1>0 DEF ExecuteCloseTxn
  <2> HIDE DEF z, i, b, q
  <2>8. stage' \in [SettlementCalls -> Stage]
    BY <2>6, <2>7, <1>0
  <2>9. stage'[r] = q /\ \A c \in SettlementCalls : c # r => stage'[c] = stage[c]
    BY <2>7, <1>0
  <2>10. \A c \in SettlementCalls :
           \/ stage'[c] = stage[c]
           \/ stage'[c] = [op |-> "done"]
           \/ stage'[c].op = "notify" /\ stage'[c].inv = i /\ b # {}
    BY <2>1, <2>6, <2>9
  <2> QED BY <2>1, <2>2, <2>3, <2>4, <2>5, <2>8, <2>10, Writes
<1>13. ASSUME NEW r \in SettlementCalls, QueueSettlementNotification(r)
       PROVE  SettlementsInv'
  <2> DEFINE i == stage[r].inv
  <2>1. i \in SettledInvoices /\ booking[i] # {}
    BY <1>13, <1>0, StageFields DEF QueueSettlementNotification, SettlementsInv, StageShape
  <2>2. /\ notices' = [notices EXCEPT ![i] = notices[i] + 1] /\ Leave(r)
        /\ UNCHANGED <<settlement, booking, settleJob>>
    BY <1>13 DEF QueueSettlementNotification
  <2> HIDE DEF i
  <2>3. SettlementsTypeOK'
    BY <2>1, <2>2, <1>b DEF SettlementsInv, SettlementsTypeOK
  <2>4. ProfitIsBooked'
    BY <2>1, <2>2, <1>0 DEF SettlementsInv, ProfitIsBooked
  <2>5. StageShape'
    <3>1. \A c \in SettlementCalls : stage'[c] = stage[c] \/ stage'[c] = [op |-> "done"]
      BY <2>2, <1>b
    <3> QED BY <2>2, <3>1 DEF SettlementsInv, StageShape
  <2>6. BookingShape' /\ SettleJobShape'
    BY <2>2 DEF SettlementsInv, BookingShape, SettleJobShape
  <2> QED BY <2>3, <2>4, <2>5, <2>6 DEF SettlementsInv
<1>14. ASSUME NEW r \in SettlementCalls, AbandonStage(r)
       PROVE  SettlementsInv'
  BY <1>14, <1>a, StageMoves DEF AbandonStage, Leave
<1>15. CASE UNCHANGED settlementVars
  BY <1>15 DEF settlementVars, SettlementsInv, SettlementsTypeOK, ProfitIsBooked,
               StageShape, BookingShape, SettleJobShape
<1> QED BY <1>1, <1>2, <1>3, <1>5, <1>6, <1>7, <1>8, <1>9, <1>10, <1>11, <1>12, <1>13,
           <1>14, <1>15 DEF SettlementsNext

\* closeSettlement: no order of the stages of any number of requests closes or
\* announces a settlement without its booking.
THEOREM ProfitStaysBooked ==
  SettlementsInit /\ [][SettlementsNext]_settlementVars => []ProfitIsBooked
<1>1. SettlementsInv => ProfitIsBooked
  BY DEF SettlementsInv
<1> QED BY SettlementsInitial, SettlementsStep, <1>1, PTL

-----------------------------------------------------------------------------
(* Sums over finite sets.  The recursion of MapThenSumSet is well founded, *)
(* and a sum changes by what one of its amounts changes.                   *)

\* Induction over the subsets of a finite set, with P for the property.
LEMMA SubsetInduction ==
  ASSUME NEW S, IsFiniteSet(S), NEW P,
         ASSUME NEW s \in SUBSET S, \A u \in SUBSET S : u \subseteq s /\ u # s => u \in P
         PROVE  s \in P
  PROVE  \A s \in SUBSET S : s \in P
<1> DEFINE Bad == (SUBSET S) \ P
<1>1. SUFFICES ASSUME Bad # {} PROVE FALSE
  OBVIOUS
<1>2. IsWellFoundedOn(StrictSubsetOrdering(S), FiniteSubsetsOf(S))
  BY FS_StrictSubsetOrderingWellFounded
<1>3. FiniteSubsetsOf(S) = SUBSET S /\ Bad \subseteq SUBSET S
  BY FS_FiniteSubsetsOfFinite
<1> HIDE DEF Bad
<1>4. PICK t \in Bad : \A u \in Bad : ~ (<<u, t>> \in StrictSubsetOrdering(S))
  BY <1>1, <1>2, <1>3, WFMin
<1>5. \A u \in SUBSET S : u \subseteq t /\ u # t => u \in P
  BY <1>4, <1>3 DEF StrictSubsetOrdering, Bad
<1> QED BY <1>4, <1>5 DEF Bad

Some(s) == CHOOSE x \in s : TRUE
Without(s) == s \ {Some(s)}

\* g gives the sums of the amounts w over the subsets of S.
SumsOf(g, w, S) ==
  g = [s \in SUBSET S |-> IF s = {} THEN 0 ELSE w[Some(s)] + g[Without(s)]]

LEMMA WithoutSome ==
  ASSUME NEW s, s # {}
  PROVE  Some(s) \in s /\ Without(s) \subseteq s /\ Without(s) # s
  BY DEF Some, Without

LEMMA SumsEmpty ==
  ASSUME NEW w, NEW S, NEW g, SumsOf(g, w, S)
  PROVE  g[{}] = 0
<1>1. {} \in SUBSET S
  OBVIOUS
<1> QED BY <1>1 DEF SumsOf

LEMMA SumsUnfold ==
  ASSUME NEW w, NEW S, NEW g, SumsOf(g, w, S), NEW s \in SUBSET S, s # {}
  PROVE  g[s] = w[Some(s)] + g[Without(s)]
  BY DEF SumsOf

LEMMA SumsAgree ==
  ASSUME NEW w, NEW S, NEW T, IsFiniteSet(S), NEW g, SumsOf(g, w, S), NEW h, SumsOf(h, w, T),
         NEW t \in SUBSET S, t \in SUBSET T
  PROVE  g[t] = h[t]
<1> DEFINE P == {s \in SUBSET S : s \subseteq T => g[s] = h[s]}
<1>1. ASSUME NEW s \in SUBSET S, \A u \in SUBSET S : u \subseteq s /\ u # s => u \in P
      PROVE  s \in P
  <2> SUFFICES ASSUME s \in SUBSET T PROVE g[s] = h[s]
    OBVIOUS
  <2>1. CASE s = {}
    BY <2>1, SumsEmpty
  <2>2. CASE s # {}
    <3>1. Without(s) \in SUBSET S /\ Without(s) \subseteq T /\ Without(s) # s
          /\ Without(s) \subseteq s
      BY <2>2, WithoutSome
    <3>2. g[Without(s)] = h[Without(s)]
      BY <1>1, <3>1
    <3>3. g[s] = w[Some(s)] + g[Without(s)]
      BY <2>2, SumsUnfold
    <3>4. h[s] = w[Some(s)] + h[Without(s)]
      BY <2>2, SumsUnfold
    <3> QED BY <3>2, <3>3, <3>4
  <2> QED BY <2>1, <2>2
<1> HIDE DEF P
<1>2. t \in P
  BY <1>1, SubsetInduction
<1> QED BY <1>2 DEF P

LEMMA SumsExist ==
  ASSUME NEW w, NEW S, IsFiniteSet(S)
  PROVE  \E g : SumsOf(g, w, S)
<1> DEFINE P == {s \in SUBSET S : \E g : SumsOf(g, w, s)}
<1>1. SUFFICES ASSUME NEW t \in SUBSET S,
                      \A u \in SUBSET S : u \subseteq t /\ u # t => u \in P
               PROVE  t \in P
  <2> HIDE DEF P
  <2>1. S \in P
    BY <1>1, SubsetInduction
  <2> QED BY <2>1 DEF P
<1> DEFINE G(s) == CHOOSE g : SumsOf(g, w, s)
           h == [s \in SUBSET t |->
                   IF s = t THEN (IF t = {} THEN 0 ELSE w[Some(t)] + G(Without(t))[Without(t)])
                            ELSE G(s)[s]]
<1>3. \A s \in SUBSET t : s # t => SumsOf(G(s), w, s)
  BY <1>1
<1>4. \A s \in SUBSET t : IsFiniteSet(s)
  BY FS_Subset
<1> HIDE DEF G
<1>5. ASSUME NEW s \in SUBSET t
      PROVE  h[s] = IF s = {} THEN 0 ELSE w[Some(s)] + h[Without(s)]
  <2>1. CASE s = t /\ s = {}
    BY <2>1
  <2>2. CASE s = t /\ s # {}
    <3>1. Without(s) \in SUBSET t /\ Without(s) # t
      BY <2>2, WithoutSome
    <3>2. h[Without(s)] = G(Without(s))[Without(s)]
      BY <3>1
    <3> QED BY <2>2, <3>2
  <2>3. CASE s # t /\ s = {}
    <3>1. h[s] = G(s)[s]
      BY <2>3
    <3>2. SumsOf(G(s), w, s)
      BY <2>3, <1>3
    <3> QED BY <2>3, <3>1, <3>2, SumsEmpty
  <2>4. CASE s # t /\ s # {}
    <3> DEFINE r == Without(s)
    <3>1. r \in SUBSET s /\ r # s
      BY <2>4, WithoutSome
    <3>2. r \in SUBSET t /\ r # t
      BY <3>1, <2>4
    <3>3. h[s] = G(s)[s] /\ h[r] = G(r)[r]
      BY <2>4, <3>2
    <3>4. SumsOf(G(s), w, s) /\ SumsOf(G(r), w, r)
      BY <2>4, <3>2, <1>3
    <3>5. G(s)[s] = w[Some(s)] + G(s)[r]
      BY <2>4, <3>4, SumsUnfold
    <3>6. G(s)[r] = G(r)[r]
      BY <3>1, <3>4, <1>4, SumsAgree
    <3> QED BY <2>4, <3>3, <3>5, <3>6
  <2> QED BY <2>1, <2>2, <2>3, <2>4
<1>6. SumsOf(h, w, t)
  <2>1. h = [s \in SUBSET t |-> h[s]]
    OBVIOUS
  <2> HIDE DEF h
  <2>2. h = [s \in SUBSET t |-> IF s = {} THEN 0 ELSE w[Some(s)] + h[Without(s)]]
    BY <2>1, <1>5
  <2> QED BY <2>2 DEF SumsOf
<1> QED BY <1>6

LEMMA TotalIsSum ==
  ASSUME NEW w, IsFiniteSet(DOMAIN w)
  PROVE  \E g : SumsOf(g, w, DOMAIN w) /\ TotalOf(w) = g[DOMAIN w]
<1> DEFINE G == CHOOSE g : SumsOf(g, w, DOMAIN w)
<1>1. TotalOf(w) = G[DOMAIN w]
  BY DEF TotalOf, MapThenSumSet, MapThenFoldSet, SumsOf, Some, Without
<1>2. SumsOf(G, w, DOMAIN w)
  BY SumsExist, Zenon
<1> QED BY <1>1, <1>2, Zenon

\* The sum of integers is one, and follows a change of one of them.
LEMMA TotalFollows ==
  ASSUME NEW S, IsFiniteSet(S), NEW w \in [S -> Int], NEW v \in [S -> Int], NEW x \in S,
         \A y \in S : y # x => v[y] = w[y]
  PROVE  /\ TotalOf(w) \in Int
         /\ TotalOf(v) = TotalOf(w) + (v[x] - w[x])
<1>1. PICK g : SumsOf(g, w, S) /\ TotalOf(w) = g[S]
  BY TotalIsSum
<1>2. PICK h : SumsOf(h, v, S) /\ TotalOf(v) = h[S]
  BY TotalIsSum
<1> DEFINE Fine(s) == /\ g[s] \in Int
                      /\ h[s] = g[s] + (IF x \in s THEN v[x] - w[x] ELSE 0)
           P == {s \in SUBSET S : Fine(s)}
<1>3. ASSUME NEW t \in SUBSET S, \A u \in SUBSET S : u \subseteq t /\ u # t => u \in P
      PROVE  t \in P
  <2> SUFFICES Fine(t)
    OBVIOUS
  <2>1. CASE t = {}
    BY <2>1, <1>1, <1>2, SumsEmpty
  <2>2. SUFFICES ASSUME t # {} PROVE Fine(t)
    BY <2>1
  <2> DEFINE r == Without(t)
             y == Some(t)
  <2>4. y \in t /\ r \in SUBSET S /\ r \subseteq t /\ r # t
    BY <2>2, WithoutSome
  <2>5. Fine(r)
    BY <1>3, <2>4
  <2>6. g[t] = w[y] + g[r]
    BY <2>2, <1>1, SumsUnfold
  <2>7. h[t] = v[y] + h[r]
    BY <2>2, <1>2, SumsUnfold
  <2>8. x \in t <=> x \in r \/ x = y
    BY <2>4 DEF Without
  <2>9. y \notin r
    BY DEF Without
  <2>10. w[y] \in Int /\ v[y] \in Int /\ w[x] \in Int /\ v[x] \in Int
    BY <2>4
  <2> HIDE DEF r, y
  <2> QED BY <2>4, <2>5, <2>6, <2>7, <2>8, <2>9, <2>10
<1>4. S \in P
  <2> HIDE DEF P
  <2> QED BY <1>3, SubsetInduction
<1> QED BY <1>1, <1>2, <1>4

LEMMA TotalOfZeros ==
  ASSUME NEW S, IsFiniteSet(S)
  PROVE  TotalOf([x \in S |-> 0]) = 0
<1> DEFINE w == [x \in S |-> 0]
<1>1. PICK g : SumsOf(g, w, S) /\ TotalOf(w) = g[S]
  <2>1. DOMAIN w = S
    OBVIOUS
  <2> HIDE DEF w
  <2> QED BY <2>1, TotalIsSum
<1> DEFINE P == {s \in SUBSET S : g[s] = 0}
<1>2. ASSUME NEW t \in SUBSET S, \A u \in SUBSET S : u \subseteq t /\ u # t => u \in P
      PROVE  t \in P
  <2>1. CASE t = {}
    BY <2>1, <1>1, SumsEmpty
  <2>2. CASE t # {}
    <3>1. Some(t) \in S /\ Without(t) \in SUBSET S /\ Without(t) \subseteq t /\ Without(t) # t
      BY <2>2, WithoutSome
    <3>2. g[Without(t)] = 0 /\ w[Some(t)] = 0
      BY <1>2, <3>1
    <3> HIDE DEF w
    <3>3. g[t] = w[Some(t)] + g[Without(t)]
      BY <2>2, <1>1, SumsUnfold
    <3> QED BY <3>2, <3>3
  <2> QED BY <2>1, <2>2
<1>3. S \in P
  <2> HIDE DEF P
  <2> QED BY <1>2, SubsetInduction
<1> QED BY <1>1, <1>3

-----------------------------------------------------------------------------
(* Facilities.                                                             *)

\* An accrual that was read and not yet written: its drawdown exists, its
\* days lie ahead of the date it read, and the bank has been promised the
\* interest up to that date.  (The date itself may have moved back since: a
\* slower run writes its own.)
AccrualShape ==
  \A a \in Accruals : \A p \in accrual[a] :
    /\ drawdown[p.dd] # NoDrawdown
    /\ p.last < p.until
    /\ drawdown[p.dd].interest >= p.last - drawdown[p.dd].opened

FacilitiesInv == FacilitiesTypeOK /\ BooksBalance /\ AccrualShape

\* calculateUtilisation does not round a facility at 90% below the threshold.
LEMMA UtilisationReached ==
  ASSUME NEW limit \in Nat \ {0}, NEW drawn \in Nat, drawn * 10 >= limit * 9
  PROVE  CalculateUtilisation(drawn, limit) >= 9000
<1> DEFINE n == drawn * 10000
           q == n \div limit
<1>1. n >= 9000 * limit /\ n \in Nat
  OBVIOUS
<1>2. q \in Int /\ n < limit * (q + 1)
  <2>1. q \in Int /\ n = limit * q + (n % limit) /\ n % limit < limit /\ n % limit \in Nat
    BY <1>1
  <2> QED BY <2>1
<1> HIDE DEF n, q
<1>3. q >= 9000
  <2> SUFFICES ASSUME q + 1 <= 9000 PROVE FALSE
    BY <1>2
  <2>1. limit * (q + 1) <= limit * 9000
    BY <1>2
  <2> QED BY <2>1, <1>1, <1>2
<1> QED BY <1>3 DEF CalculateUtilisation, n, q

LEMMA DrawdownFields ==
  ASSUME NEW y \in Drawdown, y # NoDrawdown
  PROVE  /\ y.status \in {"active", "repaid"} /\ y.fac \in BankFacilities
         /\ y.principal \in Nat \ {0} /\ y.opened \in Nat /\ y.interest \in Nat
         /\ y.last \in Nat
  BY DEF Drawdown, NoDrawdown

LEMMA RepaidFields ==
  ASSUME NEW y \in Drawdown, y # NoDrawdown
  PROVE  LET z == [y EXCEPT !.status = "repaid"] IN
         /\ z \in Drawdown /\ z # NoDrawdown /\ z.status = "repaid" /\ z.last = y.last
         /\ z.opened = y.opened /\ z.interest = y.interest
  BY DEF Drawdown, NoDrawdown

LEMMA BooksTypes ==
  ASSUME NEW rows \in [BankFacilities -> Facility], NEW dds \in [Drawdowns -> Drawdown]
  PROVE  /\ [f \in BankFacilities |-> rows[f].drawn] \in [BankFacilities -> Int]
         /\ [d \in Drawdowns |-> IF dds[d].status = "active" THEN dds[d].principal ELSE 0]
              \in [Drawdowns -> Int]
<1>1. ASSUME NEW d \in Drawdowns, dds[d].status = "active"
      PROVE  dds[d].principal \in Nat
  BY <1>1, DrawdownFields DEF NoDrawdown
<1>2. \A d \in Drawdowns : (IF dds[d].status = "active" THEN dds[d].principal ELSE 0) \in Int
  BY <1>1
<1>3. \A f \in BankFacilities : rows[f].drawn \in Int
  BY DEF Facility
<1> QED BY <1>2, <1>3

LEMMA FacilitiesInitial ==
  ASSUME FacilitiesInit
  PROVE  FacilitiesInv
<1>1. FacilitiesTypeOK
  BY FacilitiesAssumption
     DEF FacilitiesInit, FacilitiesTypeOK, Facility, Drawdown, NoDrawdown
<1>2. Drawn = [f \in BankFacilities |-> 0] /\ Owed = [d \in Drawdowns |-> 0]
  BY DEF FacilitiesInit, Drawn, Owed, NoDrawdown
<1>3. TotalOf(Drawn) = 0 /\ TotalOf(Owed) = 0
  BY <1>2, TotalOfZeros, FacilitiesAssumption
<1>4. DrawnIsOwed
  BY <1>3 DEF FacilitiesInit, DrawnIsOwed, NoDrawdown
<1>5. InterestNotLost /\ LimitGuarded /\ AccrualShape
  BY FacilitiesAssumption
     DEF FacilitiesInit, InterestNotLost, LimitGuarded, AccrualShape, NoDrawdown
<1> QED BY <1>1, <1>4, <1>5 DEF FacilitiesInv, BooksBalance

\* The books after a facility and a drawdown have changed by the same amount.
LEMMA BooksMove ==
  ASSUME NEW w \in [BankFacilities -> Int], NEW v \in [BankFacilities -> Int],
         NEW o \in [Drawdowns -> Int], NEW u \in [Drawdowns -> Int],
         NEW f \in BankFacilities, \A g \in BankFacilities : g # f => v[g] = w[g],
         NEW d \in Drawdowns, \A e \in Drawdowns : e # d => u[e] = o[e],
         v[f] - w[f] = u[d] - o[d], TotalOf(w) = TotalOf(o)
  PROVE  TotalOf(v) = TotalOf(u)
<1>1. TotalOf(v) = TotalOf(w) + (v[f] - w[f])
  BY TotalFollows, FacilitiesAssumption
<1>2. TotalOf(u) = TotalOf(o) + (u[d] - o[d])
  BY TotalFollows, FacilitiesAssumption
<1> QED BY <1>1, <1>2

LEMMA StatusGuards ==
  ASSUME FacilitiesTypeOK, NEW f \in BankFacilities, NEW n \in Nat
  PROVE  /\ StatusAt(f, n) \in {"active", "suspended"}
         /\ n * 10 >= TotalLimit[f] * 9 => StatusAt(f, n) = "suspended"
         /\ StatusAt(f, n) # facility[f].status => StatusAt(f, n) = "suspended"
<1>1. facility[f].status \in {"active", "suspended"}
  BY DEF FacilitiesTypeOK, Facility
<1>2. TotalLimit[f] \in Nat \ {0}
  BY FacilitiesAssumption
<1> QED BY <1>1, <1>2, UtilisationReached DEF StatusAt

LEMMA CreateDrawdownStep ==
  ASSUME FacilitiesInv, NEW f \in BankFacilities, NEW d \in Drawdowns,
         NEW p \in Principals, NEW due \in DueDays, CreateDrawdown(f, d, p, due)
  PROVE  FacilitiesInv'
<1> DEFINE n == facility[f].drawn + p
           y == [status |-> "active", fac |-> f, principal |-> p,
                 opened |-> today, interest |-> 0, last |-> today]
           x == [status |-> StatusAt(f, n), drawn |-> n]
<1>1. /\ facility \in [BankFacilities -> Facility] /\ drawdown \in [Drawdowns -> Drawdown]
      /\ facility[f].drawn \in Nat /\ today \in Nat /\ p \in Nat /\ p > 0
      /\ TotalLimit[f] \in Nat \ {0} /\ drawdown[d] = NoDrawdown
      /\ n \in Nat /\ n <= TotalLimit[f]
  <2>1. /\ facility \in [BankFacilities -> Facility] /\ drawdown \in [Drawdowns -> Drawdown]
        /\ facility[f].drawn \in Nat /\ today \in Nat
    BY FacilitiesAssumption DEF FacilitiesInv, FacilitiesTypeOK, Facility
  <2>2. p \in Nat /\ TotalLimit[f] \in Nat \ {0}
    BY FacilitiesAssumption
  <2>3. drawdown[d] = NoDrawdown /\ p > 0 /\ p <= TotalLimit[f] - facility[f].drawn
    BY DEF CreateDrawdown, FitsAvailable
  <2> QED BY <2>1, <2>2, <2>3
<1>2. /\ drawdown' = [drawdown EXCEPT ![d] = y] /\ facility' = [facility EXCEPT ![f] = x]
      /\ UNCHANGED <<repayments, today, accrual>>
  BY DEF CreateDrawdown
<1>3. /\ y \in Drawdown /\ y # NoDrawdown /\ y.status = "active" /\ y.principal = p
      /\ y.opened = today /\ y.interest = 0 /\ y.last = today
  BY <1>1 DEF Drawdown, NoDrawdown
<1>4. /\ x \in Facility /\ x.drawn = n
      /\ n * 10 >= TotalLimit[f] * 9 => x.status = "suspended"
  BY <1>1, StatusGuards DEF Facility, FacilitiesInv
<1> HIDE DEF n, x, y
<1>5. FacilitiesTypeOK'
  BY <1>2, <1>3, <1>4 DEF FacilitiesInv, FacilitiesTypeOK
<1>6. /\ drawdown'[d] = y /\ facility'[f] = x
      /\ \A e \in Drawdowns : e # d => drawdown'[e] = drawdown[e]
      /\ \A g \in BankFacilities : g # f => facility'[g] = facility[g]
  BY <1>1, <1>2
<1>7. drawdown[d].status = "none"
  BY <1>1 DEF NoDrawdown
<1>8. TotalOf(Drawn') = TotalOf(Owed')
  <2>1. /\ Drawn \in [BankFacilities -> Int] /\ Owed \in [Drawdowns -> Int]
        /\ Drawn' \in [BankFacilities -> Int] /\ Owed' \in [Drawdowns -> Int]
    <3>1. /\ facility \in [BankFacilities -> Facility] /\ drawdown \in [Drawdowns -> Drawdown]
          /\ facility' \in [BankFacilities -> Facility] /\ drawdown' \in [Drawdowns -> Drawdown]
      BY <1>5 DEF FacilitiesInv, FacilitiesTypeOK
    <3>2. Drawn \in [BankFacilities -> Int] /\ Owed \in [Drawdowns -> Int]
      BY <3>1, BooksTypes DEF Drawn, Owed
    <3>3. Drawn' \in [BankFacilities -> Int] /\ Owed' \in [Drawdowns -> Int]
      BY <3>1, BooksTypes DEF Drawn, Owed
    <3> QED BY <3>2, <3>3
  <2>2. /\ \A g \in BankFacilities : g # f => Drawn'[g] = Drawn[g]
        /\ Drawn'[f] = Drawn[f] + p
    BY <1>1, <1>4, <1>6 DEF Drawn, n
  <2>3. /\ \A e \in Drawdowns : e # d => Owed'[e] = Owed[e]
        /\ Owed[d] = 0 /\ Owed'[d] = p
    BY <1>3, <1>6, <1>7 DEF Owed
  <2>4. TotalOf(Drawn) = TotalOf(Owed)
    BY DEF FacilitiesInv, BooksBalance, DrawnIsOwed
  <2>5. Drawn'[f] - Drawn[f] = Owed'[d] - Owed[d]
    BY <2>1, <2>2, <2>3, <1>1
  <2> DEFINE w == Drawn
             v == Drawn'
             o == Owed
             u == Owed'
  <2>6. /\ w \in [BankFacilities -> Int] /\ v \in [BankFacilities -> Int]
        /\ o \in [Drawdowns -> Int] /\ u \in [Drawdowns -> Int]
        /\ \A g \in BankFacilities : g # f => v[g] = w[g]
        /\ \A e \in Drawdowns : e # d => u[e] = o[e]
        /\ v[f] - w[f] = u[d] - o[d] /\ TotalOf(w) = TotalOf(o)
    BY <2>1, <2>2, <2>3, <2>4, <2>5
  <2> HIDE DEF w, v, o, u
  <2>7. TotalOf(v) = TotalOf(u)
    BY <2>6, BooksMove
  <2> QED BY <2>7 DEF v, u
<1>9. \A e \in Drawdowns : repayments'[e] = IF drawdown'[e].status = "repaid" THEN 1 ELSE 0
  <2> SUFFICES ASSUME NEW e \in Drawdowns
               PROVE  repayments'[e] = IF drawdown'[e].status = "repaid" THEN 1 ELSE 0
    OBVIOUS
  <2>1. repayments'[e] = IF drawdown[e].status = "repaid" THEN 1 ELSE 0
    BY <1>2 DEF FacilitiesInv, BooksBalance, DrawnIsOwed
  <2> QED BY <1>3, <1>6, <1>7, <2>1
<1>10. InterestNotLost'
  BY <1>1, <1>3, <1>6 DEF FacilitiesInv, BooksBalance, InterestNotLost
<1>11. LimitGuarded'
  BY <1>1, <1>4, <1>6 DEF FacilitiesInv, BooksBalance, LimitGuarded
<1>12. AccrualShape'
  <2> SUFFICES ASSUME NEW a \in Accruals, NEW q \in accrual[a]
               PROVE  /\ drawdown'[q.dd] # NoDrawdown /\ q.last < q.until
                      /\ drawdown'[q.dd].interest >= q.last - drawdown'[q.dd].opened
    BY <1>2 DEF AccrualShape
  <2>1. q.dd \in Drawdowns
    BY DEF FacilitiesInv, FacilitiesTypeOK, Pending
  <2>2. /\ drawdown[q.dd] # NoDrawdown /\ q.last < q.until
        /\ drawdown[q.dd].interest >= q.last - drawdown[q.dd].opened
    BY DEF FacilitiesInv, AccrualShape
  <2> QED BY <2>1, <2>2, <1>1, <1>6
<1>13. DrawnIsOwed'
  BY <1>8, <1>9 DEF DrawnIsOwed
<1> QED BY <1>5, <1>10, <1>11, <1>12, <1>13 DEF FacilitiesInv, BooksBalance

LEMMA ProcessRepaymentStep ==
  ASSUME FacilitiesInv, NEW f \in BankFacilities, NEW d \in Drawdowns, ProcessRepayment(f, d)
  PROVE  FacilitiesInv'
<1> DEFINE p == drawdown[d].principal
           y == [drawdown[d] EXCEPT !.status = "repaid"]
           x == [facility[f] EXCEPT !.drawn = facility[f].drawn - p]
<1>1. /\ facility \in [BankFacilities -> Facility] /\ drawdown \in [Drawdowns -> Drawdown]
      /\ repayments \in [Drawdowns -> Nat] /\ facility[f].drawn \in Nat
      /\ TotalLimit[f] \in Nat \ {0}
  BY FacilitiesAssumption DEF FacilitiesInv, FacilitiesTypeOK, Facility
<1>2. drawdown[d].status = "active" /\ drawdown[d] # NoDrawdown /\ facility[f].drawn >= p
  BY DEF ProcessRepayment, Repayable, NoDrawdown
<1>3. p \in Nat \ {0}
  BY <1>1, <1>2, DrawdownFields
<1>4. /\ drawdown' = [drawdown EXCEPT ![d] = y] /\ facility' = [facility EXCEPT ![f] = x]
      /\ repayments' = [repayments EXCEPT ![d] = repayments[d] + 1]
      /\ UNCHANGED <<today, accrual>>
  BY <1>1 DEF ProcessRepayment
<1>5. /\ y \in Drawdown /\ y # NoDrawdown /\ y.status = "repaid" /\ y.last = drawdown[d].last
      /\ y.opened = drawdown[d].opened /\ y.interest = drawdown[d].interest
  BY <1>1, <1>2, RepaidFields
<1>6. /\ x \in Facility /\ x.drawn = facility[f].drawn - p /\ x.status = facility[f].status
  BY <1>1, <1>2, <1>3 DEF Facility
<1> HIDE DEF x, y
<1>7. FacilitiesTypeOK'
  BY <1>1, <1>4, <1>5, <1>6 DEF FacilitiesInv, FacilitiesTypeOK
<1>8. /\ drawdown'[d] = y /\ facility'[f] = x
      /\ \A e \in Drawdowns : e # d => drawdown'[e] = drawdown[e]
      /\ \A g \in BankFacilities : g # f => facility'[g] = facility[g]
  BY <1>1, <1>4
<1>9. TotalOf(Drawn') = TotalOf(Owed')
  <2>1. /\ Drawn \in [BankFacilities -> Int] /\ Owed \in [Drawdowns -> Int]
        /\ Drawn' \in [BankFacilities -> Int] /\ Owed' \in [Drawdowns -> Int]
    <3>1. /\ facility \in [BankFacilities -> Facility] /\ drawdown \in [Drawdowns -> Drawdown]
          /\ facility' \in [BankFacilities -> Facility] /\ drawdown' \in [Drawdowns -> Drawdown]
      BY <1>7 DEF FacilitiesInv, FacilitiesTypeOK
    <3>2. Drawn \in [BankFacilities -> Int] /\ Owed \in [Drawdowns -> Int]
      BY <3>1, BooksTypes DEF Drawn, Owed
    <3>3. Drawn' \in [BankFacilities -> Int] /\ Owed' \in [Drawdowns -> Int]
      BY <3>1, BooksTypes DEF Drawn, Owed
    <3> QED BY <3>2, <3>3
  <2>2. /\ \A g \in BankFacilities : g # f => Drawn'[g] = Drawn[g]
        /\ Drawn'[f] = Drawn[f] - p
    BY <1>1, <1>6, <1>8 DEF Drawn
  <2>3. /\ \A e \in Drawdowns : e # d => Owed'[e] = Owed[e]
        /\ Owed[d] = p /\ Owed'[d] = 0
    BY <1>2, <1>5, <1>8 DEF Owed
  <2>4. TotalOf(Drawn) = TotalOf(Owed)
    BY DEF FacilitiesInv, BooksBalance, DrawnIsOwed
  <2> HIDE DEF p
  <2>5. Drawn'[f] - Drawn[f] = Owed'[d] - Owed[d]
    BY <2>1, <2>2, <2>3, <1>3
  <2> DEFINE w == Drawn
             v == Drawn'
             o == Owed
             u == Owed'
  <2>6. /\ w \in [BankFacilities -> Int] /\ v \in [BankFacilities -> Int]
        /\ o \in [Drawdowns -> Int] /\ u \in [Drawdowns -> Int]
        /\ \A g \in BankFacilities : g # f => v[g] = w[g]
        /\ \A e \in Drawdowns : e # d => u[e] = o[e]
        /\ v[f] - w[f] = u[d] - o[d] /\ TotalOf(w) = TotalOf(o)
    BY <2>1, <2>2, <2>3, <2>4, <2>5
  <2> HIDE DEF w, v, o, u
  <2>7. TotalOf(v) = TotalOf(u)
    BY <2>6, BooksMove
  <2> QED BY <2>7 DEF v, u
<1>10. \A e \in Drawdowns : repayments'[e] = IF drawdown'[e].status = "repaid" THEN 1 ELSE 0
  <2> SUFFICES ASSUME NEW e \in Drawdowns
               PROVE  repayments'[e] = IF drawdown'[e].status = "repaid" THEN 1 ELSE 0
    OBVIOUS
  <2>1. repayments[e] = IF drawdown[e].status = "repaid" THEN 1 ELSE 0
    BY DEF FacilitiesInv, BooksBalance, DrawnIsOwed
  <2> QED BY <1>1, <1>2, <1>4, <1>5, <1>8, <2>1
<1>11. InterestNotLost'
  BY <1>2, <1>5, <1>8 DEF FacilitiesInv, BooksBalance, InterestNotLost
<1>12. LimitGuarded'
  BY <1>1, <1>2, <1>3, <1>6, <1>8 DEF FacilitiesInv, BooksBalance, LimitGuarded
<1>13. AccrualShape'
  <2> SUFFICES ASSUME NEW a \in Accruals, NEW q \in accrual[a]
               PROVE  /\ drawdown'[q.dd] # NoDrawdown /\ q.last < q.until
                      /\ drawdown'[q.dd].interest >= q.last - drawdown'[q.dd].opened
    BY <1>4 DEF AccrualShape
  <2>1. q.dd \in Drawdowns
    BY DEF FacilitiesInv, FacilitiesTypeOK, Pending
  <2>2. /\ drawdown[q.dd] # NoDrawdown /\ q.last < q.until
        /\ drawdown[q.dd].interest >= q.last - drawdown[q.dd].opened
    BY DEF FacilitiesInv, AccrualShape
  <2> QED BY <2>1, <2>2, <1>5, <1>8
<1>14. DrawnIsOwed'
  BY <1>9, <1>10 DEF DrawnIsOwed
<1> QED BY <1>7, <1>11, <1>12, <1>13, <1>14 DEF FacilitiesInv, BooksBalance

LEMMA AccrueInterestStep ==
  ASSUME FacilitiesInv, NEW a \in Accruals, AccrueInterest(a)
  PROVE  FacilitiesInv'
<1> DEFINE Due == {e \in Drawdowns : drawdown[e].status = "active" /\ drawdown[e].last < today}
           new == {[dd |-> d, last |-> drawdown[d].last, until |-> today] : d \in Due}
<1>1. /\ accrual' = [accrual EXCEPT ![a] = new]
      /\ UNCHANGED <<facility, drawdown, repayments, today>>
  BY DEF AccrueInterest
<1>2. /\ drawdown \in [Drawdowns -> Drawdown] /\ today \in Nat
      /\ accrual \in [Accruals -> SUBSET Pending]
  BY FacilitiesAssumption DEF FacilitiesInv, FacilitiesTypeOK
<1>3. ASSUME NEW q \in new
      PROVE  /\ q \in Pending /\ drawdown[q.dd] # NoDrawdown /\ q.last < q.until
             /\ drawdown[q.dd].interest >= q.last - drawdown[q.dd].opened
  <2>1. PICK d \in Due : q = [dd |-> d, last |-> drawdown[d].last, until |-> today]
    OBVIOUS
  <2>2. d \in Drawdowns /\ drawdown[d] # NoDrawdown /\ drawdown[d].last < today
    BY <2>1 DEF NoDrawdown
  <2>3. drawdown[d].last \in Nat
    BY <2>2, <1>2, DrawdownFields
  <2>4. drawdown[d].interest >= drawdown[d].last - drawdown[d].opened
    BY <2>2 DEF FacilitiesInv, BooksBalance, InterestNotLost
  <2>5. q.dd = d /\ q.last = drawdown[d].last /\ q.until = today /\ q \in Pending
    BY <2>1, <2>2, <2>3, <1>2 DEF Pending
  <2> QED BY <2>2, <2>4, <2>5
<1> HIDE DEF new
<1>4. new \in SUBSET Pending
  BY <1>3
<1>5. FacilitiesTypeOK'
  BY <1>1, <1>2, <1>4 DEF FacilitiesInv, FacilitiesTypeOK
<1>6. AccrualShape'
  <2> SUFFICES ASSUME NEW b \in Accruals, NEW q \in accrual'[b]
               PROVE  /\ drawdown[q.dd] # NoDrawdown /\ q.last < q.until
                      /\ drawdown[q.dd].interest >= q.last - drawdown[q.dd].opened
    BY <1>1 DEF AccrualShape
  <2>1. CASE b = a
    BY <2>1, <1>1, <1>2, <1>3
  <2>2. CASE b # a
    BY <2>2, <1>1, <1>2 DEF FacilitiesInv, AccrualShape
  <2> QED BY <2>1, <2>2
<1>7. Drawn' = Drawn /\ Owed' = Owed
  BY <1>1 DEF Drawn, Owed
<1>8. BooksBalance'
  BY <1>1, <1>7
     DEF FacilitiesInv, BooksBalance, DrawnIsOwed, InterestNotLost, LimitGuarded
<1> QED BY <1>5, <1>6, <1>8 DEF FacilitiesInv

LEMMA ApplyAccrualStep ==
  ASSUME FacilitiesInv, NEW a \in Accruals, NEW p \in accrual[a], ApplyAccrual(a, p)
  PROVE  FacilitiesInv'
<1> DEFINE d == p.dd
           n == drawdown[d].interest + (p.until - p.last)
           y == [drawdown[d] EXCEPT !.interest = n, !.last = p.until]
<1>1. /\ drawdown \in [Drawdowns -> Drawdown] /\ accrual \in [Accruals -> SUBSET Pending]
      /\ p \in Pending
  BY DEF FacilitiesInv, FacilitiesTypeOK
<1>2. d \in Drawdowns /\ p.last \in Nat /\ p.until \in Nat
  BY <1>1 DEF Pending
<1>3. /\ drawdown[d] # NoDrawdown /\ p.last < p.until
      /\ drawdown[d].interest >= p.last - drawdown[d].opened
  BY DEF FacilitiesInv, AccrualShape
<1>4. /\ drawdown[d].interest \in Nat /\ drawdown[d].opened \in Nat /\ drawdown[d].last \in Nat
  BY <1>1, <1>2, <1>3, DrawdownFields
<1>5. n \in Nat /\ n >= drawdown[d].interest /\ n >= p.until - drawdown[d].opened
  BY <1>2, <1>3, <1>4
<1>6. /\ drawdown' = [drawdown EXCEPT ![d] = y]
      /\ accrual' = [accrual EXCEPT ![a] = accrual[a] \ {p}]
      /\ UNCHANGED <<facility, repayments, today>>
  BY <1>1, <1>2 DEF ApplyAccrual, DaysToAccrue
<1>7. /\ y \in Drawdown /\ y # NoDrawdown /\ y.status = drawdown[d].status /\ y.last = p.until
      /\ y.opened = drawdown[d].opened /\ y.interest = n
      /\ y.principal = drawdown[d].principal
  <2> HIDE DEF n, d
  <2> DEFINE c == drawdown[d]
             t == p.until
             z == [c EXCEPT !.interest = n, !.last = t]
  <2>1. c \in Drawdown /\ c # NoDrawdown /\ n \in Nat /\ t \in Nat
    BY <1>1, <1>2, <1>3, <1>5
  <2>2. y = z
    OBVIOUS
  <2> HIDE DEF c, t, y
  <2>3. /\ z \in Drawdown /\ z # NoDrawdown /\ z.status = c.status /\ z.last = t
        /\ z.opened = c.opened /\ z.interest = n /\ z.principal = c.principal
    BY <2>1 DEF Drawdown, NoDrawdown
  <2> QED BY <2>2, <2>3 DEF c, t
<1> HIDE DEF y, n, d
<1>8. FacilitiesTypeOK'
  BY <1>1, <1>2, <1>6, <1>7 DEF FacilitiesInv, FacilitiesTypeOK
<1>9. drawdown'[d] = y /\ \A e \in Drawdowns : e # d => drawdown'[e] = drawdown[e]
  BY <1>1, <1>2, <1>6
<1>10. \A e \in Drawdowns : /\ drawdown'[e].status = drawdown[e].status
                            /\ drawdown'[e].principal = drawdown[e].principal
  BY <1>7, <1>9
<1>11. Drawn' = Drawn /\ Owed' = Owed
  <2>1. Drawn' = Drawn
    BY <1>6 DEF Drawn
  <2>2. Owed' = Owed
    BY <1>10 DEF Owed
  <2> QED BY <2>1, <2>2
<1>12. DrawnIsOwed'
  BY <1>6, <1>10, <1>11 DEF FacilitiesInv, BooksBalance, DrawnIsOwed
<1>13. InterestNotLost'
  BY <1>5, <1>7, <1>9 DEF FacilitiesInv, BooksBalance, InterestNotLost
<1>14. LimitGuarded'
  BY <1>6 DEF FacilitiesInv, BooksBalance, LimitGuarded
<1>15. AccrualShape'
  <2> SUFFICES ASSUME NEW b \in Accruals, NEW q \in accrual'[b]
               PROVE  /\ drawdown'[q.dd] # NoDrawdown /\ q.last < q.until
                      /\ drawdown'[q.dd].interest >= q.last - drawdown'[q.dd].opened
    BY DEF AccrualShape
  <2>1. q \in accrual[b]
    BY <1>1, <1>6
  <2>2. q.dd \in Drawdowns /\ q.last \in Nat
    BY <1>1, <2>1 DEF Pending
  <2>3. /\ drawdown[q.dd] # NoDrawdown /\ q.last < q.until
        /\ drawdown[q.dd].interest >= q.last - drawdown[q.dd].opened
    BY <2>1 DEF FacilitiesInv, AccrualShape
  <2>4. CASE q.dd = d
    BY <2>2, <2>3, <2>4, <1>4, <1>5, <1>7, <1>9
  <2>5. CASE q.dd # d
    BY <2>2, <2>3, <2>5, <1>9
  <2> QED BY <2>4, <2>5
<1> QED BY <1>8, <1>12, <1>13, <1>14, <1>15 DEF FacilitiesInv, BooksBalance

LEMMA FacilitiesStep ==
  ASSUME FacilitiesInv, [FacilitiesNext]_facilityVars
  PROVE  FacilitiesInv'
<1>0. ASSUME UNCHANGED <<drawdown, repayments>>, Drawn' = Drawn, LimitGuarded',
             FacilitiesTypeOK',
             \A a \in Accruals : accrual'[a] \subseteq accrual[a]
      PROVE  FacilitiesInv'
  <2>1. DrawnIsOwed' /\ InterestNotLost'
    <3>1. Owed' = Owed
      BY <1>0 DEF Owed
    <3> QED BY <1>0, <3>1 DEF FacilitiesInv, BooksBalance, DrawnIsOwed, InterestNotLost
  <2>2. AccrualShape'
    BY <1>0 DEF FacilitiesInv, AccrualShape
  <2> QED BY <1>0, <2>1, <2>2 DEF FacilitiesInv, BooksBalance
<1>1. ASSUME NEW f \in BankFacilities, SendUtilisationAlert(f)
      PROVE  FacilitiesInv'
  <2> DEFINE n == facility[f].drawn
             x == [facility[f] EXCEPT !.status = StatusAt(f, n)]
  <2>1. facility \in [BankFacilities -> Facility] /\ n \in Nat
    BY DEF FacilitiesInv, FacilitiesTypeOK, Facility
  <2>2. facility' = [facility EXCEPT ![f] = x] /\ UNCHANGED <<drawdown, repayments, today, accrual>>
    BY <1>1, <2>1 DEF SendUtilisationAlert
  <2>3. /\ x \in Facility /\ x.drawn = n
        /\ n * 10 >= TotalLimit[f] * 9 => x.status = "suspended"
    BY <2>1, StatusGuards DEF Facility, FacilitiesInv
  <2> HIDE DEF x
  <2>4. FacilitiesTypeOK'
    BY <2>2, <2>3 DEF FacilitiesInv, FacilitiesTypeOK
  <2>5. facility'[f] = x /\ \A g \in BankFacilities : g # f => facility'[g] = facility[g]
    BY <2>1, <2>2
  <2>6. Drawn' = Drawn
    BY <2>3, <2>5 DEF Drawn
  <2>7. LimitGuarded'
    BY <2>3, <2>5 DEF FacilitiesInv, BooksBalance, LimitGuarded
  <2> QED BY <2>2, <2>4, <2>6, <2>7, <1>0
<1>2. ASSUME NEW a \in Accruals, NEW p \in accrual[a], SkipAccrual(a, p)
      PROVE  FacilitiesInv'
  <2>1. /\ accrual \in [Accruals -> SUBSET Pending]
        /\ accrual' = [accrual EXCEPT ![a] = accrual[a] \ {p}]
        /\ UNCHANGED <<facility, drawdown, repayments, today>>
    BY <1>2 DEF SkipAccrual, FacilitiesInv, FacilitiesTypeOK
  <2>2. FacilitiesTypeOK'
    BY <2>1 DEF FacilitiesInv, FacilitiesTypeOK
  <2>3. Drawn' = Drawn /\ LimitGuarded'
    BY <2>1 DEF Drawn, FacilitiesInv, BooksBalance, LimitGuarded
  <2> QED BY <2>1, <2>2, <2>3, <1>0
<1>3. CASE Midnight
  <2>1. UNCHANGED <<facility, drawdown, repayments, accrual>> /\ today' \in 0..LastDay
    BY <1>3, FacilitiesAssumption DEF Midnight, FacilitiesInv, FacilitiesTypeOK
  <2>2. FacilitiesTypeOK'
    BY <2>1 DEF FacilitiesInv, FacilitiesTypeOK
  <2>3. Drawn' = Drawn /\ LimitGuarded'
    BY <2>1 DEF Drawn, FacilitiesInv, BooksBalance, LimitGuarded
  <2> QED BY <2>1, <2>2, <2>3, <1>0
<1>4. CASE UNCHANGED facilityVars
  <2>1. UNCHANGED <<facility, drawdown, repayments, today, accrual>>
    BY <1>4 DEF facilityVars
  <2>2. FacilitiesTypeOK' /\ Drawn' = Drawn /\ LimitGuarded'
    BY <2>1 DEF Drawn, FacilitiesInv, FacilitiesTypeOK, BooksBalance, LimitGuarded
  <2> QED BY <2>1, <2>2, <1>0
<1> QED BY <1>1, <1>2, <1>3, <1>4, CreateDrawdownStep, ProcessRepaymentStep,
           AccrueInterestStep, ApplyAccrualStep DEF FacilitiesNext

\* createDrawdown, processRepayment and accrueInterest: the books of any
\* number of facilities and drawdowns add up, whatever the amounts, and no run
\* of the accrual job loses a day's interest or lets a facility be overdrawn.
THEOREM BooksStayBalanced == FacilitiesInit /\ [][FacilitiesNext]_facilityVars => []BooksBalance
<1>1. FacilitiesInv => BooksBalance
  BY DEF FacilitiesInv
<1> QED BY FacilitiesInitial, FacilitiesStep, <1>1, PTL

-----------------------------------------------------------------------------
(* Notifications.                                                          *)

\* The calls under way of a server (i = 1) or for a job (i = 2).
CallsOf(calls, i, k) == {r \in calls : r[i] = k}

\* A job that may still be tried has an attempt left.
NoticeShape ==
  \A j \in NoticeJobs :
    notice[j].state \in {"waiting", "active"} => notice[j].made < NoticeAttempts

\* Every message that left or may be leaving belongs to a hand-out of its own:
\* one for each lock that was lost, and the current one.
HandOuts ==
  \A j \in NoticeJobs :
    sent[j] + Cardinality(CallsOf(running, 2, j))
      <= stalls[j] + (IF notice[j].state \in {"active", "done"} THEN 1 ELSE 0)

\* A channel is paused when the threshold is reached; the failures that may
\* follow are those of the calls that were under way.
BreakerShape ==
  \A s \in Mailers :
    /\ Cardinality(CallsOf(running, 1, s)) <= Slots
    /\ breaker[s].paused =>
         breaker[s].failures + Cardinality(CallsOf(running, 1, s)) <= BreakerLimit + Slots - 1
    /\ ~breaker[s].paused => breaker[s].failures < BreakerLimit

NotificationsInv ==
  /\ NotificationsTypeOK
  /\ IsFiniteSet(running)
  /\ NoticeShape
  /\ HandOuts
  /\ BreakerShape

Breaker == [failures : Nat, paused : BOOLEAN]
Notice == [state : {"waiting", "active", "done", "failed"}, made : 0..NoticeAttempts]

LEMMA ClosedIsBreaker ==
  /\ Closed \in Breaker
  /\ Closed.failures = 0 /\ ~Closed.paused
<1>1. 0 \in Nat
  OBVIOUS
<1>2. Closed \in Breaker
  BY <1>1, Zenon DEF Closed, Breaker
<1> QED BY <1>2 DEF Closed

LEMMA CallsFinite ==
  ASSUME NEW R, IsFiniteSet(R), NEW i, NEW k
  PROVE  IsFiniteSet(CallsOf(R, i, k)) /\ Cardinality(CallsOf(R, i, k)) \in Nat
<1>1. CallsOf(R, i, k) \subseteq R
  BY DEF CallsOf
<1> QED BY <1>1, FS_Subset, FS_CardinalityType

LEMMA CallsAdded ==
  ASSUME NEW R, IsFiniteSet(R), NEW t, NEW i, NEW k
  PROVE  /\ IsFiniteSet(R \cup {t})
         /\ t[i] = k =>
              Cardinality(CallsOf(R \cup {t}, i, k)) <= Cardinality(CallsOf(R, i, k)) + 1
<1>1. IsFiniteSet(R \cup {t})
  BY FS_AddElement
<1>2. ASSUME t[i] = k
      PROVE  Cardinality(CallsOf(R \cup {t}, i, k)) <= Cardinality(CallsOf(R, i, k)) + 1
  <2> DEFINE A == CallsOf(R, i, k)
  <2>1. CallsOf(R \cup {t}, i, k) = A \cup {t}
    BY <1>2 DEF CallsOf
  <2>2. IsFiniteSet(A) /\ Cardinality(A) \in Nat
    BY CallsFinite
  <2> HIDE DEF A
  <2>3. Cardinality(A \cup {t}) = Cardinality(A) \/ Cardinality(A \cup {t}) = Cardinality(A) + 1
    BY <2>2, FS_AddElement, Zenon
  <2>4. Cardinality(A \cup {t}) <= Cardinality(A) + 1
    BY <2>2, <2>3
  <2> QED BY <2>1, <2>4 DEF A
<1> QED BY <1>1, <1>2

LEMMA CallsRemoved ==
  ASSUME NEW R, IsFiniteSet(R), NEW t \in R, NEW i, NEW k
  PROVE  /\ IsFiniteSet(R \ {t})
         /\ t[i] = k =>
              Cardinality(CallsOf(R \ {t}, i, k)) = Cardinality(CallsOf(R, i, k)) - 1
<1>1. IsFiniteSet(R \ {t})
  BY FS_RemoveElement
<1>2. ASSUME t[i] = k
      PROVE  Cardinality(CallsOf(R \ {t}, i, k)) = Cardinality(CallsOf(R, i, k)) - 1
  <2> DEFINE A == CallsOf(R, i, k)
  <2>1. CallsOf(R \ {t}, i, k) = A \ {t} /\ t \in A
    BY <1>2 DEF CallsOf
  <2>2. IsFiniteSet(A)
    BY CallsFinite
  <2> HIDE DEF A
  <2>3. Cardinality(A \ {t}) = Cardinality(A) - 1
    BY <2>1, <2>2, FS_RemoveElement, Zenon
  <2> QED BY <2>1, <2>3 DEF A
<1> QED BY <1>1, <1>2

\* What a restart may have sent is among the calls it ends.
LEMMA CallsEnded ==
  ASSUME NEW R, IsFiniteSet(R), NEW i, NEW k, NEW ended \in SUBSET R, NEW left \in SUBSET ended
  PROVE  /\ Cardinality(CallsOf(left, i, k)) \in Nat
         /\ Cardinality(CallsOf(left, i, k)) + Cardinality(CallsOf(R \ ended, i, k))
              <= Cardinality(CallsOf(R, i, k))
<1> DEFINE A == CallsOf(left, i, k)
           B == CallsOf(R \ ended, i, k)
           C == CallsOf(R, i, k)
<1>1. IsFiniteSet(left) /\ IsFiniteSet(R \ ended)
  BY FS_Subset
<1>2. /\ IsFiniteSet(A) /\ Cardinality(A) \in Nat /\ IsFiniteSet(B) /\ Cardinality(B) \in Nat
      /\ IsFiniteSet(C) /\ Cardinality(C) \in Nat
  BY <1>1, CallsFinite
<1>3. A \cup B \subseteq C /\ A \cap B = {}
  BY DEF CallsOf
<1> HIDE DEF A, B, C
<1>4. Cardinality(A \cup B) = Cardinality(A) + Cardinality(B) - Cardinality(A \cap B)
  BY <1>2, FS_Union
<1>5. Cardinality(A \cap B) = 0
  BY <1>3, FS_EmptySet
<1>6. Cardinality(A \cup B) <= Cardinality(C)
  BY <1>2, <1>3, FS_Subset
<1>7. Cardinality(A) + Cardinality(B) <= Cardinality(C)
  BY <1>2, <1>4, <1>5, <1>6
<1> QED BY <1>2, <1>7 DEF A, B, C

LEMMA NotificationsInitial ==
  ASSUME NotificationsInit
  PROVE  NotificationsInv
<1>1. NotificationsTypeOK
  <2>1. Closed \in Breaker
    BY ClosedIsBreaker
  <2>2. breaker \in [Mailers -> Breaker]
    BY <2>1 DEF NotificationsInit
  <2>3. notice \in [NoticeJobs -> Notice]
    BY NotificationsAssumption DEF NotificationsInit, Notice
  <2>4. /\ running \subseteq Mailers \X NoticeJobs \X (0..MaxStalls)
        /\ processed \in [Mailers -> SUBSET NoticeJobs]
        /\ sent \in [NoticeJobs -> Nat] /\ tried \in [NoticeJobs -> Nat]
        /\ audited \subseteq NoticeJobs /\ stalls \in [NoticeJobs -> 0..MaxStalls]
        /\ restarts \in 0..MaxStalls
    BY NotificationsAssumption DEF NotificationsInit
  <2>5. auditLost \in BOOLEAN
    BY DEF NotificationsInit
  <2> QED BY <2>2, <2>3, <2>4, <2>5 DEF NotificationsTypeOK, Breaker, Notice
<1>2. IsFiniteSet(running) /\ \A i, k : Cardinality(CallsOf(running, i, k)) = 0
  BY FS_EmptySet DEF NotificationsInit, CallsOf
<1>3. NoticeShape
  BY NotificationsAssumption DEF NotificationsInit, NoticeShape
<1>4. HandOuts
  BY <1>2 DEF NotificationsInit, HandOuts
<1>5. BreakerShape
  <2> SUFFICES ASSUME NEW s \in Mailers
               PROVE  /\ Cardinality(CallsOf(running, 1, s)) = 0
                      /\ breaker[s].failures = 0 /\ ~breaker[s].paused
    BY NotificationsAssumption DEF BreakerShape
  <2>1. breaker[s] = [failures |-> 0, paused |-> FALSE]
    BY DEF NotificationsInit, Closed
  <2> QED BY <1>2, <2>1
<1> QED BY <1>1, <1>2, <1>3, <1>4, <1>5 DEF NotificationsInv

LEMMA NoticeTypes ==
  ASSUME NotificationsInv
  PROVE  /\ notice \in [NoticeJobs -> Notice]
         /\ running \subseteq Mailers \X NoticeJobs \X (0..MaxStalls)
         /\ processed \in [Mailers -> SUBSET NoticeJobs]
         /\ breaker \in [Mailers -> Breaker]
         /\ sent \in [NoticeJobs -> Nat] /\ tried \in [NoticeJobs -> Nat]
         /\ audited \subseteq NoticeJobs /\ stalls \in [NoticeJobs -> 0..MaxStalls]
         /\ restarts \in 0..MaxStalls /\ auditLost \in BOOLEAN
         /\ IsFiniteSet(running)
  BY DEF NotificationsInv, NotificationsTypeOK, Breaker, Notice

LEMMA NoticeFields ==
  ASSUME NEW y \in Notice, NEW st \in {"waiting", "active", "done", "failed"}
  PROVE  LET z == [y EXCEPT !.state = st] IN
         /\ z \in Notice /\ z.state = st /\ z.made = y.made /\ y.made \in Nat
  BY DEF Notice

\* The attempt fails: one attempt fewer is left.
LEMMA AttemptFails ==
  ASSUME NotificationsInv, NEW j \in NoticeJobs, notice[j].state \in {"waiting", "active"},
         FailAttemptOf(j)
  PROVE  /\ notice' \in [NoticeJobs -> Notice] /\ NoticeShape'
         /\ notice'[j].state \notin {"active", "done"}
         /\ \A k \in NoticeJobs : k # j => notice'[k] = notice[k]
         /\ audited' \subseteq NoticeJobs /\ auditLost' \in BOOLEAN
<1> DEFINE made == notice[j].made + 1
           y == [state |-> IF made >= NoticeAttempts THEN "failed" ELSE "waiting", made |-> made]
<1>1. /\ notice \in [NoticeJobs -> Notice] /\ notice[j].made \in Nat
      /\ notice[j].made < NoticeAttempts /\ NoticeAttempts \in Nat
  BY NoticeTypes, NotificationsAssumption DEF Notice, NotificationsInv, NoticeShape
<1>2. notice' = [notice EXCEPT ![j] = y]
  BY DEF FailAttemptOf
<1>3. /\ y \in Notice /\ y.state \in {"waiting", "failed"}
      /\ y.state = "waiting" => y.made < NoticeAttempts
  BY <1>1 DEF Notice
<1>4. audited' \subseteq NoticeJobs /\ auditLost' \in BOOLEAN
  <2>1. CASE UNCHANGED <<audited, auditLost>>
    BY <2>1, NoticeTypes
  <2>2. CASE audited' = audited \cup {j} /\ UNCHANGED auditLost
    BY <2>2, NoticeTypes
  <2>3. CASE auditLost' = TRUE /\ UNCHANGED audited
    BY <2>3, NoticeTypes
  <2> QED BY <2>1, <2>2, <2>3 DEF FailAttemptOf, Audit
<1> HIDE DEF y
<1>5. notice' \in [NoticeJobs -> Notice] /\ notice'[j] = y
      /\ \A k \in NoticeJobs : k # j => notice'[k] = notice[k]
  BY <1>1, <1>2, <1>3
<1>6. NoticeShape'
  BY <1>3, <1>5 DEF NotificationsInv, NoticeShape
<1> QED BY <1>3, <1>4, <1>5, <1>6

LEMMA SkipStep ==
  ASSUME NotificationsInv, NEW s \in Mailers, NEW j \in NoticeJobs, Skip(s, j)
  PROVE  NotificationsInv'
<1>1. /\ notice' \in [NoticeJobs -> Notice] /\ NoticeShape'
      /\ notice'[j].state \notin {"active", "done"}
      /\ \A k \in NoticeJobs : k # j => notice'[k] = notice[k]
      /\ audited' \subseteq NoticeJobs /\ auditLost' \in BOOLEAN
  BY AttemptFails DEF Skip
<1>2. UNCHANGED <<running, processed, breaker, sent, stalls, restarts>>
      /\ notice[j].state = "waiting"
  BY DEF Skip
<1>3. tried' \in [NoticeJobs -> Nat]
  <2>1. PICK n \in {0, 1} : tried' = [tried EXCEPT ![j] = tried[j] + n]
    BY DEF Skip
  <2> QED BY <2>1, NoticeTypes
<1>4. NotificationsTypeOK'
  BY <1>1, <1>2, <1>3, NoticeTypes DEF NotificationsTypeOK, Breaker, Notice
<1>5. HandOuts'
  <2> SUFFICES ASSUME NEW k \in NoticeJobs
               PROVE  sent[k] + Cardinality(CallsOf(running, 2, k))
                        <= stalls[k] + (IF notice'[k].state \in {"active", "done"} THEN 1 ELSE 0)
    BY <1>2 DEF HandOuts
  <2>1. sent[k] + Cardinality(CallsOf(running, 2, k))
          <= stalls[k] + (IF notice[k].state \in {"active", "done"} THEN 1 ELSE 0)
    BY DEF NotificationsInv, HandOuts
  <2> QED BY <1>1, <1>2, <2>1
<1>6. BreakerShape' /\ IsFiniteSet(running')
  BY <1>2 DEF NotificationsInv, BreakerShape
<1> QED BY <1>1, <1>4, <1>5, <1>6 DEF NotificationsInv

LEMMA DispatchStep ==
  ASSUME NotificationsInv, NEW s \in Mailers, NEW j \in NoticeJobs, Dispatch(s, j)
  PROVE  NotificationsInv'
<1> DEFINE t == <<s, j, stalls[j]>>
           y == [notice[j] EXCEPT !.state = "active"]
<1>1. /\ notice[j].state = "waiting" /\ notice' = [notice EXCEPT ![j] = y]
      /\ running' = running \cup {t}
      /\ tried' = [tried EXCEPT ![j] = tried[j] + 1]
      /\ UNCHANGED <<processed, breaker, sent, audited, stalls, restarts, auditLost>>
      /\ ~breaker[s].paused /\ Cardinality(CallsOf(running, 1, s)) < Slots
  BY NoticeTypes DEF Dispatch, CallsOf
<1>2. /\ y \in Notice /\ y.state = "active" /\ y.made = notice[j].made
  BY NoticeTypes, NoticeFields
<1>3. t \in Mailers \X NoticeJobs \X (0..MaxStalls) /\ t[1] = s /\ t[2] = j
  BY NoticeTypes
<1> HIDE DEF t, y
<1>4. notice' \in [NoticeJobs -> Notice] /\ notice'[j] = y
      /\ \A k \in NoticeJobs : k # j => notice'[k] = notice[k]
  BY <1>1, <1>2, NoticeTypes
<1>5. tried' \in [NoticeJobs -> Nat]
      /\ running' \subseteq Mailers \X NoticeJobs \X (0..MaxStalls)
  BY <1>1, <1>3, NoticeTypes
<1>6. NotificationsTypeOK'
  BY <1>1, <1>4, <1>5, NoticeTypes DEF NotificationsTypeOK, Breaker, Notice
<1>7. NoticeShape'
  BY <1>1, <1>2, <1>4 DEF NotificationsInv, NoticeShape
<1>8. IsFiniteSet(running')
  BY <1>1, NoticeTypes, CallsAdded
<1>9. HandOuts'
  <2> SUFFICES ASSUME NEW k \in NoticeJobs
               PROVE  sent[k] + Cardinality(CallsOf(running', 2, k))
                        <= stalls[k] + (IF notice'[k].state \in {"active", "done"} THEN 1 ELSE 0)
    BY <1>1 DEF HandOuts
  <2>1. sent[k] + Cardinality(CallsOf(running, 2, k))
          <= stalls[k] + (IF notice[k].state \in {"active", "done"} THEN 1 ELSE 0)
    BY DEF NotificationsInv, HandOuts
  <2>2. /\ Cardinality(CallsOf(running, 2, k)) \in Nat /\ Cardinality(CallsOf(running', 2, k)) \in Nat
        /\ sent[k] \in Nat /\ stalls[k] \in Nat
    BY NoticeTypes, CallsFinite, <1>8
  <2>3. CASE k = j
    <3>1. Cardinality(CallsOf(running', 2, k)) <= Cardinality(CallsOf(running, 2, k)) + 1
      BY <2>3, <1>1, <1>3, NoticeTypes, CallsAdded
    <3> QED BY <2>1, <2>2, <2>3, <3>1, <1>1, <1>2, <1>4
  <2>4. CASE k # j
    <3>1. CallsOf(running', 2, k) = CallsOf(running, 2, k)
      BY <2>4, <1>1, <1>3 DEF CallsOf
    <3> QED BY <2>1, <2>4, <3>1, <1>4
  <2> QED BY <2>3, <2>4
<1>10. BreakerShape'
  <2> SUFFICES ASSUME NEW m \in Mailers
               PROVE  /\ Cardinality(CallsOf(running', 1, m)) <= Slots
                      /\ breaker[m].paused =>
                           breaker[m].failures + Cardinality(CallsOf(running', 1, m))
                             <= BreakerLimit + Slots - 1
                      /\ ~breaker[m].paused => breaker[m].failures < BreakerLimit
    BY <1>1 DEF BreakerShape
  <2>1. /\ Cardinality(CallsOf(running, 1, m)) <= Slots
        /\ breaker[m].paused =>
             breaker[m].failures + Cardinality(CallsOf(running, 1, m)) <= BreakerLimit + Slots - 1
        /\ ~breaker[m].paused => breaker[m].failures < BreakerLimit
    BY DEF NotificationsInv, BreakerShape
  <2>2. CASE m = s
    <3>1. /\ Cardinality(CallsOf(running, 1, m)) \in Nat
          /\ Cardinality(CallsOf(running', 1, m)) \in Nat /\ Slots \in Nat
      BY NoticeTypes, CallsFinite, <1>8, NotificationsAssumption
    <3>2. Cardinality(CallsOf(running', 1, m)) <= Cardinality(CallsOf(running, 1, m)) + 1
      BY <2>2, <1>1, <1>3, NoticeTypes, CallsAdded
    <3> QED BY <2>1, <2>2, <3>1, <3>2, <1>1
  <2>3. CASE m # s
    <3>1. CallsOf(running', 1, m) = CallsOf(running, 1, m)
      BY <2>3, <1>1, <1>3 DEF CallsOf
    <3> QED BY <2>1, <3>1
  <2> QED BY <2>2, <2>3
<1> QED BY <1>6, <1>7, <1>8, <1>9, <1>10 DEF NotificationsInv

\* A call of the provider comes back.
LEMMA CallReturns ==
  ASSUME NotificationsInv, NEW s \in Mailers, NEW j \in NoticeJobs, NEW n \in 0..MaxStalls,
         <<s, j, n>> \in running, running' = running \ {<<s, j, n>>}
  PROVE  /\ running' \subseteq Mailers \X NoticeJobs \X (0..MaxStalls)
         /\ IsFiniteSet(running')
         /\ \A k \in NoticeJobs :
              /\ Cardinality(CallsOf(running, 2, k)) \in Nat
              /\ Cardinality(CallsOf(running', 2, k)) = Cardinality(CallsOf(running, 2, k))
                                                        - (IF k = j THEN 1 ELSE 0)
         /\ \A m \in Mailers :
              /\ Cardinality(CallsOf(running, 1, m)) \in Nat
              /\ Cardinality(CallsOf(running', 1, m)) = Cardinality(CallsOf(running, 1, m))
                                                        - (IF m = s THEN 1 ELSE 0)
<1> DEFINE t == <<s, j, n>>
<1>1. t \in running /\ running' = running \ {t} /\ t[1] = s /\ t[2] = j
  OBVIOUS
<1> HIDE DEF t
<1>2. running' \subseteq Mailers \X NoticeJobs \X (0..MaxStalls) /\ IsFiniteSet(running')
  BY <1>1, NoticeTypes, CallsRemoved
<1>3. ASSUME NEW k \in NoticeJobs
      PROVE  /\ Cardinality(CallsOf(running, 2, k)) \in Nat
             /\ Cardinality(CallsOf(running', 2, k)) = Cardinality(CallsOf(running, 2, k))
                                                       - (IF k = j THEN 1 ELSE 0)
  <2>1. Cardinality(CallsOf(running, 2, k)) \in Nat
    BY NoticeTypes, CallsFinite
  <2>2. CASE k = j
    <3>1. t[2] = k /\ IsFiniteSet(running)
      BY <2>2, <1>1, NoticeTypes
    <3>2. Cardinality(CallsOf(running \ {t}, 2, k)) = Cardinality(CallsOf(running, 2, k)) - 1
      BY <3>1, <1>1, CallsRemoved
    <3> QED BY <2>1, <2>2, <3>2, <1>1
  <2>3. CASE k # j
    <3>1. CallsOf(running', 2, k) = CallsOf(running, 2, k)
      BY <2>3, <1>1 DEF CallsOf
    <3> QED BY <2>1, <2>3, <3>1
  <2> QED BY <2>2, <2>3
<1>4. ASSUME NEW m \in Mailers
      PROVE  /\ Cardinality(CallsOf(running, 1, m)) \in Nat
             /\ Cardinality(CallsOf(running', 1, m)) = Cardinality(CallsOf(running, 1, m))
                                                       - (IF m = s THEN 1 ELSE 0)
  <2>1. Cardinality(CallsOf(running, 1, m)) \in Nat
    BY NoticeTypes, CallsFinite
  <2>2. CASE m = s
    <3>1. t[1] = m /\ IsFiniteSet(running)
      BY <2>2, <1>1, NoticeTypes
    <3>2. Cardinality(CallsOf(running \ {t}, 1, m)) = Cardinality(CallsOf(running, 1, m)) - 1
      BY <3>1, <1>1, CallsRemoved
    <3> QED BY <2>1, <2>2, <3>2, <1>1
  <2>3. CASE m # s
    <3>1. CallsOf(running', 1, m) = CallsOf(running, 1, m)
      BY <2>3, <1>1 DEF CallsOf
    <3> QED BY <2>1, <2>3, <3>1
  <2> QED BY <2>2, <2>3
<1> QED BY <1>2, <1>3, <1>4

LEMMA JobTracked ==
  ASSUME NotificationsInv, NEW s \in Mailers, NEW j \in NoticeJobs, TrackProcessedJob(s, j)
  PROVE  processed' \in [Mailers -> SUBSET NoticeJobs]
  BY NoticeTypes DEF TrackProcessedJob

LEMMA BreakerFields ==
  ASSUME NEW b \in Breaker
  PROVE  /\ b.failures \in Nat /\ b.paused \in BOOLEAN
         /\ LET z == [b EXCEPT !.failures = 0] IN
            z \in Breaker /\ z.failures = 0 /\ (z.paused <=> b.paused)
<1>1. 0 \in Nat
  OBVIOUS
<1> QED BY <1>1, Zenon DEF Breaker

LEMMA SendSucceedsStep ==
  ASSUME NotificationsInv, NEW s \in Mailers, NEW j \in NoticeJobs, NEW n \in 0..MaxStalls,
         SendSucceeds(s, j, n)
  PROVE  NotificationsInv'
<1> DEFINE b == [breaker[s] EXCEPT !.failures = 0]
           y == [notice[j] EXCEPT !.state = "done"]
<1>1. /\ <<s, j, n>> \in running /\ running' = running \ {<<s, j, n>>}
      /\ sent' = [sent EXCEPT ![j] = sent[j] + 1]
      /\ breaker' = [breaker EXCEPT ![s] = b]
      /\ processed' \in [Mailers -> SUBSET NoticeJobs]
      /\ UNCHANGED <<tried, audited, stalls, restarts, auditLost>>
  BY NoticeTypes, JobTracked DEF SendSucceeds
<1>2. \/ notice' = notice
      \/ notice[j].state = "active" /\ notice' = [notice EXCEPT ![j] = y]
  BY NoticeTypes DEF SendSucceeds, Holds
<1>3. y \in Notice /\ y.state = "done"
  BY NoticeTypes, NoticeFields
<1>4. b \in Breaker /\ b.failures = 0 /\ (b.paused <=> breaker[s].paused)
  BY NoticeTypes, BreakerFields
<1> HIDE DEF b, y
<1>5. /\ notice' \in [NoticeJobs -> Notice]
      /\ \A k \in NoticeJobs :
           \/ notice'[k] = notice[k]
           \/ notice[k].state = "active" /\ notice'[k].state = "done"
  BY <1>2, <1>3, NoticeTypes
<1>6. breaker' \in [Mailers -> Breaker] /\ breaker'[s] = b
      /\ \A m \in Mailers : m # s => breaker'[m] = breaker[m]
  BY <1>1, <1>4, NoticeTypes
<1>7. sent' \in [NoticeJobs -> Nat] /\ sent'[j] = sent[j] + 1
      /\ \A k \in NoticeJobs : k # j => sent'[k] = sent[k]
  BY <1>1, NoticeTypes
<1>8. /\ running' \subseteq Mailers \X NoticeJobs \X (0..MaxStalls)
      /\ IsFiniteSet(running')
      /\ \A k \in NoticeJobs :
           /\ Cardinality(CallsOf(running, 2, k)) \in Nat
           /\ Cardinality(CallsOf(running', 2, k)) = Cardinality(CallsOf(running, 2, k))
                                                     - (IF k = j THEN 1 ELSE 0)
      /\ \A m \in Mailers :
           /\ Cardinality(CallsOf(running, 1, m)) \in Nat
           /\ Cardinality(CallsOf(running', 1, m)) = Cardinality(CallsOf(running, 1, m))
                                                     - (IF m = s THEN 1 ELSE 0)
  BY <1>1, CallReturns
<1>9. NotificationsTypeOK'
  BY <1>1, <1>5, <1>6, <1>7, <1>8, NoticeTypes DEF NotificationsTypeOK, Breaker, Notice
<1>10. NoticeShape'
  BY <1>5 DEF NotificationsInv, NoticeShape
<1>11. HandOuts'
  <2> SUFFICES ASSUME NEW k \in NoticeJobs
               PROVE  sent'[k] + Cardinality(CallsOf(running', 2, k))
                        <= stalls[k] + (IF notice'[k].state \in {"active", "done"} THEN 1 ELSE 0)
    BY <1>1 DEF HandOuts
  <2>1. sent[k] + Cardinality(CallsOf(running, 2, k))
          <= stalls[k] + (IF notice[k].state \in {"active", "done"} THEN 1 ELSE 0)
    BY DEF NotificationsInv, HandOuts
  <2>2. sent'[k] + Cardinality(CallsOf(running', 2, k))
          = sent[k] + Cardinality(CallsOf(running, 2, k))
    BY <1>7, <1>8, NoticeTypes
  <2> QED BY <2>1, <2>2, <1>5
<1>12. BreakerShape'
  <2> SUFFICES ASSUME NEW m \in Mailers
               PROVE  /\ Cardinality(CallsOf(running', 1, m)) <= Slots
                      /\ breaker'[m].paused =>
                           breaker'[m].failures + Cardinality(CallsOf(running', 1, m))
                             <= BreakerLimit + Slots - 1
                      /\ ~breaker'[m].paused => breaker'[m].failures < BreakerLimit
    BY DEF BreakerShape
  <2>1. /\ Cardinality(CallsOf(running, 1, m)) <= Slots
        /\ breaker[m].paused =>
             breaker[m].failures + Cardinality(CallsOf(running, 1, m)) <= BreakerLimit + Slots - 1
        /\ ~breaker[m].paused => breaker[m].failures < BreakerLimit
    BY DEF NotificationsInv, BreakerShape
  <2>2. /\ Cardinality(CallsOf(running, 1, m)) \in Nat /\ Slots \in Nat \ {0}
        /\ BreakerLimit \in Nat \ {0} /\ breaker[m].failures \in Nat
        /\ Cardinality(CallsOf(running', 1, m)) = Cardinality(CallsOf(running, 1, m))
                                                  - (IF m = s THEN 1 ELSE 0)
    BY <1>8, NotificationsAssumption, NoticeTypes, BreakerFields
  <2>3. CASE m = s
    BY <2>1, <2>2, <2>3, <1>4, <1>6
  <2>4. CASE m # s
    BY <2>1, <2>2, <2>4, <1>6
  <2> QED BY <2>3, <2>4
<1> QED BY <1>8, <1>9, <1>10, <1>11, <1>12 DEF NotificationsInv

LEMMA SendFailsStep ==
  ASSUME NotificationsInv, NEW s \in Mailers, NEW j \in NoticeJobs, NEW n \in 0..MaxStalls,
         SendFails(s, j, n)
  PROVE  NotificationsInv'
<1> DEFINE c == breaker[s].failures + 1
           b == [failures |-> c, paused |-> breaker[s].paused \/ c >= BreakerLimit]
<1>1. /\ <<s, j, n>> \in running /\ running' = running \ {<<s, j, n>>}
      /\ breaker' = [breaker EXCEPT ![s] = b]
      /\ processed' \in [Mailers -> SUBSET NoticeJobs]
      /\ UNCHANGED <<sent, tried, stalls, restarts>>
  <2>1. breaker' = [breaker EXCEPT ![s] = b]
    BY Zenon DEF SendFails, RecordFailure
  <2>2. TrackProcessedJob(s, j)
    BY DEF SendFails
  <2> HIDE DEF b
  <2>3. processed' \in [Mailers -> SUBSET NoticeJobs]
    BY <2>2, JobTracked
  <2> QED BY <2>1, <2>3 DEF SendFails
<1>2. /\ notice' \in [NoticeJobs -> Notice] /\ NoticeShape'
      /\ audited' \subseteq NoticeJobs /\ auditLost' \in BOOLEAN
      /\ \A k \in NoticeJobs : k # j => notice'[k] = notice[k]
      /\ \/ notice' = notice
         \/ notice[j].state = "active" /\ notice'[j].state \notin {"active", "done"}
  <2>1. CASE Holds(j, n)
    <3>1. notice[j].state = "active" /\ FailAttemptOf(j)
      BY <2>1 DEF SendFails, Holds
    <3> QED BY <3>1, AttemptFails
  <2>2. CASE ~Holds(j, n)
    <3>1. UNCHANGED <<notice, audited, auditLost>>
      BY <2>2 DEF SendFails
    <3> QED BY <3>1, NoticeTypes DEF NotificationsInv, NoticeShape
  <2> QED BY <2>1, <2>2
<1>3. breaker[s].failures \in Nat /\ breaker[s].paused \in BOOLEAN /\ c \in Nat
  <2>1. breaker[s] \in Breaker
    BY NoticeTypes
  <2>2. breaker[s].failures \in Nat /\ breaker[s].paused \in BOOLEAN
    BY <2>1, Zenon DEF Breaker
  <2> QED BY <2>2
<1>4. b \in Breaker /\ b.failures = c /\ (b.paused <=> breaker[s].paused \/ c >= BreakerLimit)
  <2> HIDE DEF c
  <2> QED BY <1>3, Zenon DEF Breaker
<1> HIDE DEF b
<1>5. breaker' \in [Mailers -> Breaker] /\ breaker'[s] = b
      /\ \A m \in Mailers : m # s => breaker'[m] = breaker[m]
  BY <1>1, <1>4, NoticeTypes
<1>6. /\ running' \subseteq Mailers \X NoticeJobs \X (0..MaxStalls)
      /\ IsFiniteSet(running')
      /\ \A k \in NoticeJobs :
           /\ Cardinality(CallsOf(running, 2, k)) \in Nat
           /\ Cardinality(CallsOf(running', 2, k)) = Cardinality(CallsOf(running, 2, k))
                                                     - (IF k = j THEN 1 ELSE 0)
      /\ \A m \in Mailers :
           /\ Cardinality(CallsOf(running, 1, m)) \in Nat
           /\ Cardinality(CallsOf(running', 1, m)) = Cardinality(CallsOf(running, 1, m))
                                                     - (IF m = s THEN 1 ELSE 0)
  BY <1>1, CallReturns
<1>7. NotificationsTypeOK'
  BY <1>1, <1>2, <1>5, <1>6, NoticeTypes DEF NotificationsTypeOK, Breaker, Notice
<1>8. HandOuts'
  <2> SUFFICES ASSUME NEW k \in NoticeJobs
               PROVE  sent[k] + Cardinality(CallsOf(running', 2, k))
                        <= stalls[k] + (IF notice'[k].state \in {"active", "done"} THEN 1 ELSE 0)
    BY <1>1 DEF HandOuts
  <2>1. sent[k] + Cardinality(CallsOf(running, 2, k))
          <= stalls[k] + (IF notice[k].state \in {"active", "done"} THEN 1 ELSE 0)
    BY DEF NotificationsInv, HandOuts
  <2>2. /\ sent[k] \in Nat /\ stalls[k] \in Nat /\ Cardinality(CallsOf(running, 2, k)) \in Nat
        /\ Cardinality(CallsOf(running', 2, k)) = Cardinality(CallsOf(running, 2, k))
                                                  - (IF k = j THEN 1 ELSE 0)
    BY <1>6, NoticeTypes
  <2>3. CASE k = j
    BY <2>1, <2>2, <2>3, <1>2
  <2>4. CASE k # j
    BY <2>1, <2>2, <2>4, <1>2
  <2> QED BY <2>3, <2>4
<1>9. BreakerShape'
  <2> SUFFICES ASSUME NEW m \in Mailers
               PROVE  /\ Cardinality(CallsOf(running', 1, m)) <= Slots
                      /\ breaker'[m].paused =>
                           breaker'[m].failures + Cardinality(CallsOf(running', 1, m))
                             <= BreakerLimit + Slots - 1
                      /\ ~breaker'[m].paused => breaker'[m].failures < BreakerLimit
    BY DEF BreakerShape
  <2>1. /\ Cardinality(CallsOf(running, 1, m)) <= Slots
        /\ breaker[m].paused =>
             breaker[m].failures + Cardinality(CallsOf(running, 1, m)) <= BreakerLimit + Slots - 1
        /\ ~breaker[m].paused => breaker[m].failures < BreakerLimit
    BY DEF NotificationsInv, BreakerShape
  <2>2. /\ Cardinality(CallsOf(running, 1, m)) \in Nat /\ Slots \in Nat \ {0}
        /\ BreakerLimit \in Nat \ {0} /\ breaker[m].failures \in Nat
        /\ Cardinality(CallsOf(running', 1, m)) = Cardinality(CallsOf(running, 1, m))
                                                  - (IF m = s THEN 1 ELSE 0)
    BY <1>6, NotificationsAssumption, NoticeTypes, BreakerFields
  <2>3. CASE m = s
    BY <2>1, <2>2, <2>3, <1>3, <1>4, <1>5
  <2>4. CASE m # s
    BY <2>1, <2>2, <2>4, <1>5
  <2> QED BY <2>3, <2>4
<1> QED BY <1>2, <1>6, <1>7, <1>8, <1>9 DEF NotificationsInv

LEMMA ResetStep ==
  ASSUME NotificationsInv, NEW s \in Mailers, ResetCircuitBreaker(s)
  PROVE  NotificationsInv'
<1>1. /\ breaker' = [breaker EXCEPT ![s] = Closed]
      /\ UNCHANGED <<notice, running, processed, sent, tried, audited, stalls, restarts, auditLost>>
  BY DEF ResetCircuitBreaker
<1>2. breaker' \in [Mailers -> Breaker] /\ breaker'[s] = Closed
      /\ \A m \in Mailers : m # s => breaker'[m] = breaker[m]
  BY <1>1, ClosedIsBreaker, NoticeTypes
<1>3. NotificationsTypeOK'
  BY <1>1, <1>2, NoticeTypes DEF NotificationsTypeOK, Breaker, Notice
<1>4. NoticeShape' /\ HandOuts' /\ IsFiniteSet(running')
  BY <1>1 DEF NotificationsInv, NoticeShape, HandOuts
<1>5. BreakerShape'
  <2> SUFFICES ASSUME NEW m \in Mailers
               PROVE  /\ Cardinality(CallsOf(running, 1, m)) <= Slots
                      /\ breaker'[m].paused =>
                           breaker'[m].failures + Cardinality(CallsOf(running, 1, m))
                             <= BreakerLimit + Slots - 1
                      /\ ~breaker'[m].paused => breaker'[m].failures < BreakerLimit
    BY <1>1 DEF BreakerShape
  <2>1. /\ Cardinality(CallsOf(running, 1, m)) <= Slots
        /\ breaker[m].paused =>
             breaker[m].failures + Cardinality(CallsOf(running, 1, m)) <= BreakerLimit + Slots - 1
        /\ ~breaker[m].paused => breaker[m].failures < BreakerLimit
    BY DEF NotificationsInv, BreakerShape
  <2>2. CASE m = s
    BY <2>1, <2>2, <1>2, ClosedIsBreaker, NotificationsAssumption
  <2>3. CASE m # s
    BY <2>1, <2>3, <1>2
  <2> QED BY <2>2, <2>3
<1> QED BY <1>3, <1>4, <1>5 DEF NotificationsInv

LEMMA LockLostStep ==
  ASSUME NotificationsInv, NEW j \in NoticeJobs, LockLost(j)
  PROVE  NotificationsInv'
<1> DEFINE y == [notice[j] EXCEPT !.state = "waiting"]
<1>1. /\ notice[j].state = "active" /\ notice' = [notice EXCEPT ![j] = y]
      /\ stalls[j] < MaxStalls /\ stalls' = [stalls EXCEPT ![j] = stalls[j] + 1]
      /\ UNCHANGED <<running, processed, breaker, sent, tried, audited, restarts, auditLost>>
  BY NoticeTypes DEF LockLost
<1>2. y \in Notice /\ y.state = "waiting" /\ y.made = notice[j].made
  BY NoticeTypes, NoticeFields
<1> HIDE DEF y
<1>3. notice' \in [NoticeJobs -> Notice] /\ notice'[j] = y
      /\ \A k \in NoticeJobs : k # j => notice'[k] = notice[k]
  BY <1>1, <1>2, NoticeTypes
<1>4. stalls' \in [NoticeJobs -> 0..MaxStalls] /\ stalls'[j] = stalls[j] + 1
      /\ \A k \in NoticeJobs : k # j => stalls'[k] = stalls[k]
  BY <1>1, NoticeTypes, NotificationsAssumption
<1>5. NotificationsTypeOK'
  BY <1>1, <1>3, <1>4, NoticeTypes DEF NotificationsTypeOK, Breaker, Notice
<1>6. NoticeShape'
  BY <1>1, <1>2, <1>3 DEF NotificationsInv, NoticeShape
<1>7. HandOuts'
  <2> SUFFICES ASSUME NEW k \in NoticeJobs
               PROVE  sent[k] + Cardinality(CallsOf(running, 2, k))
                        <= stalls'[k] + (IF notice'[k].state \in {"active", "done"} THEN 1 ELSE 0)
    BY <1>1 DEF HandOuts
  <2>1. sent[k] + Cardinality(CallsOf(running, 2, k))
          <= stalls[k] + (IF notice[k].state \in {"active", "done"} THEN 1 ELSE 0)
    BY DEF NotificationsInv, HandOuts
  <2>2. stalls[k] \in Nat
    BY NoticeTypes
  <2> QED BY <2>1, <2>2, <1>1, <1>2, <1>3, <1>4
<1>8. BreakerShape' /\ IsFiniteSet(running')
  BY <1>1 DEF NotificationsInv, BreakerShape
<1> QED BY <1>5, <1>6, <1>7, <1>8 DEF NotificationsInv

LEMMA RestartStep ==
  ASSUME NotificationsInv, NEW s \in Mailers, Restart(s)
  PROVE  NotificationsInv'
<1> DEFINE calls == {r \in running : r[1] = s}
           mine == {r[2] : r \in {c \in calls : Holds(c[2], c[3])}}
<1>1. PICK left \in SUBSET calls :
        sent' = [j \in NoticeJobs |-> sent[j] + Cardinality(CallsOf(left, 2, j))]
  BY DEF Restart, CallsOf
<1>2. /\ \A j \in mine : stalls[j] < MaxStalls
      /\ restarts' \in 0..MaxStalls
      /\ running' = running \ calls
      /\ processed' = [processed EXCEPT ![s] = {}]
      /\ breaker' = [breaker EXCEPT ![s] = Closed]
      /\ notice' = [j \in NoticeJobs |->
           IF j \in mine THEN [notice[j] EXCEPT !.state = "waiting"] ELSE notice[j]]
      /\ stalls' = [j \in NoticeJobs |-> stalls[j] + (IF j \in mine THEN 1 ELSE 0)]
      /\ UNCHANGED <<tried, audited, auditLost>>
  BY NoticeTypes, NotificationsAssumption DEF Restart
<1>3. \A j \in mine : notice[j].state = "active"
  BY DEF Holds
<1>4. calls \in SUBSET running
  OBVIOUS
<1>5. \A m \in Mailers : m # s => CallsOf(running \ calls, 1, m) = CallsOf(running, 1, m)
  BY DEF CallsOf
<1>6. CallsOf(running \ calls, 1, s) = {}
  BY DEF CallsOf
<1> HIDE DEF calls, mine
<1>7. \A j \in NoticeJobs :
        LET y == [notice[j] EXCEPT !.state = "waiting"] IN
        y \in Notice /\ y.state = "waiting" /\ y.made = notice[j].made
  BY NoticeTypes, NoticeFields
<1>8. /\ notice' \in [NoticeJobs -> Notice]
      /\ \A j \in NoticeJobs :
           /\ j \notin mine => notice'[j] = notice[j]
           /\ j \in mine => notice'[j].state = "waiting" /\ notice'[j].made = notice[j].made
  BY <1>2, <1>7, NoticeTypes
<1>9. \A j \in NoticeJobs :
        /\ Cardinality(CallsOf(left, 2, j)) \in Nat
        /\ Cardinality(CallsOf(left, 2, j)) + Cardinality(CallsOf(running', 2, j))
             <= Cardinality(CallsOf(running, 2, j))
  BY <1>2, <1>4, NoticeTypes, CallsEnded
<1>10. IsFiniteSet(running') /\ running' \subseteq Mailers \X NoticeJobs \X (0..MaxStalls)
  BY <1>2, NoticeTypes, FS_Subset
<1>11. /\ sent' \in [NoticeJobs -> Nat]
       /\ \A j \in NoticeJobs : sent'[j] = sent[j] + Cardinality(CallsOf(left, 2, j))
  BY <1>1, <1>9, NoticeTypes
<1>12. /\ stalls' \in [NoticeJobs -> 0..MaxStalls]
       /\ \A j \in NoticeJobs : stalls'[j] = stalls[j] + (IF j \in mine THEN 1 ELSE 0)
  BY <1>2, NoticeTypes, NotificationsAssumption
<1>13. breaker' \in [Mailers -> Breaker] /\ breaker'[s] = Closed
       /\ \A m \in Mailers : m # s => breaker'[m] = breaker[m]
  BY <1>2, ClosedIsBreaker, NoticeTypes
<1>14. processed' \in [Mailers -> SUBSET NoticeJobs]
  BY <1>2, NoticeTypes
<1>15. NotificationsTypeOK'
  BY <1>2, <1>8, <1>10, <1>11, <1>12, <1>13, <1>14, NoticeTypes
     DEF NotificationsTypeOK, Breaker, Notice
<1>16. NoticeShape'
  BY <1>3, <1>8 DEF NotificationsInv, NoticeShape
<1>17. HandOuts'
  <2> SUFFICES ASSUME NEW k \in NoticeJobs
               PROVE  sent'[k] + Cardinality(CallsOf(running', 2, k))
                        <= stalls'[k] + (IF notice'[k].state \in {"active", "done"} THEN 1 ELSE 0)
    BY DEF HandOuts
  <2>1. sent[k] + Cardinality(CallsOf(running, 2, k))
          <= stalls[k] + (IF notice[k].state \in {"active", "done"} THEN 1 ELSE 0)
    BY DEF NotificationsInv, HandOuts
  <2>2. /\ Cardinality(CallsOf(running, 2, k)) \in Nat /\ Cardinality(CallsOf(running', 2, k)) \in Nat
        /\ sent[k] \in Nat /\ stalls[k] \in Nat
    BY NoticeTypes, CallsFinite, <1>10
  <2>3. sent'[k] + Cardinality(CallsOf(running', 2, k))
          <= sent[k] + Cardinality(CallsOf(running, 2, k))
    BY <2>2, <1>9, <1>11
  <2>4. stalls[k] + (IF notice[k].state \in {"active", "done"} THEN 1 ELSE 0)
          <= stalls'[k] + (IF notice'[k].state \in {"active", "done"} THEN 1 ELSE 0)
    BY <2>2, <1>3, <1>8, <1>12
  <2> DEFINE o == IF notice[k].state \in {"active", "done"} THEN 1 ELSE 0
             i == IF notice'[k].state \in {"active", "done"} THEN 1 ELSE 0
  <2>5. o \in Nat /\ i \in Nat /\ sent'[k] \in Nat /\ stalls'[k] \in Nat
    BY <1>11, <1>12
  <2> HIDE DEF o, i
  <2> QED BY <2>1, <2>2, <2>3, <2>4, <2>5 DEF o, i
<1>18. BreakerShape'
  <2> SUFFICES ASSUME NEW m \in Mailers
               PROVE  /\ Cardinality(CallsOf(running', 1, m)) <= Slots
                      /\ breaker'[m].paused =>
                           breaker'[m].failures + Cardinality(CallsOf(running', 1, m))
                             <= BreakerLimit + Slots - 1
                      /\ ~breaker'[m].paused => breaker'[m].failures < BreakerLimit
    BY DEF BreakerShape
  <2>1. CASE m = s
    <3>1. Cardinality(CallsOf(running', 1, m)) = 0
      BY <2>1, <1>2, <1>6, FS_EmptySet
    <3> QED BY <2>1, <3>1, <1>13, ClosedIsBreaker, NotificationsAssumption
  <2>2. CASE m # s
    <3>1. CallsOf(running', 1, m) = CallsOf(running, 1, m) /\ breaker'[m] = breaker[m]
      BY <2>2, <1>2, <1>5, <1>13
    <3> QED BY <3>1 DEF NotificationsInv, BreakerShape
  <2> QED BY <2>1, <2>2
<1> QED BY <1>10, <1>15, <1>16, <1>17, <1>18 DEF NotificationsInv

LEMMA NotificationsStep ==
  ASSUME NotificationsInv, [NotificationsNext]_noticeVars
  PROVE  NotificationsInv'
<1>1. CASE UNCHANGED noticeVars
  BY <1>1 DEF noticeVars, NotificationsInv, NotificationsTypeOK, NoticeShape, HandOuts,
              BreakerShape
<1> QED BY <1>1, SkipStep, DispatchStep, SendSucceedsStep, SendFailsStep, ResetStep,
           LockLostStep, RestartStep DEF NotificationsNext

LEMMA NotificationsSafe ==
  ASSUME NotificationsInv
  PROVE  ProviderSpared
<1>1. SentOnce
  <2> SUFFICES ASSUME NEW j \in NoticeJobs PROVE sent[j] <= 1 + stalls[j]
    BY DEF SentOnce
  <2>1. sent[j] + Cardinality(CallsOf(running, 2, j))
          <= stalls[j] + (IF notice[j].state \in {"active", "done"} THEN 1 ELSE 0)
    BY DEF NotificationsInv, HandOuts
  <2>2. sent[j] \in Nat /\ stalls[j] \in Nat /\ Cardinality(CallsOf(running, 2, j)) \in Nat
    BY NoticeTypes, CallsFinite
  <2> QED BY <2>1, <2>2
<1>2. BreakerHolds
  <2> SUFFICES ASSUME NEW s \in Mailers PROVE breaker[s].failures <= BreakerLimit + Slots - 1
    BY DEF BreakerHolds
  <2>1. /\ breaker[s].paused =>
             breaker[s].failures + Cardinality(CallsOf(running, 1, s)) <= BreakerLimit + Slots - 1
        /\ ~breaker[s].paused => breaker[s].failures < BreakerLimit
    BY DEF NotificationsInv, BreakerShape
  <2>2. breaker[s] \in Breaker /\ Cardinality(CallsOf(running, 1, s)) \in Nat
    BY NoticeTypes, CallsFinite
  <2>3. breaker[s].failures \in Nat
    BY <2>2, Zenon DEF Breaker
  <2> QED BY <2>1, <2>2, <2>3, NotificationsAssumption
<1> QED BY <1>1, <1>2 DEF ProviderSpared

\* processNotification: for any number of jobs, servers, slots and attempts, a
\* message leaves once per hand-out, and a provider that is down is called no
\* more often than the breaker and the calls under way allow.
THEOREM ProvidersSpared ==
  NotificationsInit /\ [][NotificationsNext]_noticeVars => []ProviderSpared
  BY NotificationsInitial, NotificationsStep, NotificationsSafe, PTL

-----------------------------------------------------------------------------
(* The weights of the risk factors.                                        *)

Used == UNION {[fs -> Weights] : fs \in SUBSET Factors}
ScoringCall == [at : Scorers, op : {"idle", "sum", "factors", "refused"},
                used : Used, reloaded : BOOLEAN]

\* Before the check of the sum no factor has read a weight.
UnreadShape ==
  \A r \in Scorings : scoring[r].op # "factors" => DOMAIN scoring[r].used = {}

\* A run whose copy was not reloaded since the check has read weights of one
\* and the same map, the one that was checked, and the copy is that map or gone.
Checked(c, kept) ==
  c.op = "factors" /\ ~c.reloaded =>
    \E w \in Map :
      /\ Sum(w) = Total
      /\ kept \in {w, Empty}
      /\ \A f \in DOMAIN c.used : c.used[f] = w[f]

CheckedShape ==
  \A r \in Scorings : Checked(scoring[r], copy[scoring[r].at])

\* Each reader waits for one SELECT, and its run is where it was.
LoadingShape ==
  /\ \A l \in loading : scoring[l.run].op = IF l.reader = TheSum THEN "sum" ELSE "factors"
  /\ \A l, m \in loading : l.run = m.run /\ l.reader = m.reader => l = m

RiskInv ==
  RiskConfigTypeOK /\ UnreadShape /\ CheckedShape /\ LoadingShape

LEMMA UsedFields ==
  ASSUME NEW u \in Used
  PROVE  /\ DOMAIN u \subseteq Factors
         /\ u \in [DOMAIN u -> Weights]
         /\ u = [f \in DOMAIN u |-> u[f]]
<1>1. PICK fs \in SUBSET Factors : u \in [fs -> Weights]
  BY DEF Used
<1>2. DOMAIN u = fs
  BY <1>1
<1> QED BY <1>1, <1>2

LEMMA UsedGrows ==
  ASSUME NEW u \in Used, NEW k \in Factors, NEW v \in Weights
  PROVE  LET z == [f \in DOMAIN u \cup {k} |-> IF f = k THEN v ELSE u[f]] IN
         /\ z \in Used /\ DOMAIN z = DOMAIN u \cup {k} /\ z[k] = v
         /\ \A f \in DOMAIN u : f # k => z[f] = u[f]
<1> DEFINE z == [f \in DOMAIN u \cup {k} |-> IF f = k THEN v ELSE u[f]]
<1>1. z \in [DOMAIN u \cup {k} -> Weights] /\ DOMAIN u \cup {k} \in SUBSET Factors
  BY UsedFields
<1>2. z \in Used
  BY <1>1 DEF Used
<1> QED BY <1>2

LEMMA EmptyUsed == << >> \in Used /\ DOMAIN << >> = {}
<1>1. << >> \in [{} -> Weights] /\ {} \in SUBSET Factors
  OBVIOUS
<1> QED BY <1>1 DEF Used

LEMMA ScoringFields ==
  ASSUME NEW c \in ScoringCall
  PROVE  /\ c.at \in Scorers /\ c.op \in {"idle", "sum", "factors", "refused"}
         /\ c.used \in Used /\ c.reloaded \in BOOLEAN
  BY Zenon DEF ScoringCall

LEMMA OpMoves ==
  ASSUME NEW c \in ScoringCall, NEW o \in {"idle", "sum", "factors", "refused"}
  PROVE  LET z == [c EXCEPT !.op = o] IN
         /\ z \in ScoringCall /\ z.at = c.at /\ z.op = o /\ z.used = c.used
         /\ z.reloaded = c.reloaded
  BY Zenon DEF ScoringCall

LEMMA UsedMoves ==
  ASSUME NEW c \in ScoringCall, NEW u \in Used
  PROVE  LET z == [c EXCEPT !.used = u] IN
         /\ z \in ScoringCall /\ z.at = c.at /\ z.op = c.op /\ z.used = u
         /\ z.reloaded = c.reloaded
  BY Zenon DEF ScoringCall

LEMMA ReloadMoves ==
  ASSUME NEW c \in ScoringCall
  PROVE  LET z == [c EXCEPT !.reloaded = TRUE] IN
         /\ z \in ScoringCall /\ z.at = c.at /\ z.op = c.op /\ z.used = c.used
         /\ z.reloaded
  BY Zenon DEF ScoringCall

\* What a reader's answer leaves of its run.
LEMMA Reads ==
  ASSUME NEW c \in ScoringCall, NEW k \in Factors \cup {TheSum}, NEW w \in Map
  PROVE  /\ Read(c, k, w) \in ScoringCall /\ Read(c, k, w).at = c.at
         /\ Read(c, k, w).reloaded = c.reloaded
         /\ k = TheSum =>
              /\ Read(c, k, w).used = c.used
              /\ Read(c, k, w).op \in {"factors", "refused"}
              /\ Read(c, k, w).op = "factors" => Sum(w) = Total
         /\ k # TheSum =>
              /\ Read(c, k, w).op = c.op
              /\ DOMAIN Read(c, k, w).used = DOMAIN c.used \cup {k}
              /\ Read(c, k, w).used[k] = w[k]
              /\ \A f \in DOMAIN c.used : f # k => Read(c, k, w).used[f] = c.used[f]
<1>1. CASE k = TheSum
  <2> DEFINE o == IF Sum(w) = Total THEN "factors" ELSE "refused"
  <2>1. Read(c, k, w) = [c EXCEPT !.op = o]
    BY <1>1 DEF Read
  <2>2. /\ o \in {"factors", "refused"} /\ (o = "factors" => Sum(w) = Total)
        /\ o \in {"idle", "sum", "factors", "refused"}
    OBVIOUS
  <2> HIDE DEF o
  <2> DEFINE z == [c EXCEPT !.op = o]
  <2>3. /\ z \in ScoringCall /\ z.at = c.at /\ z.op = o /\ z.used = c.used
        /\ z.reloaded = c.reloaded
    BY <2>2, OpMoves, Zenon
  <2>4. Read(c, k, w) = z
    BY <2>1
  <2> HIDE DEF z
  <2> QED BY <1>1, <2>2, <2>3, <2>4
<1>2. CASE k # TheSum
  <2> DEFINE u == [f \in DOMAIN c.used \cup {k} |-> IF f = k THEN w[k] ELSE c.used[f]]
  <2>1. Read(c, k, w) = [c EXCEPT !.used = u]
    BY <1>2, Zenon DEF Read
  <2>2. k \in Factors /\ w[k] \in Weights /\ c.used \in Used
    BY <1>2, ScoringFields DEF Map
  <2>3. /\ u \in Used /\ DOMAIN u = DOMAIN c.used \cup {k} /\ u[k] = w[k]
        /\ \A f \in DOMAIN c.used : f # k => u[f] = c.used[f]
    BY <2>2, UsedGrows
  <2> HIDE DEF u
  <2> DEFINE z == [c EXCEPT !.used = u]
  <2>4. /\ z \in ScoringCall /\ z.at = c.at /\ z.op = c.op /\ z.used = u
        /\ z.reloaded = c.reloaded
    BY <2>3, UsedMoves
  <2>5. Read(c, k, w) = z
    BY <2>1
  <2> HIDE DEF z
  <2> QED BY <1>2, <2>3, <2>4, <2>5
<1> QED BY <1>1, <1>2

LEMMA RiskTypes ==
  ASSUME RiskInv
  PROVE  /\ weight \in Map /\ copy \in [Scorers -> Map \cup {Empty}]
         /\ scoring \in [Scorings -> ScoringCall]
         /\ loading \subseteq [run : Scorings, reader : Factors \cup {TheSum}, rows : Map]
         /\ updating \subseteq Scorers /\ updates \in 0..MaxUpdates
  BY DEF RiskInv, RiskConfigTypeOK, ScoringCall, Used

LEMMA RiskInitial ==
  ASSUME RiskConfigInit
  PROVE  RiskInv
<1>1. \A r \in Scorings : /\ scoring[r] \in ScoringCall /\ scoring[r].op = "idle"
                          /\ scoring[r].used = << >>
  <2> SUFFICES ASSUME NEW r \in Scorings
               PROVE  /\ scoring[r] \in ScoringCall /\ scoring[r].op = "idle"
                      /\ scoring[r].used = << >>
    OBVIOUS
  <2>1. scoring[r] \in [at : Scorers, op : {"idle"}, used : {<< >>}, reloaded : {FALSE}]
    BY DEF RiskConfigInit
  <2>2. << >> \in Used
    BY EmptyUsed
  <2>3. scoring[r] \in ScoringCall
    BY <2>1, <2>2, Zenon DEF ScoringCall
  <2> QED BY <2>1, <2>3
<1>2. scoring \in [Scorings -> ScoringCall]
  <2>1. \E S : scoring \in [Scorings -> S]
    BY DEF RiskConfigInit
  <2> QED BY <1>1, <2>1
<1>3. RiskConfigTypeOK
  <2>1. weight \in Map
    BY RiskConfigAssumption DEF RiskConfigInit, Map
  <2>2. copy \in [Scorers -> Map \cup {Empty}] /\ loading = {} /\ updating = {}
    BY DEF RiskConfigInit
  <2>3. updates \in 0..MaxUpdates
    BY RiskConfigAssumption DEF RiskConfigInit
  <2> QED BY <1>2, <2>1, <2>2, <2>3 DEF RiskConfigTypeOK, ScoringCall, Used
<1>4. UnreadShape /\ CheckedShape
  BY <1>1, EmptyUsed DEF UnreadShape, CheckedShape, Checked
<1>5. LoadingShape
  BY DEF RiskConfigInit, LoadingShape
<1> QED BY <1>3, <1>4, <1>5 DEF RiskInv

\* A copy that is dropped keeps what was checked.
LEMMA DroppedStaysChecked ==
  ASSUME NEW c \in ScoringCall, NEW kept, Checked(c, kept)
  PROVE  Checked(c, Empty)
  BY DEF Checked

\* What a reader takes from a map that its run was checked with is covered.
LEMMA ReadStaysChecked ==
  ASSUME NEW c \in ScoringCall, NEW k \in Factors \cup {TheSum}, NEW w \in Map,
         Checked(c, w), w # Empty,
         k = TheSum => DOMAIN c.used = {},
         k # TheSum => c.op = "factors"
  PROVE  Checked(Read(c, k, w), w)
<1> DEFINE z == Read(c, k, w)
<1>1. CASE k = TheSum
  <2>1. DOMAIN z.used = {} /\ (z.op = "factors" => Sum(w) = Total)
    BY <1>1, Reads
  <2> HIDE DEF z
  <2>2. Checked(z, w)
    BY <2>1 DEF Checked
  <2> QED BY <2>2 DEF z
<1>2. CASE k # TheSum
  <2>1. /\ z.op = c.op /\ z.reloaded = c.reloaded
        /\ DOMAIN z.used = DOMAIN c.used \cup {k} /\ z.used[k] = w[k]
        /\ \A f \in DOMAIN c.used : f # k => z.used[f] = c.used[f]
    BY <1>2, Reads
  <2> HIDE DEF z
  <2> SUFFICES ASSUME z.op = "factors" /\ ~z.reloaded
               PROVE  \E y \in Map : /\ Sum(y) = Total
                                     /\ w \in {y, Empty}
                                     /\ \A f \in DOMAIN z.used : z.used[f] = y[f]
    BY DEF Checked, z
  <2>2. PICK y \in Map : /\ Sum(y) = Total
                         /\ w \in {y, Empty}
                         /\ \A f \in DOMAIN c.used : c.used[f] = y[f]
    BY <2>1 DEF Checked
  <2>3. y = w
    BY <2>2
  <2> QED BY <2>1, <2>2, <2>3
<1> QED BY <1>1, <1>2

LEMMA ScoreInvoiceStep ==
  ASSUME RiskInv, NEW r \in Scorings, ScoreInvoice(r)
  PROVE  RiskInv'
<1> DEFINE z == [scoring[r] EXCEPT !.op = "sum"]
<1>1. /\ scoring' = [scoring EXCEPT ![r] = z] /\ scoring[r].op = "idle"
      /\ UNCHANGED <<weight, copy, loading, updating, updates>>
  BY DEF ScoreInvoice
<1>2. /\ z \in ScoringCall /\ z.at = scoring[r].at /\ z.op = "sum" /\ z.used = scoring[r].used
  BY RiskTypes, OpMoves, Zenon
<1> HIDE DEF z
<1>3. /\ scoring' \in [Scorings -> ScoringCall] /\ scoring'[r] = z
      /\ \A q \in Scorings : q # r => scoring'[q] = scoring[q]
  BY <1>1, <1>2, RiskTypes
<1>4. RiskConfigTypeOK'
  BY <1>1, <1>3, RiskTypes DEF RiskConfigTypeOK, ScoringCall, Used
<1>5. UnreadShape'
  BY <1>1, <1>2, <1>3 DEF RiskInv, UnreadShape
<1>6. CheckedShape'
  <2> SUFFICES ASSUME NEW q \in Scorings
               PROVE  Checked(scoring'[q], copy'[scoring'[q].at])
    BY DEF CheckedShape
  <2>1. CASE q = r
    BY <2>1, <1>2, <1>3 DEF Checked
  <2>2. CASE q # r
    BY <2>2, <1>1, <1>3 DEF RiskInv, CheckedShape
  <2> QED BY <2>1, <2>2
<1>7. LoadingShape'
  <2>1. \A l \in loading : l.run \in Scorings /\ l.run # r
    BY <1>1, RiskTypes DEF RiskInv, LoadingShape
  <2> QED BY <2>1, <1>1, <1>3 DEF RiskInv, LoadingShape
<1> QED BY <1>4, <1>5, <1>6, <1>7 DEF RiskInv

LEMMA GetRiskWeightsStep ==
  ASSUME RiskInv, NEW r \in Scorings, NEW k \in Factors \cup {TheSum}, GetRiskWeights(r, k)
  PROVE  RiskInv'
<1> DEFINE w == copy[scoring[r].at]
           z == Read(scoring[r], k, w)
<1>1. /\ scoring' = [scoring EXCEPT ![r] = z] /\ w # Empty /\ Asks(r, k)
      /\ UNCHANGED <<weight, copy, loading, updating, updates>>
  BY DEF GetRiskWeights
<1>2. /\ scoring[r] \in ScoringCall /\ w \in Map /\ Checked(scoring[r], w)
  BY <1>1, RiskTypes, ScoringFields DEF RiskInv, CheckedShape
<1>3. /\ k = TheSum => scoring[r].op = "sum" /\ DOMAIN scoring[r].used = {}
      /\ k # TheSum => scoring[r].op = "factors"
  BY <1>1, RiskConfigAssumption DEF Asks, RiskInv, UnreadShape
<1> HIDE DEF w
<1>4. /\ z \in ScoringCall /\ z.at = scoring[r].at
      /\ k = TheSum => DOMAIN z.used = {}
      /\ k # TheSum => z.op = "factors"
  BY <1>2, <1>3, Reads
<1>5. Checked(z, w)
  BY <1>1, <1>2, <1>3, ReadStaysChecked
<1> HIDE DEF z
<1>6. /\ scoring' \in [Scorings -> ScoringCall] /\ scoring'[r] = z
      /\ \A q \in Scorings : q # r => scoring'[q] = scoring[q]
  BY <1>1, <1>4, RiskTypes
<1>7. RiskConfigTypeOK'
  BY <1>1, <1>6, RiskTypes DEF RiskConfigTypeOK, ScoringCall, Used
<1>8. UnreadShape'
  BY <1>4, <1>6 DEF RiskInv, UnreadShape
<1>9. CheckedShape'
  <2> SUFFICES ASSUME NEW q \in Scorings
               PROVE  Checked(scoring'[q], copy'[scoring'[q].at])
    BY DEF CheckedShape
  <2>1. CASE q = r
    BY <2>1, <1>1, <1>4, <1>5, <1>6 DEF w
  <2>2. CASE q # r
    BY <2>2, <1>1, <1>6 DEF RiskInv, CheckedShape
  <2> QED BY <2>1, <2>2
<1>10. LoadingShape'
  <2> SUFFICES ASSUME NEW l \in loading
               PROVE  scoring'[l.run].op = IF l.reader = TheSum THEN "sum" ELSE "factors"
    BY <1>1 DEF RiskInv, LoadingShape
  <2>1. /\ l.run \in Scorings /\ (l.run # r \/ l.reader # k)
        /\ scoring[l.run].op = IF l.reader = TheSum THEN "sum" ELSE "factors"
    BY <1>1, RiskTypes DEF RiskInv, LoadingShape, Asks
  <2>2. CASE l.run = r
    BY <2>1, <2>2, <1>3, <1>4, <1>6
  <2>3. CASE l.run # r
    BY <2>1, <2>3, <1>6
  <2> QED BY <2>2, <2>3
<1> QED BY <1>7, <1>8, <1>9, <1>10 DEF RiskInv

LEMMA LoadRiskConfigStep ==
  ASSUME RiskInv, NEW r \in Scorings, NEW k \in Factors \cup {TheSum},
         NEW rows \in {weight, Defaults}, LoadRiskConfig(r, k, rows)
  PROVE  RiskInv'
<1> DEFINE z == [run |-> r, reader |-> k, rows |-> rows]
<1>1. /\ loading' = loading \cup {z} /\ Asks(r, k)
      /\ UNCHANGED <<weight, copy, scoring, updating, updates>>
  BY DEF LoadRiskConfig
<1>2. rows \in Map
  BY RiskTypes, RiskConfigAssumption DEF Map
<1>3. /\ z \in [run : Scorings, reader : Factors \cup {TheSum}, rows : Map]
      /\ z.run = r /\ z.reader = k
  BY <1>2
<1> HIDE DEF z
<1>4. RiskConfigTypeOK'
  BY <1>1, <1>3 DEF RiskConfigTypeOK, RiskInv
<1>5. UnreadShape' /\ CheckedShape'
  BY <1>1 DEF RiskInv, UnreadShape, CheckedShape
<1>6. LoadingShape'
  <2>1. scoring[r].op = IF k = TheSum THEN "sum" ELSE "factors"
    BY <1>1, RiskConfigAssumption DEF Asks
  <2>2. \A l \in loading : l.run # r \/ l.reader # k
    BY <1>1 DEF Asks
  <2> QED BY <2>1, <2>2, <1>1, <1>3 DEF RiskInv, LoadingShape
<1> QED BY <1>4, <1>5, <1>6 DEF RiskInv

LEMMA DropStep ==
  ASSUME RiskInv, NEW s \in Scorers, copy' = [copy EXCEPT ![s] = Empty],
         updating' \subseteq Scorers, UNCHANGED <<weight, scoring, loading, updates>>
  PROVE  RiskInv'
<1>1. /\ copy' \in [Scorers -> Map \cup {Empty}] /\ copy'[s] = Empty
      /\ \A t \in Scorers : t # s => copy'[t] = copy[t]
  BY RiskTypes
<1>2. RiskConfigTypeOK'
  BY <1>1 DEF RiskConfigTypeOK, RiskInv
<1>3. UnreadShape' /\ LoadingShape'
  BY DEF RiskInv, UnreadShape, LoadingShape
<1>4. CheckedShape'
  <2> SUFFICES ASSUME NEW q \in Scorings
               PROVE  Checked(scoring[q], copy'[scoring[q].at])
    BY DEF CheckedShape
  <2>1. Checked(scoring[q], copy[scoring[q].at])
    BY DEF RiskInv, CheckedShape
  <2>2. scoring[q] \in ScoringCall /\ scoring[q].at \in Scorers
    BY RiskTypes, ScoringFields
  <2> QED BY <2>1, <2>2, <1>1, DroppedStaysChecked
<1> QED BY <1>2, <1>3, <1>4 DEF RiskInv

LEMMA UpdateRiskConfigStep ==
  ASSUME RiskInv, NEW s \in Scorers, NEW f \in Factors, NEW v \in Weights,
         UpdateRiskConfig(s, f, v)
  PROVE  RiskInv'
<1>1. /\ weight' \in Map /\ updating' \subseteq Scorers /\ updates' \in 0..MaxUpdates
      /\ UNCHANGED <<copy, scoring, loading>>
  BY RiskTypes, RiskConfigAssumption DEF UpdateRiskConfig, Map
<1>2. RiskConfigTypeOK'
  BY <1>1 DEF RiskConfigTypeOK, RiskInv
<1> QED BY <1>1, <1>2 DEF RiskInv, UnreadShape, CheckedShape, LoadingShape

LEMMA LoadedStep ==
  ASSUME RiskInv, NEW l \in loading, Loaded(l)
  PROVE  RiskInv'
<1> DEFINE s == scoring[l.run].at
           Answered(q) == IF q = l.run THEN Read(scoring[q], l.reader, l.rows) ELSE scoring[q]
           Hit(q) == scoring[q].at = s /\ scoring[q].op = "factors"
           Marked(q) == [Answered(q) EXCEPT !.reloaded = TRUE]
<1>1. /\ loading' = loading \ {l} /\ copy' = [copy EXCEPT ![s] = l.rows]
      /\ scoring' = [q \in Scorings |-> IF Hit(q) THEN Marked(q) ELSE Answered(q)]
      /\ UNCHANGED <<weight, updating, updates>>
  BY DEF Loaded
<1>2. /\ l.run \in Scorings /\ l.reader \in Factors \cup {TheSum} /\ l.rows \in Map
      /\ scoring[l.run] \in ScoringCall /\ s \in Scorers
      /\ scoring[l.run].op = IF l.reader = TheSum THEN "sum" ELSE "factors"
  BY RiskTypes, ScoringFields DEF RiskInv, LoadingShape
<1> HIDE DEF s
<1>3. ASSUME NEW q \in Scorings
      PROVE  /\ Answered(q) \in ScoringCall /\ Answered(q).at = scoring[q].at
             /\ q # l.run => Answered(q) = scoring[q]
             /\ q = l.run /\ l.reader # TheSum => Answered(q).op = "factors"
             /\ q = l.run /\ l.reader = TheSum =>
                  /\ DOMAIN Answered(q).used = {}
                  /\ Answered(q).op = "factors" => Sum(l.rows) = Total
  <2>1. CASE q = l.run
    <3> DEFINE z == Read(scoring[q], l.reader, l.rows)
    <3>1. /\ z \in ScoringCall /\ z.at = scoring[q].at
          /\ l.reader # TheSum => z.op = scoring[q].op
          /\ l.reader = TheSum => /\ z.used = scoring[q].used
                                  /\ z.op = "factors" => Sum(l.rows) = Total
      <4>1. /\ scoring[q] \in ScoringCall /\ l.rows \in Map
            /\ l.reader \in Factors \cup {TheSum}
        BY <1>2, <2>1
      <4> QED BY <4>1, Reads
    <3>2. l.reader = TheSum => DOMAIN scoring[q].used = {}
      BY <1>2, <2>1 DEF RiskInv, UnreadShape
    <3>3. Answered(q) = z
      BY <2>1
    <3> HIDE DEF z, Answered
    <3> QED BY <2>1, <3>1, <3>2, <3>3, <1>2
  <2>2. CASE q # l.run
    BY <2>2, RiskTypes
  <2> QED BY <2>1, <2>2
<1> HIDE DEF Answered
<1>4. ASSUME NEW q \in Scorings
      PROVE  /\ Marked(q) \in ScoringCall /\ Marked(q).at = scoring[q].at
             /\ Marked(q).op = Answered(q).op /\ Marked(q).used = Answered(q).used
             /\ Marked(q).reloaded
  <2>1. Answered(q) \in ScoringCall /\ Answered(q).at = scoring[q].at
    BY <1>3
  <2> QED BY <2>1, ReloadMoves
<1> HIDE DEF Marked
<1>5. /\ scoring' \in [Scorings -> ScoringCall]
      /\ \A q \in Scorings : /\ scoring'[q].at = scoring[q].at
                             /\ Hit(q) => scoring'[q] = Marked(q)
                             /\ ~Hit(q) => scoring'[q] = Answered(q)
  BY <1>1, <1>3, <1>4
<1>6. /\ copy' \in [Scorers -> Map \cup {Empty}] /\ copy'[s] = l.rows
      /\ \A t \in Scorers : t # s => copy'[t] = copy[t]
  BY <1>1, <1>2, RiskTypes
<1>7. RiskConfigTypeOK'
  <2>1. loading' \subseteq [run : Scorings, reader : Factors \cup {TheSum}, rows : Map]
    BY <1>1, RiskTypes
  <2> QED BY <2>1, <1>1, <1>5, <1>6, RiskTypes DEF RiskConfigTypeOK, ScoringCall, Used
<1>8. UnreadShape'
  <2> SUFFICES ASSUME NEW q \in Scorings, scoring'[q].op # "factors"
               PROVE  DOMAIN scoring'[q].used = {}
    BY DEF UnreadShape
  <2>1. scoring'[q].op = Answered(q).op /\ scoring'[q].used = Answered(q).used
    BY <1>4, <1>5
  <2>2. CASE q = l.run
    BY <2>1, <2>2, <1>3
  <2>3. CASE q # l.run
    BY <2>1, <2>3, <1>3 DEF RiskInv, UnreadShape
  <2> QED BY <2>2, <2>3
<1>9. CheckedShape'
  <2> SUFFICES ASSUME NEW q \in Scorings
               PROVE  Checked(scoring'[q], copy'[scoring'[q].at])
    BY DEF CheckedShape
  <2>1. CASE Hit(q)
    <3>1. scoring'[q].reloaded
      BY <2>1, <1>4, <1>5
    <3> QED BY <3>1 DEF Checked
  <2>2. CASE ~Hit(q) /\ q = l.run
    <3>1. /\ l.reader = TheSum /\ scoring'[q] = Answered(q) /\ scoring[q].at = s
      BY <2>2, <1>2, <1>5 DEF s
    <3>2. /\ DOMAIN scoring'[q].used = {}
          /\ scoring'[q].op = "factors" => Sum(l.rows) = Total
          /\ copy'[scoring'[q].at] = l.rows
      BY <2>2, <3>1, <1>3, <1>5, <1>6
    <3> QED BY <3>2, <1>2 DEF Checked
  <2>3. CASE ~Hit(q) /\ q # l.run
    <3>1. scoring'[q] = scoring[q] /\ scoring[q].at \in Scorers
      BY <2>3, <1>3, <1>5, RiskTypes, ScoringFields
    <3>2. CASE scoring[q].at = s
      BY <2>3, <3>1, <3>2 DEF Checked
    <3>3. CASE scoring[q].at # s
      <4>1. copy'[scoring'[q].at] = copy[scoring[q].at]
        BY <3>1, <3>3, <1>6
      <4> QED BY <3>1, <4>1 DEF RiskInv, CheckedShape
    <3> QED BY <3>2, <3>3
  <2> QED BY <2>1, <2>2, <2>3
<1>10. LoadingShape'
  <2> SUFFICES ASSUME NEW m \in loading'
               PROVE  scoring'[m.run].op = IF m.reader = TheSum THEN "sum" ELSE "factors"
    BY <1>1 DEF RiskInv, LoadingShape
  <2>1. /\ m \in loading /\ m # l /\ m.run \in Scorings
        /\ scoring[m.run].op = IF m.reader = TheSum THEN "sum" ELSE "factors"
        /\ m.run = l.run => m.reader # l.reader
    BY <1>1, RiskTypes DEF RiskInv, LoadingShape
  <2>2. scoring'[m.run].op = Answered(m.run).op
    BY <2>1, <1>4, <1>5
  <2>3. CASE m.run = l.run
    BY <2>1, <2>2, <2>3, <1>2, <1>3
  <2>4. CASE m.run # l.run
    BY <2>1, <2>2, <2>4, <1>3
  <2> QED BY <2>3, <2>4
<1> QED BY <1>7, <1>8, <1>9, <1>10 DEF RiskInv

LEMMA RiskStep ==
  ASSUME RiskInv, [RiskConfigNext]_riskVars
  PROVE  RiskInv'
<1>1. CASE UNCHANGED riskVars
  BY <1>1 DEF riskVars, RiskInv, RiskConfigTypeOK, UnreadShape, CheckedShape, LoadingShape
<1>2. ASSUME NEW s \in Scorers, Expire(s) \/ InvalidateRiskConfigCache(s)
      PROVE  RiskInv'
  <2>1. /\ copy' = [copy EXCEPT ![s] = Empty] /\ updating' \subseteq Scorers
        /\ UNCHANGED <<weight, scoring, loading, updates>>
    BY <1>2, RiskTypes DEF Expire, InvalidateRiskConfigCache
  <2> QED BY <2>1, DropStep
<1> QED BY <1>1, <1>2, ScoreInvoiceStep, GetRiskWeightsStep, LoadRiskConfigStep,
           UpdateRiskConfigStep, LoadedStep DEF RiskConfigNext

LEMMA RiskSafe ==
  ASSUME RiskInv
  PROVE  ConsistentScore
<1> SUFFICES ASSUME NEW r \in Scorings, DOMAIN scoring[r].used = Factors, ~scoring[r].reloaded
             PROVE  Sum(scoring[r].used) = Total
  BY DEF ConsistentScore
<1>1. scoring[r].op = "factors"
  BY RiskConfigAssumption DEF RiskInv, UnreadShape
<1>2. PICK w \in Map : /\ Sum(w) = Total
                       /\ \A f \in DOMAIN scoring[r].used : scoring[r].used[f] = w[f]
  BY <1>1 DEF RiskInv, CheckedShape, Checked
<1>3. scoring[r].used \in [Factors -> Weights]
  BY RiskTypes, ScoringFields, UsedFields
<1>4. scoring[r].used = w
  BY <1>2, <1>3 DEF Map
<1> QED BY <1>2, <1>4

\* scoreInvoice: for any number of runs, servers, factors and weights, the check
\* of the sum covers the weights that the factors use, unless the copy was
\* reloaded in between.
THEOREM ScoresStayConsistent ==
  RiskConfigInit /\ [][RiskConfigNext]_riskVars => []ConsistentScore
  BY RiskInitial, RiskStep, RiskSafe, PTL

-----------------------------------------------------------------------------
(* Scores and offers.  First the arithmetic of BigInt: products and        *)
(* truncated quotients of natural numbers.                                 *)

LEMMA ProductIsNat ==
  ASSUME NEW a \in Nat, NEW b \in Nat
  PROVE  a * b \in Nat
  OBVIOUS

LEMMA ProductGrows ==
  ASSUME NEW a \in Nat, NEW b \in Nat, NEW c \in Nat, a <= b
  PROVE  a * c <= b * c /\ c * a <= c * b
  OBVIOUS

LEMMA ProductStrict ==
  ASSUME NEW a \in Nat, NEW b \in Nat, NEW c \in Nat \ {0}, a < b
  PROVE  a * c < b * c
  OBVIOUS

\* Truncation takes the largest number of times the divisor fits.
LEMMA Quotient ==
  ASSUME NEW a \in Nat, NEW b \in Nat \ {0}
  PROVE  /\ a \div b \in Nat
         /\ (a \div b) * b <= a
         /\ a < (a \div b) * b + b
  OBVIOUS

LEMMA QuotientLargest ==
  ASSUME NEW a \in Nat, NEW b \in Nat \ {0}, NEW n \in Nat, n * b <= a
  PROVE  n <= a \div b
<1> DEFINE q == a \div b
<1>1. q \in Nat /\ a < q * b + b
  BY Quotient
<1> HIDE DEF q
<1>2. ASSUME q + 1 <= n PROVE FALSE
  <2>1. (q + 1) * b <= n * b
    BY <1>1, <1>2, ProductGrows
  <2>2. (q + 1) * b = q * b + b
    BY <1>1
  <2> QED BY <1>1, <2>1, <2>2
<1> QED BY <1>1, <1>2 DEF q

LEMMA QuotientLess ==
  ASSUME NEW a \in Nat, NEW b \in Nat \ {0}, NEW n \in Nat, a < n * b
  PROVE  a \div b < n
<1> DEFINE q == a \div b
<1>1. q \in Nat /\ q * b <= a
  BY Quotient
<1> HIDE DEF q
<1>2. ASSUME n <= q PROVE FALSE
  <2>1. n * b <= q * b
    BY <1>1, <1>2, ProductGrows
  <2> QED BY <1>1, <2>1
<1> QED BY <1>1, <1>2 DEF q

LEMMA QuotientGrows ==
  ASSUME NEW a \in Nat, NEW c \in Nat, NEW b \in Nat \ {0}, a <= c
  PROVE  a \div b <= c \div b
<1>1. a \div b \in Nat /\ (a \div b) * b <= a
  BY Quotient
<1>2. (a \div b) * b <= c
  BY <1>1
<1> QED BY <1>1, <1>2, QuotientLargest

-----------------------------------------------------------------------------
(* The score.                                                              *)

Deals == [face : FaceValues, tenor : Tenors, rating : Ratings, record : Records,
          util : Utilisations, collateral : Collaterals, refer : ReferThresholds]

LEMMA DealFields ==
  ASSUME NEW d \in Deals
  PROVE  /\ d.face \in Nat \ {0} /\ d.tenor \in Nat /\ d.tenor >= 7 /\ d.tenor <= 90
         /\ d.util \in Nat /\ d.refer \in Nat /\ d.refer <= 75
         /\ d.record.collected \in Nat /\ d.record.defaulted \in Nat
<1>1. /\ d.face \in FaceValues /\ d.tenor \in Tenors /\ d.util \in Utilisations
      /\ d.refer \in ReferThresholds /\ d.record \in Records
  BY DEF Deals
<1>2. d.record \in [collected : Nat, defaulted : Nat]
  BY <1>1, TermsAssumption
<1>3. d.face \in Nat \ {0} /\ d.tenor \in 7..90 /\ d.util \in Nat /\ d.refer \in 0..75
  BY <1>1, TermsAssumption
<1> QED BY <1>2, <1>3

\* Every factor lies on a scale from 0 to 100.
LEMMA RawScale ==
  ASSUME NEW d \in Deals
  PROVE  /\ DOMAIN Raw(d) = Factors5
         /\ \A f \in Factors5 : Raw(d)[f] \in Nat /\ Raw(d)[f] <= 100
<1>1. CreditRatingScores(d.rating) \in 0..100
  BY DEF CreditRatingScores
<1>2. CalculateTenorRaw(d.tenor) \in 0..100
  BY DEF CalculateTenorRaw
<1>3. CalculateTrackRecordRaw(d.record) \in 0..100
  <2> DEFINE t90 == OnTime(d.record, 90)
             t95 == OnTime(d.record, 95)
  <2> HIDE DEF t90, t95
  <2> QED BY DealFields DEF CalculateTrackRecordRaw, InvoiceCount, t90, t95
<1>4. CalculateConcentrationRaw(d.util) \in 0..100
  BY DealFields DEF CalculateConcentrationRaw
<1>5. CalculateCollateralRaw(d.collateral) \in 0..100
  BY DEF CalculateCollateralRaw
<1> QED BY <1>1, <1>2, <1>3, <1>4, <1>5 DEF Raw, Factors5

\* A failed query only takes away.
LEMMA FailureTakesAway ==
  ASSUME NEW d \in Deals, NEW failed
  PROVE  /\ RawSum(d, failed) \in Nat
         /\ RawSum(d, {}) \in Nat /\ RawSum(d, {}) <= 10000
         /\ RawSum(d, failed) <= RawSum(d, {})
<1> DEFINE S(gone) == [f \in Factors5 |-> IF f \in gone THEN 0 ELSE Weight[f] * Raw(d)[f]]
<1>1. /\ Raw(d).buyer_credit \in Nat /\ Raw(d).buyer_credit <= 100
      /\ Raw(d).tenor \in Nat /\ Raw(d).tenor <= 100
      /\ Raw(d).track_record \in Nat /\ Raw(d).track_record <= 100
      /\ Raw(d).concentration \in Nat /\ Raw(d).concentration <= 100
      /\ Raw(d).collateral \in Nat /\ Raw(d).collateral <= 100
  BY RawScale DEF Factors5
<1>2. ASSUME NEW gone
      PROVE  /\ S(gone).buyer_credit = IF "buyer_credit" \in gone THEN 0 ELSE 30 * Raw(d).buyer_credit
             /\ S(gone).tenor = IF "tenor" \in gone THEN 0 ELSE 20 * Raw(d).tenor
             /\ S(gone).track_record = IF "track_record" \in gone THEN 0 ELSE 20 * Raw(d).track_record
             /\ S(gone).concentration = IF "concentration" \in gone THEN 0 ELSE 15 * Raw(d).concentration
             /\ S(gone).collateral = IF "collateral" \in gone THEN 0 ELSE 15 * Raw(d).collateral
  BY DEF Factors5, Weight
<1>3. \A gone : RawSum(d, gone) = SumOfFactors(S(gone))
  BY DEF RawSum
<1> HIDE DEF S
<1>4. ASSUME NEW gone
      PROVE  /\ RawSum(d, gone) \in Nat /\ RawSum(d, gone) <= 10000
             /\ RawSum(d, gone) <= RawSum(d, {})
  <2>1. /\ S(gone).buyer_credit \in Nat /\ S(gone).tenor \in Nat
        /\ S(gone).track_record \in Nat /\ S(gone).concentration \in Nat
        /\ S(gone).collateral \in Nat
    BY <1>1, <1>2
  <2>2. /\ S({}).buyer_credit = 30 * Raw(d).buyer_credit /\ S({}).tenor = 20 * Raw(d).tenor
        /\ S({}).track_record = 20 * Raw(d).track_record
        /\ S({}).concentration = 15 * Raw(d).concentration
        /\ S({}).collateral = 15 * Raw(d).collateral
    BY <1>2
  <2>3. /\ S(gone).buyer_credit <= S({}).buyer_credit /\ S(gone).tenor <= S({}).tenor
        /\ S(gone).track_record <= S({}).track_record
        /\ S(gone).concentration <= S({}).concentration
        /\ S(gone).collateral <= S({}).collateral
    BY <1>1, <1>2, <2>2
  <2>4. /\ S({}).buyer_credit \in Nat /\ S({}).tenor \in Nat /\ S({}).track_record \in Nat
        /\ S({}).concentration \in Nat /\ S({}).collateral \in Nat
        /\ S({}).buyer_credit <= 3000 /\ S({}).tenor <= 2000 /\ S({}).track_record <= 2000
        /\ S({}).concentration <= 1500 /\ S({}).collateral <= 1500
    BY <1>1, <2>2
  <2> QED BY <1>3, <2>1, <2>3, <2>4 DEF SumOfFactors
<1> QED BY <1>4

LEMMA BestScore ==
  ASSUME NEW sum \in Nat, sum <= 10000
  PROVE  Max(FinalScores(sum)) = (sum + 50) \div 100
<1> DEFINE best == (sum + 50) \div 100
<1>1. best \in Nat /\ best <= 100 /\ 100 * best <= sum + 50 /\ sum + 50 < 100 * best + 100
  <2>1. best \in Nat /\ best * 100 <= sum + 50 /\ sum + 50 < best * 100 + 100
    BY Quotient
  <2> HIDE DEF best
  <2> QED BY <2>1
<1>2. best \in FinalScores(sum)
  BY <1>1 DEF FinalScores
<1>3. \A n \in FinalScores(sum) : n \in Nat /\ n <= best
  BY <1>1 DEF FinalScores
<1> HIDE DEF best
<1>4. \A n \in FinalScores(sum) : (\A m \in FinalScores(sum) : n >= m) => n = best
  BY <1>1, <1>2, <1>3
<1>5. \A m \in FinalScores(sum) : best >= m
  BY <1>1, <1>3
<1>6. Max(FinalScores(sum)) = best
  BY <1>2, <1>4, <1>5 DEF Max
<1> QED BY <1>6 DEF best

LEMMA ScoreAtMostBest ==
  ASSUME NEW low \in Nat, NEW high \in Nat, low <= high, high <= 10000,
         NEW n \in FinalScores(low)
  PROVE  /\ n \in Nat /\ n <= 100 /\ n <= Max(FinalScores(high))
         /\ Max(FinalScores(high)) \in Nat /\ Max(FinalScores(high)) <= 100
<1>1. Max(FinalScores(high)) = (high + 50) \div 100
  BY BestScore
<1>2. n \in Nat /\ n <= 100 /\ 200 * n - 100 <= 2 * low
  BY DEF FinalScores
<1>3. n <= (high + 50) \div 100
  BY <1>2, QuotientLargest
<1>4. (high + 50) \div 100 \in Nat /\ (high + 50) \div 100 < 101
  BY Quotient, QuotientLess
<1> QED BY <1>1, <1>2, <1>3, <1>4

\* The bands: what a score may earn, and how it changes as the score grows.
LEMMA Bands ==
  ASSUME NEW s \in Nat, s <= 100, NEW refer \in Nat, refer <= 75
  PROVE  /\ DetermineRecommendation(s, refer) \in {"AUTO_APPROVE", "REFER_TO_MANAGER", "REJECT"}
         /\ DetermineRecommendation(s, refer) # "REJECT" <=> s >= refer
         /\ DetermineMaxAdvance(s, refer) \in Nat /\ DetermineMaxAdvance(s, refer) <= 9500
         /\ s >= refer => DetermineMaxAdvance(s, refer) >= 8500
         /\ DetermineRiskPremium(s) \in Nat /\ DetermineRiskPremium(s) <= 150
<1>1. /\ DetermineRecommendation(s, refer) \in {"AUTO_APPROVE", "REFER_TO_MANAGER", "REJECT"}
      /\ DetermineRecommendation(s, refer) # "REJECT" <=> s >= refer
  BY DEF DetermineRecommendation
<1>2. /\ DetermineMaxAdvance(s, refer) \in Nat /\ DetermineMaxAdvance(s, refer) <= 9500
      /\ s >= refer => DetermineMaxAdvance(s, refer) >= 8500
  BY DEF DetermineMaxAdvance
<1>3. DetermineRiskPremium(s) \in Nat /\ DetermineRiskPremium(s) <= 150
  BY DEF DetermineRiskPremium
<1> QED BY <1>1, <1>2, <1>3

LEMMA BandsGrow ==
  ASSUME NEW s \in Nat, NEW t \in Nat, s <= t, NEW refer \in Nat, refer <= 75
  PROVE  /\ Rank(DetermineRecommendation(s, refer)) <= Rank(DetermineRecommendation(t, refer))
         /\ DetermineMaxAdvance(s, refer) <= DetermineMaxAdvance(t, refer)
         /\ s >= 50 => DetermineRiskPremium(t) <= DetermineRiskPremium(s)
<1>1. Rank(DetermineRecommendation(s, refer)) <= Rank(DetermineRecommendation(t, refer))
  BY DEF DetermineRecommendation, Rank
<1>2. DetermineMaxAdvance(s, refer) <= DetermineMaxAdvance(t, refer)
  BY DEF DetermineMaxAdvance
<1>3. s >= 50 => DetermineRiskPremium(t) <= DetermineRiskPremium(s)
  BY DEF DetermineRiskPremium
<1> QED BY <1>1, <1>2, <1>3

-----------------------------------------------------------------------------
(* The price.                                                              *)

Scale == Precision \div 10000

AdvanceOf(face, pct) == (face * (pct * Scale)) \div Precision
DailyRate(tenor, rate) == ((rate * Scale) * tenor) \div 365
ShareOf(amount, daily) == (amount * daily) \div Precision

LEMMA ScaleIsNat ==
  Scale \in Nat \ {0} /\ Precision \in Nat \ {0} /\ Precision = 10000 * Scale
<1>1. Scale \in Nat /\ Scale * 10000 <= Precision /\ Precision < Scale * 10000 + 10000
  BY PrecisionAssumption, Quotient DEF Scale
<1>2. Precision = 10000 * Scale
  BY PrecisionAssumption DEF Scale
<1> QED BY <1>1, <1>2, PrecisionAssumption

\* CalculatePricing in these terms.
OfferOf(face, tenor, pct, bank, rate) ==
  LET advance == AdvanceOf(face, pct)
      discount == ShareOf(face, DailyRate(tenor, rate))
      bankCost == ShareOf(advance, DailyRate(tenor, bank))
  IN [advance |-> advance, discount |-> discount, net |-> advance - discount,
      bankCost |-> bankCost, profit |-> discount - bankCost]

LEMMA PricingIs ==
  ASSUME NEW face \in Nat, NEW tenor \in Nat, NEW pct \in Nat,
         NEW bank \in Nat, NEW premium \in Nat, NEW margin \in Nat
  PROVE  CalculatePricing(face, tenor, pct, bank, premium, margin)
           = OfferOf(face, tenor, pct, bank, bank + premium + margin)
<1>1. bank * Scale + premium * Scale + margin * Scale = (bank + premium + margin) * Scale
  <2>1. \A x \in Nat : bank * x + premium * x + margin * x = (bank + premium + margin) * x
    OBVIOUS
  <2> QED BY <2>1, ScaleIsNat
<1>2. \A rate : ToScaled(rate) = rate * Scale
  BY DEF ToScaled, Scale
<1> HIDE DEF Scale
<1> QED BY <1>1, <1>2 DEF CalculatePricing, OfferOf, AdvanceOf, DailyRate, ShareOf

LEMMA AdvanceIsNat ==
  ASSUME NEW face \in Nat, NEW pct \in Nat
  PROVE  AdvanceOf(face, pct) \in Nat
<1>1. face * (pct * Scale) \in Nat
  BY ScaleIsNat, ProductIsNat
<1> QED BY <1>1, ScaleIsNat, Quotient DEF AdvanceOf

LEMMA DailyIsNat ==
  ASSUME NEW tenor \in Nat, NEW rate \in Nat
  PROVE  DailyRate(tenor, rate) \in Nat
<1>1. (rate * Scale) * tenor \in Nat
  BY ScaleIsNat, ProductIsNat
<1> QED BY <1>1, Quotient DEF DailyRate

LEMMA ShareIsNat ==
  ASSUME NEW amount \in Nat, NEW daily \in Nat
  PROVE  ShareOf(amount, daily) \in Nat
<1>1. amount * daily \in Nat
  BY ProductIsNat
<1> QED BY <1>1, ScaleIsNat, Quotient DEF ShareOf

LEMMA AdvanceGrows ==
  ASSUME NEW face \in Nat, NEW a \in Nat, NEW b \in Nat, a <= b
  PROVE  AdvanceOf(face, a) <= AdvanceOf(face, b)
<1> DEFINE x == a * Scale
           y == b * Scale
<1>1. x \in Nat /\ y \in Nat /\ x <= y
  BY ScaleIsNat, ProductIsNat, ProductGrows
<1> HIDE DEF x, y
<1>2. face * x \in Nat /\ face * y \in Nat /\ face * x <= face * y
  BY <1>1, ProductIsNat, ProductGrows
<1> QED BY <1>2, ScaleIsNat, QuotientGrows DEF AdvanceOf, x, y

LEMMA DailyGrows ==
  ASSUME NEW tenor \in Nat, NEW a \in Nat, NEW b \in Nat, a <= b
  PROVE  DailyRate(tenor, a) <= DailyRate(tenor, b)
<1> DEFINE x == a * Scale
           y == b * Scale
<1>1. x \in Nat /\ y \in Nat /\ x <= y
  BY ScaleIsNat, ProductIsNat, ProductGrows
<1> HIDE DEF x, y
<1>2. x * tenor \in Nat /\ y * tenor \in Nat /\ x * tenor <= y * tenor
  BY <1>1, ProductIsNat, ProductGrows
<1> QED BY <1>2, QuotientGrows DEF DailyRate, x, y

LEMMA ShareGrows ==
  ASSUME NEW f \in Nat, NEW g \in Nat, f <= g, NEW a \in Nat, NEW b \in Nat, a <= b
  PROVE  ShareOf(f, a) <= ShareOf(g, b)
<1>1. f * a \in Nat /\ f * b \in Nat /\ g * b \in Nat
  BY ProductIsNat
<1>2. f * a <= f * b /\ f * b <= g * b
  BY ProductGrows
<1>3. f * a <= g * b
  BY <1>1, <1>2
<1> QED BY <1>1, <1>3, ScaleIsNat, QuotientGrows DEF ShareOf

LEMMA AdvanceWithinFace ==
  ASSUME NEW face \in Nat, NEW pct \in Nat, pct <= 10000
  PROVE  AdvanceOf(face, pct) <= face
<1>1. AdvanceOf(face, pct) <= AdvanceOf(face, 10000)
  BY AdvanceGrows
<1>2. face * (10000 * Scale) = face * Precision
  BY ScaleIsNat
<1>3. face * Precision \in Nat /\ face * Precision < (face + 1) * Precision
  <2>1. face * Precision \in Nat
    BY ScaleIsNat, ProductIsNat
  <2>2. face + 1 \in Nat /\ face < face + 1
    OBVIOUS
  <2> QED BY <2>1, <2>2, ScaleIsNat, ProductStrict
<1>4. (face * Precision) \div Precision < face + 1
  BY <1>3, ScaleIsNat, QuotientLess
<1>5. AdvanceOf(face, 10000) < face + 1
  BY <1>2, <1>4 DEF AdvanceOf
<1>6. AdvanceOf(face, pct) \in Nat /\ AdvanceOf(face, 10000) \in Nat
  <2>1. 10000 \in Nat
    OBVIOUS
  <2> HIDE DEF AdvanceOf
  <2>2. \A k \in Nat : AdvanceOf(face, k) \in Nat
    BY AdvanceIsNat
  <2> QED BY <2>1, <2>2
<1> QED BY <1>1, <1>5, <1>6

\* Of an advance of 85% or more, no rate under the cap takes everything in the
\* longest tenor.
LEMMA DiscountWithinAdvance ==
  ASSUME NEW face \in Nat, NEW tenor \in Nat, tenor <= 90, NEW rate \in Nat, rate <= 1500,
         NEW pct \in Nat, pct >= 8500
  PROVE  ShareOf(face, DailyRate(tenor, rate)) <= AdvanceOf(face, pct)
<1> DEFINE x == rate * Scale
           y == pct * Scale
           daily == DailyRate(tenor, rate)
<1>1. x \in Nat /\ x <= 1500 * Scale
  BY ScaleIsNat, ProductIsNat, ProductGrows
<1>2. y \in Nat /\ 8500 * Scale <= y
  BY ScaleIsNat, ProductIsNat, ProductGrows
<1>3. daily = (x * tenor) \div 365
  BY DEF DailyRate
<1> HIDE DEF x, y, daily
<1>4. x * tenor \in Nat /\ x * tenor <= x * 90
  BY <1>1, ProductIsNat, ProductGrows
<1>5. daily \in Nat /\ daily * 365 <= x * tenor
  BY <1>3, <1>4, Quotient
<1>6. daily <= y
  BY <1>1, <1>2, <1>4, <1>5, ScaleIsNat
<1>7. face * daily \in Nat /\ face * y \in Nat /\ face * daily <= face * y
  BY <1>2, <1>5, <1>6, ProductIsNat, ProductGrows
<1>8. (face * daily) \div Precision <= (face * y) \div Precision
  BY <1>7, ScaleIsNat, QuotientGrows
<1> QED BY <1>8 DEF ShareOf, AdvanceOf, daily, y

\* What is taken for a tenor, counted without the truncations.
LEMMA ShareBounds ==
  ASSUME NEW face \in Nat, NEW tenor \in Nat, NEW rate \in Nat
  PROVE  LET part == ShareOf(face, DailyRate(tenor, rate))
             exact == face * (rate * Scale) * tenor
             unit == 365 * Precision
             rest == face \div Precision
         IN  /\ exact \in Nat /\ unit \in Nat \ {0} /\ rest \in Nat /\ part \in Nat
             /\ part * unit <= exact
             /\ exact < (part + rest + 2) * unit
<1> DEFINE daily == DailyRate(tenor, rate)
           part == ShareOf(face, daily)
           rest == face \div Precision
           p == Precision
           x == rate * Scale
           yearly == x * tenor
<1>1. x \in Nat /\ p \in Nat \ {0} /\ 365 * p \in Nat \ {0}
  BY ScaleIsNat, ProductIsNat
<1>2. daily = yearly \div 365 /\ part = (face * daily) \div p /\ rest = face \div p
  BY DEF DailyRate, ShareOf
<1> HIDE DEF x, p, daily, part, rest
<1>3. yearly \in Nat /\ face * x * tenor = face * yearly
  BY <1>1, ProductIsNat
<1> HIDE DEF yearly
<1>4. daily \in Nat /\ daily * 365 <= yearly /\ yearly < daily * 365 + 365
  BY <1>2, <1>3, Quotient
<1>5. face * daily \in Nat /\ face * yearly \in Nat
  BY <1>3, <1>4, ProductIsNat
<1>6. part \in Nat /\ part * p <= face * daily /\ face * daily < part * p + p
  <2> DEFINE taken == face * daily
  <2>1. taken \in Nat /\ part = taken \div p
    BY <1>2, <1>5
  <2> HIDE DEF taken
  <2>2. part \in Nat /\ part * p <= taken /\ taken < part * p + p
    BY <1>1, <2>1, Quotient
  <2> QED BY <2>2 DEF taken
<1>7. rest \in Nat /\ rest * p <= face /\ face < rest * p + p
  BY <1>1, <1>2, Quotient
<1>8. face * (daily * 365) <= face * yearly /\ face * yearly <= face * (daily * 365 + 365)
  <2>1. daily * 365 \in Nat /\ daily * 365 + 365 \in Nat /\ yearly <= daily * 365 + 365
    BY <1>3, <1>4
  <2> QED BY <1>3, <1>4, <2>1, ProductGrows
<1>9. /\ face * (daily * 365) = 365 * (face * daily)
      /\ face * (daily * 365 + 365) = 365 * (face * daily) + 365 * face
  BY <1>4
<1>10. part * (365 * p) = 365 * (part * p)
  BY <1>1, <1>6
<1>11. (part + rest + 2) * (365 * p) = 365 * (part * p) + 365 * (rest * p) + 365 * p + 365 * p
  BY <1>1, <1>6, <1>7
<1>12. part * p \in Nat /\ rest * p \in Nat
  BY <1>1, <1>6, <1>7, ProductIsNat
<1>13. part * (365 * p) <= face * yearly
  BY <1>5, <1>6, <1>8, <1>9, <1>10, <1>12
<1>14. face * yearly < (part + rest + 2) * (365 * p)
  BY <1>1, <1>5, <1>6, <1>7, <1>8, <1>9, <1>11, <1>12
<1> QED BY <1>1, <1>3, <1>5, <1>6, <1>7, <1>13, <1>14 DEF x, p, daily, part, rest

\* Three truncations lose less than three units, and never gain one.
LEMMA ThreeQuotients ==
  ASSUME NEW a \in Nat, NEW b \in Nat, NEW c \in Nat, NEW n \in Nat \ {0}
  PROVE  /\ (a \div n) + (b \div n) + (c \div n) \in Nat
         /\ (a \div n) + (b \div n) + (c \div n) <= (a + b + c) \div n
         /\ (a + b + c) \div n < (a \div n) + (b \div n) + (c \div n) + 3
<1> DEFINE q == a \div n
           r == b \div n
           t == c \div n
           u == q + r + t
<1>1. q \in Nat /\ q * n <= a /\ a < q * n + n
  BY Quotient
<1>2. r \in Nat /\ r * n <= b /\ b < r * n + n
  BY Quotient
<1>3. t \in Nat /\ t * n <= c /\ c < t * n + n
  BY Quotient
<1> HIDE DEF q, r, t
<1>4. q * n \in Nat /\ r * n \in Nat /\ t * n \in Nat
  BY <1>1, <1>2, <1>3, ProductIsNat
<1>5. /\ u \in Nat /\ u + 3 \in Nat /\ u * n = q * n + r * n + t * n
      /\ (u + 3) * n = q * n + r * n + t * n + n + n + n
  BY <1>1, <1>2, <1>3
<1>6. u * n <= a + b + c /\ a + b + c < (u + 3) * n
  BY <1>1, <1>2, <1>3, <1>4, <1>5
<1> HIDE DEF u
<1>7. u <= (a + b + c) \div n
  BY <1>5, <1>6, QuotientLargest
<1>8. (a + b + c) \div n < u + 3
  <2> DEFINE v == u + 3
             w == a + b + c
  <2>1. v \in Nat /\ w \in Nat /\ w < v * n
    BY <1>5, <1>6
  <2> HIDE DEF v, w
  <2>2. w \div n < v
    BY <2>1, QuotientLess
  <2> QED BY <2>2 DEF v, w
<1> QED BY <1>5, <1>7, <1>8 DEF u, q, r, t

LEMMA BreakdownBounds ==
  ASSUME NEW face \in Nat, NEW tenor \in Nat,
         NEW bank \in Nat, NEW premium \in Nat, NEW margin \in Nat
  PROVE  LET fees == BuildFeeBreakdown(face, tenor, bank) + BuildFeeBreakdown(face, tenor, premium)
                       + BuildFeeBreakdown(face, tenor, margin)
             part == ShareOf(face, DailyRate(tenor, bank + premium + margin))
         IN  /\ fees \in Nat /\ part \in Nat
             /\ fees >= part - 2
             /\ fees <= part + (face \div Precision) + 1
<1> DEFINE E(rate) == face * (rate * Scale) * tenor
           unit == 365 * Precision
           sum == bank + premium + margin
           part == ShareOf(face, DailyRate(tenor, sum))
           rest == face \div Precision
           x == E(bank)
           y == E(premium)
           z == E(margin)
           fees == (x \div unit) + (y \div unit) + (z \div unit)
<1>1. fees = BuildFeeBreakdown(face, tenor, bank) + BuildFeeBreakdown(face, tenor, premium)
               + BuildFeeBreakdown(face, tenor, margin)
  BY DEF BuildFeeBreakdown, ToScaled, Scale
<1>2. /\ E(sum) \in Nat /\ unit \in Nat \ {0} /\ rest \in Nat /\ part \in Nat
      /\ part * unit <= E(sum) /\ E(sum) < (part + rest + 2) * unit
  <2>1. sum \in Nat
    OBVIOUS
  <2> HIDE DEF sum
  <2> QED BY <2>1, ShareBounds
<1>3. x \in Nat /\ y \in Nat /\ z \in Nat
  BY ScaleIsNat, ProductIsNat
<1>4. E(sum) = x + y + z
  <2>1. \A s \in Nat : face * ((bank + premium + margin) * s) * tenor
          = face * (bank * s) * tenor + face * (premium * s) * tenor + face * (margin * s) * tenor
    OBVIOUS
  <2> QED BY <2>1, ScaleIsNat
<1> HIDE DEF E, unit, part, rest, sum, x, y, z
<1>5. /\ fees \in Nat
      /\ fees <= (x + y + z) \div unit /\ (x + y + z) \div unit < fees + 3
  BY <1>2, <1>3, ThreeQuotients
<1>6. part <= (x + y + z) \div unit
  BY <1>2, <1>3, <1>4, QuotientLargest
<1>7. (x + y + z) \div unit < part + rest + 2
  BY <1>2, <1>3, <1>4, QuotientLess
<1>8. (x + y + z) \div unit \in Nat
  BY <1>2, <1>3, Quotient
<1> HIDE DEF fees
<1>9. fees >= part - 2 /\ fees <= part + rest + 1
  BY <1>2, <1>5, <1>6, <1>7, <1>8
<1> QED BY <1>1, <1>2, <1>5, <1>9 DEF sum, part, rest

\* The discount is at most the cap, for the tenor.
LEMMA DiscountUnderCap ==
  ASSUME NEW face \in Nat, NEW tenor \in Nat, NEW rate \in Nat, rate <= 1500
  PROVE  ShareOf(face, DailyRate(tenor, rate)) * 365 * 10000 <= face * tenor * 1500
<1> DEFINE part == ShareOf(face, DailyRate(tenor, rate))
           s == Scale
<1>1. s \in Nat \ {0} /\ Precision = 10000 * s
  BY ScaleIsNat
<1>2. part \in Nat /\ part * (365 * Precision) <= face * (rate * s) * tenor
  BY ShareBounds
<1> HIDE DEF part, s
<1>3. part * (365 * Precision) = (part * 365 * 10000) * s
  BY <1>1, <1>2
<1>4. face * (rate * s) * tenor = (face * tenor * rate) * s
  BY <1>1
<1>5. face * tenor \in Nat /\ (face * tenor) * rate <= (face * tenor) * 1500
  <2> DEFINE v == face * tenor
  <2>1. v \in Nat
    BY ProductIsNat
  <2> HIDE DEF v
  <2>2. v * rate <= v * 1500
    BY <2>1, ProductGrows
  <2> QED BY <2>1, <2>2 DEF v
<1> DEFINE l == part * 365 * 10000
           r == face * tenor * rate
<1>6. l \in Nat /\ r \in Nat /\ l * s <= r * s
  BY <1>1, <1>2, <1>3, <1>4, ProductIsNat
<1> HIDE DEF l, r
<1>7. l <= r
  BY <1>1, <1>6, ProductStrict
<1>8. l <= face * tenor * 1500
  BY <1>5, <1>6, <1>7 DEF r
<1> QED BY <1>8 DEF l, part

\* A better advance at a lower rate leaves more.
LEMMA NetGrows ==
  ASSUME NEW face \in Nat, NEW tenor \in Nat, NEW bank \in Nat, NEW margin \in Nat,
         NEW a \in Nat, NEW b \in Nat, a <= b, NEW x \in Nat, NEW y \in Nat, y <= x
  PROVE  CalculatePricing(face, tenor, a, bank, x, margin).net
           <= CalculatePricing(face, tenor, b, bank, y, margin).net
<1> DEFINE r == bank + x + margin
           q == bank + y + margin
           less == CalculatePricing(face, tenor, a, bank, x, margin).net
           more == CalculatePricing(face, tenor, b, bank, y, margin).net
<1>1. less = AdvanceOf(face, a) - ShareOf(face, DailyRate(tenor, r))
  <2>1. CalculatePricing(face, tenor, a, bank, x, margin) = OfferOf(face, tenor, a, bank, r)
    BY PricingIs
  <2> QED BY <2>1 DEF OfferOf
<1>2. more = AdvanceOf(face, b) - ShareOf(face, DailyRate(tenor, q))
  <2>1. CalculatePricing(face, tenor, b, bank, y, margin) = OfferOf(face, tenor, b, bank, q)
    BY PricingIs
  <2> QED BY <2>1 DEF OfferOf
<1>3. r \in Nat /\ q \in Nat /\ q <= r
  OBVIOUS
<1> HIDE DEF r, q, less, more
<1> DEFINE u == DailyRate(tenor, r)
           v == DailyRate(tenor, q)
<1>4. u \in Nat /\ v \in Nat /\ v <= u
  BY <1>3, DailyIsNat, DailyGrows
<1> HIDE DEF u, v
<1>5. /\ ShareOf(face, u) \in Nat /\ ShareOf(face, v) \in Nat
      /\ ShareOf(face, v) <= ShareOf(face, u)
  BY <1>4, ShareIsNat, ShareGrows
<1>6. /\ AdvanceOf(face, a) \in Nat /\ AdvanceOf(face, b) \in Nat
      /\ AdvanceOf(face, a) <= AdvanceOf(face, b)
  BY AdvanceIsNat, AdvanceGrows
<1>7. less <= more
  BY <1>1, <1>2, <1>5, <1>6 DEF u, v
<1> QED BY <1>7 DEF less, more

\* An offer under the cap, of 85% to 95% for at most 90 days ...
Offered(tenor, pct, rate) == tenor <= 90 /\ pct >= 8500 /\ pct <= 9500 /\ rate <= 1500

\* ... and what the supplier may count on then.
Fair(face, tenor, o, fees) ==
  /\ 0 <= o.net /\ o.net <= o.advance /\ o.advance <= face /\ o.profit >= 0
  /\ o.discount * 365 * 10000 <= face * tenor * 1500
  /\ fees >= o.discount - 2
  /\ fees <= o.discount + (face \div Precision) + 1

LEMMA OfferIsFair ==
  ASSUME NEW face \in Nat, NEW tenor \in Nat, NEW pct \in Nat,
         NEW bank \in Nat, NEW premium \in Nat, NEW margin \in Nat,
         Offered(tenor, pct, bank + premium + margin)
  PROVE  Fair(face, tenor, CalculatePricing(face, tenor, pct, bank, premium, margin),
              BuildFeeBreakdown(face, tenor, bank) + BuildFeeBreakdown(face, tenor, premium)
                + BuildFeeBreakdown(face, tenor, margin))
<1> DEFINE fees == BuildFeeBreakdown(face, tenor, bank) + BuildFeeBreakdown(face, tenor, premium)
                     + BuildFeeBreakdown(face, tenor, margin)
<1> DEFINE r == bank + premium + margin
           o == CalculatePricing(face, tenor, pct, bank, premium, margin)
           paid == AdvanceOf(face, pct)
           u == DailyRate(tenor, r)
           v == DailyRate(tenor, bank)
           taken == ShareOf(face, u)
           cost == ShareOf(paid, v)
<1>1. /\ o.advance = paid /\ o.discount = taken /\ o.net = paid - taken
      /\ o.profit = taken - cost
  <2>1. o = OfferOf(face, tenor, pct, bank, r)
    BY PricingIs
  <2> QED BY <2>1 DEF OfferOf
<1>2. /\ r \in Nat /\ bank <= r /\ r <= 1500
      /\ tenor <= 90 /\ pct >= 8500 /\ pct <= 9500 /\ pct <= 10000
  BY DEF Offered
<1>3. /\ fees \in Nat /\ fees >= taken - 2 /\ fees <= taken + (face \div Precision) + 1
  BY BreakdownBounds
<1> HIDE DEF r, fees
<1>4. paid \in Nat /\ paid <= face
  <2>1. pct <= 10000
    BY <1>2
  <2>2. paid \in Nat
    BY AdvanceIsNat
  <2>3. paid <= face
    BY <2>1, AdvanceWithinFace
  <2> QED BY <2>2, <2>3
<1>5. taken <= paid
  BY <1>2, DiscountWithinAdvance
<1>6. taken * 365 * 10000 <= face * tenor * 1500
  BY <1>2, DiscountUnderCap
<1>7. u \in Nat /\ v \in Nat /\ v <= u
  <2>1. r \in Nat /\ bank <= r
    BY <1>2
  <2>2. v <= u
    BY <2>1, DailyGrows
  <2> QED BY <2>1, <2>2, DailyIsNat
<1> HIDE DEF u, v, paid
<1>8. taken \in Nat /\ cost \in Nat /\ cost <= taken
  BY <1>4, <1>7, ShareIsNat, ShareGrows
<1> HIDE DEF taken, cost, o
<1>9. 0 <= o.net /\ o.net <= o.advance /\ o.advance <= face /\ o.profit >= 0
  BY <1>1, <1>4, <1>5, <1>8
<1>10. o.discount * 365 * 10000 <= face * tenor * 1500
  BY <1>1, <1>6
<1>11. Fair(face, tenor, o, fees)
  BY <1>1, <1>9, <1>10, <1>3 DEF Fair
<1> QED BY <1>11 DEF o, fees

-----------------------------------------------------------------------------
(* The scored and priced invoice.                                          *)

\* The row of the score is what its final score gives, and that is no more than
\* the best the factors can come to.
ScoreShape ==
  score # Unscored =>
    /\ score.final \in Nat /\ score.final <= 100
    /\ score.final <= Max(FinalScores(RawSum(deal, {})))
    /\ Max(FinalScores(RawSum(deal, {}))) \in Nat
    /\ score.recommendation = DetermineRecommendation(score.final, deal.refer)
    /\ score.advance = DetermineMaxAdvance(score.final, deal.refer)
    /\ score.premium = DetermineRiskPremium(score.final)

\* A price is computed from that row, at a rate that is not over the cap.
PriceShape ==
  price.state = "priced" =>
    /\ score # Unscored /\ score.recommendation # "REJECT"
    /\ price.bank \in Nat /\ price.margin \in Nat
    /\ price.bank + score.premium + price.margin <= 1500
    /\ price.offer = CalculatePricing(deal.face, deal.tenor, score.advance, price.bank,
                                      score.premium, price.margin)
    /\ price.fees = BuildFeeBreakdown(deal.face, deal.tenor, price.bank)
                      + BuildFeeBreakdown(deal.face, deal.tenor, score.premium)
                      + BuildFeeBreakdown(deal.face, deal.tenor, price.margin)

TermsInv == deal \in Deals /\ ScoreShape /\ PriceShape

LEMMA TermsInitial ==
  ASSUME TermsInit
  PROVE  TermsInv
  BY DEF TermsInit, TermsInv, Deals, ScoreShape, PriceShape, Unpriced

LEMMA ScoreTermsStep ==
  ASSUME TermsInv, NEW failed, NEW n, ScoreTerms(failed, n)
  PROVE  TermsInv'
<1>1. deal \in Deals /\ UNCHANGED <<deal, price>> /\ price.state # "priced"
  BY DEF ScoreTerms, TermsInv, PriceShape
<1>2. /\ score'.final = n
      /\ score'.recommendation = DetermineRecommendation(n, deal.refer)
      /\ score'.advance = DetermineMaxAdvance(n, deal.refer)
      /\ score'.premium = DetermineRiskPremium(n)
  BY DEF ScoreTerms
<1>3. /\ n \in Nat /\ n <= 100 /\ n <= Max(FinalScores(RawSum(deal, {})))
      /\ Max(FinalScores(RawSum(deal, {}))) \in Nat
  <2>1. n \in FinalScores(RawSum(deal, failed))
    BY DEF ScoreTerms
  <2>2. /\ RawSum(deal, failed) \in Nat /\ RawSum(deal, {}) \in Nat
        /\ RawSum(deal, failed) <= RawSum(deal, {}) /\ RawSum(deal, {}) <= 10000
    BY <1>1, FailureTakesAway
  <2> QED BY <2>1, <2>2, ScoreAtMostBest
<1>4. ScoreShape'
  BY <1>1, <1>2, <1>3 DEF ScoreShape
<1> QED BY <1>1, <1>4 DEF TermsInv, PriceShape

\* What the bands say of the row.
LEMMA ScoreBands ==
  ASSUME TermsInv, score # Unscored
  PROVE  /\ score.recommendation \in {"AUTO_APPROVE", "REFER_TO_MANAGER", "REJECT"}
         /\ score.recommendation # "REJECT" <=> score.final >= deal.refer
         /\ score.advance \in Nat /\ score.advance <= 9500
         /\ score.recommendation # "REJECT" => score.advance >= 8500
         /\ score.premium \in Nat /\ score.premium <= 150
<1>1. score.final \in Nat /\ score.final <= 100 /\ deal.refer \in Nat /\ deal.refer <= 75
  BY DealFields DEF TermsInv, ScoreShape
<1> DEFINE n == score.final
           k == deal.refer
<1> HIDE DEF n, k
<1>2. /\ DetermineRecommendation(n, k) \in {"AUTO_APPROVE", "REFER_TO_MANAGER", "REJECT"}
      /\ DetermineRecommendation(n, k) # "REJECT" <=> n >= k
      /\ DetermineMaxAdvance(n, k) \in Nat /\ DetermineMaxAdvance(n, k) <= 9500
      /\ n >= k => DetermineMaxAdvance(n, k) >= 8500
      /\ DetermineRiskPremium(n) \in Nat /\ DetermineRiskPremium(n) <= 150
  BY <1>1, Bands DEF n, k
<1>3. /\ score.recommendation = DetermineRecommendation(n, k)
      /\ score.advance = DetermineMaxAdvance(n, k) /\ score.premium = DetermineRiskPremium(n)
  BY DEF TermsInv, ScoreShape, n, k
<1> QED BY <1>2, <1>3 DEF n, k

UnderCap(rate) == rate <= 1500

LEMMA CapHolds ==
  ASSUME NEW bank \in Nat, NEW premium \in Nat, NEW margin \in Nat,
         TRUE \in ValidateRateCap(bank, premium, margin)
  PROVE  UnderCap(bank + premium + margin)
<1> DEFINE under == bank + premium + margin <= 1500
           over == bank + premium + margin >= 1500
<1>1. TRUE \in (IF under THEN {TRUE} ELSE {}) \cup (IF over THEN {FALSE} ELSE {})
  BY Zenon DEF ValidateRateCap
<1> HIDE DEF under, over
<1>2. under
  BY <1>1, Zenon
<1> QED BY <1>2 DEF under, UnderCap

LEMMA PriceDealStep ==
  ASSUME TermsInv, NEW bank \in BankRates, NEW margin \in MarginRates, PriceDeal(bank, margin)
  PROVE  TermsInv'
<1>1. /\ UNCHANGED <<deal, score>> /\ score # Unscored /\ score.recommendation # "REJECT"
  BY DEF PriceDeal
<1>2. bank \in Nat /\ margin \in Nat
  BY TermsAssumption
<1>3. deal' \in Deals /\ ScoreShape'
  BY <1>1 DEF TermsInv, ScoreShape
<1>4. PriceShape'
  <2> DEFINE offer == CalculatePricing(deal.face, deal.tenor, score.advance, bank,
                                       score.premium, margin)
             fees == BuildFeeBreakdown(deal.face, deal.tenor, bank)
                       + BuildFeeBreakdown(deal.face, deal.tenor, score.premium)
                       + BuildFeeBreakdown(deal.face, deal.tenor, margin)
             priced == [state |-> "priced", bank |-> bank, margin |-> margin, offer |-> offer,
                        fees |-> fees]
  <2>1. \/ TRUE \in ValidateRateCap(bank, score.premium, margin) /\ price' = priced
        \/ price' = [state |-> "refused", bank |-> bank, margin |-> margin]
    BY Zenon DEF PriceDeal
  <2>2. CASE price' = [state |-> "refused", bank |-> bank, margin |-> margin]
    BY <2>2 DEF PriceShape
  <2>3. CASE TRUE \in ValidateRateCap(bank, score.premium, margin) /\ price' = priced
    <3>1. score.premium \in Nat
      BY <1>1, ScoreBands
    <3>2. UnderCap(bank + score.premium + margin)
      BY <1>2, <2>3, <3>1, CapHolds, Zenon
    <3> HIDE DEF offer, fees
    <3>3. /\ price'.bank = bank /\ price'.margin = margin
          /\ price'.offer = offer /\ price'.fees = fees
      BY <2>3
    <3> QED BY <1>1, <1>2, <3>2, <3>3 DEF PriceShape, UnderCap, offer, fees
  <2> QED BY <2>1, <2>2, <2>3
<1> QED BY <1>3, <1>4 DEF TermsInv

LEMMA TermsStep ==
  ASSUME TermsInv, [TermsNext]_termVars
  PROVE  TermsInv'
<1>1. CASE UNCHANGED termVars
  BY <1>1 DEF termVars, TermsInv, ScoreShape, PriceShape
<1> QED BY <1>1, ScoreTermsStep, PriceDealStep DEF TermsNext

LEMMA TermsTypes ==
  ASSUME TermsInv
  PROVE  TermsTypeOK
<1>1. ASSUME score # Unscored
      PROVE  /\ score.final \in Nat /\ score.final <= 100
             /\ score.recommendation \in {"AUTO_APPROVE", "REFER_TO_MANAGER", "REJECT"}
             /\ score.advance \in Nat /\ score.advance <= 9500
             /\ score.premium \in Nat /\ score.premium <= 150
  BY <1>1, ScoreBands DEF TermsInv, ScoreShape
<1>2. price.state = "priced" => score.recommendation # "REJECT"
  BY DEF TermsInv, PriceShape
<1> QED BY <1>1, <1>2 DEF TermsTypeOK

LEMMA FailuresNeverHelp ==
  ASSUME TermsInv
  PROVE  FailureNeverHelps
<1> DEFINE best == Max(FinalScores(RawSum(deal, {})))
           k == deal.refer
           n == score.final
<1> SUFFICES ASSUME score # Unscored
             PROVE  /\ Rank(score.recommendation) <= Rank(DetermineRecommendation(best, k))
                    /\ score.advance <= DetermineMaxAdvance(best, k)
  BY DEF FailureNeverHelps
<1>1. /\ n \in Nat /\ best \in Nat /\ n <= best /\ k \in Nat /\ k <= 75
      /\ score.recommendation = DetermineRecommendation(n, k)
      /\ score.advance = DetermineMaxAdvance(n, k)
  BY DealFields DEF TermsInv, ScoreShape
<1> HIDE DEF best, k, n
<1>2. /\ Rank(DetermineRecommendation(n, k)) <= Rank(DetermineRecommendation(best, k))
      /\ DetermineMaxAdvance(n, k) <= DetermineMaxAdvance(best, k)
  BY <1>1, BandsGrow
<1> QED BY <1>1, <1>2

\* The numbers of a priced invoice.
LEMMA PricedFields ==
  ASSUME TermsInv, price.state = "priced"
  PROVE  /\ deal.face \in Nat /\ deal.tenor \in Nat /\ deal.tenor <= 90
         /\ deal.refer \in Nat /\ deal.refer <= 75
         /\ price.bank \in Nat /\ score.premium \in Nat /\ price.margin \in Nat
         /\ price.bank + score.premium + price.margin <= 1500
         /\ score.advance \in Nat /\ score.advance >= 8500 /\ score.advance <= 9500
  BY DealFields, ScoreBands DEF TermsInv, PriceShape

LEMMA BetterScoresPayMore ==
  ASSUME TermsInv
  PROVE  BetterScorePaysMore
<1> DEFINE k == deal.refer
           n == score.final
           P(s) == CalculatePricing(deal.face, deal.tenor, DetermineMaxAdvance(s, k),
                                    price.bank, DetermineRiskPremium(s), price.margin)
<1> SUFFICES ASSUME price.state = "priced", k >= 50, NEW s \in 0..n,
                    DetermineRecommendation(s, k) # "REJECT"
             PROVE  P(s).net <= price.offer.net
  BY DEF BetterScorePaysMore
<1>1. /\ deal.face \in Nat /\ deal.tenor \in Nat /\ k \in Nat /\ k <= 75
      /\ price.bank \in Nat /\ price.margin \in Nat
  BY PricedFields
<1>2. /\ n \in Nat /\ n <= 100 /\ price.offer = P(n)
  BY DEF TermsInv, ScoreShape, PriceShape
<1>3. s \in Nat /\ s <= n /\ s <= 100
  BY <1>2
<1> DEFINE a == DetermineMaxAdvance(s, k)
           b == DetermineMaxAdvance(n, k)
           x == DetermineRiskPremium(s)
           y == DetermineRiskPremium(n)
<1> HIDE DEF k, n
<1>4. s >= 50
  BY <1>1, <1>3, Bands
<1>5. a \in Nat /\ x \in Nat
  BY <1>1, <1>3, Bands
<1>6. b \in Nat /\ y \in Nat
  BY <1>1, <1>2, Bands
<1>7. a <= b /\ y <= x
  BY <1>1, <1>2, <1>3, <1>4, BandsGrow
<1> HIDE DEF a, b, x, y
<1>8. CalculatePricing(deal.face, deal.tenor, a, price.bank, x, price.margin).net
        <= CalculatePricing(deal.face, deal.tenor, b, price.bank, y, price.margin).net
  BY <1>1, <1>5, <1>6, <1>7, NetGrows, Zenon
<1> QED BY <1>2, <1>8 DEF a, b, x, y

LEMMA OffersAreSound ==
  ASSUME TermsInv
  PROVE  OfferSound /\ BreakdownAddsUp
<1> SUFFICES ASSUME price.state = "priced"
             PROVE  /\ 0 <= price.offer.net /\ price.offer.net <= price.offer.advance
                    /\ price.offer.advance <= deal.face
                    /\ price.offer.profit >= 0
                    /\ price.offer.discount * 365 * 10000 <= deal.face * deal.tenor * 1500
                    /\ price.fees >= price.offer.discount - 2
                    /\ price.fees <= price.offer.discount + (deal.face \div Precision) + 1
  BY DEF OfferSound, BreakdownAddsUp
<1> DEFINE o == CalculatePricing(deal.face, deal.tenor, score.advance, price.bank,
                                 score.premium, price.margin)
           fees == BuildFeeBreakdown(deal.face, deal.tenor, price.bank)
                     + BuildFeeBreakdown(deal.face, deal.tenor, score.premium)
                     + BuildFeeBreakdown(deal.face, deal.tenor, price.margin)
<1>1. price.offer = o /\ price.fees = fees
  BY DEF TermsInv, PriceShape
<1>2. /\ deal.face \in Nat /\ deal.tenor \in Nat /\ score.advance \in Nat
      /\ price.bank \in Nat /\ score.premium \in Nat /\ price.margin \in Nat
      /\ Offered(deal.tenor, score.advance, price.bank + score.premium + price.margin)
  BY PricedFields DEF Offered
<1>3. Fair(deal.face, deal.tenor, o, fees)
  BY <1>2, OfferIsFair, Zenon
<1> HIDE DEF o, fees
<1>4. Fair(deal.face, deal.tenor, price.offer, price.fees)
  BY <1>1, <1>3, Zenon
<1> QED BY <1>4 DEF Fair

LEMMA TermsSafe ==
  ASSUME TermsInv
  PROVE  TermsSound
  BY FailuresNeverHelp, BetterScoresPayMore, OffersAreSound DEF TermsSound

\* scoreInvoice and priceInvoice: for any face value, rates, configuration and
\* precision, failures and lower scores never pay, and an offer is sound and
\* explained.
THEOREM OffersAreFair == TermsInit /\ [][TermsNext]_termVars => []TermsSound
  BY TermsInitial, TermsStep, TermsSafe, PTL

-----------------------------------------------------------------------------
(* The back office.  Its components share no rows, so a step of one of     *)
(* them is a step or a stutter of every other.                             *)

BackOfficeInv ==
  /\ FacilitiesInv
  /\ SettlementsInv
  /\ NotificationsInv
  /\ RiskInv
  /\ TermsInv
  /\ LettersInv
  /\ ConfigInv

LEMMA BackOfficeInitial == Init => BackOfficeInv
  BY FacilitiesInitial, SettlementsInitial, NotificationsInitial, RiskInitial, TermsInitial,
     LettersInitial, ConfigInitial DEF Init, BackOfficeInv

LEMMA StepOfEach ==
  ASSUME [Next]_vars
  PROVE  /\ [FacilitiesNext]_facilityVars
         /\ [SettlementsNext]_settlementVars
         /\ [NotificationsNext]_noticeVars
         /\ [RiskConfigNext]_riskVars
         /\ [TermsNext]_termVars
         /\ [LettersNext]_letterVars
         /\ [ConfigNext]_configVars
<1>1. CASE UNCHANGED vars
  BY <1>1 DEF vars, others
<1>2. CASE Next
  BY <1>2 DEF Next, others
<1> QED BY <1>1, <1>2

LEMMA BackOfficeStep == BackOfficeInv /\ [Next]_vars => BackOfficeInv'
<1> SUFFICES ASSUME BackOfficeInv, [Next]_vars PROVE BackOfficeInv'
  OBVIOUS
<1>1. FacilitiesInv' /\ SettlementsInv' /\ NotificationsInv' /\ RiskInv'
  BY StepOfEach, FacilitiesStep, SettlementsStep, NotificationsStep, RiskStep DEF BackOfficeInv
<1>2. TermsInv' /\ LettersInv' /\ ConfigInv'
  BY StepOfEach, TermsStep, LettersStep, ConfigStep DEF BackOfficeInv
<1> QED BY <1>1, <1>2 DEF BackOfficeInv

LEMMA BackOfficeHolds == Spec => []BackOfficeInv
  BY BackOfficeInitial, BackOfficeStep, PTL DEF Spec

\* The types of the rows, jobs and caches of all the components.
THEOREM BackOfficeTypes == Spec => []TypeOK
<1>1. BackOfficeInv => TypeOK
  BY TermsTypes DEF BackOfficeInv, FacilitiesInv, SettlementsInv, NotificationsInv, RiskInv,
                    LettersInv, ConfigInv, TypeOK
<1> QED BY <1>1, BackOfficeHolds, PTL

\* processRepayment and applyAccrualTxn, closeSettlement, finalizeAndSend,
\* approveConfigChange: the bank's books add up, profit is booked before a
\* settlement is closed, a letter stays what it was when it was sent, and two
\* managers stand behind every setting.
THEOREM RecordsHold == Spec => []RecordsSound
<1>1. BackOfficeInv => RecordsSound
  BY DEF BackOfficeInv, FacilitiesInv, SettlementsInv, LettersInv, ConfigInv, RecordsSound
<1> QED BY <1>1, BackOfficeHolds, PTL

\* scoreInvoice and priceInvoice: for any number of runs, servers, factors and
\* weights, the check of the sum covers the weights that the factors use unless
\* the copy was reloaded in between; for any face value, rates, configuration and
\* precision, failures and lower scores never pay, and an offer is sound and
\* explained.
THEOREM OffersHold == Spec => []OffersSound
<1>1. BackOfficeInv => OffersSound
  BY RiskSafe, TermsSafe DEF BackOfficeInv, OffersSound
<1> QED BY <1>1, BackOfficeHolds, PTL
=============================================================================
