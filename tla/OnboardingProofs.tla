-------------------------- MODULE OnboardingProofs --------------------------
(***************************************************************************)
(* The three parts of onboarding, each for every set of requests being     *)
(* served, and together as MCOnboarding composes them: the buyers and the  *)
(* suppliers' requests for them, the KYC application, and the questionnaire*)
(* and registration.                                                       *)
(***************************************************************************)
EXTENDS MCOnboarding, FunctionTheorems, FiniteSetTheorems, SequenceTheorems,
        TLAPS

\* A set of which any two members are equal.
LEMMA AtMostOne ==
  ASSUME NEW S, \A x, y \in S : x = y
  PROVE  IsFiniteSet(S) /\ Cardinality(S) <= 1 /\ Cardinality(S) \in Nat
<1>1. CASE S = {}
  BY <1>1, FS_EmptySet
<1>2. CASE S # {}
  <2>1. PICK x \in S : TRUE
    BY <1>2
  <2>2. S = {x}
    BY <2>1
  <2>3. IsFiniteSet({x}) /\ Cardinality({x}) = 1
    BY FS_Singleton
  <2> QED BY <2>2, <2>3
<1> QED BY <1>1, <1>2

-----------------------------------------------------------------------------
(* Buyers.                                                                 *)

\* A buyer that a request made carries the number of that request.
MadeShape ==
  \A b \in buyers :
    b.from # NoBuyer => request[b.from] # NoRequest /\ b.reg = NumberOf(b.from)

\* An officer answers a request that is there, and names a buyer that is.
AnswerShape ==
  \A o \in Officers : officer[o].op = "answer" =>
    /\ request[officer[o].id] # NoRequest
    /\ officer[o].linked # NoBuyer => \E b \in buyers : b.reg = officer[o].linked

BuyersInv == BuyersTypeOK /\ BuyersSound /\ MadeShape /\ AnswerShape

Asked ==
  [status : {"pending", "approved", "rejected"}, number : Numbers \cup {NoNumber},
   linked : RegistrationNumber \cup {NoBuyer}]
OfficerCall ==
  {NoOfficer} \cup [op : {"create", "screen"}, reg : Numbers]
    \cup [op : {"answer"}, id : Requests, status : {"approved", "rejected"},
          linked : RegistrationNumber \cup {NoBuyer}]

\* What the record of an officer's request holds, by the request.
LEMMA OfficerFields ==
  ASSUME NEW a \in OfficerCall
  PROVE  /\ a.op \in {"create", "screen"} => a.reg \in Numbers
         /\ a.op = "screen" => a = [op |-> "screen", reg |-> a.reg]
         /\ a.op = "answer" => /\ a.id \in Requests
                               /\ a.status \in {"approved", "rejected"}
                               /\ a.linked \in RegistrationNumber \cup {NoBuyer}
  BY DEF OfficerCall, NoOfficer

\* The row of a request.
LEMMA AskedFields ==
  /\ NoRequest.status = "none"
  /\ NoRequest \notin Asked
  /\ \A q \in Asked : /\ q.status \in {"pending", "approved", "rejected"}
                      /\ q.number \in Numbers \cup {NoNumber}
                      /\ q.linked \in RegistrationNumber \cup {NoBuyer}
<1>1. NoRequest.status = "none"
  BY DEF NoRequest
<1>2. \A q \in Asked : /\ q.status \in {"pending", "approved", "rejected"}
                       /\ q.number \in Numbers \cup {NoNumber}
                       /\ q.linked \in RegistrationNumber \cup {NoBuyer}
  BY DEF Asked
<1>3. NoRequest \notin Asked
  BY <1>1, <1>2
<1> QED BY <1>1, <1>2, <1>3

\* The typing of the rows and requests, in the names above.
LEMMA BuyersTypes ==
  BuyersTypeOK <=> /\ buyers \subseteq Buyer
                   /\ request \in [Requests -> {NoRequest} \cup Asked]
                   /\ officer \in [Officers -> OfficerCall]
                   /\ unscreened \in BOOLEAN
  BY DEF BuyersTypeOK, Asked, OfficerCall

\* The number of a request that is there is a registration number.
LEMMA NumberOfType ==
  ASSUME BuyersTypeOK, NEW r \in Requests, request[r] # NoRequest
  PROVE  NumberOf(r) \in RegistrationNumber
<1>1. request[r] \in Asked
  BY BuyersTypes
<1>2. request[r].number \in Numbers \cup {NoNumber}
  BY <1>1, AskedFields
<1> QED BY <1>2 DEF NumberOf, RegistrationNumber

\* The buyers of one request carry its number, so there is one.
LEMMA OneRow ==
  ASSUME NEW rows, NEW r, NEW number, \A b, d \in rows : b.reg = d.reg => b = d,
         \A b \in rows : b.from = r => b.reg = number
  PROVE  Cardinality({b \in rows : b.from = r}) <= 1
<1>1. \A x, y \in {b \in rows : b.from = r} : x = y
  OBVIOUS
<1> QED BY <1>1, AtMostOne

\* So the second part of OneBuyer follows from the first.
LEMMA OneBuyerNext ==
  ASSUME \A b, d \in buyers' : b.reg = d.reg => b = d, MadeShape'
  PROVE  OneBuyer'
<1>1. ASSUME NEW r \in Requests
      PROVE  Cardinality({b \in buyers' : b.from = r}) <= 1
  <2>1. \A b \in buyers' : b.from = r => b.reg = NumberOf(r)'
    BY BuyersAssumption DEF MadeShape, NumberOf
  <2> QED BY <2>1, OneRow
<1> QED BY <1>1 DEF OneBuyer

\* An officer's request comes to hold another record.
LEMMA AttendStep ==
  ASSUME BuyersTypeOK, NEW o \in Officers, NEW op, NEW a \in OfficerCall,
         Attend(o, op, a)
  PROVE  /\ officer[o].op = op /\ officer' \in [Officers -> OfficerCall]
         /\ officer'[o] = a
         /\ \A p \in Officers \ {o} : officer'[p] = officer[p]
  BY BuyersTypes DEF Attend

\* The initial state.
LEMMA BuyersInitInv == BuyersInit => BuyersInv
<1> SUFFICES ASSUME BuyersInit PROVE BuyersInv
  OBVIOUS
<1>1. /\ request \in [Requests -> {NoRequest} \cup Asked]
      /\ officer \in [Officers -> OfficerCall]
  BY DEF BuyersInit, OfficerCall
<1>2. BuyersTypeOK
  BY <1>1, BuyersTypes DEF BuyersInit
<1>3. MadeShape /\ \A b, d \in buyers : b.reg = d.reg => b = d
  BY DEF BuyersInit, MadeShape
<1>4. OneBuyer
  <2>1. buyers = {} /\ \A r \in Requests : {b \in buyers : b.from = r} = {}
    BY DEF BuyersInit
  <2> QED BY <1>3, <2>1, FS_EmptySet DEF OneBuyer
<1>5. ApprovedHasBuyer /\ ListedIsFlagged
  BY AskedFields DEF BuyersInit, ApprovedHasBuyer, ListedIsFlagged
<1>6. AnswerShape
  BY DEF BuyersInit, AnswerShape, NoOfficer
<1> QED BY <1>2, <1>3, <1>4, <1>5, <1>6 DEF BuyersInv, BuyersSound

\* A step of one officer that leaves the rows alone, and the screening.
LEMMA OfficerStep ==
  ASSUME BuyersInv, NEW o \in Officers, NEW op, NEW a \in OfficerCall,
         Attend(o, op, a), op # "screen" \/ unscreened',
         a.op = "answer" =>
           /\ request[a.id] # NoRequest
           /\ a.linked # NoBuyer => \E b \in buyers : b.reg = a.linked,
         UNCHANGED <<buyers, request>>,
         unscreened => unscreened', unscreened' \in BOOLEAN
  PROVE  BuyersInv'
<1>1. /\ officer[o].op = op /\ officer' \in [Officers -> OfficerCall]
      /\ officer'[o] = a
      /\ \A p \in Officers \ {o} : officer'[p] = officer[p]
  BY AttendStep DEF BuyersInv
<1>2. BuyersTypeOK'
  BY <1>1, BuyersTypes DEF BuyersInv, BuyersTypeOK, Asked, OfficerCall
<1>3. ApprovedHasBuyer' /\ OneBuyer' /\ MadeShape'
  BY DEF BuyersInv, BuyersSound, ApprovedHasBuyer, OneBuyer, MadeShape, NumberOf
<1>4. ListedIsFlagged'
  <2> SUFFICES ASSUME NEW b \in buyers, b.from = NoBuyer, b.reg \in ListedNames,
                      ~ unscreened', 
                      \A p \in Officers : officer'[p] # [op |-> "screen", reg |-> b.reg]
               PROVE  b.flag
    BY DEF ListedIsFlagged
  <2>1. \A p \in Officers : officer[p] # [op |-> "screen", reg |-> b.reg]
    BY <1>1
  <2> QED BY <2>1 DEF BuyersInv, BuyersSound, ListedIsFlagged
<1>5. AnswerShape'
  BY <1>1 DEF BuyersInv, AnswerShape
<1> QED BY <1>2, <1>3, <1>4, <1>5 DEF BuyersInv, BuyersSound

\* The steps that only read, and the server that stops.
LEMMA OfficerSteps ==
  ASSUME BuyersInv, NEW o \in Officers,
         \/ \E reg \in Numbers : CreateBuyer(o, reg)
         \/ StopBeforeScreening(o)
         \/ \E r \in Requests, status \in {"approved", "rejected"},
               linked \in {b.reg : b \in buyers} \cup {NoBuyer} :
              ReviewBuyerRequest(o, r, status, linked)
  PROVE  BuyersInv'
<1>1. NoOfficer \in OfficerCall /\ NoOfficer.op = "idle" /\ unscreened \in BOOLEAN
  BY DEF OfficerCall, NoOfficer, BuyersInv, BuyersTypeOK
<1>2. ASSUME NEW reg \in Numbers, CreateBuyer(o, reg) PROVE BuyersInv'
  <2> DEFINE a == [op |-> "create", reg |-> reg]
  <2>1. a \in OfficerCall /\ a.op = "create"
    BY DEF OfficerCall
  <2>2. Attend(o, "idle", a) /\ UNCHANGED <<buyers, request, unscreened>>
    BY <1>2 DEF CreateBuyer
  <2> HIDE DEF a
  <2> QED BY <1>1, <2>1, <2>2, OfficerStep
<1>3. CASE StopBeforeScreening(o)
  BY <1>1, <1>3, OfficerStep DEF StopBeforeScreening
<1>4. ASSUME NEW r \in Requests, NEW status \in {"approved", "rejected"},
             NEW linked \in {b.reg : b \in buyers} \cup {NoBuyer},
             ReviewBuyerRequest(o, r, status, linked)
      PROVE  BuyersInv'
  <2> DEFINE a == [op |-> "answer", id |-> r, status |-> status, linked |-> linked]
  <2>1. linked \in RegistrationNumber \cup {NoBuyer}
    BY BuyersTypes DEF BuyersInv, Buyer
  <2>2. a \in OfficerCall
    BY <2>1 DEF OfficerCall
  <2>3. a.op = "answer" /\ a.id = r /\ a.linked = linked
    OBVIOUS
  <2>4. /\ Attend(o, "idle", a) /\ UNCHANGED <<buyers, request, unscreened>>
        /\ request[r].status = "pending"
    BY <1>4 DEF ReviewBuyerRequest
  <2>5. request[r] # NoRequest
    BY <2>4, AskedFields
  <2>6. linked # NoBuyer => \E b \in buyers : b.reg = linked
    OBVIOUS
  <2> HIDE DEF a
  <2> QED BY <1>1, <2>2, <2>3, <2>4, <2>5, <2>6, OfficerStep
<1> QED BY <1>2, <1>3, <1>4

\* A row is added under a number that no row has.
LEMMA NewBuyer ==
  ASSUME BuyersInv, NEW n \in Buyer, Free(n.reg), buyers' = buyers \cup {n}
  PROVE  /\ buyers' \subseteq Buyer
         /\ \A b, d \in buyers' : b.reg = d.reg => b = d
  BY DEF BuyersInv, BuyersTypeOK, BuyersSound, OneBuyer, Free

\* createBuyer's INSERT: the screening of the row is then under way.
LEMMA InsertBuyerRecordStep ==
  ASSUME BuyersInv, NEW o \in Officers, InsertBuyerRecord(o) PROVE BuyersInv'
<1> DEFINE reg == officer[o].reg
           n == [reg |-> reg, from |-> NoBuyer, flag |-> FALSE]
           a == [op |-> "screen", reg |-> reg]
<1>1. officer[o] \in OfficerCall /\ officer[o].op = "create" /\ BuyersTypeOK
  BY BuyersTypes DEF InsertBuyerRecord, BuyersInv
<1>2. reg \in Numbers
  BY <1>1, OfficerFields
<1>3. NoOfficer \in OfficerCall /\ NoOfficer.op = "idle" /\ unscreened \in BOOLEAN
  BY <1>1 DEF OfficerCall, NoOfficer, BuyersTypeOK
<1>4. CASE ~ Free(reg)
  BY <1>3, <1>4, OfficerStep DEF InsertBuyerRecord
<1>5. CASE Free(reg)
  <2>1. /\ buyers' = buyers \cup {n} /\ Attend(o, "create", a)
        /\ UNCHANGED <<request, unscreened>>
    BY <1>5 DEF InsertBuyerRecord
  <2>2. n \in Buyer /\ n.reg = reg /\ n.from = NoBuyer
    BY <1>2 DEF Buyer, RegistrationNumber
  <2>3. a \in OfficerCall /\ a.op = "screen"
    BY <1>2 DEF OfficerCall
  <2>4. \A b \in buyers' : b \in buyers \/ b = n
    BY <2>1
  <2> HIDE DEF n
  <2>5. /\ officer' \in [Officers -> OfficerCall] /\ officer'[o] = a
        /\ \A p \in Officers \ {o} : officer'[p] = officer[p]
    BY <1>1, <2>1, <2>3, AttendStep
  <2>6. buyers' \subseteq Buyer /\ \A b, d \in buyers' : b.reg = d.reg => b = d
    BY <1>5, <2>1, <2>2, NewBuyer
  <2>7. BuyersTypeOK'
    BY <1>1, <2>1, <2>5, <2>6, BuyersTypes
       DEF BuyersTypeOK, Asked, OfficerCall
  <2>8. MadeShape'
    BY <2>1, <2>2, <2>4 DEF BuyersInv, MadeShape, NumberOf
  <2>9. OneBuyer'
    BY <2>6, <2>8, OneBuyerNext
  <2>10. ApprovedHasBuyer'
    BY <2>1 DEF BuyersInv, BuyersSound, ApprovedHasBuyer
  <2>11. ListedIsFlagged'
    <3> SUFFICES ASSUME NEW b \in buyers', b.from = NoBuyer, b.reg \in ListedNames,
                        ~ unscreened',
                        \A p \in Officers :
                          officer'[p] # [op |-> "screen", reg |-> b.reg]
                 PROVE  b.flag
      BY DEF ListedIsFlagged
    <3>1. b # n
      BY <2>2, <2>5
    <3>2. b \in buyers
      BY <2>4, <3>1
    <3>3. \A p \in Officers : officer[p] # [op |-> "screen", reg |-> b.reg]
      BY <1>1, <2>5
    <3> QED BY <2>1, <3>2, <3>3 DEF BuyersInv, BuyersSound, ListedIsFlagged
  <2>12. AnswerShape'
    BY <2>1, <2>3, <2>5 DEF BuyersInv, AnswerShape
  <2> QED BY <2>7, <2>8, <2>9, <2>10, <2>11, <2>12 DEF BuyersInv, BuyersSound
<1> QED BY <1>4, <1>5

\* A row with its flag raised.
LEMMA Flagged ==
  ASSUME NEW b \in Buyer
  PROVE  /\ [b EXCEPT !.flag = TRUE] \in Buyer
         /\ [b EXCEPT !.flag = TRUE].reg = b.reg
         /\ [b EXCEPT !.flag = TRUE].from = b.from
         /\ [b EXCEPT !.flag = TRUE].flag
  BY DEF Buyer

\* The screening flags the row it is about.
LEMMA CheckSanctionsStep ==
  ASSUME BuyersInv, NEW o \in Officers, CheckSanctions(o) PROVE BuyersInv'
<1> DEFINE reg == officer[o].reg
           Row(b) == IF b.reg = reg THEN [b EXCEPT !.flag = TRUE] ELSE b
<1>1. officer[o] \in OfficerCall /\ officer[o].op = "screen" /\ BuyersTypeOK
  BY BuyersTypes DEF CheckSanctions, Attend, BuyersInv
<1>2. reg \in Numbers /\ officer[o] = [op |-> "screen", reg |-> reg]
  BY <1>1, OfficerFields
<1>3. NoOfficer \in OfficerCall /\ NoOfficer.op = "idle" /\ unscreened \in BOOLEAN
  BY <1>1 DEF OfficerCall, NoOfficer, BuyersTypeOK
<1>4. /\ Attend(o, "screen", NoOfficer) /\ UNCHANGED <<request, unscreened>>
      /\ buyers' = IF reg \in ListedNames THEN {Row(b) : b \in buyers} ELSE buyers
  BY DEF CheckSanctions, RaiseFlag
<1>5. /\ officer' \in [Officers -> OfficerCall] /\ officer'[o] = NoOfficer
      /\ \A p \in Officers \ {o} : officer'[p] = officer[p]
  BY <1>1, <1>3, <1>4, AttendStep
<1>6. \A b \in buyers : /\ b \in Buyer /\ Row(b) \in Buyer
                        /\ Row(b).reg = b.reg /\ Row(b).from = b.from
                        /\ b.flag => Row(b).flag
                        /\ b.reg = reg => Row(b).flag
  BY <1>1, Flagged DEF BuyersTypeOK
<1> HIDE DEF Row
<1>7. \A d \in buyers' : \E b \in buyers :
        /\ d = Row(b) \/ (d = b /\ reg \notin ListedNames)
        /\ d \in Buyer /\ d.reg = b.reg /\ d.from = b.from
        /\ b.flag => d.flag
        /\ reg \in ListedNames /\ b.reg = reg => d.flag
  <2>1. CASE reg \in ListedNames
    BY <1>4, <1>6, <2>1
  <2>2. CASE reg \notin ListedNames
    BY <1>4, <1>6, <2>2
  <2> QED BY <2>1, <2>2
<1>8. \A b \in buyers : \E d \in buyers' : d.reg = b.reg
  BY <1>4, <1>6
<1>9. BuyersTypeOK'
  <2>1. buyers' \subseteq Buyer
    BY <1>7
  <2> QED BY <1>1, <1>3, <1>4, <1>5, <2>1 DEF BuyersTypeOK, OfficerCall
<1>10. MadeShape'
  BY <1>4, <1>7 DEF BuyersInv, MadeShape, NumberOf
<1>11. OneBuyer'
  <2>1. \A b, d \in buyers : b.reg = d.reg => b = d
    BY DEF BuyersInv, BuyersSound, OneBuyer
  <2>2. \A b, d \in buyers' : b.reg = d.reg => b = d
    <3> SUFFICES ASSUME NEW b \in buyers', NEW d \in buyers', b.reg = d.reg
                 PROVE  b = d
      OBVIOUS
    <3>1. PICK x \in buyers : /\ b = Row(x) \/ (b = x /\ reg \notin ListedNames)
                              /\ b.reg = x.reg
      BY <1>7
    <3>2. PICK y \in buyers : /\ d = Row(y) \/ (d = y /\ reg \notin ListedNames)
                              /\ d.reg = y.reg
      BY <1>7
    <3>3. x = y
      BY <2>1, <3>1, <3>2
    <3>4. CASE reg \in ListedNames
      BY <3>1, <3>2, <3>3, <3>4
    <3>5. CASE reg \notin ListedNames
      BY <1>4, <2>1, <3>5
    <3> QED BY <3>4, <3>5
  <2> QED BY <1>10, <2>2, OneBuyerNext
<1>12. ApprovedHasBuyer'
  BY <1>4, <1>8 DEF BuyersInv, BuyersSound, ApprovedHasBuyer
<1>13. ListedIsFlagged'
  <2> SUFFICES ASSUME NEW d \in buyers', d.from = NoBuyer, d.reg \in ListedNames,
                      ~ unscreened',
                      \A p \in Officers :
                        officer'[p] # [op |-> "screen", reg |-> d.reg]
               PROVE  d.flag
    BY DEF ListedIsFlagged
  <2>1. PICK b \in buyers : /\ d.reg = b.reg /\ d.from = b.from
                            /\ b.flag => d.flag
                            /\ reg \in ListedNames /\ b.reg = reg => d.flag
    BY <1>7
  <2>2. CASE b.reg = reg
    BY <2>1, <2>2
  <2>3. CASE b.reg # reg
    <3>1. \A p \in Officers : officer[p] # [op |-> "screen", reg |-> b.reg]
      <4>1. officer[o] # [op |-> "screen", reg |-> b.reg]
        BY <1>2, <2>3
      <4> QED BY <1>5, <2>1, <4>1
    <3>2. b.flag
      BY <1>4, <2>1, <3>1 DEF BuyersInv, BuyersSound, ListedIsFlagged
    <3> QED BY <2>1, <3>2
  <2> QED BY <2>2, <2>3
<1>14. AnswerShape'
  BY <1>3, <1>4, <1>5, <1>8 DEF BuyersInv, AnswerShape
<1> QED BY <1>9, <1>10, <1>11, <1>12, <1>13, <1>14 DEF BuyersInv, BuyersSound

\* A supplier asks for a buyer: no row is from a request that was not there.
LEMMA CreateBuyerRequestStep ==
  ASSUME BuyersInv, NEW r \in Requests, NEW number \in Numbers \cup {NoNumber},
         CreateBuyerRequest(r, number)
  PROVE  BuyersInv'
<1> DEFINE q == [status |-> "pending", number |-> number, linked |-> NoBuyer]
<1>1. BuyersTypeOK /\ request \in [Requests -> {NoRequest} \cup Asked]
  BY BuyersTypes DEF BuyersInv
<1>2. /\ request[r] = NoRequest /\ request' = [request EXCEPT ![r] = q]
      /\ UNCHANGED <<buyers, officer, unscreened>>
  BY DEF CreateBuyerRequest
<1>3. q \in Asked /\ q.status = "pending"
  BY DEF Asked
<1> HIDE DEF q
<1>4. /\ request' \in [Requests -> {NoRequest} \cup Asked]
      /\ request'[r] = q
      /\ \A s \in Requests \ {r} : request'[s] = request[s]
  BY <1>1, <1>2, <1>3
<1>5. BuyersTypeOK'
  BY <1>1, <1>2, <1>4 DEF BuyersTypeOK, Asked
<1>6. \A b \in buyers : b.from \in Requests \cup {NoBuyer}
  BY <1>1 DEF BuyersTypeOK, Buyer
<1>7. MadeShape'
  BY <1>2, <1>4, <1>6 DEF BuyersInv, MadeShape, NumberOf
<1>8. OneBuyer' /\ ListedIsFlagged'
  BY <1>2 DEF BuyersInv, BuyersSound, OneBuyer, ListedIsFlagged
<1>9. ApprovedHasBuyer'
  BY <1>2, <1>3, <1>4 DEF BuyersInv, BuyersSound, ApprovedHasBuyer
<1>10. \A o \in Officers : officer[o].op = "answer" => officer[o].id \in Requests
  BY <1>1, BuyersTypes, OfficerFields
<1>11. AnswerShape'
  BY <1>2, <1>4, <1>10 DEF BuyersInv, AnswerShape
<1> QED BY <1>5, <1>7, <1>8, <1>9, <1>11 DEF BuyersInv, BuyersSound

\* The rows of the requests, one of them with its answer.
AnsweredRows(rows, id, status, linked) ==
  [rows EXCEPT ![id].status = status, ![id].linked = linked]

\* That one is closed and keeps its number; the others are as they were.
LEMMA Answered ==
  ASSUME NEW rows \in [Requests -> {NoRequest} \cup Asked], NEW id \in Requests,
         rows[id] \in Asked, NEW status \in {"approved", "rejected"},
         NEW linked \in RegistrationNumber \cup {NoBuyer}
  PROVE  LET next == AnsweredRows(rows, id, status, linked) IN
         /\ next \in [Requests -> {NoRequest} \cup Asked] /\ next[id] \in Asked
         /\ next[id].status = status /\ next[id].linked = linked
         /\ next[id].number = rows[id].number
         /\ \A r \in Requests \ {id} : next[r] = rows[r]
<1> DEFINE q == [rows[id] EXCEPT !.status = status, !.linked = linked]
           next == AnsweredRows(rows, id, status, linked)
<1>1. q \in Asked /\ q.status = status /\ q.linked = linked
      /\ q.number = rows[id].number
  BY DEF Asked
<1>2. next = [rows EXCEPT ![id] = q]
  BY DEF AnsweredRows
<1> HIDE DEF q, next
<1>3. /\ next \in [Requests -> {NoRequest} \cup Asked] /\ next[id] \in Asked
      /\ next[id].status = status /\ next[id].linked = linked
      /\ next[id].number = rows[id].number
      /\ \A r \in Requests \ {id} : next[r] = rows[r]
  BY <1>1, <1>2
<1> QED BY <1>3 DEF next

\* The answer closes the request, and an approval that names no buyer makes one.
LEMMA ExecuteReviewTxStep ==
  ASSUME BuyersInv, NEW o \in Officers, ExecuteReviewTx(o) PROVE BuyersInv'
<1> DEFINE a == officer[o]
           id == a.id
           makes == a.status = "approved" /\ a.linked = NoBuyer
           reg == NumberOf(id)
           n == [reg |-> reg, from |-> id, flag |-> FALSE]
           linked == IF a.status = "approved" THEN Resolve(a.linked, reg) ELSE a.linked
<1>1. a \in OfficerCall /\ a.op = "answer" /\ BuyersTypeOK
  BY BuyersTypes DEF ExecuteReviewTx, Attend, BuyersInv
<1>2. /\ id \in Requests /\ a.status \in {"approved", "rejected"}
      /\ a.linked \in RegistrationNumber \cup {NoBuyer}
  BY <1>1, OfficerFields
<1>3. NoOfficer \in OfficerCall /\ NoOfficer.op = "idle" /\ unscreened \in BOOLEAN
  BY <1>1 DEF OfficerCall, NoOfficer, BuyersTypeOK
<1>4. /\ request[id] # NoRequest
      /\ a.linked # NoBuyer => \E b \in buyers : b.reg = a.linked
  BY <1>1 DEF BuyersInv, AnswerShape
<1>5. reg \in RegistrationNumber
  BY <1>1, <1>2, <1>4, NumberOfType
<1>6. CASE makes /\ ~ Free(reg)
  <2>1. Attend(o, "answer", NoOfficer) /\ UNCHANGED <<buyers, request, unscreened>>
    BY <1>6 DEF ExecuteReviewTx
  <2> QED BY <1>3, <2>1, OfficerStep
<1>7. CASE ~ (makes /\ ~ Free(reg))
  <2>1. /\ Attend(o, "answer", NoOfficer) /\ UNCHANGED unscreened
        /\ buyers' = IF makes THEN buyers \cup {n} ELSE buyers
        /\ request' = [request EXCEPT ![id].status = a.status, ![id].linked = linked]
    BY <1>7 DEF ExecuteReviewTx
  <2>2. linked \in RegistrationNumber \cup {NoBuyer}
    BY <1>2, <1>5 DEF Resolve
  <2>3. n \in Buyer /\ n.reg = reg /\ n.from = id
    BY <1>2, <1>5 DEF Buyer
  <2>4. /\ a.status = "approved" /\ ~ makes => \E b \in buyers : b.reg = linked
        /\ makes => linked = reg
    BY <1>4 DEF Resolve
  <2>5. request[id] \in Asked
    BY <1>1, <1>2, <1>4, BuyersTypes
  <2>6. id # NoBuyer
    BY <1>2, BuyersAssumption
  <2>7. request \in [Requests -> {NoRequest} \cup Asked]
    BY <1>1, BuyersTypes
  <2> HIDE DEF n, linked, reg, id
  <2>10. /\ request'[id] \in Asked /\ request'[id].status = a.status
         /\ request'[id].linked = linked /\ request'[id].number = request[id].number
         /\ request'[id] # NoRequest
         /\ \A r \in Requests \ {id} : request'[r] = request[r]
         /\ request' \in [Requests -> {NoRequest} \cup Asked]
    <3> DEFINE status == a.status
    <3>1. status \in {"approved", "rejected"}
      BY <1>2
    <3>2. request' = AnsweredRows(request, id, status, linked)
      BY <2>1 DEF AnsweredRows
    <3> HIDE DEF status
    <3>3. /\ request' \in [Requests -> {NoRequest} \cup Asked]
          /\ request'[id] \in Asked
          /\ request'[id].status = status /\ request'[id].linked = linked
          /\ request'[id].number = request[id].number
          /\ \A r \in Requests \ {id} : request'[r] = request[r]
      BY <1>2, <2>2, <2>5, <2>7, <3>1, <3>2, Answered
    <3> QED BY <3>3, AskedFields DEF status
  <2>11. /\ officer' \in [Officers -> OfficerCall] /\ officer'[o] = NoOfficer
         /\ \A p \in Officers \ {o} : officer'[p] = officer[p]
    BY <1>1, <1>3, <2>1, AttendStep
  <2>12. /\ buyers' \subseteq Buyer
         /\ \A b, d \in buyers' : b.reg = d.reg => b = d
         /\ buyers \subseteq buyers'
         /\ \A b \in buyers' : b \in buyers \/ (makes /\ b = n)
         /\ makes => n \in buyers'
    <3>1. CASE makes
      <4>1. Free(n.reg)
        BY <1>7, <2>3, <3>1
      <4> QED BY <2>1, <2>3, <3>1, <4>1, NewBuyer
    <3>2. CASE ~ makes
      BY <1>1, <2>1, <3>2 DEF BuyersInv, BuyersTypeOK, BuyersSound, OneBuyer
    <3> QED BY <3>1, <3>2
  <2>13. BuyersTypeOK'
    BY <1>1, <2>1, <2>10, <2>11, <2>12 DEF BuyersTypeOK, Asked, OfficerCall
  <2>14. \A r \in Requests : /\ request[r] # NoRequest => request'[r] # NoRequest
                             /\ request'[r].number = request[r].number
    BY <2>10
  <2>15. MadeShape'
    <3> SUFFICES ASSUME NEW b \in buyers', b.from # NoBuyer
                 PROVE  request'[b.from] # NoRequest /\ b.reg = NumberOf(b.from)'
      BY DEF MadeShape
    <3>1. b.from \in Requests
      BY <2>12 DEF Buyer
    <3>2. request[b.from] # NoRequest /\ b.reg = NumberOf(b.from)
      BY <1>4, <2>3, <2>12 DEF BuyersInv, MadeShape, reg
    <3> QED BY <2>14, <3>1, <3>2 DEF NumberOf
  <2>16. OneBuyer'
    BY <2>12, <2>15, OneBuyerNext
  <2>17. ApprovedHasBuyer'
    <3> SUFFICES ASSUME NEW r \in Requests, request'[r].status = "approved"
                 PROVE  \E b \in buyers' : b.reg = request'[r].linked
      BY DEF ApprovedHasBuyer
    <3>1. CASE r = id
      BY <2>3, <2>4, <2>10, <2>12, <3>1
    <3>2. CASE r # id
      BY <2>10, <2>12, <3>2 DEF BuyersInv, BuyersSound, ApprovedHasBuyer
    <3> QED BY <3>1, <3>2
  <2>18. ListedIsFlagged'
    <3> SUFFICES ASSUME NEW b \in buyers', b.from = NoBuyer, b.reg \in ListedNames,
                        ~ unscreened',
                        \A p \in Officers :
                          officer'[p] # [op |-> "screen", reg |-> b.reg]
                 PROVE  b.flag
      BY DEF ListedIsFlagged
    <3>1. b \in buyers
      BY <2>3, <2>6, <2>12
    <3>2. \A p \in Officers : officer[p] # [op |-> "screen", reg |-> b.reg]
      BY <1>1, <2>11
    <3> QED BY <2>1, <3>1, <3>2 DEF BuyersInv, BuyersSound, ListedIsFlagged
  <2>19. \A p \in Officers : officer[p].op = "answer" => officer[p].id \in Requests
    BY <1>1, BuyersTypes, OfficerFields
  <2>20. AnswerShape'
    <3> SUFFICES ASSUME NEW p \in Officers, officer'[p].op = "answer"
                 PROVE  /\ request'[officer'[p].id] # NoRequest
                        /\ officer'[p].linked # NoBuyer =>
                             \E b \in buyers' : b.reg = officer'[p].linked
      BY DEF AnswerShape
    <3>1. officer'[p] = officer[p]
      BY <1>3, <2>11
    <3> QED BY <2>12, <2>14, <2>19, <3>1 DEF BuyersInv, AnswerShape
  <2> QED BY <2>13, <2>15, <2>16, <2>17, <2>18, <2>20 DEF BuyersInv, BuyersSound
<1> QED BY <1>6, <1>7

\* Every step of the buyers keeps the invariant.
LEMMA BuyersNextInv == BuyersInv /\ [BuyersNext]_buyersVars => BuyersInv'
<1> SUFFICES ASSUME BuyersInv, [BuyersNext]_buyersVars PROVE BuyersInv'
  OBVIOUS
<1>1. CASE UNCHANGED buyersVars
  BY <1>1 DEF buyersVars, BuyersInv, BuyersTypeOK, BuyersSound, ApprovedHasBuyer,
              OneBuyer, ListedIsFlagged, MadeShape, AnswerShape, NumberOf
<1>2. CASE BuyersNext
  BY <1>2, OfficerSteps, InsertBuyerRecordStep, CheckSanctionsStep,
     ExecuteReviewTxStep, CreateBuyerRequestStep
     DEF BuyersNext
<1> QED BY <1>1, <1>2

\* createBuyer and reviewBuyerOnboardingRequest, for any number of officers and
\* requests: an approved request has a buyer, no two rows share a number, one
\* request makes one buyer, and a listed company that an officer entered is
\* flagged once its screening has run.
THEOREM BuyersHold == BuyersInit /\ [][BuyersNext]_buyersVars => []BuyersSound
<1>1. BuyersInv => BuyersSound
  BY DEF BuyersInv
<1> QED BY <1>1, BuyersInitInv, BuyersNextInv, PTL

-----------------------------------------------------------------------------
(* The KYC application.                                                    *)

KycCall ==
  {NoKycCall}
    \cup [op : {"uploaded", "counting", "advance", "promote"}]
    \cup [op : {"review"}, doc : 1..MaxDocs, decision : Decided, read : KycStatus]
    \cup [op : {"reviewed"}, read : KycStatus \ Decided]
    \cup [op : {"checker", "status"}, by : Staff, next : KycStatus]

\* What a request has read may be gone, but it has been so: a decision was
\* taken, a review was taken up.  No request goes back to pending.
ReadShape(r) ==
  /\ r.op = "review" => /\ r.doc \in DOMAIN docs
                        /\ r.read \in Decided => decided
  /\ r.op \in {"checker", "status"} =>
       /\ r.next # "pending"
       /\ r.next = "approved" => kyc.reviewer # Nobody

\* The status tells what has been: a decision, a review.
StatusShape ==
  /\ kyc.status \in Decided => decided
  /\ kyc.status = "under_review" => kyc.reviewer # Nobody

\* Every required document is there: the status is being advanced.
UploadShape ==
  ~ kycLost /\ kyc.status = "pending" /\ Covers({docs[i].type : i \in DOMAIN docs}) =>
    \E c \in KycCalls : kycCall[c].op \in {"uploaded", "counting", "advance"}

\* Every required document is approved: the decision is being taken.
ApprovalShape ==
  ~ kycLost /\ Covers(GetApprovedDocumentTypes) =>
    \/ decided
    \/ \E c \in KycCalls : kycCall[c].op \in {"reviewed", "promote"}

KycInv ==
  /\ KycTypeOK
  /\ \A c \in KycCalls : ReadShape(kycCall[c])
  /\ StatusShape
  /\ UploadShape
  /\ ApprovalShape
  /\ ReviewedFirst

\* What the record of a request holds, by the request.
LEMMA KycCallFields ==
  ASSUME NEW r \in KycCall
  PROVE  /\ r.op = "review" => /\ r.doc \in 1..MaxDocs /\ r.decision \in Decided
                               /\ r.read \in KycStatus
         /\ r.op \in {"checker", "status"} => /\ r.by \in Staff
                                              /\ r.next \in KycStatus
  BY DEF KycCall, NoKycCall

\* The typing of the application, in the name above.
LEMMA KycTypes ==
  KycTypeOK <=> /\ kyc \in [status : KycStatus, reviewer : Staff \cup {Nobody},
                            approver : Staff \cup {Nobody}]
                /\ docs \in Seq(Doc) /\ Len(docs) <= MaxDocs
                /\ kycCall \in [KycCalls -> KycCall]
                /\ decided \in BOOLEAN
                /\ kycLost \in BOOLEAN
  BY DEF KycTypeOK, KycCall

\* No request, and nothing to be true of it.
LEMMA NoKycCallShape ==
  NoKycCall \in KycCall /\ NoKycCall.op = "idle" /\ ReadShape(NoKycCall)
<1>1. NoKycCall \in KycCall /\ NoKycCall.op = "idle"
  BY DEF KycCall, NoKycCall
<1> QED BY <1>1 DEF ReadShape

\* A request comes to hold another record.
LEMMA ServeCall ==
  ASSUME KycTypeOK, NEW c \in KycCalls, NEW op, NEW r \in KycCall, Serve(c, op, r)
  PROVE  /\ kycCall[c].op = op /\ kycCall' \in [KycCalls -> KycCall]
         /\ kycCall'[c] = r
         /\ \A d \in KycCalls \ {c} : kycCall'[d] = kycCall[d]
  BY KycTypes DEF Serve

\* The invariant is as strong as the properties.
LEMMA KycInvSound == KycInv => KycSound
<1> SUFFICES ASSUME KycInv PROVE KycSound
  OBVIOUS
<1>1. KycQuiet => \A c \in KycCalls : kycCall[c].op = "idle"
  BY NoKycCallShape DEF KycQuiet
<1>2. AdvanceNotLost
  BY <1>1 DEF AdvanceNotLost, KycInv, UploadShape, KycQuiet
<1>3. ApprovalNotLost
  BY <1>1 DEF ApprovalNotLost, KycInv, ApprovalShape, KycQuiet
<1> QED BY <1>2, <1>3 DEF KycInv, KycSound

\* The initial state.
LEMMA KycInitInv == KycInit => KycInv
<1> SUFFICES ASSUME KycInit PROVE KycInv
  OBVIOUS
<1>1. /\ kyc.status = "pending" /\ kyc.reviewer = Nobody /\ kyc.approver = Nobody
      /\ docs = << >> /\ DOMAIN docs = {}
      /\ \A c \in KycCalls : kycCall[c] = NoKycCall
  BY DEF KycInit
<1>2. KycTypeOK
  <2>1. kyc \in [status : KycStatus, reviewer : Staff \cup {Nobody},
                 approver : Staff \cup {Nobody}]
    BY DEF KycInit, KycStatus
  <2>2. docs \in Seq(Doc) /\ Len(docs) <= MaxDocs
    BY <1>1, KycAssumption
  <2>3. kycCall \in [KycCalls -> KycCall]
    BY NoKycCallShape DEF KycInit
  <2> QED BY <2>1, <2>2, <2>3, KycTypes DEF KycInit
<1>3. StatusShape /\ ReviewedFirst
  BY <1>1 DEF StatusShape, ReviewedFirst, Decided
<1>4. \A c \in KycCalls : ReadShape(kycCall[c])
  BY <1>1, NoKycCallShape
<1>5. ~ Covers({docs[i].type : i \in DOMAIN docs}) /\ ~ Covers(GetApprovedDocumentTypes)
  <2>1. {docs[i].type : i \in DOMAIN docs} = {} /\ GetApprovedDocumentTypes = {}
    BY <1>1 DEF GetApprovedDocumentTypes
  <2> QED BY <2>1, KycAssumption DEF Covers
<1> QED BY <1>2, <1>3, <1>4, <1>5 DEF KycInv, UploadShape, ApprovalShape

\* A step that leaves the application and its documents alone, and drops none
\* of the requests that are needed.
LEMMA ReadStep ==
  ASSUME KycInv, NEW c \in KycCalls, NEW op, NEW r \in KycCall, Serve(c, op, r),
         ReadShape(r), UNCHANGED <<kyc, docs, decided>>, kycLost' \in BOOLEAN,
         kycLost => kycLost',
         op \in {"uploaded", "counting", "advance"} =>
           \/ kycLost' \/ r.op \in {"uploaded", "counting", "advance"}
           \/ kyc.status # "pending"
           \/ ~ Covers({docs[i].type : i \in DOMAIN docs}),
         op \in {"reviewed", "promote"} =>
           \/ kycLost' \/ r.op \in {"reviewed", "promote"}
           \/ ~ Covers(GetApprovedDocumentTypes)
  PROVE  KycInv'
<1>1. /\ kycCall[c].op = op /\ kycCall' \in [KycCalls -> KycCall]
      /\ kycCall'[c] = r
      /\ \A d \in KycCalls \ {c} : kycCall'[d] = kycCall[d]
  BY ServeCall DEF KycInv
<1>2. KycTypeOK'
  BY <1>1 DEF KycInv, KycTypeOK, KycCall
<1>3. \A d \in KycCalls : ReadShape(kycCall'[d])
  BY <1>1 DEF KycInv
<1>4. (\A d \in KycCalls : ReadShape(kycCall[d]))'
  BY <1>3 DEF ReadShape
<1>5. StatusShape' /\ ReviewedFirst'
  BY DEF KycInv, StatusShape, ReviewedFirst
<1>6. UploadShape'
  BY <1>1 DEF KycInv, UploadShape, Covers
<1>7. ApprovalShape'
  BY <1>1 DEF KycInv, ApprovalShape, Covers, GetApprovedDocumentTypes, Newest
<1> QED BY <1>2, <1>4, <1>5, <1>6, <1>7 DEF KycInv

\* The steps that read, and the failures.
LEMMA ReadSteps ==
  ASSUME KycInv, NEW c \in KycCalls,
         \/ AutoAdvance(c)
         \/ ShouldAutoAdvance(c)
         \/ \E d \in DOMAIN docs, decision \in Decided, u \in Staff :
              ReviewSupplierDocument(c, d, decision, u)
         \/ MaybeAutoApprove(c)
         \/ \E next \in KycStatus, u \in Staff : UpdateKycStatus(c, next, u)
         \/ EnforceMakerChecker(c)
         \/ KycFail(c)
  PROVE  KycInv'
<1>1. /\ KycTypeOK /\ kycCall[c] \in KycCall /\ ReadShape(kycCall[c])
      /\ kycLost \in BOOLEAN /\ kyc.status \in KycStatus
  BY KycTypes DEF KycInv
<1>2. \A r \in [op : {"counting", "advance", "promote"}] : r \in KycCall /\ ReadShape(r)
  BY DEF KycCall, ReadShape
<1>3. CASE AutoAdvance(c)
  <2>1. PICK r : /\ Serve(c, "uploaded", r)
                 /\ r = IF kyc.status = "pending" THEN [op |-> "counting"]
                        ELSE NoKycCall
    BY <1>3 DEF AutoAdvance
  <2>2. r \in KycCall /\ ReadShape(r) /\ (kyc.status = "pending" => r.op = "counting")
    BY <1>2, <2>1, NoKycCallShape
  <2>3. UNCHANGED <<kyc, docs, decided, kycLost>>
    BY <1>3 DEF AutoAdvance
  <2> QED BY <1>1, <2>1, <2>2, <2>3, ReadStep
<1>4. CASE ShouldAutoAdvance(c)
  <2>1. PICK r : /\ Serve(c, "counting", r)
                 /\ r = IF Covers({docs[i].type : i \in DOMAIN docs})
                        THEN [op |-> "advance"] ELSE NoKycCall
    BY <1>4 DEF ShouldAutoAdvance
  <2>2. /\ r \in KycCall /\ ReadShape(r)
        /\ Covers({docs[i].type : i \in DOMAIN docs}) => r.op = "advance"
    BY <1>2, <2>1, NoKycCallShape
  <2>3. UNCHANGED <<kyc, docs, decided, kycLost>>
    BY <1>4 DEF ShouldAutoAdvance
  <2> QED BY <1>1, <2>1, <2>2, <2>3, ReadStep
<1>5. ASSUME NEW d \in DOMAIN docs, NEW decision \in Decided, NEW u \in Staff,
             ReviewSupplierDocument(c, d, decision, u)
      PROVE  KycInv'
  <2> DEFINE r == [op |-> "review", doc |-> d, decision |-> decision,
                   read |-> kyc.status]
  <2>1. d \in 1..MaxDocs
    BY <1>1, KycTypes, KycAssumption
  <2>2. r \in KycCall
    BY <1>1, <2>1 DEF KycCall
  <2>3. ReadShape(r)
    BY DEF ReadShape, KycInv, StatusShape
  <2>4. Serve(c, "idle", r) /\ UNCHANGED <<kyc, docs, decided, kycLost>>
    BY <1>5 DEF ReviewSupplierDocument
  <2> HIDE DEF r
  <2> QED BY <1>1, <2>2, <2>3, <2>4, ReadStep
<1>6. CASE MaybeAutoApprove(c)
  <2>1. PICK r : /\ Serve(c, "reviewed", r)
                 /\ r = IF Covers(GetApprovedDocumentTypes)
                        THEN [op |-> "promote"] ELSE NoKycCall
    BY <1>6 DEF MaybeAutoApprove
  <2>2. /\ r \in KycCall /\ ReadShape(r)
        /\ Covers(GetApprovedDocumentTypes) => r.op = "promote"
    BY <1>2, <2>1, NoKycCallShape
  <2>3. UNCHANGED <<kyc, docs, decided, kycLost>>
    BY <1>6 DEF MaybeAutoApprove
  <2> QED BY <1>1, <2>1, <2>2, <2>3, ReadStep
<1>7. ASSUME NEW next \in KycStatus, NEW u \in Staff, UpdateKycStatus(c, next, u)
      PROVE  KycInv'
  <2> DEFINE r == [op |-> IF next = "approved" THEN "checker" ELSE "status",
                   by |-> u, next |-> next]
  <2>1. /\ <<kyc.status, next>> \in Transitions /\ Serve(c, "idle", r)
        /\ UNCHANGED <<kyc, docs, decided, kycLost>>
    BY <1>7 DEF UpdateKycStatus
  <2>2. r \in KycCall
    BY <1>1 DEF KycCall
  <2>3. next # "pending" /\ (next = "approved" => kyc.status = "under_review")
    BY <2>1 DEF Transitions
  <2>4. ReadShape(r)
    BY <2>3 DEF ReadShape, KycInv, StatusShape
  <2> HIDE DEF r
  <2> QED BY <1>1, <2>1, <2>2, <2>4, ReadStep
<1>8. CASE EnforceMakerChecker(c)
  <2> DEFINE q == [kycCall[c] EXCEPT !.op = "status"]
  <2>1. kycCall[c].op = "checker" /\ UNCHANGED <<kyc, docs, decided, kycLost>>
    BY <1>8 DEF EnforceMakerChecker, Serve
  <2>2. kycCall[c] \in [op : {"checker", "status"}, by : Staff, next : KycStatus]
    BY <1>1, <2>1 DEF KycCall, NoKycCall
  <2>3. q \in KycCall /\ q.op = "status" /\ q.next = kycCall[c].next
    BY <2>2 DEF KycCall
  <2> HIDE DEF q
  <2>4. ReadShape(q)
    BY <1>1, <2>1, <2>3 DEF ReadShape
  <2>5. PICK r : /\ Serve(c, "checker", r)
                 /\ r = IF kyc.reviewer = kycCall[c].by THEN NoKycCall ELSE q
    BY <1>8 DEF EnforceMakerChecker, q
  <2>6. r \in KycCall /\ ReadShape(r)
    BY <2>3, <2>4, <2>5, NoKycCallShape
  <2> QED BY <1>1, <2>1, <2>5, <2>6, ReadStep
<1>9. CASE KycFail(c)
  <2>1. Serve(c, kycCall[c].op, NoKycCall) /\ UNCHANGED <<kyc, docs, decided>> /\ kycLost'
    BY <1>9 DEF KycFail, Serve
  <2>2. kycLost' \in BOOLEAN
    BY <1>9 DEF KycFail
  <2> QED BY <2>1, <2>2, NoKycCallShape, ReadStep
<1> QED BY <1>3, <1>4, <1>5, <1>6, <1>7, <1>8, <1>9

\* A status is written, over whatever it was.
LEMMA WriteStep ==
  ASSUME KycInv, NEW c \in KycCalls, NEW op, Answer(c, op),
         NEW next \in KycStatus \ {"pending"},
         kyc' \in [status : KycStatus, reviewer : Staff \cup {Nobody},
                   approver : Staff \cup {Nobody}],
         kyc'.status = next, decided' = (decided \/ next \in Decided),
         UNCHANGED <<docs, kycLost>>,
         op \in {"reviewed", "promote"} => next \in Decided,
         kyc.reviewer # Nobody => kyc'.reviewer # Nobody,
         next = "under_review" => kyc'.reviewer # Nobody,
         kyc'.approver # kyc.approver => kyc.reviewer # Nobody
  PROVE  KycInv'
<1>1. /\ kycCall[c].op = op /\ kycCall' \in [KycCalls -> KycCall]
      /\ kycCall'[c] = NoKycCall
      /\ \A d \in KycCalls \ {c} : kycCall'[d] = kycCall[d]
  BY ServeCall, NoKycCallShape DEF KycInv, Answer
<1>2. KycTypeOK'
  BY <1>1 DEF KycInv, KycTypeOK, KycCall
<1>3. (decided => decided') /\ (next \in Decided => decided')
  OBVIOUS
<1>4. (\A d \in KycCalls : ReadShape(kycCall[d]))'
  <2> SUFFICES ASSUME NEW d \in KycCalls PROVE ReadShape(kycCall[d])'
    OBVIOUS
  <2>1. CASE d = c
    BY <1>1, <2>1, NoKycCallShape DEF ReadShape
  <2>2. CASE d # c
    <3>1. kycCall'[d] = kycCall[d] /\ ReadShape(kycCall[d])
      BY <1>1, <2>2 DEF KycInv
    <3> QED BY <1>3, <3>1 DEF ReadShape
  <2> QED BY <2>1, <2>2
<1>5. StatusShape'
  BY <1>3 DEF KycInv, StatusShape
<1>6. ReviewedFirst'
  BY DEF KycInv, ReviewedFirst
<1>7. UploadShape'
  BY DEF UploadShape
<1>8. ApprovalShape'
  <2> SUFFICES ASSUME ~ kycLost', ~ decided', Covers(GetApprovedDocumentTypes)'
               PROVE  \E d \in KycCalls : kycCall'[d].op \in {"reviewed", "promote"}
    BY DEF ApprovalShape
  <2>1. Covers(GetApprovedDocumentTypes)
    BY DEF Covers, GetApprovedDocumentTypes, Newest
  <2>2. PICK d \in KycCalls : kycCall[d].op \in {"reviewed", "promote"}
    BY <1>3, <2>1 DEF KycInv, ApprovalShape
  <2>3. d # c
    BY <1>1, <2>2
  <2> QED BY <1>1, <2>2, <2>3
<1> QED BY <1>2, <1>4, <1>5, <1>6, <1>7, <1>8 DEF KycInv

\* The row with its reviewer or its approver.
LEMMA Marked ==
  ASSUME NEW next \in KycStatus, NEW u \in Staff,
         kyc \in [status : KycStatus, reviewer : Staff \cup {Nobody},
                  approver : Staff \cup {Nobody}]
  PROVE  LET row == SetKycRoleMarkers(next, u) IN
         /\ row \in [status : KycStatus, reviewer : Staff \cup {Nobody},
                     approver : Staff \cup {Nobody}]
         /\ row.reviewer = IF next = "under_review" THEN u ELSE kyc.reviewer
         /\ row.approver = IF next = "approved" THEN u ELSE kyc.approver
<1>1. CASE next = "under_review"
  BY <1>1 DEF SetKycRoleMarkers
<1>2. CASE next = "approved"
  BY <1>2 DEF SetKycRoleMarkers
<1>3. CASE next \notin {"under_review", "approved"}
  BY <1>3 DEF SetKycRoleMarkers
<1> QED BY <1>1, <1>2, <1>3

\* The steps that write the status.
LEMMA WriteSteps ==
  ASSUME KycInv, NEW c \in KycCalls,
         \/ AdvanceToDocumentsSubmitted(c)
         \/ Promote(c)
         \/ ExecuteKycStatusTx(c)
  PROVE  KycInv'
<1>1. /\ kyc \in [status : KycStatus, reviewer : Staff \cup {Nobody},
                  approver : Staff \cup {Nobody}]
      /\ kycCall[c] \in KycCall /\ ReadShape(kycCall[c])
  BY KycTypes DEF KycInv
<1>2. CASE AdvanceToDocumentsSubmitted(c)
  <2>1. /\ kyc' = [kyc EXCEPT !.status = "documents_submitted"]
        /\ decided' = (decided \/ "documents_submitted" \in Decided)
        /\ Answer(c, "advance") /\ UNCHANGED <<docs, kycLost>>
    BY <1>2 DEF AdvanceToDocumentsSubmitted, WriteStatus
  <2>2. "documents_submitted" \in KycStatus \ {"pending"}
    BY DEF KycStatus, Decided
  <2>3. /\ kyc' \in [status : KycStatus, reviewer : Staff \cup {Nobody},
                     approver : Staff \cup {Nobody}]
        /\ kyc'.status = "documents_submitted" /\ kyc'.reviewer = kyc.reviewer
        /\ kyc'.approver = kyc.approver
    BY <1>1, <2>1, <2>2
  <2> QED BY <2>1, <2>2, <2>3, WriteStep
<1>3. CASE Promote(c)
  <2>1. /\ kyc' = [kyc EXCEPT !.status = "approved"]
        /\ decided' = (decided \/ "approved" \in Decided)
        /\ Answer(c, "promote") /\ UNCHANGED <<docs, kycLost>>
    BY <1>3 DEF Promote, WriteStatus
  <2>2. "approved" \in KycStatus \ {"pending"} /\ "approved" \in Decided
    BY DEF KycStatus, Decided
  <2>3. /\ kyc' \in [status : KycStatus, reviewer : Staff \cup {Nobody},
                     approver : Staff \cup {Nobody}]
        /\ kyc'.status = "approved" /\ kyc'.reviewer = kyc.reviewer
        /\ kyc'.approver = kyc.approver
    BY <1>1, <2>1, <2>2
  <2> QED BY <2>1, <2>2, <2>3, WriteStep
<1>4. CASE ExecuteKycStatusTx(c)
  <2> DEFINE next == kycCall[c].next
             u == kycCall[c].by
             row == SetKycRoleMarkers(next, u)
  <2>1. /\ kyc' = [row EXCEPT !.status = next]
        /\ decided' = (decided \/ next \in Decided)
        /\ Answer(c, "status") /\ UNCHANGED <<docs, kycLost>>
    BY <1>4 DEF ExecuteKycStatusTx, WriteStatus
  <2>2. kycCall[c].op = "status"
    BY <2>1 DEF Answer, Serve
  <2>3. u \in Staff /\ next \in KycStatus
    BY <1>1, <2>2, KycCallFields
  <2>4. next # "pending" /\ (next = "approved" => kyc.reviewer # Nobody)
    BY <1>1, <2>2 DEF ReadShape
  <2> HIDE DEF next, u
  <2>5. /\ row \in [status : KycStatus, reviewer : Staff \cup {Nobody},
                    approver : Staff \cup {Nobody}]
        /\ row.reviewer = IF next = "under_review" THEN u ELSE kyc.reviewer
        /\ row.approver = IF next = "approved" THEN u ELSE kyc.approver
    BY <1>1, <2>3, Marked
  <2> HIDE DEF row
  <2>6. /\ kyc' \in [status : KycStatus, reviewer : Staff \cup {Nobody},
                     approver : Staff \cup {Nobody}]
        /\ kyc'.status = next
        /\ kyc'.reviewer = IF next = "under_review" THEN u ELSE kyc.reviewer
        /\ kyc'.approver = IF next = "approved" THEN u ELSE kyc.approver
    BY <2>1, <2>3, <2>5
  <2>7. u # Nobody
    BY <2>3, KycAssumption
  <2>8. /\ kyc.reviewer # Nobody => kyc'.reviewer # Nobody
        /\ next = "under_review" => kyc'.reviewer # Nobody
        /\ kyc'.approver # kyc.approver => kyc.reviewer # Nobody
    BY <2>4, <2>6, <2>7
  <2> QED BY <2>1, <2>3, <2>4, <2>6, <2>8, WriteStep
<1> QED BY <1>2, <1>3, <1>4

-----------------------------------------------------------------------------
(* The documents of the application.                                       *)

\* A new upload is the newest of its type and approves none.
LEMMA UploadTypes ==
  ASSUME KycTypeOK, NEW doc \in Doc, doc.review = "pending", docs' = Append(docs, doc)
  PROVE  /\ docs' \in Seq(Doc) /\ Len(docs') = Len(docs) + 1
         /\ DOMAIN docs \subseteq DOMAIN docs'
         /\ GetApprovedDocumentTypes' \subseteq GetApprovedDocumentTypes
<1>1. docs \in Seq(Doc) /\ DOMAIN docs = 1..Len(docs) /\ Len(docs) \in Nat
  BY KycTypes
<1>2. /\ docs' \in Seq(Doc) /\ Len(docs') = Len(docs) + 1
      /\ DOMAIN docs' = 1..(Len(docs) + 1)
      /\ docs'[Len(docs) + 1] = doc
      /\ \A j \in 1..Len(docs) : docs'[j] = docs[j]
  BY <1>1
<1>3. ASSUME NEW i \in DOMAIN docs', Newest(i)', docs'[i].review = "approved"
      PROVE  docs'[i].type \in GetApprovedDocumentTypes
  <2>1. i \in DOMAIN docs /\ docs'[i] = docs[i]
    BY <1>1, <1>2, <1>3
  <2>2. Newest(i)
    BY <1>1, <1>2, <1>3, <2>1 DEF Newest
  <2> QED BY <1>3, <2>1, <2>2 DEF GetApprovedDocumentTypes
<1>4. GetApprovedDocumentTypes' \subseteq GetApprovedDocumentTypes
  BY <1>3 DEF GetApprovedDocumentTypes
<1> QED BY <1>1, <1>2, <1>4

\* An upload: its own request will look at the types.
LEMMA UploadStep ==
  ASSUME KycInv, NEW c \in KycCalls, NEW type \in Types, NEW u \in Uploaders,
         UploadDocument(c, type, u)
  PROVE  KycInv'
<1> DEFINE doc == [type |-> type, by |-> u, review |-> "pending"]
           r == [op |-> "uploaded"]
<1>1. /\ docs' = Append(docs, doc) /\ Len(docs) < MaxDocs
      /\ Serve(c, "idle", r) /\ UNCHANGED <<kyc, decided, kycLost>>
  BY DEF UploadDocument
<1>2. doc \in Doc /\ doc.review = "pending"
  BY DEF Doc
<1>3. r \in KycCall /\ r.op = "uploaded"
  BY DEF KycCall
<1> HIDE DEF doc, r
<1>4. /\ kycCall[c].op = "idle" /\ kycCall' \in [KycCalls -> KycCall]
      /\ kycCall'[c] = r
      /\ \A d \in KycCalls \ {c} : kycCall'[d] = kycCall[d]
  BY <1>1, <1>3, ServeCall DEF KycInv
<1>5. /\ docs' \in Seq(Doc) /\ Len(docs') = Len(docs) + 1
      /\ DOMAIN docs \subseteq DOMAIN docs'
      /\ GetApprovedDocumentTypes' \subseteq GetApprovedDocumentTypes
  BY <1>1, <1>2, UploadTypes DEF KycInv
<1>6. KycTypeOK'
  <2>1. Len(docs') <= MaxDocs
    BY <1>1, <1>5, KycTypes, KycAssumption DEF KycInv
  <2> QED BY <1>1, <1>4, <1>5, <2>1 DEF KycInv, KycTypeOK, KycCall
<1>7. (\A d \in KycCalls : ReadShape(kycCall[d]))'
  BY <1>1, <1>3, <1>4, <1>5 DEF KycInv, ReadShape
<1>8. StatusShape' /\ ReviewedFirst'
  BY <1>1 DEF KycInv, StatusShape, ReviewedFirst
<1>9. UploadShape'
  BY <1>3, <1>4 DEF UploadShape
<1>10. ApprovalShape'
  <2> SUFFICES ASSUME ~ kycLost', Covers(GetApprovedDocumentTypes)'
               PROVE  \/ decided'
                      \/ \E d \in KycCalls : kycCall'[d].op \in {"reviewed", "promote"}
    BY DEF ApprovalShape
  <2>1. Covers(GetApprovedDocumentTypes)
    BY <1>5 DEF Covers
  <2>2. \/ decided
        \/ \E d \in KycCalls : kycCall[d].op \in {"reviewed", "promote"}
    BY <1>1, <2>1 DEF KycInv, ApprovalShape
  <2> QED BY <1>1, <1>4, <2>2
<1> QED BY <1>6, <1>7, <1>8, <1>9, <1>10 DEF KycInv

\* A review changes one document and no type; a rejection approves none.
LEMMA ReviewTypes ==
  ASSUME KycTypeOK, NEW d \in DOMAIN docs, NEW decision \in Decided,
         docs' = [docs EXCEPT ![d].review = decision]
  PROVE  /\ docs' \in Seq(Doc) /\ Len(docs') = Len(docs)
         /\ DOMAIN docs' = DOMAIN docs
         /\ {docs'[i].type : i \in DOMAIN docs'} = {docs[i].type : i \in DOMAIN docs}
         /\ decision = "rejected" =>
              GetApprovedDocumentTypes' \subseteq GetApprovedDocumentTypes
<1> DEFINE doc == [docs[d] EXCEPT !.review = decision]
<1>1. docs \in Seq(Doc) /\ docs[d] \in Doc
  BY KycTypes
<1>2. doc \in Doc /\ doc.type = docs[d].type /\ doc.review = decision
  BY <1>1 DEF Doc, Decided
<1>3. docs' = [docs EXCEPT ![d] = doc]
  BY <1>1
<1> HIDE DEF doc
<1>4. /\ docs' \in Seq(Doc) /\ Len(docs') = Len(docs) /\ DOMAIN docs' = DOMAIN docs
      /\ docs'[d] = doc /\ \A j \in DOMAIN docs \ {d} : docs'[j] = docs[j]
  BY <1>1, <1>2, <1>3
<1>5. \A j \in DOMAIN docs : docs'[j].type = docs[j].type
  BY <1>2, <1>4
<1>6. {docs'[i].type : i \in DOMAIN docs'} = {docs[i].type : i \in DOMAIN docs}
  BY <1>4, <1>5
<1>7. ASSUME decision = "rejected", NEW i \in DOMAIN docs', Newest(i)',
             docs'[i].review = "approved"
      PROVE  docs'[i].type \in GetApprovedDocumentTypes
  <2>1. i # d
    BY <1>2, <1>4, <1>7
  <2>2. i \in DOMAIN docs /\ docs[i].review = "approved"
    BY <1>4, <1>7, <2>1
  <2>3. Newest(i)
    BY <1>4, <1>5, <1>7 DEF Newest
  <2> QED BY <1>5, <2>2, <2>3 DEF GetApprovedDocumentTypes
<1>8. decision = "rejected" =>
        GetApprovedDocumentTypes' \subseteq GetApprovedDocumentTypes
  BY <1>7 DEF GetApprovedDocumentTypes
<1> QED BY <1>4, <1>6, <1>8

\* A review: an approval goes on to the supplier, unless that was decided.
LEMMA ReviewStep ==
  ASSUME KycInv, NEW c \in KycCalls, UpdateDocumentReview(c) PROVE KycInv'
<1> DEFINE d == kycCall[c].doc
           decision == kycCall[c].decision
           read == kycCall[c].read
           goesOn == decision = "approved" /\ read \notin Decided
           q == [op |-> "reviewed", read |-> read]
           r == IF goesOn THEN q ELSE NoKycCall
<1>1. /\ docs' = [docs EXCEPT ![d].review = decision] /\ Serve(c, "review", r)
      /\ UNCHANGED <<kyc, decided, kycLost>>
  BY DEF UpdateDocumentReview
<1>2. /\ KycTypeOK /\ kycCall[c] \in KycCall /\ ReadShape(kycCall[c])
      /\ kycCall[c].op = "review"
  BY <1>1, KycTypes DEF KycInv, Serve
<1>3. d \in DOMAIN docs /\ decision \in Decided /\ read \in KycStatus
  BY <1>2, KycCallFields DEF ReadShape
<1>4. read \in Decided => decided
  BY <1>2 DEF ReadShape
<1> HIDE DEF d, decision, read
<1>5. goesOn => q \in KycCall /\ q.op = "reviewed"
  BY <1>3 DEF KycCall
<1>6. /\ r \in KycCall /\ (goesOn => r.op = "reviewed")
      /\ r.op \notin {"review", "checker", "status"}
  BY <1>5, NoKycCallShape
<1> HIDE DEF r, q
<1>7. /\ kycCall' \in [KycCalls -> KycCall] /\ kycCall'[c] = r
      /\ \A e \in KycCalls \ {c} : kycCall'[e] = kycCall[e]
  BY <1>1, <1>2, <1>6, ServeCall
<1>8. /\ docs' \in Seq(Doc) /\ Len(docs') = Len(docs)
      /\ DOMAIN docs' = DOMAIN docs
      /\ {docs'[i].type : i \in DOMAIN docs'} = {docs[i].type : i \in DOMAIN docs}
      /\ decision = "rejected" =>
           GetApprovedDocumentTypes' \subseteq GetApprovedDocumentTypes
  BY <1>1, <1>2, <1>3, ReviewTypes
<1>9. KycTypeOK'
  BY <1>1, <1>2, <1>7, <1>8 DEF KycTypeOK, KycCall
<1>10. (\A e \in KycCalls : ReadShape(kycCall[e]))'
  <2>1. \A e \in KycCalls \ {c} : ReadShape(kycCall[e])'
    BY <1>1, <1>7, <1>8 DEF KycInv, ReadShape
  <2>2. ReadShape(kycCall[c])'
    BY <1>6, <1>7 DEF ReadShape
  <2> QED BY <2>1, <2>2
<1>11. StatusShape' /\ ReviewedFirst'
  BY <1>1 DEF KycInv, StatusShape, ReviewedFirst
<1>12. UploadShape'
  <2> SUFFICES ASSUME ~ kycLost', kyc'.status = "pending",
                      Covers({docs[i].type : i \in DOMAIN docs})'
               PROVE  \E e \in KycCalls :
                        kycCall'[e].op \in {"uploaded", "counting", "advance"}
    BY DEF UploadShape
  <2>1. Covers({docs[i].type : i \in DOMAIN docs})
    BY <1>8 DEF Covers
  <2>2. PICK e \in KycCalls : kycCall[e].op \in {"uploaded", "counting", "advance"}
    BY <1>1, <2>1 DEF KycInv, UploadShape
  <2> QED BY <1>2, <1>7, <2>2
<1>13. ApprovalShape'
  <2> SUFFICES ASSUME ~ kycLost', ~ decided', Covers(GetApprovedDocumentTypes)'
               PROVE  \E e \in KycCalls : kycCall'[e].op \in {"reviewed", "promote"}
    BY DEF ApprovalShape
  <2>1. CASE decision = "approved"
    BY <1>1, <1>4, <1>6, <1>7, <2>1
  <2>2. CASE decision = "rejected"
    <3>1. Covers(GetApprovedDocumentTypes)
      BY <1>8, <2>2 DEF Covers
    <3>2. PICK e \in KycCalls : kycCall[e].op \in {"reviewed", "promote"}
      BY <1>1, <3>1 DEF KycInv, ApprovalShape
    <3> QED BY <1>2, <1>7, <3>2
  <2> QED BY <1>3, <2>1, <2>2 DEF Decided
<1> QED BY <1>9, <1>10, <1>11, <1>12, <1>13 DEF KycInv

\* Every step of the application keeps the invariant.
LEMMA KycNextInv == KycInv /\ [KycNext]_kycVars => KycInv'
<1> SUFFICES ASSUME KycInv, [KycNext]_kycVars PROVE KycInv'
  OBVIOUS
<1>1. CASE UNCHANGED kycVars
  BY <1>1 DEF kycVars, KycInv, KycTypeOK, ReadShape, StatusShape, UploadShape,
              ApprovalShape, ReviewedFirst, Covers, GetApprovedDocumentTypes, Newest
<1>2. CASE KycNext
  BY <1>2, UploadStep, ReadSteps, WriteSteps, ReviewStep DEF KycNext
<1> QED BY <1>1, <1>2

\* uploadDocument, reviewSupplierDocument and updateKycStatus, for any number of
\* requests, documents and officers, whoever writes over whose status: an
\* application with every required document does not stay pending, one with every
\* required document approved was decided, and nobody approved one that nobody
\* had taken up for review.
THEOREM KycHolds == KycInit /\ [][KycNext]_kycVars => []KycSound
  BY KycInitInv, KycNextInv, KycInvSound, PTL

-----------------------------------------------------------------------------
(* The questionnaire and the registration.                                 *)

\* The failures since the last pass that a window holds, and the requests that
\* have read the throttle and not yet written.
Recent(w) == {i \in Fails(w) : \A p \in Passes : p < i}
Checking == {v \in Visits : visit[v].op = "check"}

\* Each request under way may add one failure to those its throttle let pass.
RatedShape ==
  \A w \in Windows :
    Cardinality(Recent(w)) + Cardinality(Checking)
      <= FailsRequired[w] + Cardinality(Visits) - 1

\* A registration that is under way was screened.
ScreenedShape ==
  \A v \in Visits : visit[v].op = "register" => visit[v].reg \notin Listed

RegistrationInv == RegistrationTypeOK /\ ScreenedShape /\ OneAccount /\ RatedShape

Row == [passed : BOOLEAN, window : Windows]
VisitCall ==
  {NoVisit} \cup [op : {"check"}]
    \cup [op : {"register"}, email : Emails, reg : RegNumbers]

\* Rows lie oldest first: an older one is in no smaller window.
Aged(rows) == \A i, j \in DOMAIN rows : i < j => rows[i].window >= rows[j].window

\* The typing of the rows and requests, in the names above.
LEMMA RegistrationTypes ==
  RegistrationTypeOK <=>
    /\ checks \in Seq(Row) /\ Len(checks) <= MaxChecks /\ Aged(checks)
    /\ accounts \subseteq [email : Emails, reg : RegNumbers \ Listed]
    /\ visit \in [Visits -> VisitCall]
    /\ welcomed \in [RegNumbers -> Nat]
  BY DEF RegistrationTypeOK, Row, Aged, VisitCall

\* A row is in a window.
LEMMA RowFields ==
  ASSUME NEW rows \in Seq(Row)
  PROVE  /\ Len(rows) \in Nat /\ DOMAIN rows = 1..Len(rows)
         /\ \A i \in DOMAIN rows : rows[i] \in Row /\ rows[i].window \in 1..4
<1>1. Len(rows) \in Nat /\ DOMAIN rows = 1..Len(rows)
      /\ \A i \in DOMAIN rows : rows[i] \in Row
  OBVIOUS
<1>2. \A r \in Row : r.window \in 1..4
  BY DEF Row, Windows
<1> QED BY <1>1, <1>2

\* The sets that are counted are finite.
LEMMA Counts ==
  ASSUME RegistrationTypeOK, NEW w \in Windows
  PROVE  /\ IsFiniteSet(Fails(w)) /\ Cardinality(Fails(w)) \in Nat
         /\ IsFiniteSet(Recent(w)) /\ Cardinality(Recent(w)) \in Nat
         /\ IsFiniteSet(Checking) /\ Cardinality(Checking) \in Nat
         /\ Cardinality(Recent(w)) <= Cardinality(Fails(w))
         /\ Cardinality(Checking) <= Cardinality(Visits)
         /\ Cardinality(Visits) \in Nat
         /\ FailsRequired[w] \in Nat /\ FailsRequired[w] >= 1
<1>1. checks \in Seq(Row) /\ Len(checks) \in Nat /\ DOMAIN checks = 1..Len(checks)
  BY RegistrationTypes
<1>2. IsFiniteSet(1..Len(checks))
  BY <1>1, FS_Interval
<1>3. Fails(w) \in SUBSET (1..Len(checks)) /\ Recent(w) \in SUBSET Fails(w)
  BY <1>1 DEF Fails, Recent
<1>4. IsFiniteSet(Fails(w))
  BY <1>2, <1>3, FS_Subset
<1>5. IsFiniteSet(Recent(w)) /\ Cardinality(Recent(w)) <= Cardinality(Fails(w))
  BY <1>3, <1>4, FS_Subset
<1>6. IsFiniteSet(Visits) /\ Checking \in SUBSET Visits
  BY RegistrationAssumption DEF Checking
<1>7. IsFiniteSet(Checking) /\ Cardinality(Checking) <= Cardinality(Visits)
  BY <1>6, FS_Subset
<1>8. FailsRequired[w] \in Nat /\ FailsRequired[w] >= 1
  BY RegistrationAssumption
<1> QED BY <1>4, <1>5, <1>6, <1>7, <1>8, FS_CardinalityType

\* The invariant is as strong as the properties.
LEMMA RegistrationInvSound == RegistrationInv => RegistrationSound
<1> SUFFICES ASSUME RegistrationInv PROVE FailuresRated
  BY DEF RegistrationInv, RegistrationSound
<1>1. ASSUME NEW w \in Windows
      PROVE  Cardinality(Recent(w)) <= FailsRequired[w] + Cardinality(Visits) - 1
  BY Counts DEF RegistrationInv, RatedShape
<1> QED BY <1>1 DEF FailuresRated, Recent

\* The initial state.
LEMMA RegistrationInitInv == RegistrationInit => RegistrationInv
<1> SUFFICES ASSUME RegistrationInit PROVE RegistrationInv
  OBVIOUS
<1>1. /\ checks = << >> /\ accounts = {}
      /\ \A v \in Visits : visit[v] = NoVisit /\ visit[v].op = "idle"
      /\ \A r \in RegNumbers : welcomed[r] = 0
  BY DEF RegistrationInit, NoVisit
<1>2. RegistrationTypeOK
  <2>1. checks \in Seq(Row) /\ Len(checks) <= MaxChecks /\ Aged(checks)
    BY <1>1, RegistrationAssumption DEF Aged
  <2>2. visit \in [Visits -> VisitCall] /\ welcomed \in [RegNumbers -> Nat]
    BY DEF RegistrationInit, VisitCall
  <2> QED BY <1>1, <2>1, <2>2, RegistrationTypes
<1>3. ScreenedShape
  BY <1>1 DEF ScreenedShape
<1>4. OneAccount
  <2>1. \A r \in RegNumbers : {a \in accounts : a.reg = r} = {}
    BY <1>1
  <2> QED BY <1>1, <2>1, FS_EmptySet DEF OneAccount
<1>5. RatedShape
  <2>1. Checking = {} /\ \A w \in Windows : Recent(w) = {}
    BY <1>1 DEF Checking, Recent, Fails
  <2> QED BY <1>2, <2>1, Counts, FS_EmptySet DEF RatedShape
<1> QED BY <1>2, <1>3, <1>4, <1>5 DEF RegistrationInv

\* A request comes to hold another record.
LEMMA VisitBecomes ==
  ASSUME RegistrationTypeOK, NEW v \in Visits, NEW r \in VisitCall,
         visit' = [visit EXCEPT ![v] = r]
  PROVE  /\ visit' \in [Visits -> VisitCall] /\ visit'[v] = r
         /\ \A u \in Visits \ {v} : visit'[u] = visit[u]
         /\ r.op # "check" => Checking' = Checking \ {v}
         /\ Checking' \subseteq Visits
<1>1. visit \in [Visits -> VisitCall]
  BY RegistrationTypes
<1>2. /\ visit' \in [Visits -> VisitCall] /\ visit'[v] = r
      /\ \A u \in Visits \ {v} : visit'[u] = visit[u]
  BY <1>1
<1> QED BY <1>2 DEF Checking

\* What is counted does not grow.
LEMMA RatedKept ==
  ASSUME RegistrationInv, RegistrationTypeOK',
         \A w \in Windows : Cardinality(Recent(w))' <= Cardinality(Recent(w)),
         Checking' \subseteq Checking
  PROVE  RatedShape'
<1> SUFFICES ASSUME NEW w \in Windows
             PROVE  Cardinality(Recent(w))' + Cardinality(Checking')
                      <= FailsRequired[w] + Cardinality(Visits) - 1
  BY DEF RatedShape
<1>1. /\ IsFiniteSet(Checking) /\ Cardinality(Checking) \in Nat
      /\ Cardinality(Recent(w)) \in Nat /\ Cardinality(Visits) \in Nat
      /\ FailsRequired[w] \in Nat
  BY Counts DEF RegistrationInv
<1>2. Checking' \in SUBSET Checking
  OBVIOUS
<1>3. IsFiniteSet(Checking') /\ Cardinality(Checking') <= Cardinality(Checking)
  BY <1>1, <1>2, FS_Subset
<1>4. Cardinality(Checking') \in Nat
  BY <1>3, FS_CardinalityType
<1>5. Cardinality(Recent(w))' \in Nat
  <2>1. checks' \in Seq(Row) /\ Len(checks') \in Nat /\ DOMAIN checks' = 1..Len(checks')
    BY RegistrationTypes DEF RegistrationTypeOK, Row
  <2>2. Recent(w)' \in SUBSET (1..Len(checks'))
    BY <2>1 DEF Recent, Fails
  <2>3. IsFiniteSet(1..Len(checks'))
    BY <2>1, FS_Interval
  <2>4. IsFiniteSet(Recent(w)')
    BY <2>2, <2>3, FS_Subset
  <2> QED BY <2>4, FS_CardinalityType
<1>6. Cardinality(Recent(w)) + Cardinality(Checking)
        <= FailsRequired[w] + Cardinality(Visits) - 1
  BY DEF RegistrationInv, RatedShape
<1>7. Cardinality(Recent(w))' <= Cardinality(Recent(w))
  OBVIOUS
<1> QED BY <1>1, <1>3, <1>4, <1>5, <1>6, <1>7

\* The throttle lets a request pass: every window is below its tier since the
\* last pass.
LEMMA CheckEligibilityStep ==
  ASSUME RegistrationInv, NEW v \in Visits, CheckEligibility(v)
  PROVE  RegistrationInv'
<1> DEFINE r == [op |-> "check"]
<1>1. /\ visit' = [visit EXCEPT ![v] = r] /\ ~ Throttled
      /\ UNCHANGED <<checks, accounts, welcomed>>
  BY DEF CheckEligibility
<1>2. r \in VisitCall /\ r.op = "check"
  BY DEF VisitCall
<1> HIDE DEF r
<1>3. /\ visit' \in [Visits -> VisitCall] /\ visit'[v] = r
      /\ \A u \in Visits \ {v} : visit'[u] = visit[u]
      /\ Checking' \subseteq Visits
  BY <1>1, <1>2, VisitBecomes DEF RegistrationInv
<1>4. RegistrationTypeOK'
  BY <1>1, <1>3 DEF RegistrationInv, RegistrationTypeOK, VisitCall
<1>5. ScreenedShape' /\ OneAccount'
  BY <1>1, <1>2, <1>3 DEF RegistrationInv, ScreenedShape, OneAccount
<1>6. ASSUME NEW w \in Windows
      PROVE  Cardinality(Recent(w)) <= FailsRequired[w] - 1
  <2>1. /\ Cardinality(Fails(w)) \in Nat /\ Cardinality(Recent(w)) \in Nat
        /\ Cardinality(Recent(w)) <= Cardinality(Fails(w))
        /\ FailsRequired[w] \in Nat /\ FailsRequired[w] >= 1
    BY Counts DEF RegistrationInv
  <2>2. CASE Forgiven
    <3>1. PICK p \in Passes : \A i \in Fails(4) : i < p
      BY <2>2 DEF Forgiven
    <3>2. checks \in Seq(Row)
      BY RegistrationTypes DEF RegistrationInv
    <3>3. \A i \in Fails(w) : i \in Fails(4) /\ i \in Int
      <4>1. \A i \in DOMAIN checks : i \in Int /\ checks[i].window <= 4
        BY <3>2, RowFields
      <4> QED BY <4>1 DEF Fails
    <3>4. p \in Int
      BY <3>1, <3>2 DEF Passes
    <3>5. \A i \in Recent(w) : i \in Fails(w) /\ p < i
      BY <3>1 DEF Recent
    <3>6. \A i \in Recent(w) : FALSE
      BY <3>1, <3>3, <3>4, <3>5
    <3>7. Recent(w) = {}
      BY <3>6
    <3> QED BY <2>1, <3>7, FS_EmptySet
  <2>3. CASE ~ Forgiven
    <3>1. ~ (Cardinality(Fails(w)) >= FailsRequired[w])
      BY <1>1, <2>3 DEF Throttled, Tier
    <3> QED BY <2>1, <3>1
  <2> QED BY <2>2, <2>3
<1>7. RatedShape'
  <2> SUFFICES ASSUME NEW w \in Windows
               PROVE  Cardinality(Recent(w)') + Cardinality(Checking')
                        <= FailsRequired[w] + Cardinality(Visits) - 1
    BY DEF RatedShape
  <2>1. Recent(w)' = Recent(w)
    BY <1>1 DEF Recent, Fails, Passes
  <2>2. /\ Cardinality(Recent(w)) \in Nat /\ Cardinality(Visits) \in Nat
        /\ FailsRequired[w] \in Nat
    BY Counts DEF RegistrationInv
  <2>3. Checking' \in SUBSET Visits /\ IsFiniteSet(Visits)
    BY <1>3, RegistrationAssumption
  <2>4. IsFiniteSet(Checking') /\ Cardinality(Checking') <= Cardinality(Visits)
    BY <2>3, FS_Subset
  <2>5. Cardinality(Checking') \in Nat
    BY <2>4, FS_CardinalityType
  <2> QED BY <1>6, <2>1, <2>2, <2>4, <2>5
<1> QED BY <1>4, <1>5, <1>7 DEF RegistrationInv

\* The answers are recorded: a failure takes the place of the request.
LEMMA RecordEligibilityStep ==
  ASSUME RegistrationInv, NEW v \in Visits, NEW passed \in BOOLEAN,
         RecordEligibility(v, passed)
  PROVE  RegistrationInv'
<1> DEFINE row == [passed |-> passed, window |-> 1]
           n == Len(checks) + 1
<1>1. /\ visit[v].op = "check" /\ Len(checks) < MaxChecks
      /\ checks' = Append(checks, row) /\ visit' = [visit EXCEPT ![v] = NoVisit]
      /\ UNCHANGED <<accounts, welcomed>>
  BY DEF RecordEligibility
<1>2. row \in Row /\ row.passed = passed /\ row.window = 1
  BY DEF Row, Windows
<1>3. NoVisit \in VisitCall /\ NoVisit.op = "idle"
  BY DEF VisitCall, NoVisit
<1>4. checks \in Seq(Row) /\ Len(checks) \in Nat /\ DOMAIN checks = 1..Len(checks)
  BY RegistrationTypes DEF RegistrationInv
<1> HIDE DEF row
<1>5. /\ checks' \in Seq(Row) /\ Len(checks') = n /\ DOMAIN checks' = 1..n
      /\ checks'[n] = row /\ \A i \in 1..Len(checks) : checks'[i] = checks[i]
  BY <1>1, <1>2, <1>4
<1>6. /\ visit' \in [Visits -> VisitCall] /\ visit'[v] = NoVisit
      /\ \A u \in Visits \ {v} : visit'[u] = visit[u]
      /\ Checking' = Checking \ {v}
  BY <1>1, <1>3, VisitBecomes DEF RegistrationInv
<1>7. RegistrationTypeOK'
  <2>1. Len(checks') <= MaxChecks
    BY <1>1, <1>4, <1>5, RegistrationAssumption
  <2>2. Aged(checks) /\ \A i \in 1..Len(checks) : checks[i].window \in 1..4
    BY <1>4, RegistrationTypes, RowFields DEF RegistrationInv
  <2>3. Aged(checks')
    <3> SUFFICES ASSUME NEW i \in 1..n, NEW j \in 1..n, i < j
                 PROVE  checks'[i].window >= checks'[j].window
      BY <1>5 DEF Aged
    <3>1. i \in 1..Len(checks) /\ checks'[i] = checks[i]
      BY <1>4, <1>5
    <3>2. CASE j = n
      BY <1>2, <1>5, <2>2, <3>1, <3>2
    <3>3. CASE j # n
      BY <1>4, <1>5, <2>2, <3>1, <3>3 DEF Aged
    <3> QED BY <3>2, <3>3
  <2> QED BY <1>1, <1>5, <1>6, <2>1, <2>3
          DEF RegistrationInv, RegistrationTypeOK, VisitCall, Row, Aged
<1>8. ScreenedShape' /\ OneAccount'
  BY <1>1, <1>3, <1>6 DEF RegistrationInv, ScreenedShape, OneAccount
<1>9. RatedShape'
  <2> SUFFICES ASSUME NEW w \in Windows
               PROVE  Cardinality(Recent(w)') + Cardinality(Checking')
                        <= FailsRequired[w] + Cardinality(Visits) - 1
    BY DEF RatedShape
  <2>1. /\ IsFiniteSet(Checking) /\ Cardinality(Checking) \in Nat
        /\ IsFiniteSet(Recent(w)) /\ Cardinality(Recent(w)) \in Nat
        /\ Cardinality(Checking) <= Cardinality(Visits)
        /\ Cardinality(Visits) \in Nat
        /\ FailsRequired[w] \in Nat /\ FailsRequired[w] >= 1
    BY Counts DEF RegistrationInv
  <2>2. Cardinality(Checking') = Cardinality(Checking) - 1
    <3>1. v \in Checking
      BY <1>1 DEF Checking
    <3> HIDE DEF Checking
    <3>2. Cardinality(Checking \ {v}) = Cardinality(Checking) - 1
      BY <2>1, <3>1, FS_RemoveElement
    <3> QED BY <1>6, <3>2
  <2>3. Cardinality(Recent(w)) + Cardinality(Checking)
          <= FailsRequired[w] + Cardinality(Visits) - 1
    BY DEF RegistrationInv, RatedShape
  <2>4. CASE passed
    <3>1. n \in Passes' /\ \A i \in Fails(w)' : i \in 1..n
      <4>1. n \in DOMAIN checks'
        BY <1>4, <1>5
      <4>2. checks'[n].passed
        BY <1>2, <1>5, <2>4, Zenon
      <4> QED BY <1>5, <4>1, <4>2 DEF Passes, Fails
    <3>2. \A i \in Recent(w)' : i \in Fails(w)' /\ n < i
      BY <3>1 DEF Recent
    <3>3. Recent(w)' = {}
      BY <1>4, <3>1, <3>2
    <3>4. Cardinality(Recent(w)') = 0
      BY <3>3, FS_EmptySet
    <3> QED BY <2>1, <2>2, <3>4
  <2>5. CASE ~ passed
    <3>1. Recent(w)' \in SUBSET (Recent(w) \cup {n})
      <4> SUFFICES ASSUME NEW i \in Recent(w)', i # n PROVE i \in Recent(w)
        OBVIOUS
      <4>1. i \in Fails(w)' /\ \A p \in Passes' : p < i
        BY DEF Recent
      <4>2. i \in 1..Len(checks) /\ checks'[i] = checks[i]
        BY <1>4, <1>5, <4>1 DEF Fails
      <4>3. i \in Fails(w)
        BY <1>4, <4>1, <4>2 DEF Fails
      <4>4. \A p \in Passes : p \in Passes'
        BY <1>4, <1>5 DEF Passes
      <4> QED BY <4>1, <4>3, <4>4 DEF Recent
    <3>2. IsFiniteSet(Recent(w) \cup {n})
          /\ Cardinality(Recent(w) \cup {n}) <= Cardinality(Recent(w)) + 1
      <4>1. /\ IsFiniteSet(Recent(w) \cup {n})
            /\ \/ Cardinality(Recent(w) \cup {n}) = Cardinality(Recent(w))
               \/ Cardinality(Recent(w) \cup {n}) = Cardinality(Recent(w)) + 1
        BY <2>1, FS_AddElement, Zenon
      <4> QED BY <2>1, <4>1
    <3>3. IsFiniteSet(Recent(w)')
          /\ Cardinality(Recent(w)') <= Cardinality(Recent(w) \cup {n})
      BY <3>1, <3>2, FS_Subset
    <3>4. Cardinality(Recent(w)') \in Nat /\ Cardinality(Recent(w) \cup {n}) \in Nat
      BY <3>2, <3>3, FS_CardinalityType
    <3> QED BY <2>1, <2>2, <2>3, <3>2, <3>3, <3>4
  <2> QED BY <2>4, <2>5
<1> QED BY <1>7, <1>8, <1>9 DEF RegistrationInv

\* A registration begins, screened; it does not touch the rows of the throttle.
LEMMA RegisterSupplierStep ==
  ASSUME RegistrationInv, NEW v \in Visits, NEW email \in Emails,
         NEW reg \in RegNumbers, RegisterSupplier(v, email, reg)
  PROVE  RegistrationInv'
<1> DEFINE r == [op |-> "register", email |-> email, reg |-> reg]
<1>1. /\ visit' = [visit EXCEPT ![v] = r] /\ reg \notin Listed
      /\ UNCHANGED <<checks, accounts, welcomed>>
  BY DEF RegisterSupplier
<1>2. r \in VisitCall /\ r.op = "register" /\ r.reg = reg
  BY DEF VisitCall
<1> HIDE DEF r
<1>3. /\ visit' \in [Visits -> VisitCall] /\ visit'[v] = r
      /\ \A u \in Visits \ {v} : visit'[u] = visit[u]
      /\ Checking' = Checking \ {v}
  BY <1>1, <1>2, VisitBecomes DEF RegistrationInv
<1>4. RegistrationTypeOK'
  BY <1>1, <1>3 DEF RegistrationInv, RegistrationTypeOK, VisitCall
<1>5. ScreenedShape' /\ OneAccount'
  BY <1>1, <1>2, <1>3 DEF RegistrationInv, ScreenedShape, OneAccount
<1>6. \A w \in Windows : Cardinality(Recent(w))' <= Cardinality(Recent(w))
  <2>1. \A w \in Windows : Recent(w)' = Recent(w) /\ Cardinality(Recent(w)) \in Nat
    BY <1>1, Counts DEF RegistrationInv, Recent, Fails, Passes
  <2> QED BY <2>1
<1>7. RatedShape'
  BY <1>3, <1>4, <1>6, RatedKept
<1> QED BY <1>4, <1>5, <1>7 DEF RegistrationInv

\* One account more, with a number and an email that no account has.
LEMMA NewAccount ==
  ASSUME NEW rows, NEW n, \A a \in rows : a.email # n.email /\ a.reg # n.reg,
         \A a, b \in rows : a.email = b.email \/ a.reg = b.reg => a = b
  PROVE  /\ {a \in rows \cup {n} : a.reg = n.reg} = {n}
         /\ {a \in rows : a.reg = n.reg} = {}
         /\ \A r : r # n.reg => {a \in rows \cup {n} : a.reg = r}
                                  = {a \in rows : a.reg = r}
         /\ \A a, b \in rows \cup {n} :
              a.email = b.email \/ a.reg = b.reg => a = b
  OBVIOUS

\* The transaction counts on the unique keys and not on what was read.
LEMMA ExecuteRegistrationTxStep ==
  ASSUME RegistrationInv, NEW v \in Visits, ExecuteRegistrationTx(v)
  PROVE  RegistrationInv'
<1> DEFINE email == visit[v].email
           reg == visit[v].reg
           n == [email |-> email, reg |-> reg]
<1>1. /\ visit[v].op = "register" /\ visit' = [visit EXCEPT ![v] = NoVisit]
      /\ UNCHANGED checks
  BY DEF ExecuteRegistrationTx
<1>2. NoVisit \in VisitCall /\ NoVisit.op = "idle"
  BY DEF VisitCall, NoVisit
<1>3. visit[v] \in VisitCall
  BY RegistrationTypes DEF RegistrationInv
<1>4. email \in Emails /\ reg \in RegNumbers \ Listed
  BY <1>1, <1>3 DEF RegistrationInv, ScreenedShape, VisitCall, NoVisit
<1>5. /\ visit' \in [Visits -> VisitCall] /\ visit'[v] = NoVisit
      /\ \A u \in Visits \ {v} : visit'[u] = visit[u]
      /\ Checking' = Checking \ {v}
  BY <1>1, <1>2, VisitBecomes DEF RegistrationInv
<1>6. /\ accounts' \subseteq [email : Emails, reg : RegNumbers \ Listed]
      /\ welcomed' \in [RegNumbers -> Nat] /\ OneAccount'
  <2>1. CASE ~ Unique(email, reg)
    BY <2>1 DEF ExecuteRegistrationTx, RegistrationInv, RegistrationTypeOK, OneAccount
  <2>2. CASE Unique(email, reg)
    <3>1. /\ accounts' = accounts \cup {n}
          /\ welcomed' = [welcomed EXCEPT ![reg] = @ + 1]
      BY <2>2 DEF ExecuteRegistrationTx
    <3>2. n \in [email : Emails, reg : RegNumbers \ Listed] /\ n.email = email
          /\ n.reg = reg
      BY <1>4
    <3> HIDE DEF n, email, reg
    <3>3. /\ \A a \in accounts : a.email # n.email /\ a.reg # n.reg
          /\ \A a, b \in accounts : a.email = b.email \/ a.reg = b.reg => a = b
      BY <2>2, <3>2 DEF Unique, RegistrationInv, OneAccount
    <3>4. /\ {a \in accounts' : a.reg = reg} = {n}
          /\ {a \in accounts : a.reg = reg} = {}
          /\ \A r : r # reg => {a \in accounts' : a.reg = r}
                                 = {a \in accounts : a.reg = r}
          /\ \A a, b \in accounts' : a.email = b.email \/ a.reg = b.reg => a = b
      BY <3>1, <3>2, <3>3, NewAccount
    <3>5. /\ welcomed \in [RegNumbers -> Nat]
          /\ \A r \in RegNumbers :
               welcomed[r] = Cardinality({a \in accounts : a.reg = r})
                 /\ welcomed[r] <= 1
      BY DEF RegistrationInv, RegistrationTypeOK, OneAccount
    <3>6. Cardinality({a \in accounts' : a.reg = reg}) = 1
      BY <3>4, FS_Singleton
    <3>7. welcomed[reg] = 0
      BY <1>4, <3>4, <3>5, FS_EmptySet
    <3>8. /\ welcomed' \in [RegNumbers -> Nat] /\ welcomed'[reg] = 1
          /\ \A r \in RegNumbers \ {reg} : welcomed'[r] = welcomed[r]
      BY <1>4, <3>1, <3>5, <3>7
    <3>9. \A r \in RegNumbers :
            /\ welcomed'[r] = Cardinality({a \in accounts' : a.reg = r})
            /\ welcomed'[r] <= 1
      <4> SUFFICES ASSUME NEW r \in RegNumbers
                   PROVE  /\ welcomed'[r] = Cardinality({a \in accounts' : a.reg = r})
                          /\ welcomed'[r] <= 1
        OBVIOUS
      <4>1. CASE r = reg
        BY <3>6, <3>8, <4>1
      <4>2. CASE r # reg
        BY <3>4, <3>5, <3>8, <4>2
      <4> QED BY <4>1, <4>2
    <3>10. accounts' \subseteq [email : Emails, reg : RegNumbers \ Listed]
      BY <3>1, <3>2 DEF RegistrationInv, RegistrationTypeOK
    <3> QED BY <3>4, <3>8, <3>9, <3>10 DEF OneAccount
  <2> QED BY <2>1, <2>2
<1>7. RegistrationTypeOK'
  BY <1>1, <1>5, <1>6 DEF RegistrationInv, RegistrationTypeOK, VisitCall
<1>8. ScreenedShape'
  BY <1>2, <1>5 DEF RegistrationInv, ScreenedShape
<1>9. \A w \in Windows : Cardinality(Recent(w))' <= Cardinality(Recent(w))
  <2>1. \A w \in Windows : Recent(w)' = Recent(w) /\ Cardinality(Recent(w)) \in Nat
    BY <1>1, Counts DEF RegistrationInv, Recent, Fails, Passes
  <2> QED BY <2>1
<1>10. RatedShape'
  BY <1>5, <1>7, <1>9, RatedKept
<1> QED BY <1>6, <1>7, <1>8, <1>10 DEF RegistrationInv

\* Time: rows leave the thirty days.  The rows that are left keep their order,
\* so each failure since the last pass was one before.
LEMMA ElapseDrops ==
  ASSUME RegistrationInv, NEW i \in DOMAIN checks,
         checks' = SubSeq(checks, i + 1, Len(checks))
  PROVE  /\ checks' \in Seq(Row) /\ Len(checks') <= MaxChecks /\ Aged(checks')
         /\ \A w \in Windows : Cardinality(Recent(w))' <= Cardinality(Recent(w))
<1> DEFINE n == Len(checks) - i
<1>1. /\ checks \in Seq(Row) /\ Len(checks) \in Nat /\ DOMAIN checks = 1..Len(checks)
      /\ Aged(checks) /\ Len(checks) <= MaxChecks
      /\ \A j \in DOMAIN checks : checks[j] \in Row /\ checks[j].window \in 1..4
  BY RegistrationTypes, RowFields DEF RegistrationInv
<1>2. n \in Nat /\ i \in Nat /\ i >= 1
  BY <1>1
<1>3. /\ checks' \in Seq(Row) /\ Len(checks') = n /\ DOMAIN checks' = 1..n
      /\ \A j \in 1..n : checks'[j] = checks[j + i]
  <2>1. \A j \in (i + 1)..Len(checks) : checks[j] \in Row
    BY <1>1, <1>2
  <2>2. /\ checks' \in Seq(Row)
        /\ Len(checks') = IF i + 1 <= Len(checks) THEN Len(checks) - (i + 1) + 1 ELSE 0
        /\ \A j \in 1..(Len(checks) - (i + 1) + 1) :
             checks'[j] = checks[(i + 1) + j - 1]
    BY <1>1, <1>2, <2>1, SubSeqProperties
  <2>3. Len(checks') = n
    BY <1>1, <1>2, <2>2
  <2>4. \A j \in 1..n : checks'[j] = checks[j + i]
    <3> SUFFICES ASSUME NEW j \in 1..n PROVE checks'[j] = checks[j + i]
      OBVIOUS
    <3>1. j \in 1..(Len(checks) - (i + 1) + 1) /\ (i + 1) + j - 1 = j + i
      BY <1>1, <1>2
    <3> QED BY <2>2, <3>1
  <2>5. DOMAIN checks' = 1..n
    BY <2>2, <2>3
  <2> QED BY <2>2, <2>3, <2>4, <2>5
<1>4. \A j \in 1..n : j + i \in DOMAIN checks
  BY <1>1, <1>2
<1>5. Len(checks') <= MaxChecks
  BY <1>1, <1>2, <1>3, RegistrationAssumption
<1>6. Aged(checks')
  <2> SUFFICES ASSUME NEW j \in 1..n, NEW k \in 1..n, j < k
               PROVE  checks'[j].window >= checks'[k].window
    BY <1>3 DEF Aged
  <2>1. j + i \in DOMAIN checks /\ k + i \in DOMAIN checks /\ j + i < k + i
    BY <1>2, <1>4
  <2>2. checks[j + i].window >= checks[k + i].window
    BY <1>1, <2>1 DEF Aged
  <2> QED BY <1>3, <2>2
<1>7. ASSUME NEW w \in Windows
      PROVE  Cardinality(Recent(w))' <= Cardinality(Recent(w))
  <2> DEFINE new == Recent(w)'
             f == [j \in new |-> j + i]
  <2>1. \A j \in new : j \in 1..n /\ j + i \in Recent(w)
    <3> SUFFICES ASSUME NEW j \in new PROVE j \in 1..n /\ j + i \in Recent(w)
      OBVIOUS
    <3>1. /\ j \in DOMAIN checks' /\ ~ checks'[j].passed /\ checks'[j].window <= w
          /\ \A p \in Passes' : p < j
      BY DEF Recent, Fails
    <3>2. j \in 1..n /\ checks'[j] = checks[j + i] /\ j + i \in DOMAIN checks
      BY <1>3, <1>4, <3>1
    <3>3. j + i \in Fails(w)
      BY <3>1, <3>2 DEF Fails
    <3>4. ASSUME NEW p \in Passes PROVE p < j + i
      <4>1. p \in DOMAIN checks /\ checks[p].passed /\ p \in Int
        BY <1>1 DEF Passes
      <4>2. CASE p <= i
        BY <1>2, <3>2, <4>1, <4>2
      <4>3. CASE ~ (p <= i)
        <5>1. p - i \in 1..n /\ (p - i) + i = p
          BY <1>1, <1>2, <4>1, <4>3
        <5>2. checks'[p - i] = checks[p]
          BY <1>3, <5>1
        <5>3. p - i \in Passes'
          BY <1>3, <4>1, <5>1, <5>2 DEF Passes
        <5>4. p - i < j
          BY <3>1, <5>3
        <5> QED BY <1>2, <3>2, <4>1, <5>4
      <4> QED BY <4>2, <4>3
    <3> QED BY <3>2, <3>3, <3>4 DEF Recent
  <2>2. IsFiniteSet(Recent(w))
    BY Counts DEF RegistrationInv
  <2>3. f \in [new -> Recent(w)]
    BY <2>1
  <2>4. \A a, b \in new : f[a] = f[b] => a = b
    <3>1. \A a \in new : a \in Int /\ f[a] = a + i
      BY <2>1
    <3> HIDE DEF f, new
    <3> QED BY <1>2, <3>1
  <2> HIDE DEF f, new
  <2>5. f \in Injection(new, Recent(w))
    BY <2>3, <2>4, Fun_IsInj
  <2>6. Cardinality(new) <= Cardinality(Recent(w))
    BY <2>2, <2>5, FS_Injection
  <2> QED BY <2>6 DEF new
<1> QED BY <1>3, <1>5, <1>6, <1>7

\* Time: rows go from one window to the next.
LEMMA ElapseAges ==
  ASSUME RegistrationInv, NEW i \in DOMAIN checks, NEW x, x = checks[i].window,
         x # 4,
         checks' = [j \in DOMAIN checks |->
                      IF j \in {k \in 1..i : checks[k].window = x}
                      THEN [checks[j] EXCEPT !.window = x + 1] ELSE checks[j]]
  PROVE  /\ checks' \in Seq(Row) /\ Len(checks') <= MaxChecks /\ Aged(checks')
         /\ \A w \in Windows : Cardinality(Recent(w))' <= Cardinality(Recent(w))
<1> DEFINE n == Len(checks)
<1>1. /\ checks \in Seq(Row) /\ n \in Nat /\ DOMAIN checks = 1..n
      /\ Aged(checks) /\ n <= MaxChecks
      /\ \A j \in DOMAIN checks : checks[j] \in Row /\ checks[j].window \in 1..4
  BY RegistrationTypes, RowFields DEF RegistrationInv
<1>2. x \in 1..3 /\ i \in 1..n /\ x + 1 \in 1..4
  BY <1>1
<1>3. PICK y \in 1..4 : y = x + 1
  BY <1>2
<1>4. \A r \in Row : /\ [r EXCEPT !.window = y] \in Row
                     /\ [r EXCEPT !.window = y].window = y
                     /\ [r EXCEPT !.window = y].passed = r.passed
  BY DEF Row, Windows
<1>5. ASSUME NEW j \in 1..n
      PROVE  /\ checks'[j] \in Row
             /\ checks'[j].passed = checks[j].passed
             /\ j <= i /\ checks[j].window = x => checks'[j].window = y
             /\ ~ (j <= i /\ checks[j].window = x) =>
                  checks'[j].window = checks[j].window
  <2>1. CASE j <= i /\ checks[j].window = x
    <3>1. checks'[j] = [checks[j] EXCEPT !.window = y]
      BY <1>1, <1>2, <1>3, <2>1
    <3> QED BY <1>1, <1>4, <2>1, <3>1
  <2>2. CASE ~ (j <= i /\ checks[j].window = x)
    <3>1. checks'[j] = checks[j]
      BY <1>1, <2>2
    <3> QED BY <1>1, <2>2, <3>1
  <2> QED BY <2>1, <2>2
<1>6. DOMAIN checks' = 1..n
  BY <1>1
<1>7. checks' \in Seq(Row) /\ Len(checks') = n
  <2>1. checks' \in [1..n -> Row]
    BY <1>1, <1>5
  <2> QED BY <1>1, <2>1
<1>8. Aged(checks')
  <2> SUFFICES ASSUME NEW j \in 1..n, NEW k \in 1..n, j < k
               PROVE  checks'[j].window >= checks'[k].window
    BY <1>6 DEF Aged
  <2>1. checks[j].window >= checks[k].window /\ checks[j].window \in 1..4
        /\ checks[k].window \in 1..4
    BY <1>1 DEF Aged
  <2>2. CASE k <= i /\ checks[k].window = x
    BY <1>2, <1>3, <1>5, <2>1, <2>2
  <2>3. CASE ~ (k <= i /\ checks[k].window = x)
    BY <1>2, <1>3, <1>5, <2>1, <2>3
  <2> QED BY <2>2, <2>3
<1>9. ASSUME NEW w \in Windows
      PROVE  Cardinality(Recent(w))' <= Cardinality(Recent(w))
  <2>1. Passes' = Passes
    BY <1>1, <1>5, <1>6 DEF Passes
  <2>2. \A j \in 1..n : checks'[j].window >= checks[j].window
    BY <1>1, <1>2, <1>3, <1>5
  <2>3. w \in Int /\ \A j \in 1..n : checks'[j].window \in Int
    BY <1>1, <1>2, <1>3, <1>5 DEF Windows
  <2>4. Recent(w)' \in SUBSET Recent(w)
    <3> SUFFICES ASSUME NEW j \in Recent(w)' PROVE j \in Recent(w)
      OBVIOUS
    <3>1. /\ j \in 1..n /\ ~ checks'[j].passed /\ checks'[j].window <= w
          /\ \A p \in Passes : p < j
      BY <1>6, <2>1 DEF Recent, Fails
    <3>2. ~ checks[j].passed
      BY <1>5, <3>1
    <3>3. checks[j].window <= w
      BY <1>1, <2>2, <2>3, <3>1
    <3> QED BY <1>1, <3>1, <3>2, <3>3 DEF Recent, Fails
  <2>5. IsFiniteSet(Recent(w))
    BY Counts DEF RegistrationInv
  <2> QED BY <2>4, <2>5, FS_Subset
<1> QED BY <1>1, <1>7, <1>8, <1>9

\* Every step of the questionnaire and the registration keeps the invariant.
LEMMA RegistrationNextInv ==
  RegistrationInv /\ [RegistrationNext]_registrationVars => RegistrationInv'
<1> SUFFICES ASSUME RegistrationInv, [RegistrationNext]_registrationVars
             PROVE  RegistrationInv'
  OBVIOUS
<1>1. CASE UNCHANGED registrationVars
  BY <1>1 DEF registrationVars, RegistrationInv, RegistrationTypeOK, ScreenedShape,
              OneAccount, RatedShape, Recent, Checking, Fails, Passes
<1>2. ASSUME NEW i \in DOMAIN checks, Elapse(i) PROVE RegistrationInv'
  <2>1. UNCHANGED <<accounts, visit, welcomed>>
    BY <1>2 DEF Elapse
  <2>2. /\ checks' \in Seq(Row) /\ Len(checks') <= MaxChecks /\ Aged(checks')
        /\ \A w \in Windows : Cardinality(Recent(w))' <= Cardinality(Recent(w))
    <3>1. CASE checks[i].window = 4
      BY <1>2, <3>1, ElapseDrops DEF Elapse
    <3>2. CASE checks[i].window # 4
      BY <1>2, <3>2, ElapseAges DEF Elapse
    <3> QED BY <3>1, <3>2
  <2>3. RegistrationTypeOK'
    BY <2>1, <2>2 DEF RegistrationInv, RegistrationTypeOK, Row, Aged
  <2>4. ScreenedShape' /\ OneAccount' /\ Checking' = Checking
    BY <2>1 DEF RegistrationInv, ScreenedShape, OneAccount, Checking
  <2>5. RatedShape'
    BY <2>2, <2>3, <2>4, RatedKept
  <2> QED BY <2>3, <2>4, <2>5 DEF RegistrationInv
<1>3. CASE RegistrationNext
  BY <1>2, <1>3, CheckEligibilityStep, RecordEligibilityStep, RegisterSupplierStep,
     ExecuteRegistrationTxStep
     DEF RegistrationNext
<1> QED BY <1>1, <1>3

\* checkEligibility and registerSupplier, for any tiers and any finite number of
\* requests: no window ever holds more failures since the last pass than its
\* tier and the overlapping requests allow, and of all overlapping registrations
\* one is answered with an account.
THEOREM RegistrationHolds ==
  RegistrationInit /\ [][RegistrationNext]_registrationVars => []RegistrationSound
  BY RegistrationInitInv, RegistrationNextInv, RegistrationInvSound, PTL

-----------------------------------------------------------------------------
(* The three together.                                                     *)

OnboardingInv == KycInv /\ RegistrationInv /\ BuyersInv

\* A step of the whole is a step of one part, and no step of the others.
LEMMA StepOfAPart ==
  [Next]_onboardingVars => /\ [KycNext]_kycVars
                           /\ [RegistrationNext]_registrationVars
                           /\ [BuyersNext]_buyersVars
  BY DEF Next, onboardingVars

\* Every reachable state satisfies the three invariants.
LEMMA OnboardingInvariance == Spec => []OnboardingInv
<1>1. Init => OnboardingInv
  BY KycInitInv, RegistrationInitInv, BuyersInitInv DEF Init, OnboardingInv
<1>2. OnboardingInv /\ [Next]_onboardingVars => OnboardingInv'
  BY StepOfAPart, KycNextInv, RegistrationNextInv, BuyersNextInv DEF OnboardingInv
<1> QED BY <1>1, <1>2, PTL DEF Spec

\* The rows and requests of the three parts keep their types.
THEOREM OnboardingTypes == Spec => []TypeOK
<1>1. OnboardingInv => TypeOK
  BY DEF OnboardingInv, KycInv, RegistrationInv, BuyersInv, TypeOK
<1> QED BY <1>1, OnboardingInvariance, PTL
=============================================================================
