--------------------------- MODULE SessionsProofs ---------------------------
(***************************************************************************)
(* Sessions, for every set of requests, sessions, passwords and tokens: the*)
(* typing of the state, the lockout, and what becomes of the sessions of a *)
(* replaced password.                                                      *)
(***************************************************************************)
EXTENDS Sessions, TLAPS

Inv ==
  /\ AccountSound
  /\ StaleSessionsEnd

\* What the record of a request holds, by the request.
LEMMA CallFields ==
  ASSUME NEW r \in Call
  PROVE  /\ r.op = "login" => r.guess \in Passwords /\ r.pw \in Passwords
                               /\ r.role \in Roles
         /\ r.op \in {"issue", "partial", "code"} =>
              r.pw \in Passwords /\ r.role \in Roles
         /\ r.op = "code" => r.code \in BackupCodes
         /\ r.op \in {"refresh", "rotated"} => r.id \in SessionIds
         /\ r.op = "refresh" => r.iat \in 0..SessionTtl
         /\ r.op = "link" => r.link \in Links
         /\ r.op = "reset" => r.token \in ResetTokens /\ r.pw \in Passwords
         /\ r.op = "change" => r.pw \in Passwords /\ r.keep \in SessionIds
         /\ r.op \in {"scan", "scanning"} => r.keep \in SessionIds \cup {NoSession}
         /\ r.op = "scanning" => r.todo \subseteq SessionIds
  BY DEF Call, Idle

\* A session that is not gone.
LEMMA SessionFields ==
  ASSUME NEW r \in Session, r # Gone
  PROVE  /\ r.left \in 1..SessionTtl /\ r.role \in Roles
         /\ r.cookie \in 0..SessionTtl /\ r.pw \in Passwords
         /\ r.late \in BOOLEAN
  BY DEF Session, Gone

\* A record with a life left is no gone session.
LEMMA LiveRecord ==
  ASSUME NEW l \in 1..SessionTtl, NEW role \in Roles, NEW k \in 0..SessionTtl,
         NEW pw \in Passwords, NEW late \in BOOLEAN
  PROVE  LET r == [left |-> l, role |-> role, cookie |-> k, pw |-> pw,
                   late |-> late] IN
         r \in Session /\ r # Gone
<1> DEFINE r == [left |-> l, role |-> role, cookie |-> k, pw |-> pw,
                 late |-> late]
<1>1. r \in Session
  BY DEF Session
<1>2. r.left # 0
  BY SessionsAssumption
<1>3. Gone.left = 0
  BY DEF Gone
<1> QED BY <1>1, <1>2, <1>3

\* A session that is not gone, with another password.
LEMMA PasswordWith ==
  ASSUME NEW r \in Session, r # Gone, NEW pw \in Passwords
  PROVE  /\ [r EXCEPT !.pw = pw] \in Session
         /\ [r EXCEPT !.pw = pw] # Gone
         /\ [r EXCEPT !.pw = pw].pw = pw
         /\ [r EXCEPT !.pw = pw].cookie = r.cookie
<1>1. r \in [left : 1..SessionTtl, role : Roles, cookie : 0..SessionTtl,
             pw : Passwords, late : BOOLEAN]
  BY DEF Session
<1>2. [r EXCEPT !.pw = pw] \in Session
  BY <1>1 DEF Session
<1>3. [r EXCEPT !.pw = pw].left = r.left
  BY <1>1
<1>4. Gone.left = 0 /\ r.left # 0
  BY <1>1, SessionsAssumption DEF Gone
<1>5. [r EXCEPT !.pw = pw] # Gone
  BY <1>3, <1>4
<1>6. /\ [r EXCEPT !.pw = pw].pw = pw
      /\ [r EXCEPT !.pw = pw].cookie = r.cookie
  BY <1>1
<1> QED BY <1>2, <1>5, <1>6

\* A session that is not gone, with another cookie.
LEMMA CookieWith ==
  ASSUME NEW r \in Session, r # Gone, NEW k \in 0..SessionTtl
  PROVE  /\ [r EXCEPT !.cookie = k] \in Session
         /\ [r EXCEPT !.cookie = k] # Gone
         /\ [r EXCEPT !.cookie = k].pw = r.pw
         /\ [r EXCEPT !.cookie = k].late = r.late
         /\ [r EXCEPT !.cookie = k].cookie = k
<1>1. r \in [left : 1..SessionTtl, role : Roles, cookie : 0..SessionTtl,
             pw : Passwords, late : BOOLEAN]
  BY DEF Session
<1>2. [r EXCEPT !.cookie = k] \in Session
  BY <1>1 DEF Session
<1>3. [r EXCEPT !.cookie = k].left = r.left
  BY <1>1
<1>4. Gone.left = 0 /\ r.left # 0
  BY <1>1, SessionsAssumption DEF Gone
<1>5. [r EXCEPT !.cookie = k] # Gone
  BY <1>3, <1>4
<1>6. /\ [r EXCEPT !.cookie = k].pw = r.pw
      /\ [r EXCEPT !.cookie = k].late = r.late
      /\ [r EXCEPT !.cookie = k].cookie = k
  BY <1>1
<1> QED BY <1>2, <1>5, <1>6

\* A session that is not gone, a tick later.
LEMMA LifeWith ==
  ASSUME NEW r \in Session, r # Gone, NEW k \in 0..SessionTtl,
         NEW l \in 1..SessionTtl
  PROVE  /\ [r EXCEPT !.left = l, !.cookie = k] \in Session
         /\ [r EXCEPT !.left = l, !.cookie = k].pw = r.pw
         /\ [r EXCEPT !.left = l, !.cookie = k].late = r.late
         /\ [r EXCEPT !.left = l, !.cookie = k].cookie = k
<1>1. r \in [left : 1..SessionTtl, role : Roles, cookie : 0..SessionTtl,
             pw : Passwords, late : BOOLEAN]
  BY DEF Session
<1>2. [r EXCEPT !.left = l, !.cookie = k] \in Session
  BY <1>1 DEF Session
<1>3. /\ [r EXCEPT !.left = l, !.cookie = k].pw = r.pw
      /\ [r EXCEPT !.left = l, !.cookie = k].late = r.late
      /\ [r EXCEPT !.left = l, !.cookie = k].cookie = k
  BY <1>1
<1> QED BY <1>2, <1>3

\* The initial state.
LEMMA InitInv == Init => Inv
<1> SUFFICES ASSUME Init PROVE Inv
  OBVIOUS
<1>1. /\ scenario \in [verified : BOOLEAN, twoFactor : BOOLEAN,
                       refreshes : BOOLEAN, budget : [Kinds -> Nat]]
      /\ scenario.verified \in BOOLEAN /\ scenario.twoFactor \in BOOLEAN
  BY SessionsAssumption DEF Init
<1>2. account \in Account
  BY <1>1, SessionsAssumption DEF Init, Account, Lock
<1>3. /\ session \in [SessionIds -> Session] /\ call \in [Calls -> Call]
      /\ link \in [Links -> Token] /\ reset \in [ResetTokens -> Token]
      /\ backup \in [BackupCodes -> Token]
  BY DEF Init, Session, Call, Token
<1>4. TypeOK
  BY <1>1, <1>2, <1>3 DEF Init, TypeOK
<1>5. account.failed = 0 /\ account.lock = "no"
  BY DEF Init
<1>6. LockoutHolds
  BY <1>5, SessionsAssumption DEF LockoutHolds
<1>7. Live = {}
  BY DEF Init, Live
<1> QED BY <1>4, <1>6, <1>7
        DEF Inv, AccountSound, StaleSessionsEnd

\* Sessions of a replaced password stay covered by a step that adds no
\* session, leaves the password alone and drops no deletion.
LEMMA StaleKept ==
  ASSUME Inv, account'.pw = account.pw,
         \A s \in SessionIds :
           session'[s] # Gone => /\ session[s] # Gone
                                 /\ session'[s].pw = session[s].pw
                                 /\ session'[s].late = session[s].late,
         lost => lost',
         \A c \in Calls :
           call[c].op \in {"scan", "scanning"} => call'[c] = call[c] \/ lost'
  PROVE  StaleSessionsEnd'
  BY DEF Inv, StaleSessionsEnd, Live

\* The invariant, over a step of a request that is none of a scan, and of no
\* request at all.
LEMMA Quiet ==
  ASSUME Inv, AccountSound', account'.pw = account.pw,
         \A s \in SessionIds :
           \/ session'[s] = session[s]
           \/ session'[s] = Gone,
         lost => lost',
         \A c \in Calls :
           \/ call'[c] = call[c]
           \/ call[c].op \in {"scan", "scanning"} => lost'
  PROVE  Inv'
<1>1. StaleSessionsEnd'
  BY StaleKept
<1> QED BY <1>1 DEF Inv

\* A request comes to hold another record.
LEMMA CallBecomes ==
  ASSUME TypeOK, NEW c \in Calls, NEW r \in Call, Becomes(c, r)
  PROVE  /\ call' \in [Calls -> Call]
         /\ call'[c] = r
         /\ \A d \in Calls \ {c} : call'[d] = call[d]
  BY DEF TypeOK, Becomes

\* Idle is a record of a request.
LEMMA IdleCall == Idle \in Call /\ Idle.op = "idle"
  BY DEF Call, Idle

\* A bound that is spent is still a number.
LEMMA SpendType ==
  ASSUME TypeOK, NEW k \in Kinds, Spend(k)
  PROVE  scenario' \in [verified : BOOLEAN, twoFactor : BOOLEAN,
                        refreshes : BOOLEAN, budget : [Kinds -> Nat]]
<1> DEFINE n == scenario.budget[k] - 1
<1>1. scenario.budget \in [Kinds -> Nat]
  BY DEF TypeOK
<1>2. n \in Nat
  BY <1>1 DEF Spend
<1>3. scenario' = [scenario EXCEPT !.budget = [scenario.budget EXCEPT ![k] = n]]
  BY DEF Spend, TypeOK
<1>4. [scenario.budget EXCEPT ![k] = n] \in [Kinds -> Nat]
  BY <1>1, <1>2
<1> HIDE DEF n
<1> QED BY <1>3, <1>4 DEF TypeOK

\* A request that begins has read, and perhaps used up a bound.
LEMMA StartStep ==
  ASSUME Inv, NEW c \in Calls, NEW r \in Call, Starts(c, r),
         scenario' \in [verified : BOOLEAN, twoFactor : BOOLEAN,
                        refreshes : BOOLEAN, budget : [Kinds -> Nat]],
         link' \in [Links -> Token], reset' \in [ResetTokens -> Token],
         UNCHANGED <<account, history, session, blocklist, partial, backup, lost>>
  PROVE  Inv'
<1>1. TypeOK /\ call[c].op = "idle"
  BY IdleCall DEF Inv, AccountSound, Starts
<1>2. /\ call' \in [Calls -> Call] /\ call'[c] = r
      /\ \A d \in Calls \ {c} : call'[d] = call[d]
  BY <1>1, CallBecomes DEF Starts
<1>3. AccountSound'
  BY <1>1, <1>2 DEF Inv, AccountSound, TypeOK, LockoutHolds
<1> QED BY <1>1, <1>2, <1>3, Quiet

\* A request that is none of a scan ends, or goes on.
LEMMA ServeStep ==
  ASSUME Inv, NEW c \in Calls, NEW r \in Call, Becomes(c, r),
         call[c].op \notin {"scan", "scanning"},
         account' \in Account, LockoutHolds', account'.pw = account.pw,
         partial' \subseteq Passwords, link' \in [Links -> Token],
         reset' \in [ResetTokens -> Token], backup' \in [BackupCodes -> Token],
         UNCHANGED <<history, session, blocklist, scenario, lost>>
  PROVE  Inv'
<1>1. TypeOK
  BY DEF Inv, AccountSound
<1>2. /\ call' \in [Calls -> Call] /\ call'[c] = r
      /\ \A d \in Calls \ {c} : call'[d] = call[d]
  BY <1>1, CallBecomes
<1>3. AccountSound'
  BY <1>1, <1>2 DEF AccountSound, TypeOK
<1> QED BY <1>2, <1>3, Quiet

-----------------------------------------------------------------------------
(* Requests that begin.                                                    *)

\* login reads the row.
LEMMA LoginStep ==
  ASSUME Inv, NEW c \in Calls, NEW guess \in Passwords, Login(c, guess)
  PROVE  Inv'
<1> DEFINE r == [op |-> "login", guess |-> guess, pw |-> account.pw,
                 role |-> account.role, failed |-> account.failed]
<1>1. TypeOK
  BY DEF Inv, AccountSound
<1>2. r \in Call
  BY <1>1 DEF Call, TypeOK, Account
<1>3. UNCHANGED scenario \/ Spend("wrong")
  BY DEF Login
<1>4. /\ scenario' \in [verified : BOOLEAN, twoFactor : BOOLEAN,
                        refreshes : BOOLEAN, budget : [Kinds -> Nat]]
      /\ link' \in [Links -> Token] /\ reset' \in [ResetTokens -> Token]
  BY <1>1, <1>3, SpendType DEF Login, Kinds, TypeOK
<1>5. Starts(c, r)
  BY DEF Login
<1>6. UNCHANGED <<account, history, session, blocklist, partial, backup, lost>>
  BY DEF Login
<1> HIDE DEF r
<1> QED BY <1>2, <1>4, <1>5, <1>6, StartStep

\* The second factor goes by the row and the proved password.
LEMMA VerifyTwoFactorStep ==
  ASSUME Inv, NEW c \in Calls, NEW pw \in Passwords,
         \/ VerifyTotpCode(c, pw)
         \/ \E b \in BackupCodes : VerifyBackupCode(c, pw, b)
  PROVE  Inv'
<1>1. TypeOK /\ account.role \in Roles
  BY DEF Inv, AccountSound, TypeOK, Account
<1>2. CASE VerifyTotpCode(c, pw)
  <2> DEFINE r == [op |-> "issue", pw |-> pw, role |-> account.role]
  <2>1. r \in Call
    BY <1>1 DEF Call
  <2>2. /\ scenario' \in [verified : BOOLEAN, twoFactor : BOOLEAN,
                          refreshes : BOOLEAN, budget : [Kinds -> Nat]]
        /\ link' \in [Links -> Token] /\ reset' \in [ResetTokens -> Token]
    BY <1>1, <1>2 DEF VerifyTotpCode, TypeOK
  <2>3. /\ Starts(c, r)
        /\ UNCHANGED <<account, history, session, blocklist, partial, backup, lost>>
    BY <1>2 DEF VerifyTotpCode
  <2> HIDE DEF r
  <2> QED BY <2>1, <2>2, <2>3, StartStep
<1>3. ASSUME NEW b \in BackupCodes, VerifyBackupCode(c, pw, b)
      PROVE  Inv'
  <2> DEFINE r == [op |-> "code", pw |-> pw, role |-> account.role, code |-> b]
  <2>1. r \in Call
    BY <1>1 DEF Call
  <2>2. /\ scenario' \in [verified : BOOLEAN, twoFactor : BOOLEAN,
                          refreshes : BOOLEAN, budget : [Kinds -> Nat]]
        /\ link' \in [Links -> Token] /\ reset' \in [ResetTokens -> Token]
    BY <1>1, <1>3, SpendType DEF VerifyBackupCode, Kinds, TypeOK
  <2>3. /\ Starts(c, r)
        /\ UNCHANGED <<account, history, session, blocklist, partial, backup, lost>>
    BY <1>3 DEF VerifyBackupCode
  <2> HIDE DEF r
  <2> QED BY <2>1, <2>2, <2>3, StartStep
<1> QED BY <1>2, <1>3

\* Both ways to a new password begin with a token or a session.
LEMMA NewPasswordStep ==
  ASSUME Inv, NEW c \in Calls, NEW pw \in Passwords,
         \/ \E t \in ResetTokens : ResetPassword(c, t, pw)
         \/ \E s \in SessionIds : ChangePassword(c, s, pw)
  PROVE  Inv'
<1>1. TypeOK
  BY DEF Inv, AccountSound
<1>2. ASSUME NEW t \in ResetTokens, ResetPassword(c, t, pw)
      PROVE  Inv'
  <2> DEFINE r == [op |-> "reset", token |-> t, pw |-> pw]
  <2>1. r \in Call
    BY DEF Call
  <2>2. /\ scenario' \in [verified : BOOLEAN, twoFactor : BOOLEAN,
                          refreshes : BOOLEAN, budget : [Kinds -> Nat]]
        /\ link' \in [Links -> Token] /\ reset' \in [ResetTokens -> Token]
    BY <1>1, <1>2 DEF ResetPassword, TypeOK
  <2>3. /\ Starts(c, r)
        /\ UNCHANGED <<account, history, session, blocklist, partial, backup, lost>>
    BY <1>2 DEF ResetPassword
  <2> HIDE DEF r
  <2> QED BY <2>1, <2>2, <2>3, StartStep
<1>3. ASSUME NEW s \in SessionIds, ChangePassword(c, s, pw)
      PROVE  Inv'
  <2> DEFINE r == [op |-> "change", pw |-> pw, keep |-> s]
  <2>1. r \in Call
    BY DEF Call
  <2>2. /\ scenario' \in [verified : BOOLEAN, twoFactor : BOOLEAN,
                          refreshes : BOOLEAN, budget : [Kinds -> Nat]]
        /\ link' \in [Links -> Token] /\ reset' \in [ResetTokens -> Token]
    BY <1>1, <1>3, SpendType DEF ChangePassword, Kinds, TypeOK
  <2>3. /\ Starts(c, r)
        /\ UNCHANGED <<account, history, session, blocklist, partial, backup, lost>>
    BY <1>3 DEF ChangePassword
  <2> HIDE DEF r
  <2> QED BY <2>1, <2>2, <2>3, StartStep
<1> QED BY <1>2, <1>3

\* The links of a registration and of a reset.
LEMMA LinkRequestStep ==
  ASSUME Inv, NEW c \in Calls,
         \/ \E l \in Links : VerifyEmail(c, l)
         \/ ResendVerificationEmail(c)
         \/ RequestPasswordReset(c)
  PROVE  Inv'
<1>1. TypeOK
  BY DEF Inv, AccountSound
<1>2. ASSUME NEW l \in Links, VerifyEmail(c, l)
      PROVE  Inv'
  <2> DEFINE r == [op |-> "link", link |-> l]
  <2>1. r \in Call
    BY DEF Call
  <2>2. /\ scenario' \in [verified : BOOLEAN, twoFactor : BOOLEAN,
                          refreshes : BOOLEAN, budget : [Kinds -> Nat]]
        /\ link' \in [Links -> Token] /\ reset' \in [ResetTokens -> Token]
    BY <1>1, <1>2 DEF VerifyEmail, TypeOK
  <2>3. /\ Starts(c, r)
        /\ UNCHANGED <<account, history, session, blocklist, partial, backup, lost>>
    BY <1>2 DEF VerifyEmail
  <2> HIDE DEF r
  <2> QED BY <2>1, <2>2, <2>3, StartStep
<1>3. CASE ResendVerificationEmail(c)
  <2> DEFINE r == [op |-> "resend"]
  <2>1. r \in Call
    BY DEF Call
  <2>2. scenario' \in [verified : BOOLEAN, twoFactor : BOOLEAN,
                       refreshes : BOOLEAN, budget : [Kinds -> Nat]]
    BY <1>1, <1>3, SpendType DEF ResendVerificationEmail, Kinds
  <2>3. link' \in [Links -> Token] /\ reset' \in [ResetTokens -> Token]
    BY <1>1, <1>3 DEF ResendVerificationEmail, TypeOK, Token
  <2>4. /\ Starts(c, r)
        /\ UNCHANGED <<account, history, session, blocklist, partial, backup, lost>>
    BY <1>3 DEF ResendVerificationEmail
  <2> HIDE DEF r
  <2> QED BY <2>1, <2>2, <2>3, <2>4, StartStep
<1>4. CASE RequestPasswordReset(c)
  <2> DEFINE r == [op |-> "request"]
  <2>1. r \in Call
    BY DEF Call
  <2>2. scenario' \in [verified : BOOLEAN, twoFactor : BOOLEAN,
                       refreshes : BOOLEAN, budget : [Kinds -> Nat]]
    BY <1>1, <1>4, SpendType DEF RequestPasswordReset, Kinds
  <2>3. link' \in [Links -> Token] /\ reset' \in [ResetTokens -> Token]
    BY <1>1, <1>4 DEF RequestPasswordReset, TypeOK, Token
  <2>4. /\ Starts(c, r)
        /\ UNCHANGED <<account, history, session, blocklist, partial, backup, lost>>
    BY <1>4 DEF RequestPasswordReset
  <2> HIDE DEF r
  <2> QED BY <2>1, <2>2, <2>3, <2>4, StartStep
<1> QED BY <1>2, <1>3, <1>4

\* A refresh has read the cookie and the session.
LEMMA RefreshAccessTokenStep ==
  ASSUME Inv, NEW c \in Calls, NEW s \in SessionIds, RefreshAccessToken(c, s)
  PROVE  Inv'
<1> DEFINE r == [op |-> "refresh", id |-> s, iat |-> session[s].cookie]
<1>1. TypeOK /\ call[c].op = "idle"
  BY IdleCall DEF Inv, AccountSound, RefreshAccessToken, Starts
<1>2. session[s].cookie \in 0..SessionTtl
  BY <1>1, SessionFields DEF TypeOK, RefreshAccessToken, Live
<1>3. r \in Call /\ r.op = "refresh" /\ r.iat = session[s].cookie
  BY <1>2 DEF Call
<1>4. /\ Becomes(c, r)
      /\ UNCHANGED <<account, history, session, blocklist, partial, link, reset,
                     backup, scenario, lost>>
  BY DEF RefreshAccessToken, Starts
<1> HIDE DEF r
<1>5. /\ call' \in [Calls -> Call] /\ call'[c] = r
      /\ \A d \in Calls \ {c} : call'[d] = call[d]
  BY <1>1, <1>3, <1>4, CallBecomes
<1>6. AccountSound'
  BY <1>1, <1>4, <1>5 DEF Inv, AccountSound, TypeOK, LockoutHolds
<1>7. StaleSessionsEnd'
  BY <1>1, <1>4, <1>5, StaleKept
<1> QED BY <1>6, <1>7 DEF Inv

-----------------------------------------------------------------------------
(* Requests that go on.                                                    *)

\* The counter and the lock move together, on the count in the row.
LEMMA HandleFailedPasswordStep ==
  ASSUME Inv, NEW c \in Calls, HandleFailedPassword(c) PROVE Inv'
<1> DEFINE n == account.failed + 1
           k == IF Locks(c) THEN "locked" ELSE account.lock
<1>1. TypeOK /\ LockoutHolds /\ account \in Account
  BY DEF Inv, AccountSound, TypeOK
<1>2. n \in Nat /\ account.failed \in Nat /\ account.lock \in Lock
  BY <1>1 DEF Account
<1>3. account' = [account EXCEPT !.failed = n, !.lock = k]
  BY <1>1 DEF HandleFailedPassword
<1>4. k \in Lock /\ (n >= MaxFailed <=> k # "no")
  BY <1>1, <1>2, SessionsAssumption DEF LockoutHolds, Lock, Locks
<1> HIDE DEF n, k
<1>5. /\ account' \in Account /\ account'.pw = account.pw
      /\ account'.failed = n /\ account'.lock = k
  BY <1>1, <1>2, <1>3, <1>4 DEF Account
<1>6. LockoutHolds'
  BY <1>4, <1>5 DEF LockoutHolds
<1>7. /\ call[c].op = "login" /\ Becomes(c, Idle)
      /\ UNCHANGED <<history, session, blocklist, partial, link, reset, backup,
                     scenario, lost>>
  BY DEF HandleFailedPassword, Ends
<1> QED BY <1>1, <1>5, <1>6, <1>7, IdleCall, ServeStep DEF TypeOK

\* A right password takes the counter and the lock back.
LEMMA AcceptPasswordStep ==
  ASSUME Inv, NEW c \in Calls, AcceptPassword(c) PROVE Inv'
<1> DEFINE r == [op |-> IF account.twoFactor THEN "partial" ELSE "issue",
                 pw |-> call[c].guess, role |-> call[c].role]
<1>1. TypeOK /\ account \in Account /\ call[c] \in Call /\ call[c].op = "login"
  BY DEF Inv, AccountSound, TypeOK, AcceptPassword
<1>2. account' = [account EXCEPT !.failed = 0, !.lock = "no"]
  BY DEF AcceptPassword, ResetFailedLogin
<1>3. /\ account' \in Account /\ account'.pw = account.pw
      /\ account'.failed = 0 /\ account'.lock = "no"
  BY <1>1, <1>2 DEF Account, Lock
<1>4. LockoutHolds'
  BY <1>3, SessionsAssumption DEF LockoutHolds
<1>5. call[c].guess \in Passwords /\ call[c].role \in Roles
  BY <1>1, CallFields
<1>6. r \in Call
  BY <1>5 DEF Call
<1>7. /\ Becomes(c, r)
      /\ UNCHANGED <<history, session, blocklist, partial, link, reset, backup,
                     scenario, lost>>
  BY DEF AcceptPassword
<1> HIDE DEF r
<1> QED BY <1>1, <1>3, <1>4, <1>6, <1>7, ServeStep DEF TypeOK

\* Partial tokens, backup codes and links: nothing of the sessions.
LEMMA TokenStep ==
  ASSUME Inv, NEW c \in Calls,
         \/ IssuePartialAuthToken(c)
         \/ ConsumeBackupCode(c)
         \/ ApplyEmailVerification(c)
         \/ \E l \in Links : CreateEmailVerificationToken(c, l)
         \/ \E t \in ResetTokens : CreateResetToken(c, t)
  PROVE  Inv'
<1>1. TypeOK /\ LockoutHolds /\ account \in Account /\ call[c] \in Call
  BY DEF Inv, AccountSound, TypeOK
<1>2. CASE IssuePartialAuthToken(c)
  <2>1. call[c].op = "partial"
    BY <1>2 DEF IssuePartialAuthToken
  <2>2. call[c].pw \in Passwords
    BY <1>1, <2>1, CallFields
  <2>3. /\ partial' \subseteq Passwords /\ Becomes(c, Idle)
        /\ UNCHANGED <<account, history, session, blocklist, link, reset,
                       backup, scenario, lost>>
    BY <1>1, <1>2, <2>2 DEF IssuePartialAuthToken, Ends, TypeOK
  <2>4. LockoutHolds'
    BY <1>1, <2>3 DEF LockoutHolds
  <2> QED BY <1>1, <2>1, <2>3, <2>4, IdleCall, ServeStep DEF TypeOK
<1>3. CASE ConsumeBackupCode(c)
  <2> DEFINE r == [op |-> "issue", pw |-> call[c].pw, role |-> call[c].role]
  <2>1. call[c].op = "code"
    BY <1>3 DEF ConsumeBackupCode
  <2>2. call[c].pw \in Passwords /\ call[c].role \in Roles
    BY <1>1, <2>1, CallFields
  <2>3. r \in Call
    BY <2>2 DEF Call
  <2>4. /\ backup' \in [BackupCodes -> Token] /\ Becomes(c, r)
        /\ UNCHANGED <<account, history, session, blocklist, partial, link,
                       reset, scenario, lost>>
    BY <1>1, <1>3 DEF ConsumeBackupCode, TypeOK, Token
  <2> HIDE DEF r
  <2>5. LockoutHolds'
    BY <1>1, <2>4 DEF LockoutHolds
  <2> QED BY <1>1, <2>1, <2>3, <2>4, <2>5, ServeStep DEF TypeOK
<1>4. CASE ApplyEmailVerification(c)
  <2>1. call[c].op = "link" /\ Becomes(c, Idle)
        /\ UNCHANGED <<history, session, blocklist, partial, reset, backup,
                       scenario, lost>>
    BY <1>4 DEF ApplyEmailVerification, Ends
  <2>2. account' = [account EXCEPT !.verified = TRUE]
    BY <1>4 DEF ApplyEmailVerification
  <2>3. /\ account' \in Account /\ account'.pw = account.pw
        /\ account'.failed = account.failed /\ account'.lock = account.lock
    BY <1>1, <2>2 DEF Account
  <2>4. LockoutHolds'
    BY <1>1, <2>3 DEF LockoutHolds
  <2>5. link' \in [Links -> Token]
    BY <1>1, <1>4 DEF ApplyEmailVerification, TypeOK, Token
  <2> QED BY <1>1, <2>1, <2>3, <2>4, <2>5, IdleCall, ServeStep DEF TypeOK
<1>5. ASSUME NEW l \in Links, CreateEmailVerificationToken(c, l)
      PROVE  Inv'
  <2>1. /\ call[c].op = "resend" /\ Becomes(c, Idle)
        /\ link' \in [Links -> Token]
        /\ UNCHANGED <<account, history, session, blocklist, partial, reset,
                       backup, scenario, lost>>
    BY <1>1, <1>5 DEF CreateEmailVerificationToken, Ends, TypeOK, Token
  <2>2. LockoutHolds'
    BY <1>1, <2>1 DEF LockoutHolds
  <2> QED BY <1>1, <2>1, <2>2, IdleCall, ServeStep DEF TypeOK
<1>6. ASSUME NEW t \in ResetTokens, CreateResetToken(c, t)
      PROVE  Inv'
  <2>1. /\ call[c].op = "request" /\ Becomes(c, Idle)
        /\ reset' \in [ResetTokens -> Token]
        /\ UNCHANGED <<account, history, session, blocklist, partial, link,
                       backup, scenario, lost>>
    BY <1>1, <1>6 DEF CreateResetToken, Ends, TypeOK, Token
  <2>2. LockoutHolds'
    BY <1>1, <2>1 DEF LockoutHolds
  <2> QED BY <1>1, <2>1, <2>2, IdleCall, ServeStep DEF TypeOK
<1> QED BY <1>2, <1>3, <1>4, <1>5, <1>6

\* A new session has its cookie, and says whether its password is still the
\* account's.
LEMMA IssueFullTokensStep ==
  ASSUME Inv, NEW c \in Calls, NEW s \in SessionIds, IssueFullTokens(c, s)
  PROVE  Inv'
<1> DEFINE late == call[c].pw # account.pw
           new == [left |-> SessionTtl, role |-> call[c].role, cookie |-> 0,
                   pw |-> call[c].pw, late |-> late]
<1>1. TypeOK /\ call[c] \in Call /\ call[c].op = "issue"
  BY DEF Inv, AccountSound, TypeOK, IssueFullTokens
<1>2. call[c].pw \in Passwords /\ call[c].role \in Roles
  BY <1>1, CallFields
<1>3. late \in BOOLEAN /\ (call[c].pw = account.pw \/ late)
  OBVIOUS
<1>4. /\ session' = [session EXCEPT ![s] = new] /\ Becomes(c, Idle)
      /\ \A k \in blocklist : k[1] # s
      /\ UNCHANGED <<account, history, blocklist, partial, link, reset, backup,
                     scenario, lost>>
  BY DEF IssueFullTokens, Ends
<1> HIDE DEF late
<1>5. SessionTtl \in 1..SessionTtl /\ 0 \in 0..SessionTtl
  BY SessionsAssumption
<1>6. new \in Session
  BY <1>2, <1>3, <1>5 DEF Session
<1>7. new.pw = call[c].pw /\ new.late = late
  OBVIOUS
<1> HIDE DEF new
<1>8. /\ call' \in [Calls -> Call] /\ call'[c] = Idle
      /\ \A d \in Calls \ {c} : call'[d] = call[d]
  BY <1>1, <1>4, IdleCall, CallBecomes
<1>9. /\ session' \in [SessionIds -> Session] /\ session'[s] = new
      /\ \A u \in SessionIds \ {s} : session'[u] = session[u]
  BY <1>1, <1>4, <1>6 DEF TypeOK
<1>10. AccountSound'
  BY <1>1, <1>4, <1>8, <1>9 DEF Inv, AccountSound, TypeOK, LockoutHolds
<1>11. StaleSessionsEnd'
  <2>1. ASSUME NEW u \in SessionIds \ {s}, session'[u] # Gone
        PROVE  \/ session'[u].pw = account'.pw
               \/ session'[u].late
               \/ lost'
               \/ \E d \in Calls :
                    \/ call'[d].op = "scan" /\ call'[d].keep # u
                    \/ call'[d].op = "scanning" /\ u \in call'[d].todo
    <3>1. session'[u] = session[u]
      BY <1>9
    <3>2. \A d \in Calls : call[d].op \in {"scan", "scanning"} => call'[d] = call[d]
      BY <1>1, <1>8
    <3> QED BY <1>4, <2>1, <3>1, <3>2 DEF Inv, StaleSessionsEnd, Live
  <2>2. session'[s].pw = account'.pw \/ session'[s].late
    BY <1>3, <1>4, <1>7, <1>9
  <2> QED BY <2>1, <2>2 DEF StaleSessionsEnd, Live
<1> QED BY <1>10, <1>11 DEF Inv

-----------------------------------------------------------------------------
(* The rotation of a refresh token.                                        *)

\* The token goes on the blocklist.
LEMMA BlocklistOldRefreshTokenStep ==
  ASSUME Inv, NEW c \in Calls, BlocklistOldRefreshToken(c) PROVE Inv'
<1> DEFINE s == call[c].id
           n == call[c].iat
           r == [op |-> "rotated", id |-> s]
<1>1. TypeOK /\ call[c] \in Call /\ call[c].op = "refresh"
  BY DEF Inv, AccountSound, TypeOK, BlocklistOldRefreshToken
<1>2. s \in SessionIds /\ n \in 0..SessionTtl
  BY <1>1, CallFields
<1>3. /\ blocklist' = blocklist \cup {<<s, n>>} /\ Becomes(c, r)
      /\ UNCHANGED <<account, history, session, partial, link, reset, backup,
                     scenario, lost>>
  BY DEF BlocklistOldRefreshToken
<1>4. r \in Call /\ r.op = "rotated"
  BY <1>2 DEF Call
<1>5. /\ call' \in [Calls -> Call] /\ call'[c] = r
      /\ \A d \in Calls \ {c} : call'[d] = call[d]
  BY <1>1, <1>3, <1>4, CallBecomes
<1>6. AccountSound'
  BY <1>1, <1>2, <1>3, <1>5 DEF Inv, AccountSound, TypeOK, LockoutHolds
<1>7. StaleSessionsEnd'
  BY <1>1, <1>3, <1>5, StaleKept
<1> QED BY <1>6, <1>7 DEF Inv

\* The session gets a new cookie, and keeps its password.
LEMMA BuildRotatedTokensStep ==
  ASSUME Inv, NEW c \in Calls, BuildRotatedTokens(c) PROVE Inv'
<1> DEFINE s == call[c].id
<1>1. TypeOK /\ call[c] \in Call /\ call[c].op = "rotated"
  BY DEF Inv, AccountSound, TypeOK, BuildRotatedTokens
<1>2. s \in SessionIds
  BY <1>1, CallFields
<1>3. /\ session' = IF s \in Live THEN [session EXCEPT ![s].cookie = 0] ELSE session
      /\ Becomes(c, Idle)
      /\ UNCHANGED <<account, history, blocklist, partial, link, reset, backup,
                     scenario, lost>>
  BY DEF BuildRotatedTokens, Ends
<1> HIDE DEF s
<1>4. /\ call' \in [Calls -> Call] /\ call'[c] = Idle
      /\ \A d \in Calls \ {c} : call'[d] = call[d]
  BY <1>1, <1>3, IdleCall, CallBecomes
<1>5. /\ session' \in [SessionIds -> Session]
      /\ \A u \in SessionIds \ {s} : session'[u] = session[u]
      /\ session'[s] # Gone => /\ session[s] # Gone
                               /\ session'[s].pw = session[s].pw
                               /\ session'[s].late = session[s].late
                               /\ session'[s].cookie = 0
  <2>1. CASE s \notin Live
    BY <1>1, <1>2, <1>3, <2>1 DEF TypeOK, Live
  <2>2. CASE s \in Live
    <3>1. session[s] \in Session /\ session[s] # Gone
      BY <1>1, <1>2, <2>2 DEF TypeOK, Live
    <3>2. 0 \in 0..SessionTtl
      BY SessionsAssumption
    <3>3. PICK k \in 0..SessionTtl : k = 0
      BY <3>2
    <3>4. session' = [session EXCEPT ![s] = [session[s] EXCEPT !.cookie = k]]
      BY <1>1, <1>3, <2>2, <3>3 DEF TypeOK
    <3>5. /\ [session[s] EXCEPT !.cookie = k] \in Session
          /\ [session[s] EXCEPT !.cookie = k].pw = session[s].pw
          /\ [session[s] EXCEPT !.cookie = k].late = session[s].late
          /\ [session[s] EXCEPT !.cookie = k].cookie = k
      BY <3>1, CookieWith
    <3> QED BY <1>1, <1>2, <3>1, <3>3, <3>4, <3>5 DEF TypeOK
  <2> QED BY <2>1, <2>2
<1>6. AccountSound'
  BY <1>1, <1>3, <1>4, <1>5 DEF Inv, AccountSound, TypeOK, LockoutHolds
<1>7. StaleSessionsEnd'
  BY <1>1, <1>2, <1>3, <1>4, <1>5, StaleKept
<1> QED BY <1>6, <1>7 DEF Inv

\* One tick ages the cookies, the tokens of the requests and the keys of the
\* blocklist alike.
LEMMA TickStep == ASSUME Inv, Tick PROVE Inv'
<1>1. TypeOK
  BY DEF Inv, AccountSound
<1>2. \A n \in 0..SessionTtl : /\ Older(n) \in 1..SessionTtl
                               /\ n < SessionTtl => Older(n) = n + 1
                               /\ n = SessionTtl => Older(n) = n
  BY SessionsAssumption DEF Older
<1>3. UNCHANGED <<account, history, partial, link, reset, backup, scenario, lost>>
  BY DEF Tick
<1>4. ASSUME NEW s \in SessionIds
      PROVE  /\ session'[s] \in Session
             /\ session'[s] # Gone => /\ session[s] # Gone
                                      /\ session'[s].pw = session[s].pw
                                      /\ session'[s].late = session[s].late
                                      /\ session'[s].cookie = Older(session[s].cookie)
  <2>1. CASE session[s] = Gone \/ session[s].left = 1
    BY <2>1 DEF Tick, Session
  <2>2. CASE session[s] # Gone /\ session[s].left # 1
    <3>1. session[s] \in Session
      BY <1>1 DEF TypeOK
    <3>2. /\ session[s].left \in 1..SessionTtl /\ session[s].cookie \in 0..SessionTtl
          /\ session[s].pw \in Passwords
      BY <2>2, <3>1, SessionFields
    <3>3. PICK k \in 0..SessionTtl : k = Older(session[s].cookie)
      BY <1>2, <3>2, SessionsAssumption
    <3>4. PICK l \in 1..SessionTtl : l = session[s].left - 1
      BY <2>2, <3>2, SessionsAssumption
    <3>5. session'[s] = [session[s] EXCEPT !.left = l, !.cookie = k]
      BY <2>2, <3>3, <3>4 DEF Tick
    <3>6. /\ [session[s] EXCEPT !.left = l, !.cookie = k] \in Session
          /\ [session[s] EXCEPT !.left = l, !.cookie = k].pw = session[s].pw
          /\ [session[s] EXCEPT !.left = l, !.cookie = k].late = session[s].late
          /\ [session[s] EXCEPT !.left = l, !.cookie = k].cookie = k
      BY <2>2, <3>1, LifeWith
    <3> QED BY <2>2, <3>3, <3>5, <3>6
  <2> QED BY <2>1, <2>2
<1>5. ASSUME NEW c \in Calls
      PROVE  /\ call'[c] \in Call
             /\ call[c].op # "refresh" => call'[c] = call[c]
  <2>1. call[c] \in Call
    BY <1>1 DEF TypeOK
  <2>2. CASE call[c].op = "refresh"
    <3>1. call[c].id \in SessionIds /\ call[c].iat \in 0..SessionTtl
      BY <2>1, <2>2, CallFields
    <3>2. PICK k \in 0..SessionTtl : k = Older(call[c].iat)
      BY <1>2, <3>1, SessionsAssumption
    <3>3. call'[c] = [call[c] EXCEPT !.iat = k]
      BY <2>2, <3>2 DEF Tick
    <3>4. call[c] \in [op : {"refresh"}, id : SessionIds, iat : 0..SessionTtl]
      BY <2>1, <2>2 DEF Call, Idle
    <3>5. [call[c] EXCEPT !.iat = k] \in [op : {"refresh"}, id : SessionIds,
                                          iat : 0..SessionTtl]
      BY <3>4
    <3>6. [call[c] EXCEPT !.iat = k] \in Call
      BY <3>5 DEF Call
    <3> QED BY <2>2, <3>3, <3>6
  <2>3. CASE call[c].op # "refresh"
    BY <2>1, <2>3 DEF Tick
  <2> QED BY <2>2, <2>3
<1>6. ASSUME NEW k \in blocklist'
      PROVE  k \in SessionIds \X (0..SessionTtl)
  <2>1. PICK x \in blocklist : k = <<x[1], x[2] + 1>> /\ x[2] < SessionTtl
    BY DEF Tick
  <2>2. x \in SessionIds \X (0..SessionTtl)
    BY <1>1 DEF TypeOK
  <2>3. x[1] \in SessionIds /\ x[2] \in 0..SessionTtl
    BY <2>2
  <2> QED BY <2>1, <2>3, SessionsAssumption
<1>7. AccountSound'
  <2>1. /\ session' \in [SessionIds -> Session] /\ call' \in [Calls -> Call]
        /\ blocklist' \subseteq SessionIds \X (0..SessionTtl)
    BY <1>4, <1>5, <1>6 DEF Tick
  <2> QED BY <1>1, <1>3, <2>1 DEF Inv, AccountSound, TypeOK, LockoutHolds
<1>8. StaleSessionsEnd'
  BY <1>3, <1>4, <1>5, StaleKept
<1> QED BY <1>7, <1>8 DEF Inv

-----------------------------------------------------------------------------
(* A new password, and the sessions of the old one.                        *)

\* The password is replaced and every session is to be deleted.
LEMMA ApplyPasswordResetStep ==
  ASSUME Inv, NEW c \in Calls, ApplyPasswordReset(c) PROVE Inv'
<1> DEFINE pw == call[c].pw
           t == call[c].token
           r == [op |-> "scan", keep |-> NoSession]
<1>1. TypeOK /\ call[c] \in Call /\ call[c].op = "reset"
  BY DEF Inv, AccountSound, TypeOK, ApplyPasswordReset
<1>2. pw \in Passwords /\ t \in ResetTokens
  BY <1>1, CallFields
<1>3. /\ account' = [account EXCEPT !.pw = pw]
      /\ history' = history \cup {pw}
      /\ reset' = [reset EXCEPT ![t] = "used"]
      /\ Becomes(c, r)
      /\ UNCHANGED <<session, blocklist, partial, link, backup, scenario, lost>>
  BY DEF ApplyPasswordReset
<1>4. r \in Call /\ r.op = "scan" /\ r.keep = NoSession
  BY DEF Call
<1> HIDE DEF pw, t, r
<1>5. /\ call' \in [Calls -> Call] /\ call'[c] = r
  BY <1>1, <1>3, <1>4, CallBecomes
<1>6. /\ account' \in Account /\ account'.failed = account.failed
      /\ account'.lock = account.lock
  BY <1>1, <1>2, <1>3 DEF TypeOK, Account
<1>7. reset' \in [ResetTokens -> Token]
  BY <1>1, <1>3 DEF TypeOK, Token
<1>8. TypeOK'
  BY <1>1, <1>2, <1>3, <1>5, <1>6, <1>7 DEF TypeOK
<1>9. AccountSound'
  BY <1>6, <1>8 DEF Inv, AccountSound, LockoutHolds
<1>10. \A s \in SessionIds : call'[c].op = "scan" /\ call'[c].keep # s
  BY <1>4, <1>5, SessionsAssumption
<1>11. StaleSessionsEnd'
  BY <1>10 DEF StaleSessionsEnd, Live
<1> QED BY <1>5, <1>9, <1>11 DEF Inv

\* The session that changed the password knows the new one; every other one
\* is to be deleted.
LEMMA PersistPasswordChangeStep ==
  ASSUME Inv, NEW c \in Calls, PersistPasswordChange(c) PROVE Inv'
<1> DEFINE pw == call[c].pw
           s == call[c].keep
           r == [op |-> "scan", keep |-> s]
<1>1. TypeOK /\ call[c] \in Call /\ call[c].op = "change"
  BY DEF Inv, AccountSound, TypeOK, PersistPasswordChange
<1>2. pw \in Passwords /\ s \in SessionIds
  BY <1>1, CallFields
<1>3. /\ account' = [account EXCEPT !.pw = pw]
      /\ history' = history \cup {pw}
      /\ session' = IF s \in Live THEN [session EXCEPT ![s].pw = pw] ELSE session
      /\ Becomes(c, r)
      /\ UNCHANGED <<blocklist, partial, link, reset, backup, scenario, lost>>
  BY DEF PersistPasswordChange
<1>4. r \in Call /\ r.op = "scan" /\ r.keep = s
  BY <1>2 DEF Call
<1> HIDE DEF pw, s, r
<1>5. /\ session' \in [SessionIds -> Session]
      /\ \A u \in SessionIds \ {s} : session'[u] = session[u]
      /\ session'[s] # Gone => /\ session[s] # Gone
                               /\ session'[s].pw = pw
                               /\ session'[s].cookie = session[s].cookie
  <2>1. CASE s \notin Live
    BY <1>1, <1>2, <1>3, <2>1 DEF TypeOK, Live
  <2>2. CASE s \in Live
    <3>1. session[s] \in Session /\ session[s] # Gone
      BY <1>1, <1>2, <2>2 DEF TypeOK, Live
    <3>2. session' = [session EXCEPT ![s] = [session[s] EXCEPT !.pw = pw]]
      BY <1>1, <1>3, <2>2 DEF TypeOK
    <3>3. /\ [session[s] EXCEPT !.pw = pw] \in Session
          /\ [session[s] EXCEPT !.pw = pw].pw = pw
          /\ [session[s] EXCEPT !.pw = pw].cookie = session[s].cookie
      BY <1>2, <3>1, PasswordWith
    <3> QED BY <1>1, <1>2, <3>1, <3>2, <3>3 DEF TypeOK
  <2> QED BY <2>1, <2>2
<1>6. \A u \in SessionIds :
        session'[u] # Gone => /\ session[u] # Gone
                              /\ session'[u].cookie = session[u].cookie
  BY <1>5
<1>7. /\ call' \in [Calls -> Call] /\ call'[c] = r
  BY <1>1, <1>3, <1>4, <1>6, CallBecomes
<1>8. /\ account' \in Account /\ account'.failed = account.failed
      /\ account'.lock = account.lock /\ account'.pw = pw
  BY <1>1, <1>2, <1>3 DEF TypeOK, Account
<1>9. TypeOK'
  BY <1>1, <1>2, <1>3, <1>5, <1>7, <1>8 DEF TypeOK
<1>10. AccountSound'
  BY <1>8, <1>9 DEF Inv, AccountSound, LockoutHolds
<1>11. \A u \in SessionIds :
         session'[u] # Gone =>
           \/ session'[u].pw = account'.pw
           \/ call'[c].op = "scan" /\ call'[c].keep # u
  BY <1>4, <1>5, <1>7, <1>8
<1>12. StaleSessionsEnd'
  BY <1>11 DEF StaleSessionsEnd, Live
<1> QED BY <1>7, <1>10, <1>12 DEF Inv

\* The scan sees every session that is there when it begins.
LEMMA StartScanStep ==
  ASSUME Inv, NEW c \in Calls, StartScan(c) PROVE Inv'
<1> DEFINE keep == call[c].keep
           r == [op |-> "scanning", keep |-> keep, todo |-> Live \ {keep}]
<1>1. TypeOK /\ call[c] \in Call /\ call[c].op = "scan"
  BY DEF Inv, AccountSound, TypeOK, StartScan
<1>2. keep \in SessionIds \cup {NoSession}
  BY <1>1, CallFields
<1>3. /\ Becomes(c, r)
      /\ UNCHANGED <<account, history, session, blocklist, partial, link, reset,
                     backup, scenario, lost>>
  BY DEF StartScan, ToDelete
<1>4. r \in Call /\ r.op = "scanning" /\ r.todo = Live \ {keep}
  BY <1>2 DEF Call, Live
<1> HIDE DEF r
<1>5. /\ call' \in [Calls -> Call] /\ call'[c] = r
      /\ \A d \in Calls \ {c} : call'[d] = call[d]
  BY <1>1, <1>3, <1>4, CallBecomes
<1>6. AccountSound'
  BY <1>1, <1>3, <1>5 DEF Inv, AccountSound, TypeOK, LockoutHolds
<1>7. ASSUME NEW s \in SessionIds, session'[s] # Gone,
             session'[s].pw # account'.pw, ~ session'[s].late, ~ lost'
      PROVE  \E d \in Calls : \/ call'[d].op = "scan" /\ call'[d].keep # s
                              \/ call'[d].op = "scanning" /\ s \in call'[d].todo
  <2>1. s \in Live
    BY <1>3, <1>7 DEF Live
  <2>2. PICK d \in Calls : \/ call[d].op = "scan" /\ call[d].keep # s
                           \/ call[d].op = "scanning" /\ s \in call[d].todo
    BY <1>3, <1>7, <2>1 DEF Inv, StaleSessionsEnd
  <2>3. CASE d = c
    BY <1>1, <1>4, <1>5, <2>1, <2>2, <2>3
  <2>4. CASE d # c
    BY <1>5, <2>2, <2>4
  <2> QED BY <2>3, <2>4
<1>8. StaleSessionsEnd'
  BY <1>7 DEF StaleSessionsEnd, Live
<1> QED BY <1>5, <1>6, <1>8 DEF Inv

\* What the scan does not delete was not its to delete.
LEMMA DeleteSessionsStep ==
  ASSUME Inv, NEW c \in Calls, NEW met \in SUBSET SessionIds,
         DeleteSessions(c, met)
  PROVE  Inv'
<1>1. TypeOK /\ call[c].op = "scanning"
  BY DEF Inv, AccountSound, DeleteSessions
<1>2. /\ Becomes(c, Idle)
      /\ UNCHANGED <<account, history, blocklist, partial, link, reset, backup,
                     scenario, lost>>
  BY DEF DeleteSessions, Ends
<1>3. \A s \in SessionIds :
        /\ s \in call[c].todo => session'[s] = Gone
        /\ session'[s] # Gone => session'[s] = session[s]
  BY DEF DeleteSessions
<1>4. session' \in [SessionIds -> Session]
  BY <1>1 DEF DeleteSessions, TypeOK, Session
<1>5. /\ call' \in [Calls -> Call] /\ call'[c] = Idle
      /\ \A d \in Calls \ {c} : call'[d] = call[d]
  BY <1>1, <1>2, <1>3, IdleCall, CallBecomes
<1>6. AccountSound'
  BY <1>1, <1>2, <1>4, <1>5 DEF Inv, AccountSound, TypeOK, LockoutHolds
<1>7. ASSUME NEW s \in SessionIds, session'[s] # Gone,
             session'[s].pw # account'.pw, ~ session'[s].late, ~ lost'
      PROVE  \E d \in Calls : \/ call'[d].op = "scan" /\ call'[d].keep # s
                              \/ call'[d].op = "scanning" /\ s \in call'[d].todo
  <2>1. s \in Live /\ session'[s] = session[s] /\ s \notin call[c].todo
    BY <1>3, <1>7 DEF Live
  <2>2. PICK d \in Calls : \/ call[d].op = "scan" /\ call[d].keep # s
                           \/ call[d].op = "scanning" /\ s \in call[d].todo
    BY <1>2, <1>7, <2>1 DEF Inv, StaleSessionsEnd
  <2>3. d # c
    BY <1>1, <2>1, <2>2
  <2> QED BY <1>5, <2>2, <2>3
<1>8. StaleSessionsEnd'
  BY <1>7 DEF StaleSessionsEnd, Live
<1> QED BY <1>5, <1>6, <1>8 DEF Inv

-----------------------------------------------------------------------------
(* Administrators, time and faults.                                        *)

\* A step of no request that adds no session and leaves the password alone.
LEMMA OutsideStep ==
  ASSUME Inv, account' \in Account, LockoutHolds', account'.pw = account.pw,
         partial' \subseteq Passwords, link' \in [Links -> Token],
         reset' \in [ResetTokens -> Token], backup' \in [BackupCodes -> Token],
         scenario' \in [verified : BOOLEAN, twoFactor : BOOLEAN,
                        refreshes : BOOLEAN, budget : [Kinds -> Nat]],
         UNCHANGED <<history, session, blocklist, call, lost>>
  PROVE  Inv'
<1>1. AccountSound'
  BY DEF Inv, AccountSound, TypeOK
<1> QED BY <1>1, Quiet

\* A session ends.
LEMMA LogoutStep == ASSUME Inv, NEW s \in SessionIds, Logout(s) PROVE Inv'
<1>1. TypeOK
  BY DEF Inv, AccountSound
<1>2. /\ session' \in [SessionIds -> Session]
      /\ \A u \in SessionIds : session'[u] = session[u] \/ session'[u] = Gone
  BY <1>1 DEF Logout, TypeOK, Session
<1>3. AccountSound'
  BY <1>1, <1>2 DEF Inv, Logout, AccountSound, TypeOK, LockoutHolds
<1> QED BY <1>2, <1>3, Quiet DEF Logout

\* A request fails: what it leaves undone is remembered.
LEMMA AbandonStep == ASSUME Inv, NEW c \in Calls, Abandon(c) PROVE Inv'
<1>1. TypeOK
  BY DEF Inv, AccountSound
<1>2. /\ Becomes(c, Idle)
      /\ lost' = (lost \/ call[c].op \in {"rotated", "scan", "scanning"})
      /\ UNCHANGED <<account, history, session, blocklist, partial, link, reset,
                     backup, scenario>>
  BY DEF Abandon, Ends
<1>3. /\ call' \in [Calls -> Call] /\ call'[c] = Idle
      /\ \A d \in Calls \ {c} : call'[d] = call[d]
  BY <1>1, <1>2, IdleCall, CallBecomes
<1>4. lost' \in BOOLEAN
  BY <1>2
<1>5. AccountSound'
  BY <1>1, <1>2, <1>3, <1>4 DEF Inv, AccountSound, TypeOK, LockoutHolds
<1>6. call[c].op \in {"scan", "scanning"} => lost'
  BY <1>2
<1> QED BY <1>2, <1>3, <1>5, <1>6, Quiet

\* What administrators and clocks do to the account and to the tokens.
LEMMA OutsideSteps ==
  ASSUME Inv,
         \/ \E b \in BackupCodes : GenerateBackupCodes(b)
         \/ \E active \in BOOLEAN, role \in Roles : UpdateUser(active, role)
         \/ Unlock
         \/ ExpirePartial
         \/ \E l \in Links : ExpireLink(l)
         \/ \E t \in ResetTokens : ExpireResetToken(t)
  PROVE  Inv'
<1>1. TypeOK /\ LockoutHolds /\ account \in Account
  BY DEF Inv, AccountSound, TypeOK
<1>2. ASSUME NEW b \in BackupCodes, GenerateBackupCodes(b) PROVE Inv'
  <2>1. backup' \in [BackupCodes -> Token]
    BY <1>1, <1>2 DEF GenerateBackupCodes, TypeOK, Token
  <2>2. scenario' \in [verified : BOOLEAN, twoFactor : BOOLEAN,
                       refreshes : BOOLEAN, budget : [Kinds -> Nat]]
    BY <1>1, <1>2, SpendType DEF GenerateBackupCodes, Kinds
  <2>3. UNCHANGED <<account, history, session, blocklist, partial, link, reset,
                    call, lost>>
    BY <1>2 DEF GenerateBackupCodes
  <2> QED BY <1>1, <2>1, <2>2, <2>3, OutsideStep DEF TypeOK, LockoutHolds
<1>3. ASSUME NEW active \in BOOLEAN, NEW role \in Roles, UpdateUser(active, role)
      PROVE  Inv'
  <2>1. scenario' \in [verified : BOOLEAN, twoFactor : BOOLEAN,
                       refreshes : BOOLEAN, budget : [Kinds -> Nat]]
    BY <1>1, <1>3, SpendType DEF UpdateUser, Kinds
  <2>2. account' = [account EXCEPT !.active = active, !.role = role]
    BY <1>3 DEF UpdateUser
  <2>3. /\ account' \in Account /\ account'.pw = account.pw
        /\ account'.failed = account.failed /\ account'.lock = account.lock
    BY <1>1, <2>2 DEF Account
  <2>4. UNCHANGED <<history, session, blocklist, partial, link, reset, backup,
                    call, lost>>
    BY <1>3 DEF UpdateUser
  <2> QED BY <1>1, <2>1, <2>3, <2>4, OutsideStep DEF TypeOK, LockoutHolds
<1>4. CASE Unlock
  <2>1. account' = [account EXCEPT !.lock = "over"] /\ account.lock = "locked"
    BY <1>4 DEF Unlock
  <2>2. /\ account' \in Account /\ account'.pw = account.pw
        /\ account'.failed = account.failed /\ account'.lock = "over"
    BY <1>1, <2>1 DEF Account, Lock
  <2>3. LockoutHolds'
    BY <1>1, <2>1, <2>2 DEF LockoutHolds
  <2>4. UNCHANGED <<history, session, blocklist, partial, link, reset, backup,
                    call, scenario, lost>>
    BY <1>4 DEF Unlock
  <2> QED BY <1>1, <2>2, <2>3, <2>4, OutsideStep DEF TypeOK
<1>5. CASE ExpirePartial
  BY <1>1, <1>5, OutsideStep DEF ExpirePartial, TypeOK, LockoutHolds
<1>6. ASSUME NEW l \in Links, ExpireLink(l) PROVE Inv'
  <2>1. link' \in [Links -> Token]
    BY <1>1, <1>6 DEF ExpireLink, TypeOK, Token
  <2>2. UNCHANGED <<account, history, session, blocklist, partial, reset, backup,
                    call, scenario, lost>>
    BY <1>6 DEF ExpireLink
  <2> QED BY <1>1, <2>1, <2>2, OutsideStep DEF TypeOK, LockoutHolds
<1>7. ASSUME NEW t \in ResetTokens, ExpireResetToken(t) PROVE Inv'
  <2>1. reset' \in [ResetTokens -> Token]
    BY <1>1, <1>7 DEF ExpireResetToken, TypeOK, Token
  <2>2. UNCHANGED <<account, history, session, blocklist, partial, link, backup,
                    call, scenario, lost>>
    BY <1>7 DEF ExpireResetToken
  <2> QED BY <1>1, <2>1, <2>2, OutsideStep DEF TypeOK, LockoutHolds
<1> QED BY <1>2, <1>3, <1>4, <1>5, <1>6, <1>7

-----------------------------------------------------------------------------

\* Every step keeps the invariant.
LEMMA NextInv == Inv /\ [Next]_vars => Inv'
<1> SUFFICES ASSUME Inv, [Next]_vars PROVE Inv'
  OBVIOUS
<1>1. CASE UNCHANGED vars
  BY <1>1 DEF vars, Inv, AccountSound, TypeOK, LockoutHolds, StaleSessionsEnd, Live
<1>2. ASSUME NEW c \in Calls, NEW pw \in Passwords,
             \/ Login(c, pw)
             \/ VerifyTotpCode(c, pw)
             \/ \E b \in BackupCodes : VerifyBackupCode(c, pw, b)
             \/ \E t \in ResetTokens : ResetPassword(c, t, pw)
             \/ \E s \in SessionIds : ChangePassword(c, s, pw)
      PROVE  Inv'
  BY <1>2, LoginStep, VerifyTwoFactorStep, NewPasswordStep
<1>3. ASSUME NEW c \in Calls,
             \/ \E s \in SessionIds : RefreshAccessToken(c, s)
             \/ \E l \in Links : VerifyEmail(c, l)
             \/ ResendVerificationEmail(c)
             \/ RequestPasswordReset(c)
      PROVE  Inv'
  BY <1>3, RefreshAccessTokenStep, LinkRequestStep
<1>4. ASSUME NEW c \in Calls, Serve(c) PROVE Inv'
  BY <1>4, HandleFailedPasswordStep, AcceptPasswordStep, TokenStep,
     IssueFullTokensStep, BlocklistOldRefreshTokenStep, BuildRotatedTokensStep,
     ApplyPasswordResetStep, PersistPasswordChangeStep, StartScanStep,
     DeleteSessionsStep, AbandonStep
     DEF Serve
<1>5. ASSUME NEW s \in SessionIds, Logout(s) PROVE Inv'
  BY <1>5, LogoutStep
<1>6. CASE Tick
  BY <1>6, TickStep
<1>7. CASE \/ \E b \in BackupCodes : GenerateBackupCodes(b)
           \/ \E active \in BOOLEAN, role \in Roles : UpdateUser(active, role)
           \/ Unlock
           \/ ExpirePartial
           \/ \E l \in Links : ExpireLink(l)
           \/ \E t \in ResetTokens : ExpireResetToken(t)
  BY <1>7, OutsideSteps
<1> QED BY <1>1, <1>2, <1>3, <1>4, <1>5, <1>6, <1>7 DEF Next

\* The invariant holds in every reachable state.
LEMMA Invariance == Spec => []Inv
  BY InitInv, NextInv, PTL DEF Spec

\* login, recordFailedPasswordTxn and resetFailedLogin: however many requests
\* overlap, the state keeps its types and the account is locked, or its lock
\* has just run out, exactly when MAX_FAILED_ATTEMPTS passwords have failed
\* since the last right one.
THEOREM Lockout == Spec => []AccountSound
<1>1. Inv => AccountSound
  BY DEF Inv
<1> QED BY <1>1, Invariance, PTL

\* resetPassword, changePassword and deleteSessionsByUserId, for any number of
\* requests, sessions and passwords: a session that was open when its password
\* was replaced has a deletion coming, unless a server died.
THEOREM StaleSessions == Spec => []StaleSessionsEnd
<1>1. Inv => StaleSessionsEnd
  BY DEF Inv
<1> QED BY <1>1, Invariance, PTL
=============================================================================
