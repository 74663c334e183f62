------------------------------ MODULE Sessions ------------------------------
(***************************************************************************)
(* One account: its row in users, its sessions in Redis, the tokens mailed *)
(* to its owner.  A request reads the row without a lock, spends its time  *)
(* in bcrypt, and then writes by id or adds a session, so requests of the  *)
(* owner and of an administrator overlap at every step.                    *)
(*                                                                         *)
(* One tick is one second to the cookie (a JWT's iat) and SessionTtl ticks *)
(* are the life of a session and of a refresh token.  The other lifetimes  *)
(* (lock, links, partial token) end at any time.  Passwords stands for the *)
(* five remembered ones: fewer are ever set, so none is forgotten.         *)
(***************************************************************************)
EXTENDS Integers, FiniteSets

CONSTANTS
  Calls,        \* requests being served
  SessionIds,   \* uuidv4() draws one that nobody uses
  Passwords,
  FirstPassword,
  Roles,
  FirstRole,
  Links,        \* rows of email_verification_tokens
  FirstLink,
  ResetTokens,  \* rows of password_reset_tokens
  BackupCodes,  \* batches of totp_backup_codes, one code for eight
  MaxFailed,    \* MAX_FAILED_ATTEMPTS
  SessionTtl,   \* SESSION_TTL_SECONDS, REFRESH_TOKEN_EXPIRY
  Scenarios,    \* accounts, and bounds on the requests of each kind
  NoSession

\* Wrong passwords, changes of the password, verification links, backup codes
\* and acts of administrators.
Kinds == {"wrong", "password", "link", "code", "admin"}

ASSUME SessionsAssumption ==
  /\ FirstPassword \in Passwords
  /\ FirstRole \in Roles
  /\ FirstLink \in Links
  /\ MaxFailed \in Nat \ {0}
  /\ SessionTtl \in Nat \ {0}
  /\ Scenarios \subseteq [verified : BOOLEAN, twoFactor : BOOLEAN,
                          refreshes : BOOLEAN, budget : [Kinds -> Nat]]
  /\ NoSession \notin SessionIds

VARIABLES
  account,    \* the row of users
  history,    \* its rows of password_history
  session,    \* Redis: session:<id>
  blocklist,  \* Redis: rt_blocklist:<id>:<iat>
  partial,    \* the partial_auth tokens that are out, by the password proved
  link,       \* email_verification_tokens
  reset,      \* password_reset_tokens
  backup,     \* totp_backup_codes
  call,       \* what each request has read
  scenario,   \* what is left of the bounds
  lost        \* a server died between a COMMIT and what follows it

vars == <<account, history, session, blocklist, partial, link, reset, backup,
          call, scenario, lost>>

\* locked_until is NULL, ahead, or past.
Lock == {"no", "locked", "over"}

\* Nothing in the code sets two_factor_enabled.
Account ==
  [active : BOOLEAN, verified : BOOLEAN, twoFactor : BOOLEAN, role : Roles,
   pw : Passwords, failed : Nat, lock : Lock]

\* cookie is the age of the refresh token the browser holds.  pw is not
\* stored: it is the last password the session's holder has proved or set,
\* and `late` says that it was already replaced when the session was added.
Gone == [left |-> 0]
Session ==
  {Gone} \cup [left : 1..SessionTtl, role : Roles, cookie : 0..SessionTtl,
               pw : Passwords, late : BOOLEAN]

Token == {"none", "open", "used"}
Idle == [op |-> "idle"]

Call ==
  {Idle}
    \cup [op : {"login"}, guess : Passwords, pw : Passwords, role : Roles,
          failed : Nat]
    \cup [op : {"issue", "partial"}, pw : Passwords, role : Roles]
    \cup [op : {"code"}, pw : Passwords, role : Roles, code : BackupCodes]
    \cup [op : {"refresh"}, id : SessionIds, iat : 0..SessionTtl]
    \cup [op : {"rotated"}, id : SessionIds]
    \cup [op : {"link"}, link : Links]
    \cup [op : {"resend", "request"}]
    \cup [op : {"reset"}, token : ResetTokens, pw : Passwords]
    \cup [op : {"change"}, pw : Passwords, keep : SessionIds]
    \cup [op : {"scan"}, keep : SessionIds \cup {NoSession}]
    \cup [op : {"scanning"}, keep : SessionIds \cup {NoSession},
          todo : SUBSET SessionIds]

TypeOK ==
  /\ account \in Account
  /\ history \subseteq Passwords
  /\ session \in [SessionIds -> Session]
  /\ blocklist \subseteq SessionIds \X (0..SessionTtl)
  /\ partial \subseteq Passwords
  /\ link \in [Links -> Token]
  /\ reset \in [ResetTokens -> Token]
  /\ backup \in [BackupCodes -> Token]
  /\ call \in [Calls -> Call]
  /\ scenario \in [verified : BOOLEAN, twoFactor : BOOLEAN,
                   refreshes : BOOLEAN, budget : [Kinds -> Nat]]
  /\ lost \in BOOLEAN

\* A verified account, or a registered one whose link was mailed.
Init ==
  /\ scenario \in Scenarios
  /\ account = [active |-> TRUE, verified |-> scenario.verified,
                twoFactor |-> scenario.twoFactor, role |-> FirstRole,
                pw |-> FirstPassword, failed |-> 0, lock |-> "no"]
  /\ link = [l \in Links |-> IF l = FirstLink /\ ~account.verified
                              THEN "open" ELSE "none"]
  /\ history = {}
  /\ session = [s \in SessionIds |-> Gone]
  /\ blocklist = {}
  /\ partial = {}
  /\ reset = [t \in ResetTokens |-> "none"]
  /\ backup = [b \in BackupCodes |-> "none"]
  /\ call = [c \in Calls |-> Idle]
  /\ lost = FALSE

-----------------------------------------------------------------------------

Live == {s \in SessionIds : session[s] # Gone}

Becomes(c, r) == call' = [call EXCEPT ![c] = r]
Spend(k) ==
  /\ scenario.budget[k] > 0
  /\ scenario' = [scenario EXCEPT !.budget[k] = @ - 1]
Starts(c, r) == call[c] = Idle /\ Becomes(c, r)
Ends(c) == Becomes(c, Idle)

\* guardAccountUsable.
Usable == account.active /\ account.lock # "locked" /\ account.verified

\* login, up to the comparison with the hash that was read.
Login(c, guess) ==
  /\ Usable
  /\ IF guess = account.pw THEN UNCHANGED scenario ELSE Spend("wrong")
  /\ Starts(c, [op |-> "login", guess |-> guess, pw |-> account.pw,
                role |-> account.role, failed |-> account.failed])
  /\ UNCHANGED <<account, history, session, blocklist, partial, link, reset,
                 backup, lost>>

\* Mutant: the lock is decided on the count that was read.
LocksOnSnapshot(c) == call[c].failed + 1 >= MaxFailed

\* lockAccountInTxn, on the count the UPDATE returns.
Locks(c) == account.failed + 1 >= MaxFailed

\* recordFailedPasswordTxn.
HandleFailedPassword(c) ==
  /\ call[c].op = "login"
  /\ call[c].guess # call[c].pw
  /\ account' = [account EXCEPT !.failed = @ + 1,
                                !.lock = IF Locks(c) THEN "locked" ELSE @]
  /\ Ends(c)
  /\ UNCHANGED <<history, session, blocklist, partial, link, reset, backup,
                 scenario, lost>>

\* resetFailedLogin: also a lock set since the row was read.
ResetFailedLogin == account' = [account EXCEPT !.failed = 0, !.lock = "no"]

\* The password was right: on to the token.
AcceptPassword(c) ==
  /\ call[c].op = "login"
  /\ call[c].guess = call[c].pw
  /\ ResetFailedLogin
  /\ Becomes(c, [op |-> IF account.twoFactor THEN "partial" ELSE "issue",
                 pw |-> call[c].guess, role |-> call[c].role])
  /\ UNCHANGED <<history, session, blocklist, partial, link, reset, backup,
                 scenario, lost>>

\* issuePartialAuthToken: a JWT of five minutes, recorded nowhere.
IssuePartialAuthToken(c) ==
  /\ call[c].op = "partial"
  /\ partial' = partial \cup {call[c].pw}
  /\ Ends(c)
  /\ UNCHANGED <<account, history, session, blocklist, link, reset, backup,
                 scenario, lost>>

\* verifyTwoFactor with a TOTP: the row is read again by its id, and neither
\* is_active nor the lock is looked at.
VerifyTotpCode(c, pw) ==
  /\ pw \in partial
  /\ Starts(c, [op |-> "issue", pw |-> pw, role |-> account.role])
  /\ UNCHANGED <<account, history, session, blocklist, partial, link, reset,
                 backup, scenario, lost>>

\* verifyTwoFactor with a backup code: findUnusedBackupCode.
VerifyBackupCode(c, pw, b) ==
  /\ Spend("code")
  /\ pw \in partial
  /\ backup[b] = "open"
  /\ Starts(c, [op |-> "code", pw |-> pw, role |-> account.role,
                code |-> b])
  /\ UNCHANGED <<account, history, session, blocklist, partial, link, reset,
                 backup, lost>>

\* consumeBackupCode, by id.
ConsumeBackupCode(c) ==
  /\ call[c].op = "code"
  /\ backup' = [backup EXCEPT ![call[c].code] = "used"]
  /\ Becomes(c, [op |-> "issue", pw |-> call[c].pw, role |-> call[c].role])
  /\ UNCHANGED <<account, history, session, blocklist, partial, link, reset,
                 scenario, lost>>

\* issueFullTokens.  The key of the blocklist survives the session.
IssueFullTokens(c, s) ==
  /\ call[c].op = "issue"
  /\ s \notin Live
  /\ \A k \in blocklist : k[1] # s
  /\ \A d \in Calls : call[d].op \in {"refresh", "rotated"} => call[d].id # s
  /\ session' = [session EXCEPT ![s] =
       [left |-> SessionTtl, role |-> call[c].role, cookie |-> 0,
        pw |-> call[c].pw, late |-> call[c].pw # account.pw]]
  /\ Ends(c)
  /\ UNCHANGED <<account, history, blocklist, partial, link, reset, backup,
                 scenario, lost>>

-----------------------------------------------------------------------------
(* Sessions.                                                               *)

\* Mutant: the session is marked as over and not deleted.
LogoutAtZero(s) ==
  /\ s \in Live
  /\ session' = [session EXCEPT ![s].left = 0]
  /\ UNCHANGED <<account, history, blocklist, partial, link, reset, backup,
                 call, scenario, lost>>

\* logout, and revokeSession of one of the owner's sessions.
Logout(s) ==
  /\ s \in Live
  /\ session' = [session EXCEPT ![s] = Gone]
  /\ UNCHANGED <<account, history, blocklist, partial, link, reset, backup,
                 call, scenario, lost>>

\* refreshAccessToken: rejectIfTokenRevoked and getSession.
RefreshAccessToken(c, s) ==
  /\ s \in Live
  /\ scenario.refreshes
  /\ <<s, session[s].cookie>> \notin blocklist
  /\ Starts(c, [op |-> "refresh", id |-> s, iat |-> session[s].cookie])
  /\ UNCHANGED <<account, history, session, blocklist, partial, link, reset,
                 backup, scenario, lost>>

\* blocklistOldRefreshToken.
BlocklistOldRefreshToken(c) ==
  /\ call[c].op = "refresh"
  /\ blocklist' = blocklist \cup {<<call[c].id, call[c].iat>>}
  /\ Becomes(c, [op |-> "rotated", id |-> call[c].id])
  /\ UNCHANGED <<account, history, session, partial, link, reset, backup,
                 scenario, lost>>

\* Mutant: the session is given another seven days.
SlideSession(c) ==
  /\ call[c].op = "rotated"
  /\ session' = IF call[c].id \in Live
                THEN [session EXCEPT ![call[c].id].cookie = 0,
                                     ![call[c].id].left = SessionTtl]
                ELSE session
  /\ Ends(c)
  /\ UNCHANGED <<account, history, blocklist, partial, link, reset, backup,
                 scenario, lost>>

\* buildRotatedTokens, with the role the session was opened with; a session
\* deleted meanwhile gets a cookie that opens nothing.
BuildRotatedTokens(c) ==
  /\ call[c].op = "rotated"
  /\ session' = IF call[c].id \in Live
                THEN [session EXCEPT ![call[c].id].cookie = 0]
                ELSE session
  /\ Ends(c)
  /\ UNCHANGED <<account, history, blocklist, partial, link, reset, backup,
                 scenario, lost>>

-----------------------------------------------------------------------------
(* Links and passwords.                                                    *)

\* findValidEmailVerificationToken.
VerifyEmail(c, l) ==
  /\ link[l] = "open"
  /\ Starts(c, [op |-> "link", link |-> l])
  /\ UNCHANGED <<account, history, session, blocklist, partial, link, reset,
                 backup, scenario, lost>>

ApplyEmailVerification(c) ==
  /\ call[c].op = "link"
  /\ account' = [account EXCEPT !.verified = TRUE]
  /\ link' = [link EXCEPT ![call[c].link] = "used"]
  /\ Ends(c)
  /\ UNCHANGED <<history, session, blocklist, partial, reset, backup, scenario,
                 lost>>

\* resendVerificationEmail: invalidateEmailVerificationTokens ...
ResendVerificationEmail(c) ==
  /\ \E l \in Links : link[l] = "none"
  /\ Spend("link")
  /\ account.active /\ ~account.verified
  /\ Starts(c, [op |-> "resend"])
  /\ link' = [l \in Links |-> IF link[l] = "open" THEN "used" ELSE link[l]]
  /\ UNCHANGED <<account, history, session, blocklist, partial, reset, backup, lost>>

\* ... and createEmailVerificationToken, whatever was verified meanwhile.
CreateEmailVerificationToken(c, l) ==
  /\ call[c].op = "resend"
  /\ link[l] = "none"
  /\ link' = [link EXCEPT ![l] = "open"]
  /\ Ends(c)
  /\ UNCHANGED <<account, history, session, blocklist, partial, reset, backup,
                 scenario, lost>>

\* requestPasswordReset: invalidateResetTokens ...
RequestPasswordReset(c) ==
  /\ Spend("password")
  /\ account.active
  /\ \E t \in ResetTokens : reset[t] = "none"
  /\ Starts(c, [op |-> "request"])
  /\ reset' = [t \in ResetTokens |->
                 IF reset[t] = "open" THEN "used" ELSE reset[t]]
  /\ UNCHANGED <<account, history, session, blocklist, partial, link, backup, lost>>

\* ... and createResetToken.
CreateResetToken(c, t) ==
  /\ call[c].op = "request"
  /\ reset[t] = "none"
  /\ reset' = [reset EXCEPT ![t] = "open"]
  /\ Ends(c)
  /\ UNCHANGED <<account, history, session, blocklist, partial, link, backup,
                 scenario, lost>>

\* checkPasswordHistory.
NotRecentlyUsed(pw) == pw \notin history

\* resetPassword: validateResetToken and the history.
ResetPassword(c, t, pw) ==
  /\ reset[t] = "open"
  /\ NotRecentlyUsed(pw)
  /\ Starts(c, [op |-> "reset", token |-> t, pw |-> pw])
  /\ UNCHANGED <<account, history, session, blocklist, partial, link, reset,
                 backup, scenario, lost>>

\* applyPasswordReset.
ApplyPasswordReset(c) ==
  /\ call[c].op = "reset"
  /\ account' = [account EXCEPT !.pw = call[c].pw]
  /\ history' = history \cup {call[c].pw}
  /\ reset' = [reset EXCEPT ![call[c].token] = "used"]
  /\ Becomes(c, [op |-> "scan", keep |-> NoSession])
  /\ UNCHANGED <<session, blocklist, partial, link, backup, scenario, lost>>

\* changePassword: the owner gives the current password.
ChangePassword(c, s, pw) ==
  /\ Spend("password")
  /\ s \in Live
  /\ pw # account.pw
  /\ NotRecentlyUsed(pw)
  /\ Starts(c, [op |-> "change", pw |-> pw, keep |-> s])
  /\ UNCHANGED <<account, history, session, blocklist, partial, link, reset,
                 backup, lost>>

\* persistPasswordChange.
PersistPasswordChange(c) ==
  LET s == call[c].keep IN
  /\ call[c].op = "change"
  /\ account' = [account EXCEPT !.pw = call[c].pw]
  /\ history' = history \cup {call[c].pw}
  /\ session' = IF s \in Live
                THEN [session EXCEPT ![s].pw = call[c].pw] ELSE session
  /\ Becomes(c, [op |-> "scan", keep |-> s])
  /\ UNCHANGED <<blocklist, partial, link, reset, backup, scenario, lost>>

\* Mutant: the scan stops at its first page.
FirstPage(c) == IF Live = {} THEN {} ELSE {CHOOSE s \in Live : TRUE}

\* deleteSessionsByUserId: SCAN returns at least the keys that are there from
\* its start to its end.
ToDelete(c) == Live \ {call[c].keep}

\* invalidateAllSessions, invalidateOtherSessions.
StartScan(c) ==
  /\ call[c].op = "scan"
  /\ Becomes(c, [op |-> "scanning", keep |-> call[c].keep,
                 todo |-> ToDelete(c)])
  /\ UNCHANGED <<account, history, session, blocklist, partial, link, reset,
                 backup, scenario, lost>>

\* Sessions added during the scan may be met by it.
DeleteSessions(c, met) ==
  /\ call[c].op = "scanning"
  /\ met \subseteq Live \ (call[c].todo \cup {call[c].keep})
  /\ session' = [s \in SessionIds |->
                   IF s \in call[c].todo \cup met THEN Gone ELSE session[s]]
  /\ Ends(c)
  /\ UNCHANGED <<account, history, blocklist, partial, link, reset, backup,
                 scenario, lost>>

\* generateBackupCodes, after verifyStepUp.
GenerateBackupCodes(b) ==
  /\ Spend("code")
  /\ Live # {}
  /\ account.twoFactor
  /\ backup[b] = "none"
  /\ backup' = [x \in BackupCodes |->
                  IF x = b THEN "open"
                  ELSE IF backup[x] = "open" THEN "used" ELSE backup[x]]
  /\ UNCHANGED <<account, history, session, blocklist, partial, link, reset,
                 call, lost>>

-----------------------------------------------------------------------------
(* Administrators, time and faults.                                        *)

\* updateUser with applyUserUpdate, checkInactiveAccounts and, by the owner,
\* requestDataDeletion: the row only, the sessions are left alone.
UpdateUser(active, role) ==
  /\ Spend("admin")
  /\ account' = [account EXCEPT !.active = active, !.role = role]
  /\ UNCHANGED <<history, session, blocklist, partial, link, reset, backup,
                 call, lost>>

Older(n) == IF n < SessionTtl THEN n + 1 ELSE n

\* A key of the blocklist is kept while some cookie can still match it.
Tick ==
  /\ Live # {} \/ blocklist # {}
  /\ session' = [s \in SessionIds |->
                   IF session[s] = Gone \/ session[s].left = 1 THEN Gone
                   ELSE [session[s] EXCEPT !.left = @ - 1,
                                           !.cookie = Older(@)]]
  /\ blocklist' = {<<k[1], k[2] + 1>> :
                     k \in {x \in blocklist : /\ x[1] \in Live
                                             /\ x[2] < SessionTtl
                                             /\ x[2] = session[x[1]].cookie}}
  /\ call' = [c \in Calls |-> IF call[c].op = "refresh"
                              THEN [call[c] EXCEPT !.iat = Older(@)]
                              ELSE call[c]]
  /\ UNCHANGED <<account, history, partial, link, reset, backup, scenario, lost>>

\* LOCKOUT_DURATION_MS, PARTIAL_AUTH_EXPIRY and the links' lifetimes.
Unlock ==
  /\ account.lock = "locked"
  /\ account' = [account EXCEPT !.lock = "over"]
  /\ UNCHANGED <<history, session, blocklist, partial, link, reset, backup,
                 call, scenario, lost>>

ExpirePartial ==
  /\ partial # {}
  /\ partial' = {}
  /\ UNCHANGED <<account, history, session, blocklist, link, reset, backup,
                 call, scenario, lost>>

ExpireLink(l) ==
  /\ link[l] = "open"
  /\ link' = [link EXCEPT ![l] = "used"]
  /\ UNCHANGED <<account, history, session, blocklist, partial, reset, backup,
                 call, scenario, lost>>

ExpireResetToken(t) ==
  /\ reset[t] = "open"
  /\ reset' = [reset EXCEPT ![t] = "used"]
  /\ UNCHANGED <<account, history, session, blocklist, partial, link, backup,
                 call, scenario, lost>>

\* A failed query or a server that died: the transaction it was in is rolled
\* back, what it had committed stays.
Abandon(c) ==
  /\ call[c] # Idle
  /\ Ends(c)
  /\ lost' = (lost \/ call[c].op \in {"rotated", "scan", "scanning"})
  /\ UNCHANGED <<account, history, session, blocklist, partial, link, reset,
                 backup, scenario>>

Serve(c) ==
  \/ HandleFailedPassword(c)
  \/ AcceptPassword(c)
  \/ IssuePartialAuthToken(c)
  \/ ConsumeBackupCode(c)
  \/ \E s \in SessionIds : IssueFullTokens(c, s)
  \/ BlocklistOldRefreshToken(c)
  \/ BuildRotatedTokens(c)
  \/ ApplyEmailVerification(c)
  \/ \E l \in Links : CreateEmailVerificationToken(c, l)
  \/ \E t \in ResetTokens : CreateResetToken(c, t)
  \/ ApplyPasswordReset(c)
  \/ PersistPasswordChange(c)
  \/ StartScan(c)
  \/ \E met \in SUBSET SessionIds : DeleteSessions(c, met)
  \/ Abandon(c)

Next ==
  \/ \E c \in Calls :
       \/ \E pw \in Passwords :
            \/ Login(c, pw)
            \/ VerifyTotpCode(c, pw)
            \/ \E b \in BackupCodes : VerifyBackupCode(c, pw, b)
            \/ \E t \in ResetTokens : ResetPassword(c, t, pw)
            \/ \E s \in SessionIds : ChangePassword(c, s, pw)
       \/ \E s \in SessionIds : RefreshAccessToken(c, s)
       \/ \E l \in Links : VerifyEmail(c, l)
       \/ ResendVerificationEmail(c)
       \/ RequestPasswordReset(c)
       \/ Serve(c)
  \/ \E s \in SessionIds : Logout(s)
  \/ \E b \in BackupCodes : GenerateBackupCodes(b)
  \/ \E active \in BOOLEAN, role \in Roles : UpdateUser(active, role)
  \/ Tick
  \/ Unlock
  \/ ExpirePartial
  \/ \E l \in Links : ExpireLink(l)
  \/ \E t \in ResetTokens : ExpireResetToken(t)

\* Time passes, and a request ends one way or another.
Fairness ==
  /\ WF_vars(Tick)
  /\ WF_vars(ExpirePartial)
  /\ \A c \in Calls : WF_vars(Serve(c))

Spec == Init /\ [][Next]_vars /\ Fairness

-----------------------------------------------------------------------------
(* Properties.                                                             *)

\* recordFailedPasswordTxn: however failing and succeeding logins overlap, the
\* account is locked, for thirty minutes, exactly once MAX_FAILED_ATTEMPTS
\* wrong passwords have come in since the last right one.
LockoutHolds == account.failed >= MaxFailed <=> account.lock # "no"

\* login and its failures keep the account in shape: its types, its counter and
\* its lock.
AccountSound == TypeOK /\ LockoutHolds

\* resetPassword, changePassword: every session that was open when its password
\* was replaced is about to be deleted, as long as the server that has to do it
\* lives.  (deleteSessionsByUserId scans keys while other requests add and
\* delete sessions; a login that checked the old password before the change may
\* add one after the scan.)
StaleSessionsEnd ==
  \A s \in Live :
    session[s].pw # account.pw /\ ~session[s].late /\ ~lost =>
      \E c \in Calls :
        \/ call[c].op = "scan" /\ call[c].keep # s
        \/ call[c].op = "scanning" /\ s \in call[c].todo

\* updateUser and requestDataDeletion leave the sessions alone, and a refresh
\* reads only Redis, so the life of a session bounds for how long its holder
\* acts in a role that was taken away: no session lives on through refreshes.
SessionsExpire == \A s \in SessionIds : s \in Live ~> s \notin Live

-----------------------------------------------------------------------------
(* What the comments of the code say, and the code does not do.            *)

\* refreshBlocklistKey, "so each issued token is uniquely identifiable": the
\* cookie the owner holds opens the session as long as it lives, unless a
\* rotation is under way or a server died in one.
CookieWorks ==
  \A s \in Live :
    <<s, session[s].cookie>> \in blocklist
      => lost \/ \E c \in Calls : call[c] = [op |-> "rotated", id |-> s]
=============================================================================
