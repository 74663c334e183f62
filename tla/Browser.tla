------------------------------ MODULE Browser ------------------------------
(***************************************************************************)
(* One page of the web client and its session: requests leave with the     *)
(* access token of the store, a 401 starts one refresh, further 401s wait  *)
(* for it in a queue, and a refresh that fails sends the page to /login.   *)
(* Answers arrive in any order, also after a refresh, a sign-out or a new  *)
(* sign-in that the request knew nothing of.                               *)
(*                                                                         *)
(* Access tokens are numbered as the server issues them, 0 is null, and a  *)
(* session has the number of its first token.  The server is Sessions seen *)
(* from outside: the sessions that are open, the tokens that have not      *)
(* expired.                                                                *)
(***************************************************************************)
EXTENDS Integers, Sequences, FiniteSets

CONSTANTS
  PageRequests,  \* requests of the page, each made once
  Logouts,       \* those that are POST /auth/logout
  MaxTokens      \* bound on the access tokens issued

ASSUME BrowserAssumption ==
  /\ Logouts \subseteq PageRequests
  /\ MaxTokens \in Nat

VARIABLES
  store,         \* useAuthStore: accessToken, isAuthenticated
  isRefreshing,
  pendingQueue,
  request,       \* where each request is, its token, its _retry
  leaving,       \* window.location.href has been assigned
  cookie,        \* the session of the refresh token the browser holds, or 0
  server,        \* open sessions, unexpired tokens, each token's session
  unheard        \* a sign-out failed since the page was loaded

pageVars == <<store, isRefreshing, pendingQueue, request, leaving, cookie,
              server, unheard>>

Tokens == 1..MaxTokens

SignedOff == [token |-> 0, auth |-> FALSE]

\* "refresh": it has posted /auth/refresh; "renewed", "denied": the answer.
Places == {"idle", "sent", "ok", "refused", "queued", "refresh", "renewed",
           "denied", "done", "failed"}
Settled == {"done", "failed"}

BrowserTypeOK ==
  /\ store \in [token : 0..MaxTokens, auth : BOOLEAN]
  /\ isRefreshing \in BOOLEAN
  /\ pendingQueue \in Seq(PageRequests)
  /\ request \in [PageRequests -> [at : Places, token : 0..MaxTokens,
                                  cookie : 0..MaxTokens, retry : BOOLEAN]]
  /\ leaving \in BOOLEAN
  /\ cookie \in 0..MaxTokens
  /\ server \in [open : SUBSET Tokens, live : SUBSET Tokens,
                 of : [Tokens -> 0..MaxTokens], last : 0..MaxTokens]
  /\ unheard \in BOOLEAN

\* The page has just been loaded: nothing is persisted.
BrowserInit ==
  /\ store = SignedOff
  /\ isRefreshing = FALSE
  /\ pendingQueue = <<>>
  /\ request = [r \in PageRequests |-> [at |-> "idle", token |-> 0, cookie |-> 0,
                                         retry |-> FALSE]]
  /\ leaving = FALSE
  /\ cookie = 0
  /\ server = [open |-> {}, live |-> {}, of |-> [t \in Tokens |-> 0], last |-> 0]
  /\ unheard = FALSE

-----------------------------------------------------------------------------
\* The server.

\* The next access token, for session s.
Issue(s) ==
  LET t == server.last + 1 IN
  /\ t \in Tokens
  /\ server' = [open |-> server.open \cup {s}, live |-> server.live \cup {t},
                of |-> [server.of EXCEPT ![t] = s], last |-> t]

\* authenticateJwt.
Accepts(t) == t \in server.live /\ server.of[t] \in server.open

\* The oldest access token expires.
Expire ==
  /\ \E t \in server.live :
       /\ \A u \in server.live : t <= u
       /\ server' = [server EXCEPT !.live = @ \ {t}]
  /\ UNCHANGED <<store, isRefreshing, pendingQueue, request, leaving, cookie, unheard>>

\* A session ends: its life is over, or a change of the password ends it.
EndSession(s) ==
  /\ s \in server.open
  /\ server' = [server EXCEPT !.open = @ \ {s}]
  /\ UNCHANGED <<store, isRefreshing, pendingQueue, request, leaving, cookie, unheard>>

\* The handler, if authenticateJwt lets the request in; that of a sign-out
\* ends the session of the token.
Answer(r) ==
  /\ request[r].at = "sent"
  /\ LET ok == Accepts(request[r].token) IN
     /\ request' = [request EXCEPT ![r].at = IF ok THEN "ok" ELSE "refused"]
     /\ server' = IF ok /\ r \in Logouts
                  THEN [server EXCEPT !.open = @ \ {server.of[request[r].token]}]
                  ELSE server
  /\ UNCHANGED <<store, isRefreshing, pendingQueue, leaving, cookie, unheard>>

\* refreshHandler, for the cookie the call was sent with.
AnswerRefresh(r) ==
  /\ request[r].at = "refresh"
  /\ IF request[r].cookie \in server.open
     THEN /\ Issue(request[r].cookie)
          /\ request' = [request EXCEPT ![r].at = "renewed",
                                        ![r].token = server.last + 1]
     ELSE /\ request' = [request EXCEPT ![r].at = "denied"]
          /\ UNCHANGED server
  /\ UNCHANGED <<store, isRefreshing, pendingQueue, leaving, cookie, unheard>>

\* The call is lost, or its answer: then the cookie it was sent with is used
\* up, unless Set-Cookie arrived.
LoseRefresh(r) ==
  /\ request[r].at \in {"refresh", "renewed"}
  /\ cookie' \in IF request[r].at = "refresh" THEN {cookie}
                 ELSE {request[r].cookie,
                       IF cookie = request[r].cookie THEN 0 ELSE cookie}
  /\ request' = [request EXCEPT ![r].at = "denied"]
  /\ UNCHANGED <<store, isRefreshing, pendingQueue, leaving, server, unheard>>

-----------------------------------------------------------------------------
\* The page.

\* login, or the second factor.
SignIn ==
  /\ ~store.auth /\ ~leaving
  /\ Issue(server.last + 1)
  /\ store' = [token |-> server.last + 1, auth |-> TRUE]
  /\ cookie' = server.last + 1
  /\ UNCHANGED <<isRefreshing, pendingQueue, request, leaving, unheard>>

\* The request interceptor.
Resend(f, r, token) == [f EXCEPT ![r].at = "sent", ![r].token = token]

Fire(r) ==
  /\ request[r].at = "idle" /\ store.auth
  /\ request' = Resend(request, r, store.token)
  /\ UNCHANGED <<store, isRefreshing, pendingQueue, leaving, cookie, server, unheard>>

\* The finally block of logout, when the set of requests that end holds one.
SettleLogouts(ended) ==
  IF ended \cap Logouts = {} THEN UNCHANGED store ELSE store' = SignedOff

NoteFailures(ended) == unheard' = (unheard \/ ended \cap Logouts # {})

Fails(r) ==
  /\ request' = [request EXCEPT ![r].at = "failed"]
  /\ SettleLogouts({r})
  /\ NoteFailures({r})

\* The cookie that logoutHandler clears has no path; the one that was set, with
\* the path of the refresh, stays.
Succeed(r) ==
  /\ request[r].at = "ok"
  /\ request' = [request EXCEPT ![r].at = "done"]
  /\ SettleLogouts({r})
  /\ UNCHANGED <<isRefreshing, pendingQueue, leaving, cookie, server, unheard>>

\* No answer within 30 seconds, or one that is neither a success nor a 401.
Reject(r) ==
  /\ request[r].at \in {"sent", "ok"}
  /\ Fails(r)
  /\ UNCHANGED <<isRefreshing, pendingQueue, leaving, cookie, server>>

\* A 401 after the request's own refresh, or without a token in the store.
RejectUnauthorised(r) ==
  /\ request[r].at = "refused"
  /\ request[r].retry \/ store.token = 0
  /\ Fails(r)
  /\ UNCHANGED <<isRefreshing, pendingQueue, leaving, cookie, server>>

Refreshable(r) == request[r].at = "refused" /\ ~request[r].retry /\ store.token # 0

\* Further 401s wait.
Enqueue(r) ==
  /\ Refreshable(r) /\ isRefreshing
  /\ pendingQueue' = Append(pendingQueue, r)
  /\ request' = [request EXCEPT ![r].at = "queued"]
  /\ UNCHANGED <<store, isRefreshing, leaving, cookie, server, unheard>>

\* Mutant: every 401 refreshes for itself.
RefreshAlways(r) ==
  /\ Refreshable(r)
  /\ isRefreshing' = TRUE
  /\ request' = [request EXCEPT ![r].at = "refresh", ![r].cookie = cookie,
                                ![r].retry = TRUE]
  /\ UNCHANGED <<store, pendingQueue, leaving, cookie, server, unheard>>

\* The first 401 posts /auth/refresh.
StartRefresh(r) ==
  /\ Refreshable(r) /\ ~isRefreshing
  /\ isRefreshing' = TRUE
  /\ request' = [request EXCEPT ![r].at = "refresh", ![r].cookie = cookie,
                                ![r].retry = TRUE]
  /\ UNCHANGED <<store, pendingQueue, leaving, cookie, server, unheard>>

Queued == {pendingQueue[i] : i \in DOMAIN pendingQueue}

\* Mutant: the flag is only reset when the refresh fails.
KeepRefreshing(r) ==
  LET token == request[r].token IN
  /\ request[r].at = "renewed"
  /\ store' = [store EXCEPT !.token = token]
  /\ cookie' = request[r].cookie
  /\ pendingQueue' = <<>>
  /\ request' = [q \in PageRequests |->
       IF q \in Queued \cup {r} THEN Resend(request, q, token)[q] ELSE request[q]]
  /\ UNCHANGED <<isRefreshing, leaving, server, unheard>>

\* Mutant: the queue is not drained.
ForgetQueue(r) ==
  LET token == request[r].token IN
  /\ request[r].at = "renewed"
  /\ store' = [store EXCEPT !.token = token]
  /\ cookie' = request[r].cookie
  /\ pendingQueue' = <<>>
  /\ request' = Resend(request, r, token)
  /\ isRefreshing' = FALSE
  /\ UNCHANGED <<leaving, server, unheard>>

\* setTokens, drainQueue, and the requests are sent again.
RefreshSucceeds(r) ==
  LET token == request[r].token IN
  /\ request[r].at = "renewed"
  /\ store' = [store EXCEPT !.token = token]
  /\ cookie' = request[r].cookie
  /\ pendingQueue' = <<>>
  /\ request' = [q \in PageRequests |->
       IF q \in Queued \cup {r} THEN Resend(request, q, token)[q] ELSE request[q]]
  /\ isRefreshing' = FALSE
  /\ UNCHANGED <<leaving, server, unheard>>

\* Mutant: the token survives the end of the session.
ClearUser(r) ==
  LET ended == Queued \cup {r} IN
  /\ request[r].at = "denied"
  /\ store' = [store EXCEPT !.auth = FALSE]
  /\ pendingQueue' = <<>>
  /\ request' = [q \in PageRequests |->
       IF q \in ended THEN [request[q] EXCEPT !.at = "failed"] ELSE request[q]]
  /\ NoteFailures(ended)
  /\ isRefreshing' = FALSE
  /\ leaving' = TRUE
  /\ UNCHANGED <<cookie, server>>

\* Those that waited fail, the session is cleared, the page goes to /login.
RefreshFails(r) ==
  LET ended == Queued \cup {r} IN
  /\ request[r].at = "denied"
  /\ store' = SignedOff
  /\ pendingQueue' = <<>>
  /\ request' = [q \in PageRequests |->
       IF q \in ended THEN [request[q] EXCEPT !.at = "failed"] ELSE request[q]]
  /\ NoteFailures(ended)
  /\ isRefreshing' = FALSE
  /\ leaving' = TRUE
  /\ UNCHANGED <<cookie, server>>

\* The new page is loaded; what was under way is aborted.
Reload ==
  /\ leaving
  /\ leaving' = FALSE
  /\ store' = SignedOff
  /\ isRefreshing' = FALSE
  /\ pendingQueue' = <<>>
  /\ request' = [r \in PageRequests |->
       IF request[r].at \in Settled \cup {"idle"} THEN request[r]
       ELSE [request[r] EXCEPT !.at = "failed"]]
  /\ unheard' = FALSE
  /\ UNCHANGED <<cookie, server>>

-----------------------------------------------------------------------------

Receive(r) ==
  \/ Succeed(r)
  \/ RejectUnauthorised(r)
  \/ Enqueue(r)
  \/ StartRefresh(r)

ReceiveRefresh(r) == RefreshSucceeds(r) \/ RefreshFails(r)

BrowserNext ==
  \/ Expire
  \/ \E s \in Tokens : EndSession(s)
  \/ SignIn
  \/ Reload
  \/ \E r \in PageRequests :
       \/ Fire(r)
       \/ Answer(r)
       \/ AnswerRefresh(r)
       \/ LoseRefresh(r)
       \/ Reject(r)
       \/ Receive(r)
       \/ ReceiveRefresh(r)

-----------------------------------------------------------------------------
Refreshers == {r \in PageRequests : request[r].at \in {"refresh", "renewed", "denied"}}

\* At most one refresh is out: the cookie rotates, and a second one would
\* present the cookie that the first has used up.
SingleFlight == Cardinality(Refreshers) <= 1

\* Nobody waits in the queue unless a refresh is out that will drain it, and
\* who waits is in it once.
QueueIsServed ==
  /\ isRefreshing <=> Refreshers # {}
  /\ pendingQueue # <<>> => isRefreshing
  /\ Queued = {r \in PageRequests : request[r].at = "queued"}
  /\ Len(pendingQueue) = Cardinality(Queued)

\* A page that shows a session can act for it.
SessionHasToken == store.auth => store.token # 0

\* A page that shows no session cannot: it holds no token the server accepts,
\* unless a sign-out was lost on its way and a refresh was out meanwhile.
SignedOffIsOff == ~store.auth /\ ~unheard => ~Accepts(store.token)

\* The response interceptor: however answers, refreshes, sign-outs and
\* sign-ins overlap, the page's tokens, flag and queue agree.
BrowserSound ==
  /\ SingleFlight
  /\ QueueIsServed
  /\ SessionHasToken
  /\ SignedOffIsOff

\* The page's part of a session, its types included.
PageSound == BrowserTypeOK /\ BrowserSound

\* The response interceptor: the page comes to rest whatever happens to its
\* calls; no request is left in the queue, or with a refresh that has come
\* back, and its caller without an answer.  (A request is made once.)
RequestsSettle == []<>(\A r \in PageRequests : request[r].at \in Settled \cup {"idle"})
=============================================================================
