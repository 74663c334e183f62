--------------------------- MODULE BrowserProofs ----------------------------
(***************************************************************************)
(* The page of the web client, for any number of requests, of sign-outs    *)
(* and of access tokens: its tokens, flag and queue agree.                 *)
(***************************************************************************)
EXTENDS Browser, FiniteSetTheorems, TLAPS

Request == [at : Places, token : 0..MaxTokens, cookie : 0..MaxTokens, retry : BOOLEAN]

\* One refresh at a time, and the flag, the queue and the requests say the same.
FlightShape ==
  /\ \A a, b \in Refreshers : a = b
  /\ isRefreshing <=> Refreshers # {}

QueueShape ==
  /\ pendingQueue # <<>> => isRefreshing
  /\ Queued = {r \in PageRequests : request[r].at = "queued"}
  /\ IsFiniteSet(Queued) /\ Len(pendingQueue) = Cardinality(Queued)

\* A page that is on its way to /login has nothing to refresh with.
LeavingShape == leaving => store = SignedOff /\ Refreshers = {}

\* Tokens and cookies are the server's; the token that a refresh brings is of
\* the session whose cookie it was sent with.
TokenShape ==
  /\ store.token <= server.last /\ cookie <= server.last
  /\ \A s \in server.open : s <= server.last
  /\ \A t \in Tokens : server.of[t] <= server.last
  /\ \A r \in PageRequests :
       /\ request[r].token <= server.last /\ request[r].cookie <= server.last
       /\ request[r].at \in {"sent", "renewed"} => request[r].token # 0
       /\ request[r].at = "renewed" => server.of[request[r].token] = request[r].cookie
  /\ SessionHasToken

\* The open sessions that the page can still act for: by its token, by a cookie
\* that it may refresh with, or by a sign-out that has not been answered.
Reachable ==
  {s \in server.open :
     \/ store.token # 0 /\ (server.of[store.token] = s \/ cookie = s)
     \/ \E r \in PageRequests : request[r].at \in {"refresh", "renewed"} /\ request[r].cookie = s
     \/ \E r \in Logouts : request[r].at = "sent" /\ server.of[request[r].token] = s}

\* The sign-outs that have ended a session, and of which the page has not heard.
Unread == {r \in Logouts : request[r].at = "ok"}

\* There is one such session, and after a sign-out none, until the next
\* sign-in; so no refresh that comes back late brings a token that works.
ReachShape ==
  ~leaving /\ ~unheard =>
    /\ \A s, t \in Reachable : s = t
    /\ \A a, b \in Unread : a = b
    /\ Unread # {} \/ ~store.auth => Reachable = {}
    /\ ~store.auth => Unread = {}

Inv ==
  BrowserTypeOK /\ FlightShape /\ QueueShape /\ LeavingShape /\ TokenShape /\ ReachShape

-----------------------------------------------------------------------------
(* The records.                                                            *)

LEMMA RequestFields ==
  ASSUME NEW c \in Request
  PROVE  /\ c.at \in Places /\ c.token \in 0..MaxTokens /\ c.cookie \in 0..MaxTokens
         /\ c.retry \in BOOLEAN
  BY Zenon DEF Request

LEMMA RequestMoves ==
  ASSUME NEW c \in Request, NEW p \in Places
  PROVE  LET z == [c EXCEPT !.at = p] IN
         /\ z \in Request /\ z.at = p /\ z.token = c.token /\ z.cookie = c.cookie
  BY Zenon DEF Request

\* With another token.
Carrying(c, p, t) == [c EXCEPT !.at = p, !.token = t]

LEMMA RequestSent ==
  ASSUME NEW c \in Request, NEW p \in Places, NEW t \in 0..MaxTokens
  PROVE  /\ Carrying(c, p, t) \in Request /\ Carrying(c, p, t).at = p
         /\ Carrying(c, p, t).token = t /\ Carrying(c, p, t).cookie = c.cookie
  BY Zenon DEF Request, Carrying

\* With the cookie of a refresh.
Refreshing(c, k) == [c EXCEPT !.at = "refresh", !.cookie = k, !.retry = TRUE]

LEMMA RequestRefreshes ==
  ASSUME NEW c \in Request, NEW k \in 0..MaxTokens
  PROVE  /\ Refreshing(c, k) \in Request /\ Refreshing(c, k).at = "refresh"
         /\ Refreshing(c, k).token = c.token /\ Refreshing(c, k).cookie = k
  BY Zenon DEF Request, Places, Refreshing

LEMMA ResendIs ==
  ASSUME NEW f \in [PageRequests -> Request], NEW r \in PageRequests, NEW t
  PROVE  Resend(f, r, t)[r] = Carrying(f[r], "sent", t)
  BY DEF Resend, Carrying

LEMMA StoreFields ==
  ASSUME NEW s \in [token : 0..MaxTokens, auth : BOOLEAN]
  PROVE  s.token \in 0..MaxTokens /\ s.auth \in BOOLEAN
  BY Zenon

LEMMA OffFields ==
  /\ SignedOff.token = 0 /\ ~SignedOff.auth
  /\ SignedOff \in [token : 0..MaxTokens, auth : BOOLEAN]
<1>1. 0 \in 0..MaxTokens
  BY BrowserAssumption
<1>2. SignedOff \in [token : 0..MaxTokens, auth : BOOLEAN] /\ ~SignedOff.auth
  BY <1>1, Zenon DEF SignedOff
<1> QED BY <1>2 DEF SignedOff

LEMMA ServerFields ==
  ASSUME BrowserTypeOK
  PROVE  /\ server.open \subseteq Tokens /\ server.live \subseteq Tokens
         /\ server.of \in [Tokens -> 0..MaxTokens] /\ server.last \in 0..MaxTokens
  BY DEF BrowserTypeOK

LEMMA PageTypes ==
  ASSUME BrowserTypeOK
  PROVE  /\ store \in [token : 0..MaxTokens, auth : BOOLEAN]
         /\ store.token \in 0..MaxTokens /\ cookie \in 0..MaxTokens
         /\ pendingQueue \in Seq(PageRequests)
         /\ request \in [PageRequests -> Request]
         /\ \A r \in PageRequests : /\ request[r] \in Request /\ request[r].at \in Places
                                    /\ request[r].token \in 0..MaxTokens
                                    /\ request[r].cookie \in 0..MaxTokens
         /\ isRefreshing \in BOOLEAN /\ leaving \in BOOLEAN /\ unheard \in BOOLEAN
<1>1. /\ request \in [PageRequests -> Request] /\ cookie \in 0..MaxTokens
      /\ pendingQueue \in Seq(PageRequests) /\ store \in [token : 0..MaxTokens, auth : BOOLEAN]
      /\ isRefreshing \in BOOLEAN /\ leaving \in BOOLEAN /\ unheard \in BOOLEAN
  BY Zenon DEF BrowserTypeOK, Request
<1>2. \A r \in PageRequests : request[r] \in Request
  BY <1>1
<1> QED BY <1>1, <1>2, RequestFields, StoreFields

\* The next token.
LEMMA IssueIs ==
  ASSUME BrowserTypeOK, TokenShape, NEW s \in Tokens, Issue(s)
  PROVE  LET t == server.last + 1 IN
         /\ t \in Tokens /\ t # 0 /\ server'.last = t /\ server'.open = server.open \cup {s}
         /\ server'.of[t] = s
         /\ \A u \in Tokens : u # t => server'.of[u] = server.of[u]
         /\ server' \in [open : SUBSET Tokens, live : SUBSET Tokens,
                         of : [Tokens -> 0..MaxTokens], last : 0..MaxTokens]
<1> DEFINE t == server.last + 1
<1>1. /\ t \in Tokens
      /\ server' = [open |-> server.open \cup {s}, live |-> server.live \cup {t},
                    of |-> [server.of EXCEPT ![t] = s], last |-> t]
  BY DEF Issue
<1>2. server.last \in 0..MaxTokens /\ MaxTokens \in Nat
  BY ServerFields, BrowserAssumption
<1>3. t # 0 /\ t \in 0..MaxTokens /\ s \in 0..MaxTokens
  BY <1>1, <1>2 DEF Tokens
<1> HIDE DEF t
<1>4. [server.of EXCEPT ![t] = s] \in [Tokens -> 0..MaxTokens]
  BY <1>1, <1>3, ServerFields
<1>5. /\ server'.of[t] = s
      /\ \A u \in Tokens : u # t => server'.of[u] = server.of[u]
  BY <1>1, ServerFields
<1> QED BY <1>1, <1>3, <1>4, <1>5, ServerFields DEF t

-----------------------------------------------------------------------------
(* What most steps leave alone.                                            *)

LEMMA OneMoves ==
  ASSUME BrowserTypeOK, NEW r \in PageRequests, NEW z \in Request,
         request' = [request EXCEPT ![r] = z]
  PROVE  /\ request' \in [PageRequests -> Request] /\ request'[r] = z
         /\ \A q \in PageRequests : q # r => request'[q] = request[q]
  BY PageTypes

\* The refresh and the queue, in a step that touches neither.
LEMMA FlightStays ==
  ASSUME FlightShape, QueueShape, UNCHANGED <<isRefreshing, pendingQueue>>,
         \A q \in PageRequests :
           /\ request'[q].at \in {"refresh", "renewed", "denied"}
                <=> request[q].at \in {"refresh", "renewed", "denied"}
           /\ request'[q].at = "queued" <=> request[q].at = "queued"
  PROVE  FlightShape' /\ QueueShape' /\ Refreshers' = Refreshers
<1>1. Refreshers' = Refreshers
  BY DEF Refreshers
<1>2. Queued' = Queued
  BY DEF Queued
<1>3. {r \in PageRequests : request'[r].at = "queued"}
        = {r \in PageRequests : request[r].at = "queued"}
  OBVIOUS
<1>4. FlightShape'
  BY <1>1 DEF FlightShape
<1>5. QueueShape'
  BY <1>2, <1>3 DEF QueueShape
<1> QED BY <1>1, <1>4, <1>5

\* The sessions within reach, in a step that brings none.
LEMMA ReachStays ==
  ASSUME ReachShape, ~leaving' /\ ~unheard' => ~leaving /\ ~unheard,
         Reachable' \subseteq Reachable, Unread' \subseteq Unread,
         store'.auth <=> store.auth
  PROVE  ReachShape'
  BY DEF ReachShape

\* The queue is emptied, and the refresh that it waited for is over.
LEMMA FlightEnds ==
  ASSUME isRefreshing' = FALSE, pendingQueue' = <<>>,
         \A q \in PageRequests : request'[q].at \notin {"queued", "refresh", "renewed", "denied"}
  PROVE  FlightShape' /\ QueueShape' /\ Refreshers' = {}
<1>1. Refreshers' = {}
  BY DEF Refreshers
<1>2. Queued' = {}
  BY DEF Queued
<1>3. FlightShape'
  BY <1>1 DEF FlightShape
<1>4. QueueShape'
  BY <1>2, FS_EmptySet DEF QueueShape
<1> QED BY <1>1, <1>3, <1>4

LEMMA InvIs ==
  ASSUME Inv
  PROVE  /\ BrowserTypeOK /\ FlightShape /\ QueueShape /\ LeavingShape /\ TokenShape
         /\ ReachShape
  BY DEF Inv

-----------------------------------------------------------------------------
(* The server's steps.                                                     *)

LEMMA ServerShrinks ==
  ASSUME Inv, UNCHANGED <<store, isRefreshing, pendingQueue, request, leaving, cookie, unheard>>,
         server' \in [open : SUBSET server.open, live : SUBSET server.live,
                      of : {server.of}, last : {server.last}]
  PROVE  Inv'
<1>1. /\ server'.open \subseteq server.open /\ server'.live \subseteq server.live
      /\ server'.of = server.of /\ server'.last = server.last
  OBVIOUS
<1>2. server' \in [open : SUBSET Tokens, live : SUBSET Tokens,
                   of : [Tokens -> 0..MaxTokens], last : 0..MaxTokens]
  BY InvIs, ServerFields
<1>3. BrowserTypeOK'
  BY <1>2, InvIs, Zenon DEF BrowserTypeOK
<1>4. FlightShape' /\ QueueShape' /\ Refreshers' = Refreshers
  BY InvIs, FlightStays
<1>5. LeavingShape'
  BY <1>4, InvIs DEF LeavingShape
<1>6. TokenShape'
  BY <1>1, InvIs DEF TokenShape, SessionHasToken
<1>7. Reachable' \subseteq Reachable /\ Unread' = Unread
  BY <1>1 DEF Reachable, Unread
<1>8. ReachShape'
  BY <1>7, InvIs, ReachStays
<1> QED BY <1>3, <1>4, <1>5, <1>6, <1>8 DEF Inv

LEMMA ExpireStep ==
  ASSUME Inv, Expire
  PROVE  Inv'
<1>1. PICK t \in server.live : server' = [server EXCEPT !.live = server.live \ {t}]
  BY DEF Expire
<1>2. server' \in [open : SUBSET server.open, live : SUBSET server.live,
                   of : {server.of}, last : {server.last}]
  BY <1>1, InvIs DEF BrowserTypeOK
<1> QED BY <1>2, ServerShrinks DEF Expire

LEMMA EndSessionStep ==
  ASSUME Inv, NEW s \in Tokens, EndSession(s)
  PROVE  Inv'
<1>1. server' = [server EXCEPT !.open = server.open \ {s}]
  BY DEF EndSession
<1>2. server' \in [open : SUBSET server.open, live : SUBSET server.live,
                   of : {server.of}, last : {server.last}]
  BY <1>1, InvIs DEF BrowserTypeOK
<1> QED BY <1>2, ServerShrinks DEF EndSession

\* authenticateJwt only lets in who has a token of an open session.
LEMMA AcceptedToken ==
  ASSUME BrowserTypeOK, NEW t \in 0..MaxTokens, Accepts(t)
  PROVE  t \in Tokens /\ t # 0 /\ server.of[t] \in server.open
<1>1. t \in Tokens
  BY ServerFields DEF Accepts
<1> QED BY <1>1, BrowserAssumption DEF Accepts, Tokens

LEMMA AnswerStep ==
  ASSUME Inv, NEW r \in PageRequests, Answer(r)
  PROVE  Inv'
<1> DEFINE k == request[r].token
           p == IF Accepts(k) THEN "ok" ELSE "refused"
           z == [request[r] EXCEPT !.at = p]
<1>1. /\ request[r].at = "sent" /\ request' = [request EXCEPT ![r] = z]
      /\ UNCHANGED <<store, isRefreshing, pendingQueue, leaving, cookie, unheard>>
  BY DEF Answer
<1>2. /\ Accepts(k) /\ r \in Logouts => server' = [server EXCEPT !.open = server.open \ {server.of[k]}]
      /\ ~(Accepts(k) /\ r \in Logouts) => server' = server
  BY Zenon DEF Answer
<1>3. /\ request[r] \in Request /\ k \in 0..MaxTokens
  BY InvIs, PageTypes
<1>4. /\ p \in Places /\ p \in {"ok", "refused"} /\ (p = "ok" <=> Accepts(k))
  BY DEF Places
<1> HIDE DEF p
<1>5. /\ z \in Request /\ z.at = p /\ z.token = request[r].token
      /\ z.cookie = request[r].cookie
  BY <1>3, <1>4, RequestMoves
<1> HIDE DEF z
<1>6. /\ request' \in [PageRequests -> Request] /\ request'[r] = z
      /\ \A q \in PageRequests : q # r => request'[q] = request[q]
  BY <1>1, <1>5, InvIs, OneMoves
<1>7. server' \in [open : SUBSET server.open, live : SUBSET server.live,
                   of : {server.of}, last : {server.last}]
  BY <1>2, InvIs DEF BrowserTypeOK
<1>8. /\ server'.open \subseteq server.open /\ server'.of = server.of
      /\ server'.last = server.last
      /\ server' \in [open : SUBSET Tokens, live : SUBSET Tokens,
                      of : [Tokens -> 0..MaxTokens], last : 0..MaxTokens]
  BY <1>7, InvIs, ServerFields
<1>9. BrowserTypeOK'
  BY <1>1, <1>6, <1>8, InvIs, Zenon DEF BrowserTypeOK, Request
<1>10. FlightShape' /\ QueueShape' /\ Refreshers' = Refreshers
  <2>1. \A q \in PageRequests :
           /\ request'[q].at \in {"refresh", "renewed", "denied"}
                <=> request[q].at \in {"refresh", "renewed", "denied"}
           /\ request'[q].at = "queued" <=> request[q].at = "queued"
    BY <1>1, <1>4, <1>5, <1>6
  <2> QED BY <2>1, <1>1, InvIs, FlightStays
<1>11. LeavingShape'
  BY <1>1, <1>10, InvIs DEF LeavingShape
<1>12. TokenShape'
  BY <1>1, <1>4, <1>5, <1>6, <1>8, InvIs DEF TokenShape, SessionHasToken
<1>13. Reachable' \subseteq Reachable
  BY <1>1, <1>4, <1>5, <1>6, <1>8, BrowserAssumption DEF Reachable
<1>14. ReachShape'
  <2>1. CASE Accepts(k) /\ r \in Logouts
    <3> SUFFICES ASSUME ~leaving, ~unheard
                 PROVE  /\ \A a, b \in Unread' : a = b
                        /\ Reachable' = {}
                        /\ store.auth
      BY <1>1 DEF ReachShape
    <3>1. server.of[k] \in Reachable /\ server.of[k] \notin server'.open
      <4>1. server.of[k] \in server.open
        BY <2>1, <1>3, InvIs, AcceptedToken
      <4>2. server.of[k] \notin server'.open
        BY <2>1, <1>2, InvIs DEF BrowserTypeOK
      <4> QED BY <4>1, <4>2, <2>1, <1>1 DEF Reachable
    <3>2. /\ \A s \in Reachable : s = server.of[k]
          /\ Unread = {} /\ store.auth
      BY <3>1, InvIs DEF ReachShape
    <3>3. Reachable' = {}
      BY <3>1, <3>2, <1>13 DEF Reachable
    <3>4. Unread' \subseteq {r}
      BY <3>2, <1>6, BrowserAssumption DEF Unread
    <3> QED BY <3>2, <3>3, <3>4
  <2>2. CASE ~(Accepts(k) /\ r \in Logouts)
    <3>1. Unread' \subseteq Unread
      BY <2>2, <1>4, <1>5, <1>6, BrowserAssumption DEF Unread
    <3> QED BY <3>1, <1>1, <1>13, InvIs, ReachStays
  <2> QED BY <2>1, <2>2
<1> QED BY <1>9, <1>10, <1>11, <1>12, <1>14 DEF Inv

\* A refresh that is refused or lost; the browser may have seen its cookie.
LEMMA DenyStep ==
  ASSUME Inv, NEW r \in PageRequests, request[r].at \in {"refresh", "renewed"},
         NEW z \in Request, z.at = "denied", z.token = request[r].token,
         z.cookie = request[r].cookie,
         request' = [request EXCEPT ![r] = z],
         UNCHANGED <<store, isRefreshing, pendingQueue, leaving, unheard, server>>,
         cookie' \in {cookie, request[r].cookie, 0}
  PROVE  Inv'
<1>1. /\ request' \in [PageRequests -> Request] /\ request'[r] = z
      /\ \A q \in PageRequests : q # r => request'[q] = request[q]
  BY InvIs, OneMoves
<1>2. cookie' \in 0..MaxTokens
  BY InvIs, PageTypes, BrowserAssumption
<1>3. BrowserTypeOK'
  BY <1>1, <1>2, InvIs, Zenon DEF BrowserTypeOK, Request
<1>4. FlightShape' /\ QueueShape' /\ Refreshers' = Refreshers
  <2>1. \A q \in PageRequests :
           /\ request'[q].at \in {"refresh", "renewed", "denied"}
                <=> request[q].at \in {"refresh", "renewed", "denied"}
           /\ request'[q].at = "queued" <=> request[q].at = "queued"
    BY <1>1
  <2> QED BY <2>1, InvIs, FlightStays
<1>5. LeavingShape'
  BY <1>4, InvIs DEF LeavingShape
<1>6. TokenShape'
  <2>1. cookie' <= server.last
    BY InvIs, ServerFields, BrowserAssumption DEF TokenShape
  <2> QED BY <2>1, <1>1, InvIs DEF TokenShape, SessionHasToken
<1>7. Reachable' \subseteq Reachable
  <2>1. 0 \notin server.open
    BY InvIs, ServerFields, BrowserAssumption DEF Tokens
  <2> QED BY <2>1, <1>1, BrowserAssumption DEF Reachable
<1>8. Unread' \subseteq Unread
  BY <1>1, BrowserAssumption DEF Unread
<1>9. ReachShape'
  BY <1>7, <1>8, InvIs, ReachStays
<1> QED BY <1>3, <1>4, <1>5, <1>6, <1>9 DEF Inv

LEMMA LoseRefreshStep ==
  ASSUME Inv, NEW r \in PageRequests, LoseRefresh(r)
  PROVE  Inv'
<1> DEFINE z == [request[r] EXCEPT !.at = "denied"]
<1>1. /\ request[r].at \in {"refresh", "renewed"} /\ request' = [request EXCEPT ![r] = z]
      /\ UNCHANGED <<store, isRefreshing, pendingQueue, leaving, server, unheard>>
  BY DEF LoseRefresh
<1>2. cookie' \in {cookie, request[r].cookie, 0}
  BY DEF LoseRefresh
<1>3. request[r] \in Request
  BY InvIs, PageTypes
<1>4. /\ z \in Request /\ z.at = "denied" /\ z.token = request[r].token
      /\ z.cookie = request[r].cookie
  BY <1>3, RequestMoves DEF Places
<1> HIDE DEF z
<1> QED BY <1>1, <1>2, <1>4, DenyStep

LEMMA AnswerRefreshStep ==
  ASSUME Inv, NEW r \in PageRequests, AnswerRefresh(r)
  PROVE  Inv'
<1> DEFINE c == request[r].cookie
           t == server.last + 1
<1>1. /\ request[r].at = "refresh"
      /\ UNCHANGED <<store, isRefreshing, pendingQueue, leaving, cookie, unheard>>
  BY DEF AnswerRefresh
<1>2. request[r] \in Request /\ c \in 0..MaxTokens
  BY InvIs, PageTypes
<1>3. CASE c \in server.open
  <2> DEFINE z == Carrying(request[r], "renewed", t)
  <2>1. Issue(c) /\ request' = [request EXCEPT ![r] = z]
    BY <1>3 DEF AnswerRefresh, Carrying
  <2>2. c \in Tokens
    BY <1>3, InvIs, ServerFields
  <2>3. /\ t \in Tokens /\ t # 0 /\ server'.last = t /\ server'.open = server.open \cup {c}
        /\ server'.of[t] = c
        /\ \A u \in Tokens : u # t => server'.of[u] = server.of[u]
        /\ server' \in [open : SUBSET Tokens, live : SUBSET Tokens,
                        of : [Tokens -> 0..MaxTokens], last : 0..MaxTokens]
    BY <2>1, <2>2, InvIs, IssueIs
  <2>4. t \in 0..MaxTokens /\ server.last \in Nat /\ server.last < t /\ server.last \in 0..MaxTokens
    BY <2>3, InvIs, ServerFields, BrowserAssumption DEF Tokens
  <2>5. /\ z \in Request /\ z.at = "renewed" /\ z.token = t /\ z.cookie = c
    <3> HIDE DEF t
    <3>1. "renewed" \in Places
      BY DEF Places
    <3> QED BY <1>2, <2>4, <3>1, RequestSent
  <2> HIDE DEF z, t
  <2>6. /\ request' \in [PageRequests -> Request] /\ request'[r] = z
        /\ \A q \in PageRequests : q # r => request'[q] = request[q]
    BY <2>1, <2>5, InvIs, OneMoves
  <2>7. BrowserTypeOK'
    BY <1>1, <2>3, <2>6, InvIs, Zenon DEF BrowserTypeOK, Request
  <2>8. FlightShape' /\ QueueShape' /\ Refreshers' = Refreshers
    <3>1. \A q \in PageRequests :
             /\ request'[q].at \in {"refresh", "renewed", "denied"}
                  <=> request[q].at \in {"refresh", "renewed", "denied"}
             /\ request'[q].at = "queued" <=> request[q].at = "queued"
      BY <1>1, <2>5, <2>6
    <3> QED BY <3>1, <1>1, InvIs, FlightStays
  <2>9. LeavingShape'
    BY <1>1, <2>8, InvIs DEF LeavingShape
  <2>10. \A n \in 0..MaxTokens : n <= server.last => n <= t /\ n # t
    BY <2>4
  <2>11. \A q \in PageRequests :
           /\ request[q].token \in 0..MaxTokens /\ request[q].token <= server.last
           /\ request[q].cookie \in 0..MaxTokens /\ request[q].cookie <= server.last
           /\ request[q].at \in {"sent", "renewed"} => request[q].token # 0
    BY InvIs, PageTypes DEF TokenShape
  <2>12. \A n \in 0..MaxTokens : n # 0 => n \in Tokens
    BY BrowserAssumption DEF Tokens
  <2>13. \A q \in PageRequests :
           /\ request'[q].token <= t /\ request'[q].cookie <= t
           /\ request'[q].at \in {"sent", "renewed"} => request'[q].token # 0
           /\ request'[q].at = "renewed" => server'.of[request'[q].token] = request'[q].cookie
    <3> SUFFICES ASSUME NEW q \in PageRequests
                 PROVE  /\ request'[q].token <= t /\ request'[q].cookie <= t
                        /\ request'[q].at \in {"sent", "renewed"} => request'[q].token # 0
                        /\ request'[q].at = "renewed" =>
                             server'.of[request'[q].token] = request'[q].cookie
      OBVIOUS
    <3>1. CASE q = r
      BY <3>1, <2>3, <2>4, <2>5, <2>6, <2>10, <2>11
    <3>2. CASE q # r
      <4>1. request[q].at = "renewed" => server.of[request[q].token] = request[q].cookie
        BY InvIs DEF TokenShape
      <4> QED BY <3>2, <4>1, <2>3, <2>6, <2>10, <2>11, <2>12
    <3> QED BY <3>1, <3>2
  <2>14. /\ store.token <= t /\ cookie <= t
         /\ \A s \in server'.open : s <= t
         /\ \A u \in Tokens : server'.of[u] <= t
    <3>1. /\ store.token \in 0..MaxTokens /\ store.token <= server.last
          /\ cookie \in 0..MaxTokens /\ cookie <= server.last
      BY InvIs, PageTypes DEF TokenShape
    <3>2. \A s \in server.open : s \in 0..MaxTokens /\ s <= server.last
      BY InvIs, ServerFields DEF TokenShape, Tokens
    <3>3. \A u \in Tokens : server.of[u] \in 0..MaxTokens /\ server.of[u] <= server.last
      BY InvIs, ServerFields DEF TokenShape
    <3> QED BY <3>1, <3>2, <3>3, <2>3, <2>10, <1>3
  <2>15. TokenShape'
    BY <2>3, <2>13, <2>14, <1>1, InvIs DEF TokenShape, SessionHasToken
  <2>16. Reachable' \subseteq Reachable
    <3> SUFFICES ASSUME NEW s \in Reachable' PROVE s \in Reachable
      OBVIOUS
    <3>1. s \in server.open
      BY <1>3, <2>3 DEF Reachable
    <3>2. CASE store.token # 0 /\ (server'.of[store.token] = s \/ cookie = s)
      <4>1. store.token \in Tokens /\ store.token # t
        BY <3>2, <2>10, <2>12, InvIs, PageTypes DEF TokenShape
      <4> QED BY <3>1, <3>2, <4>1, <2>3 DEF Reachable
    <3>3. CASE \E q \in PageRequests :
                 request'[q].at \in {"refresh", "renewed"} /\ request'[q].cookie = s
      <4>1. \E q \in PageRequests :
                 request[q].at \in {"refresh", "renewed"} /\ request[q].cookie = s
        BY <3>3, <2>5, <2>6, <1>1
      <4> QED BY <3>1, <4>1 DEF Reachable
    <3>4. CASE \E q \in Logouts : request'[q].at = "sent" /\ server'.of[request'[q].token] = s
      <4>1. PICK q \in Logouts : request'[q].at = "sent" /\ server'.of[request'[q].token] = s
        BY <3>4
      <4>2. q # r /\ request'[q] = request[q] /\ q \in PageRequests
        BY <4>1, <2>5, <2>6, BrowserAssumption
      <4>3. request[q].token \in Tokens /\ request[q].token # t
        BY <4>1, <4>2, <2>10, <2>11, <2>12
      <4> QED BY <3>1, <4>1, <4>2, <4>3, <2>3 DEF Reachable
    <3> QED BY <3>2, <3>3, <3>4, <1>1 DEF Reachable
  <2>17. Unread' \subseteq Unread
    BY <2>5, <2>6, BrowserAssumption DEF Unread
  <2>18. ReachShape'
    BY <2>16, <2>17, <1>1, InvIs, ReachStays
  <2> QED BY <2>7, <2>8, <2>9, <2>15, <2>18 DEF Inv
<1>4. CASE c \notin server.open
  <2> DEFINE z == [request[r] EXCEPT !.at = "denied"]
  <2>1. request' = [request EXCEPT ![r] = z] /\ server' = server
    BY <1>4 DEF AnswerRefresh
  <2>2. /\ z \in Request /\ z.at = "denied" /\ z.token = request[r].token /\ z.cookie = c
    BY <1>2, RequestMoves DEF Places
  <2> HIDE DEF z
  <2> QED BY <2>1, <2>2, <1>1, DenyStep
<1> QED BY <1>3, <1>4

-----------------------------------------------------------------------------
(* The page's steps.                                                       *)

LEMMA SignInStep ==
  ASSUME Inv, SignIn
  PROVE  Inv'
<1> DEFINE t == server.last + 1
<1>1. /\ ~store.auth /\ ~leaving /\ Issue(t)
      /\ store' = [token |-> t, auth |-> TRUE] /\ cookie' = t
      /\ UNCHANGED <<isRefreshing, pendingQueue, request, leaving, unheard>>
  BY DEF SignIn
<1>2. t \in Tokens
  BY <1>1 DEF Issue
<1>3. /\ t # 0 /\ server'.last = t /\ server'.open = server.open \cup {t}
      /\ server'.of[t] = t
      /\ \A u \in Tokens : u # t => server'.of[u] = server.of[u]
      /\ server' \in [open : SUBSET Tokens, live : SUBSET Tokens,
                      of : [Tokens -> 0..MaxTokens], last : 0..MaxTokens]
  BY <1>1, <1>2, InvIs, IssueIs
<1>4. t \in 0..MaxTokens /\ server.last \in Nat /\ server.last < t /\ server.last \in 0..MaxTokens
  BY <1>2, InvIs, ServerFields, BrowserAssumption DEF Tokens
<1> HIDE DEF t
<1>5. store'.token = t /\ store'.auth /\ store' \in [token : 0..MaxTokens, auth : BOOLEAN]
  BY <1>1, <1>4, Zenon
<1>6. BrowserTypeOK'
  BY <1>1, <1>3, <1>4, <1>5, InvIs, Zenon DEF BrowserTypeOK
<1>7. FlightShape' /\ QueueShape' /\ Refreshers' = Refreshers
  BY <1>1, InvIs, FlightStays
<1>8. LeavingShape'
  BY <1>1 DEF LeavingShape
<1>9. \A n \in 0..MaxTokens : n <= server.last => n <= t /\ n # t
  BY <1>4
<1>10. \A q \in PageRequests :
         /\ request[q].token \in 0..MaxTokens /\ request[q].token <= server.last
         /\ request[q].cookie \in 0..MaxTokens /\ request[q].cookie <= server.last
         /\ request[q].at \in {"sent", "renewed"} => request[q].token # 0
         /\ request[q].at = "renewed" => server.of[request[q].token] = request[q].cookie
  BY InvIs, PageTypes DEF TokenShape
<1>11. \A n \in 0..MaxTokens : n # 0 => n \in Tokens
  BY BrowserAssumption DEF Tokens
<1>12. \A s \in server.open : s \in 0..MaxTokens /\ s <= server.last
  BY InvIs, ServerFields DEF TokenShape, Tokens
<1>13. \A u \in Tokens : server.of[u] \in 0..MaxTokens /\ server.of[u] <= server.last
  BY InvIs, ServerFields DEF TokenShape
<1>14. /\ t <= t
       /\ \A s \in server'.open : s <= t
       /\ \A u \in Tokens : server'.of[u] <= t
  BY <1>3, <1>4, <1>9, <1>12, <1>13
<1>15. \A q \in PageRequests :
         /\ request[q].token <= t /\ request[q].cookie <= t
         /\ request[q].at = "renewed" => server'.of[request[q].token] = request[q].cookie
  BY <1>3, <1>9, <1>10, <1>11
<1>16. TokenShape'
  BY <1>1, <1>3, <1>5, <1>10, <1>14, <1>15 DEF TokenShape, SessionHasToken
<1>17. ReachShape'
  <2> SUFFICES ASSUME ~unheard
               PROVE  Reachable' \subseteq {t} /\ Unread' = {}
    BY <1>1, <1>5 DEF ReachShape
  <2>1. Reachable = {} /\ Unread = {}
    BY <1>1, InvIs DEF ReachShape
  <2>2. ASSUME NEW s \in Reachable', s # t PROVE FALSE
    <3>1. s \in server.open /\ s \notin Reachable
      BY <2>1, <2>2, <1>3 DEF Reachable
    <3>2. \A q \in Logouts : request[q].at = "sent" =>
            server'.of[request[q].token] = server.of[request[q].token]
      BY <1>3, <1>9, <1>10, <1>11, BrowserAssumption
    <3>3. s = server'.of[t] \/ s = t
      BY <2>2, <3>1, <3>2, <1>1, <1>5 DEF Reachable
    <3> QED BY <2>2, <3>3, <1>3
  <2>3. Unread' = {}
    BY <2>1, <1>1 DEF Unread
  <2> QED BY <2>2, <2>3
<1> QED BY <1>6, <1>7, <1>8, <1>16, <1>17 DEF Inv

LEMMA FireStep ==
  ASSUME Inv, NEW r \in PageRequests, Fire(r)
  PROVE  Inv'
<1> DEFINE z == Carrying(request[r], "sent", store.token)
<1>1. /\ request[r].at = "idle" /\ store.auth /\ request' = Resend(request, r, store.token)
      /\ UNCHANGED <<store, isRefreshing, pendingQueue, leaving, cookie, server, unheard>>
  BY DEF Fire
<1>2. /\ request \in [PageRequests -> Request] /\ request[r] \in Request
      /\ store.token \in 0..MaxTokens
  BY InvIs, PageTypes
<1>3. request' = [request EXCEPT ![r] = z]
  BY <1>1, <1>2 DEF Resend, Carrying
<1>4. /\ z \in Request /\ z.at = "sent" /\ z.token = store.token
      /\ z.cookie = request[r].cookie
  <2>1. "sent" \in Places
    BY DEF Places
  <2> QED BY <1>2, <2>1, RequestSent
<1> HIDE DEF z
<1>5. /\ request' \in [PageRequests -> Request] /\ request'[r] = z
      /\ \A q \in PageRequests : q # r => request'[q] = request[q]
  BY <1>3, <1>4, InvIs, OneMoves
<1>6. store.token # 0 /\ store.token <= server.last
  BY <1>1, InvIs DEF TokenShape, SessionHasToken
<1>7. BrowserTypeOK'
  BY <1>1, <1>5, InvIs, Zenon DEF BrowserTypeOK, Request
<1>8. FlightShape' /\ QueueShape' /\ Refreshers' = Refreshers
  <2>1. \A q \in PageRequests :
           /\ request'[q].at \in {"refresh", "renewed", "denied"}
                <=> request[q].at \in {"refresh", "renewed", "denied"}
           /\ request'[q].at = "queued" <=> request[q].at = "queued"
    BY <1>1, <1>4, <1>5
  <2> QED BY <2>1, <1>1, InvIs, FlightStays
<1>9. LeavingShape'
  BY <1>1, <1>8, InvIs DEF LeavingShape
<1>10. TokenShape'
  BY <1>1, <1>4, <1>5, <1>6, InvIs DEF TokenShape, SessionHasToken
<1>11. Reachable' \subseteq Reachable
  BY <1>1, <1>4, <1>5, <1>6, BrowserAssumption DEF Reachable
<1>12. Unread' \subseteq Unread
  BY <1>4, <1>5, BrowserAssumption DEF Unread
<1>13. ReachShape'
  BY <1>1, <1>11, <1>12, InvIs, ReachStays
<1> QED BY <1>7, <1>8, <1>9, <1>10, <1>13 DEF Inv

\* A request is over, with or without success.
LEMMA SettleStep ==
  ASSUME Inv, NEW r \in PageRequests, request[r].at \in {"sent", "ok", "refused"},
         NEW p \in Settled, request' = [request EXCEPT ![r] = [request[r] EXCEPT !.at = p]],
         SettleLogouts({r}), unheard' \in BOOLEAN, ~unheard' => ~unheard,
         r \in Logouts => unheard' \/ request[r].at = "ok",
         UNCHANGED <<isRefreshing, pendingQueue, leaving, cookie, server>>
  PROVE  Inv'
<1> DEFINE z == [request[r] EXCEPT !.at = p]
<1>1. request[r] \in Request /\ p \in Places
  BY InvIs, PageTypes DEF Settled, Places
<1>2. /\ z \in Request /\ z.at = p /\ z.token = request[r].token /\ z.cookie = request[r].cookie
  BY <1>1, RequestMoves
<1> HIDE DEF z
<1>3. /\ request' \in [PageRequests -> Request] /\ request'[r] = z
      /\ \A q \in PageRequests : q # r => request'[q] = request[q]
  BY <1>2, InvIs, OneMoves DEF z
<1>4. /\ r \in Logouts => store' = SignedOff
      /\ r \notin Logouts => store' = store
  BY DEF SettleLogouts
<1>5. store' \in [token : 0..MaxTokens, auth : BOOLEAN] /\ cookie' \in 0..MaxTokens
  BY <1>4, OffFields, InvIs, PageTypes, BrowserAssumption
<1>6. BrowserTypeOK'
  BY <1>3, <1>5, InvIs, Zenon DEF BrowserTypeOK, Request
<1>7. FlightShape' /\ QueueShape' /\ Refreshers' = Refreshers
  <2>1. \A q \in PageRequests :
           /\ request'[q].at \in {"refresh", "renewed", "denied"}
                <=> request[q].at \in {"refresh", "renewed", "denied"}
           /\ request'[q].at = "queued" <=> request[q].at = "queued"
    BY <1>2, <1>3 DEF Settled
  <2> QED BY <2>1, InvIs, FlightStays
<1>8. LeavingShape'
  BY <1>4, <1>7, InvIs DEF LeavingShape
<1>9. TokenShape'
  <2>1. 0 <= server.last /\ cookie' <= server.last
    BY InvIs, ServerFields, BrowserAssumption DEF TokenShape
  <2>2. store'.token <= server.last /\ (store'.auth => store'.token # 0)
    BY <2>1, <1>4, OffFields, InvIs DEF TokenShape, SessionHasToken
  <2> QED BY <2>1, <2>2, <1>2, <1>3, InvIs DEF TokenShape, SessionHasToken, Settled
<1>10. Reachable' \subseteq Reachable
  <2>1. 0 \notin server.open
    BY InvIs, ServerFields, BrowserAssumption DEF Tokens
  <2>2. store'.token # 0 => store' = store
    BY <1>4, OffFields
  <2> QED BY <2>1, <2>2, <1>2, <1>3, BrowserAssumption DEF Reachable, Settled
<1>11. Unread' \subseteq Unread \ {r}
  BY <1>2, <1>3, BrowserAssumption DEF Unread, Settled
<1>12. ReachShape'
  <2>1. CASE r \notin Logouts
    BY <2>1, <1>4, <1>10, <1>11, InvIs, ReachStays
  <2>2. CASE r \in Logouts
    <3> SUFFICES ASSUME ~leaving, ~unheard'
                 PROVE  Reachable' = {} /\ Unread' = {}
      BY DEF ReachShape
    <3>1. r \in Unread
      BY <2>2 DEF Unread
    <3>2. Reachable = {} /\ \A b \in Unread : b = r
      BY <3>1, InvIs DEF ReachShape
    <3> QED BY <3>2, <1>10, <1>11
  <2> QED BY <2>1, <2>2
<1> QED BY <1>6, <1>7, <1>8, <1>9, <1>12 DEF Inv

LEMMA SucceedStep ==
  ASSUME Inv, NEW r \in PageRequests, Succeed(r)
  PROVE  Inv'
<1>1. /\ request[r].at = "ok" /\ SettleLogouts({r})
      /\ request' = [request EXCEPT ![r] = [request[r] EXCEPT !.at = "done"]]
      /\ UNCHANGED <<isRefreshing, pendingQueue, leaving, cookie, server, unheard>>
  BY DEF Succeed
<1>2. "done" \in Settled /\ unheard \in BOOLEAN
  BY InvIs, PageTypes DEF Settled
<1> QED BY <1>1, <1>2, SettleStep

LEMMA FailsStep ==
  ASSUME Inv, NEW r \in PageRequests, Reject(r) \/ RejectUnauthorised(r)
  PROVE  Inv'
<1>1. /\ request[r].at \in {"sent", "ok", "refused"} /\ SettleLogouts({r})
      /\ request' = [request EXCEPT ![r] = [request[r] EXCEPT !.at = "failed"]]
      /\ NoteFailures({r})
      /\ UNCHANGED <<isRefreshing, pendingQueue, leaving, cookie, server>>
  BY DEF Reject, RejectUnauthorised, Fails
<1>2. unheard \in BOOLEAN
  BY InvIs, PageTypes
<1>3. /\ unheard' \in BOOLEAN /\ (~unheard' => ~unheard) /\ (r \in Logouts => unheard')
  <2>1. r \in Logouts => {r} \cap Logouts # {}
    OBVIOUS
  <2>2. unheard' = (unheard \/ {r} \cap Logouts # {})
    BY <1>1 DEF NoteFailures
  <2> QED BY <2>1, <2>2, <1>2, Zenon
<1>4. "failed" \in Settled
  BY DEF Settled
<1> QED BY <1>1, <1>3, <1>4, SettleStep

LEMMA EnqueueStep ==
  ASSUME Inv, NEW r \in PageRequests, Enqueue(r)
  PROVE  Inv'
<1> DEFINE z == [request[r] EXCEPT !.at = "queued"]
<1>1. /\ request[r].at = "refused" /\ isRefreshing /\ request' = [request EXCEPT ![r] = z]
      /\ pendingQueue' = Append(pendingQueue, r)
      /\ UNCHANGED <<store, isRefreshing, leaving, cookie, server, unheard>>
  BY DEF Enqueue, Refreshable
<1>2. /\ z \in Request /\ z.at = "queued" /\ z.token = request[r].token
      /\ z.cookie = request[r].cookie
  BY InvIs, PageTypes, RequestMoves DEF Places
<1> HIDE DEF z
<1>3. /\ request' \in [PageRequests -> Request] /\ request'[r] = z
      /\ \A q \in PageRequests : q # r => request'[q] = request[q]
  BY <1>1, <1>2, InvIs, OneMoves
<1>4. pendingQueue' \in Seq(PageRequests)
  BY <1>1, InvIs, PageTypes
<1>5. BrowserTypeOK'
  BY <1>1, <1>3, <1>4, InvIs, Zenon DEF BrowserTypeOK, Request
<1>6. Refreshers' = Refreshers
  BY <1>1, <1>2, <1>3 DEF Refreshers
<1>7. FlightShape'
  BY <1>1, <1>6, InvIs DEF FlightShape
<1>8. QueueShape'
  <2>1. /\ Queued = {q \in PageRequests : request[q].at = "queued"}
        /\ IsFiniteSet(Queued) /\ Len(pendingQueue) = Cardinality(Queued)
    BY InvIs DEF QueueShape
  <2>2. Queued' = Queued \cup {r}
    BY <1>1, InvIs, PageTypes DEF Queued
  <2>3. r \notin Queued
    BY <1>1, <2>1
  <2>4. IsFiniteSet(Queued') /\ Cardinality(Queued') = Cardinality(Queued) + 1
    BY <2>1, <2>2, <2>3, FS_AddElement
  <2>5. Len(pendingQueue') = Len(pendingQueue) + 1
    BY <1>1, InvIs, PageTypes
  <2>6. Queued' = {q \in PageRequests : request'[q].at = "queued"}
    BY <2>1, <2>2, <1>2, <1>3
  <2> QED BY <1>1, <2>1, <2>4, <2>5, <2>6 DEF QueueShape
<1>9. LeavingShape'
  BY <1>1, <1>6, InvIs DEF LeavingShape
<1>10. TokenShape'
  BY <1>1, <1>2, <1>3, InvIs DEF TokenShape, SessionHasToken
<1>11. Reachable' \subseteq Reachable
  BY <1>1, <1>2, <1>3, BrowserAssumption DEF Reachable
<1>12. Unread' \subseteq Unread
  BY <1>2, <1>3, BrowserAssumption DEF Unread
<1>13. ReachShape'
  BY <1>1, <1>11, <1>12, InvIs, ReachStays
<1> QED BY <1>5, <1>7, <1>8, <1>9, <1>10, <1>13 DEF Inv

\* Only a page that holds a token refreshes, so its cookie was within reach.
LEMMA StartRefreshStep ==
  ASSUME Inv, NEW r \in PageRequests, StartRefresh(r)
  PROVE  Inv'
<1> DEFINE z == Refreshing(request[r], cookie)
<1>1. /\ request[r].at = "refused" /\ ~isRefreshing /\ store.token # 0
      /\ request' = [request EXCEPT ![r] = z] /\ isRefreshing' = TRUE
      /\ UNCHANGED <<store, pendingQueue, leaving, cookie, server, unheard>>
  BY DEF StartRefresh, Refreshable, Refreshing
<1>2. /\ z \in Request /\ z.at = "refresh" /\ z.token = request[r].token
      /\ z.cookie = cookie
  BY InvIs, PageTypes, RequestRefreshes
<1> HIDE DEF z
<1>3. /\ request' \in [PageRequests -> Request] /\ request'[r] = z
      /\ \A q \in PageRequests : q # r => request'[q] = request[q]
  BY <1>1, <1>2, InvIs, OneMoves
<1>4. BrowserTypeOK'
  BY <1>1, <1>3, InvIs, Zenon DEF BrowserTypeOK, Request
<1>5. Refreshers = {}
  BY <1>1, InvIs DEF FlightShape
<1>6. Refreshers' = {r}
  BY <1>2, <1>3, <1>5 DEF Refreshers
<1>7. FlightShape'
  BY <1>1, <1>6 DEF FlightShape
<1>8. QueueShape'
  <2>1. Queued' = Queued
    BY <1>1 DEF Queued
  <2>2. {q \in PageRequests : request'[q].at = "queued"}
          = {q \in PageRequests : request[q].at = "queued"}
    BY <1>1, <1>2, <1>3
  <2> QED BY <1>1, <2>1, <2>2, InvIs DEF QueueShape
<1>9. ~leaving
  BY <1>1, OffFields, InvIs DEF LeavingShape
<1>10. LeavingShape'
  BY <1>1, <1>9 DEF LeavingShape
<1>11. TokenShape'
  BY <1>1, <1>2, <1>3, InvIs DEF TokenShape, SessionHasToken
<1>12. Reachable' \subseteq Reachable
  BY <1>1, <1>2, <1>3, BrowserAssumption DEF Reachable
<1>13. Unread' \subseteq Unread
  BY <1>2, <1>3, BrowserAssumption DEF Unread
<1>14. ReachShape'
  BY <1>1, <1>12, <1>13, InvIs, ReachStays
<1> QED BY <1>4, <1>7, <1>8, <1>10, <1>11, <1>14 DEF Inv

\* The requests that waited, and the one that they waited for.
LEMMA TheWaiting ==
  ASSUME Inv, NEW r \in PageRequests, r \in Refreshers
  PROVE  /\ Queued \cup {r} \subseteq PageRequests
         /\ \A q \in PageRequests : q \in Queued <=> request[q].at = "queued"
         /\ \A q \in PageRequests :
              request[q].at \in {"queued", "refresh", "renewed", "denied"} <=> q \in Queued \cup {r}
         /\ ~leaving
  BY InvIs DEF QueueShape, FlightShape, LeavingShape, Refreshers

LEMMA EmptyQueue == <<>> \in Seq(PageRequests)
  OBVIOUS

\* The token that a refresh brings is of a session that was within reach, so a
\* sign-out meanwhile has ended it.
LEMMA RefreshSucceedsStep ==
  ASSUME Inv, NEW r \in PageRequests, RefreshSucceeds(r)
  PROVE  Inv'
<1> DEFINE t == request[r].token
           ended == Queued \cup {r}
<1>1. /\ request[r].at = "renewed" /\ store' = [store EXCEPT !.token = t]
      /\ cookie' = request[r].cookie /\ pendingQueue' = <<>> /\ isRefreshing' = FALSE
      /\ request' = [q \in PageRequests |->
           IF q \in ended THEN Resend(request, q, t)[q] ELSE request[q]]
      /\ UNCHANGED <<leaving, server, unheard>>
  BY Zenon DEF RefreshSucceeds
<1>2. /\ request \in [PageRequests -> Request] /\ t \in 0..MaxTokens
      /\ request[r].cookie \in 0..MaxTokens
      /\ \A q \in PageRequests : request[q] \in Request
  BY InvIs, PageTypes
<1>3. t # 0 /\ t <= server.last /\ request[r].cookie <= server.last
      /\ server.of[t] = request[r].cookie
  BY <1>1, InvIs DEF TokenShape
<1>4. /\ ended \subseteq PageRequests
      /\ \A q \in PageRequests : q \in Queued <=> request[q].at = "queued"
      /\ \A q \in PageRequests :
           request[q].at \in {"queued", "refresh", "renewed", "denied"} <=> q \in ended
      /\ ~leaving
  <2>1. r \in Refreshers
    BY <1>1 DEF Refreshers
  <2> QED BY <2>1, TheWaiting
<1> HIDE DEF t, ended
<1>5. \A q \in PageRequests :
        request'[q] = IF q \in ended THEN Carrying(request[q], "sent", t) ELSE request[q]
  BY <1>1, <1>2, ResendIs
<1>6. "sent" \in Places
  BY DEF Places
<1>7. \A q \in PageRequests :
        /\ request'[q] \in Request
        /\ q \in ended => /\ request'[q].at = "sent" /\ request'[q].token = t
                          /\ request'[q].cookie = request[q].cookie
        /\ q \notin ended => request'[q] = request[q]
  BY <1>2, <1>5, <1>6, RequestSent
<1>8. request' \in [PageRequests -> Request]
  BY <1>1, <1>7
<1>9. store' \in [token : 0..MaxTokens, auth : BOOLEAN] /\ store'.token = t
      /\ store'.auth = store.auth
  BY <1>1, <1>2, InvIs, PageTypes, Zenon
<1>10. BrowserTypeOK'
  <2>1. pendingQueue' \in Seq(PageRequests)
    BY <1>1, EmptyQueue
  <2>2. isRefreshing' \in BOOLEAN
    BY <1>1, Zenon
  <2> QED BY <1>1, <1>2, <1>8, <1>9, <2>1, <2>2, InvIs, Zenon DEF BrowserTypeOK, Request
<1>11. FlightShape' /\ QueueShape' /\ Refreshers' = {}
  <2>1. \A q \in PageRequests : request'[q].at \notin {"queued", "refresh", "renewed", "denied"}
    BY <1>4, <1>7
  <2> QED BY <1>1, <2>1, FlightEnds
<1>12. LeavingShape'
  BY <1>1, <1>4 DEF LeavingShape
<1>13. TokenShape'
  <2>1. \A q \in PageRequests :
          /\ request'[q].token <= server.last /\ request'[q].cookie <= server.last
          /\ request'[q].at \in {"sent", "renewed"} => request'[q].token # 0
          /\ request'[q].at = "renewed" => server.of[request'[q].token] = request'[q].cookie
    BY <1>3, <1>7, InvIs DEF TokenShape
  <2> QED BY <2>1, <1>1, <1>3, <1>9, InvIs DEF TokenShape, SessionHasToken
<1>14. Reachable' \subseteq Reachable
  <2> SUFFICES ASSUME NEW s \in Reachable' PROVE s \in Reachable
    OBVIOUS
  <2>1. s \in server.open
    BY <1>1 DEF Reachable
  <2>2. s = request[r].cookie => s \in Reachable
    BY <2>1, <1>1 DEF Reachable
  <2>3. CASE \E q \in PageRequests :
               request'[q].at \in {"refresh", "renewed"} /\ request'[q].cookie = s
    BY <2>3, <1>4, <1>7
  <2>4. CASE \E q \in Logouts : request'[q].at = "sent" /\ server.of[request'[q].token] = s
    <3>1. PICK q \in Logouts : request'[q].at = "sent" /\ server.of[request'[q].token] = s
      BY <2>4
    <3>2. q \in PageRequests
      BY BrowserAssumption
    <3>3. CASE q \in ended
      BY <3>1, <3>2, <3>3, <1>3, <1>7, <2>2
    <3>4. CASE q \notin ended
      BY <3>1, <3>2, <3>4, <1>7, <2>1 DEF Reachable
    <3> QED BY <3>3, <3>4
  <2>5. CASE server.of[t] = s \/ request[r].cookie = s
    BY <2>5, <2>2, <1>3
  <2> QED BY <2>3, <2>4, <2>5, <1>1, <1>9 DEF Reachable
<1>15. Unread' \subseteq Unread
  BY <1>7, BrowserAssumption DEF Unread
<1>16. ReachShape'
  BY <1>1, <1>9, <1>14, <1>15, InvIs, ReachStays
<1> QED BY <1>10, <1>11, <1>12, <1>13, <1>16 DEF Inv

\* A step after which the page holds nothing and nothing of it is out.
LEMMA GivenUp ==
  ASSUME Inv, NEW ended \in SUBSET PageRequests,
         store' = SignedOff, pendingQueue' = <<>>, isRefreshing' = FALSE,
         request' = [q \in PageRequests |->
           IF q \in ended THEN [request[q] EXCEPT !.at = "failed"] ELSE request[q]],
         \A q \in PageRequests :
           request[q].at \in {"queued", "refresh", "renewed", "denied"} => q \in ended,
         leaving' \in BOOLEAN, unheard' \in BOOLEAN, UNCHANGED <<cookie, server>>
  PROVE  /\ BrowserTypeOK' /\ FlightShape' /\ QueueShape' /\ LeavingShape' /\ TokenShape'
         /\ \A q \in PageRequests : IF q \in ended THEN request'[q].at = "failed"
                                    ELSE request'[q] = request[q]
<1>1. "failed" \in Places
  BY DEF Places
<1>2. \A q \in PageRequests : request[q] \in Request
  BY InvIs, PageTypes
<1>3. \A q \in PageRequests :
        request'[q] = IF q \in ended THEN [request[q] EXCEPT !.at = "failed"] ELSE request[q]
  OBVIOUS
<1>4. \A q \in PageRequests :
        /\ request'[q] \in Request
        /\ q \in ended => /\ request'[q].at = "failed" /\ request'[q].token = request[q].token
                          /\ request'[q].cookie = request[q].cookie
        /\ q \notin ended => request'[q] = request[q]
  <2> SUFFICES ASSUME NEW q \in PageRequests
               PROVE  /\ request'[q] \in Request
                      /\ q \in ended => /\ request'[q].at = "failed"
                                        /\ request'[q].token = request[q].token
                                        /\ request'[q].cookie = request[q].cookie
                      /\ q \notin ended => request'[q] = request[q]
    OBVIOUS
  <2>1. CASE q \in ended
    <3> DEFINE z == [request[q] EXCEPT !.at = "failed"]
    <3>1. request'[q] = z
      BY <1>3, <2>1
    <3>2. /\ z \in Request /\ z.at = "failed" /\ z.token = request[q].token
          /\ z.cookie = request[q].cookie
      BY <1>1, <1>2, RequestMoves
    <3> HIDE DEF z
    <3> QED BY <2>1, <3>1, <3>2
  <2>2. CASE q \notin ended
    BY <1>2, <1>3, <2>2
  <2> QED BY <2>1, <2>2
<1>5. request' \in [PageRequests -> Request]
  BY <1>4
<1>6. BrowserTypeOK'
  <2>1. pendingQueue' \in Seq(PageRequests)
    BY EmptyQueue
  <2>2. isRefreshing' \in BOOLEAN
    BY Zenon
  <2>3. store' \in [token : 0..MaxTokens, auth : BOOLEAN]
    BY OffFields
  <2> QED BY <1>5, <2>1, <2>2, <2>3, InvIs, Zenon DEF BrowserTypeOK, Request
<1>7. FlightShape' /\ QueueShape' /\ Refreshers' = {}
  <2>1. \A q \in PageRequests : request'[q].at \notin {"queued", "refresh", "renewed", "denied"}
    BY <1>4
  <2> QED BY <2>1, FlightEnds
<1>8. LeavingShape'
  BY <1>7 DEF LeavingShape, SignedOff
<1>9. TokenShape'
  <2>1. store'.token <= server.last /\ ~store'.auth
    BY OffFields, InvIs, ServerFields, BrowserAssumption
  <2> QED BY <2>1, <1>4, InvIs DEF TokenShape, SessionHasToken
<1> QED BY <1>4, <1>6, <1>7, <1>8, <1>9

LEMMA RefreshFailsStep ==
  ASSUME Inv, NEW r \in PageRequests, RefreshFails(r)
  PROVE  Inv'
<1> DEFINE ended == Queued \cup {r}
<1>1. /\ request[r].at = "denied" /\ store' = SignedOff /\ pendingQueue' = <<>>
      /\ request' = [q \in PageRequests |->
           IF q \in ended THEN [request[q] EXCEPT !.at = "failed"] ELSE request[q]]
      /\ isRefreshing' = FALSE /\ leaving' = TRUE /\ UNCHANGED <<cookie, server>>
  BY Zenon DEF RefreshFails
<1>2. unheard' \in BOOLEAN /\ leaving' \in BOOLEAN
  BY <1>1, Zenon DEF RefreshFails, NoteFailures
<1>3. /\ ended \subseteq PageRequests
      /\ \A q \in PageRequests :
           request[q].at \in {"queued", "refresh", "renewed", "denied"} => q \in ended
  <2>1. r \in Refreshers
    BY <1>1 DEF Refreshers
  <2> QED BY <2>1, TheWaiting
<1> HIDE DEF ended
<1>4. BrowserTypeOK' /\ FlightShape' /\ QueueShape' /\ LeavingShape' /\ TokenShape'
  BY <1>1, <1>2, <1>3, GivenUp
<1>5. ReachShape'
  BY <1>1 DEF ReachShape
<1> QED BY <1>4, <1>5 DEF Inv

LEMMA ReloadStep ==
  ASSUME Inv, Reload
  PROVE  Inv'
<1> DEFINE ended == {q \in PageRequests : request[q].at \notin Settled \cup {"idle"}}
<1>1. /\ store' = SignedOff /\ pendingQueue' = <<>> /\ isRefreshing' = FALSE
      /\ request' = [q \in PageRequests |->
           IF request[q].at \in Settled \cup {"idle"} THEN request[q]
           ELSE [request[q] EXCEPT !.at = "failed"]]
      /\ leaving' = FALSE /\ unheard' = FALSE /\ UNCHANGED <<cookie, server>>
  BY Zenon DEF Reload
<1>2. request' = [q \in PageRequests |->
           IF q \in ended THEN [request[q] EXCEPT !.at = "failed"] ELSE request[q]]
  BY <1>1
<1>3. unheard' \in BOOLEAN /\ leaving' \in BOOLEAN
  BY <1>1, Zenon
<1>4. /\ ended \subseteq PageRequests
      /\ \A q \in PageRequests :
           request[q].at \in {"queued", "refresh", "renewed", "denied"} => q \in ended
  BY DEF Settled
<1>5. \A q \in PageRequests : q \notin ended => request[q].at \in Settled \cup {"idle"}
  OBVIOUS
<1> HIDE DEF ended
<1>6. /\ BrowserTypeOK' /\ FlightShape' /\ QueueShape' /\ LeavingShape' /\ TokenShape'
      /\ \A q \in PageRequests : IF q \in ended THEN request'[q].at = "failed"
                                 ELSE request'[q] = request[q]
  BY <1>1, <1>2, <1>3, <1>4, GivenUp
<1>7. \A q \in PageRequests : request'[q].at \in Settled \cup {"idle"}
  BY <1>5, <1>6 DEF Settled
<1>8. Reachable' = {} /\ Unread' = {}
  BY <1>1, <1>7, OffFields, BrowserAssumption DEF Reachable, Unread, Settled
<1>9. ReachShape'
  BY <1>8 DEF ReachShape
<1> QED BY <1>6, <1>9 DEF Inv

-----------------------------------------------------------------------------
(* The theorem.                                                            *)

LEMMA Initial ==
  ASSUME BrowserInit
  PROVE  Inv
<1> DEFINE z == [at |-> "idle", token |-> 0, cookie |-> 0, retry |-> FALSE]
<1>1. 0 \in 0..MaxTokens /\ "idle" \in Places
  BY BrowserAssumption DEF Places
<1>2. z \in Request /\ z.at = "idle" /\ z.token = 0 /\ z.cookie = 0
  BY <1>1, Zenon DEF Request
<1>3. request = [r \in PageRequests |-> z]
  BY DEF BrowserInit
<1> HIDE DEF z
<1>4. /\ request \in [PageRequests -> Request]
      /\ \A r \in PageRequests : request[r].at = "idle" /\ request[r].token = 0 /\ request[r].cookie = 0
  BY <1>2, <1>3
<1>5. /\ store = SignedOff /\ isRefreshing = FALSE /\ pendingQueue = <<>> /\ leaving = FALSE
      /\ cookie = 0 /\ unheard = FALSE
  BY DEF BrowserInit
<1>6. /\ server.open = {} /\ server.live = {} /\ server.last = 0
      /\ server.of = [t \in Tokens |-> 0]
      /\ server \in [open : SUBSET Tokens, live : SUBSET Tokens,
                     of : [Tokens -> 0..MaxTokens], last : 0..MaxTokens]
  BY <1>1 DEF BrowserInit
<1>7. BrowserTypeOK
  <2>1. pendingQueue \in Seq(PageRequests)
    BY <1>5, EmptyQueue
  <2>2. isRefreshing \in BOOLEAN /\ leaving \in BOOLEAN /\ unheard \in BOOLEAN
    BY <1>5, Zenon
  <2>3. store \in [token : 0..MaxTokens, auth : BOOLEAN] /\ cookie \in 0..MaxTokens
    BY <1>1, <1>5, OffFields
  <2> QED BY <1>4, <1>6, <2>1, <2>2, <2>3, Zenon DEF BrowserTypeOK, Request
<1>8. FlightShape
  BY <1>4, <1>5 DEF FlightShape, Refreshers
<1>9. QueueShape
  <2>1. Queued = {}
    BY <1>5 DEF Queued
  <2> QED BY <1>4, <1>5, <2>1, FS_EmptySet DEF QueueShape
<1>10. LeavingShape
  BY <1>5 DEF LeavingShape
<1>11. TokenShape
  BY <1>4, <1>5, <1>6, OffFields DEF TokenShape, SessionHasToken
<1>12. Reachable = {} /\ Unread = {}
  BY <1>4, <1>6, BrowserAssumption DEF Reachable, Unread
<1>13. ReachShape
  BY <1>12 DEF ReachShape
<1> QED BY <1>7, <1>8, <1>9, <1>10, <1>11, <1>13 DEF Inv

LEMMA StillStep ==
  ASSUME Inv, UNCHANGED pageVars
  PROVE  Inv'
<1>1. server' \in [open : SUBSET server.open, live : SUBSET server.live,
                   of : {server.of}, last : {server.last}]
  BY InvIs DEF BrowserTypeOK, pageVars
<1> QED BY <1>1, ServerShrinks DEF pageVars

LEMMA InvStep ==
  ASSUME Inv, [BrowserNext]_pageVars
  PROVE  Inv'
<1>1. CASE Expire
  BY <1>1, ExpireStep
<1>2. CASE \E s \in Tokens : EndSession(s)
  BY <1>2, EndSessionStep
<1>3. CASE SignIn
  BY <1>3, SignInStep
<1>4. CASE Reload
  BY <1>4, ReloadStep
<1>5. ASSUME NEW r \in PageRequests,
             \/ Fire(r) \/ Answer(r) \/ AnswerRefresh(r) \/ LoseRefresh(r)
             \/ Reject(r) \/ Receive(r) \/ ReceiveRefresh(r)
      PROVE  Inv'
  <2>1. CASE Fire(r)
    BY <2>1, FireStep
  <2>2. CASE Answer(r)
    BY <2>2, AnswerStep
  <2>3. CASE AnswerRefresh(r)
    BY <2>3, AnswerRefreshStep
  <2>4. CASE LoseRefresh(r)
    BY <2>4, LoseRefreshStep
  <2>5. CASE Reject(r) \/ RejectUnauthorised(r)
    BY <2>5, FailsStep
  <2>6. CASE Succeed(r)
    BY <2>6, SucceedStep
  <2>7. CASE Enqueue(r)
    BY <2>7, EnqueueStep
  <2>8. CASE StartRefresh(r)
    BY <2>8, StartRefreshStep
  <2>9. CASE RefreshSucceeds(r)
    BY <2>9, RefreshSucceedsStep
  <2>10. CASE RefreshFails(r)
    BY <2>10, RefreshFailsStep
  <2> QED
    BY <1>5, <2>1, <2>2, <2>3, <2>4, <2>5, <2>6, <2>7, <2>8, <2>9, <2>10
    DEF Receive, ReceiveRefresh
<1>6. CASE UNCHANGED pageVars
  BY <1>6, StillStep
<1> QED BY <1>1, <1>2, <1>3, <1>4, <1>5, <1>6 DEF BrowserNext

LEMMA PageSafe ==
  ASSUME Inv
  PROVE  PageSound
<1>1. SingleFlight
  <2>1. CASE Refreshers = {}
    BY <2>1, FS_EmptySet DEF SingleFlight
  <2>2. CASE Refreshers # {}
    <3>1. PICK r \in Refreshers : TRUE
      BY <2>2
    <3>2. Refreshers = {r}
      BY <3>1, InvIs DEF FlightShape
    <3>3. Cardinality({r}) = 1
      BY FS_Singleton, Zenon
    <3> QED BY <3>2, <3>3 DEF SingleFlight
  <2> QED BY <2>1, <2>2
<1>2. QueueIsServed
  BY InvIs DEF QueueIsServed, QueueShape, FlightShape
<1>3. SessionHasToken
  BY InvIs DEF TokenShape
<1>4. SignedOffIsOff
  <2> SUFFICES ASSUME ~store.auth, ~unheard, Accepts(store.token)
               PROVE  FALSE
    BY DEF SignedOffIsOff
  <2>1. store.token # 0 /\ server.of[store.token] \in server.open
    BY InvIs, PageTypes, AcceptedToken
  <2>2. ~leaving
    BY <2>1, OffFields, InvIs DEF LeavingShape
  <2>3. Reachable = {}
    BY <2>2, InvIs DEF ReachShape
  <2> QED BY <2>1, <2>3 DEF Reachable
<1> QED BY <1>1, <1>2, <1>3, <1>4, InvIs DEF PageSound, BrowserSound

\* The response interceptor of the web client, with any number of requests and
\* sign-outs: however answers, refreshes, sign-outs and sign-ins overlap, at
\* most one refresh is out, whoever waits for it is in the queue once, and a
\* page that shows no session holds no token that the server accepts, unless a
\* sign-out failed since it was loaded.
THEOREM PageHolds == BrowserInit /\ [][BrowserNext]_pageVars => []PageSound
<1>1. BrowserInit => Inv
  BY Initial
<1>2. Inv /\ [BrowserNext]_pageVars => Inv'
  BY InvStep
<1>3. Inv => PageSound
  BY PageSafe
<1> QED BY <1>1, <1>2, <1>3, PTL
=============================================================================
