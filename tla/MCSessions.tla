----------------------------- MODULE MCSessions -----------------------------
(* Sessions, and the web client's view of one, for TLC.  Browser sees the  *)
(* server from outside, so the two share no state and are explored one at  *)
(* a time: `focus` is drawn in the initial state.                          *)
EXTENDS Sessions, Browser, TLC

CONSTANTS c1, c2, s1, s2, p1, p2, finance, management, t1, b1, l1, l2, r1, r2, o1

VARIABLE focus

MCCalls == {c1, c2}
MCSessionIds == {s1, s2}
MCPasswords == {p1, p2}
MCRoles == {finance, management}
MCLinks == {l1, l2}
MCResetTokens == {t1}
MCBackupCodes == {b1}
MCPageRequests == {r1, r2, o1}
MCLogouts == {o1}

\* A verified account, of which the bounds f are needed.
With(f) == [verified |-> TRUE, twoFactor |-> FALSE, refreshes |-> FALSE,
            budget |-> f @@ [k \in Kinds |-> 0]]

MCScenarios ==
  {With("wrong" :> 3), With("password" :> 2),
   [With("link" :> 2) EXCEPT !.verified = FALSE],
   [With(<< >>) EXCEPT !.refreshes = TRUE],
   [With("admin" :> 1) EXCEPT !.twoFactor = TRUE],
   [With("code" :> 3) EXCEPT !.twoFactor = TRUE],
   [With("password" :> 1) EXCEPT !.twoFactor = TRUE]}

MCInit ==
  /\ focus \in {"sessions", "browser"}
  /\ Init
  /\ BrowserInit
  /\ focus = "browser" => scenario = With("wrong" :> 3)

MCNext ==
  \/ /\ focus = "sessions"
     /\ Next
     /\ UNCHANGED <<focus, pageVars>>
  \/ /\ focus = "browser"
     /\ BrowserNext
     /\ UNCHANGED <<focus, vars>>

\* A call is answered or its failure reported, the page's callbacks run, and
\* the browser follows window.location.
Proceed(r) ==
  \/ Answer(r)
  \/ AnswerRefresh(r)
  \/ LoseRefresh(r)
  \/ Reject(r)
  \/ Receive(r)
  \/ ReceiveRefresh(r)

BrowserFairness ==
  /\ WF_pageVars(focus = "browser" /\ Reload)
  /\ \A r \in PageRequests : WF_pageVars(focus = "browser" /\ Proceed(r))

\* Fairness of Sessions asks nothing of the browser's behaviours, where no
\* call is ever made, nor BrowserFairness of the server's.
MCSpec ==
  /\ MCInit
  /\ [][MCNext]_<<focus, vars, pageVars>>
  /\ Fairness
  /\ BrowserFairness
=============================================================================
