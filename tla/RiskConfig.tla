----------------------------- MODULE RiskConfig -----------------------------
(***************************************************************************)
(* The weights of the risk factors: rows of risk_config, a copy in the     *)
(* memory of each server, and scoring runs.  A run checks once that the    *)
(* weights add up; then each factor asks for the weights again, in any     *)
(* order (Promise.all), and may find a copy that somebody dropped or       *)
(* reloaded in between.                                                    *)
(***************************************************************************)
EXTENDS Integers, FiniteSets, FiniteSetsExt

CONSTANTS
  Scorers,    \* servers
  Scorings,   \* scoreInvoice calls
  Factors,
  Weights,    \* values an administrator enters
  Defaults,   \* DEFAULTS
  Total,      \* what the weights must add up to: 1.0
  MaxUpdates, \* bound on the changes
  Empty,
  TheSum      \* the check of the sum, as a reader of the weights

ASSUME RiskConfigAssumption ==
  /\ Weights \subseteq Nat
  /\ Defaults \in [Factors -> Weights]
  /\ Factors # {}
  /\ TheSum \notin Factors
  /\ MaxUpdates \in Nat

VARIABLES
  weight,     \* risk_config
  copy,       \* cache of each server, Empty when null or past its TTL
  scoring,    \* the calls
  loading,    \* SELECTs under way: who asked, and the rows they saw
  updating,   \* servers between the UPDATE and the invalidation
  updates

riskVars == <<weight, copy, scoring, loading, updating, updates>>

Map == [Factors -> Weights]

RiskConfigTypeOK ==
  /\ weight \in Map
  /\ copy \in [Scorers -> Map \cup {Empty}]
  /\ scoring \in [Scorings ->
       [at : Scorers, op : {"idle", "sum", "factors", "refused"},
        used : UNION {[fs -> Weights] : fs \in SUBSET Factors}, reloaded : BOOLEAN]]
  /\ loading \subseteq [run : Scorings, reader : Factors \cup {TheSum}, rows : Map]
  /\ updating \subseteq Scorers
  /\ updates \in 0..MaxUpdates

RiskConfigInit ==
  /\ weight = Defaults
  /\ copy = [s \in Scorers |-> Empty]
  /\ scoring \in [Scorings ->
       [at : Scorers, op : {"idle"}, used : {<< >>}, reloaded : {FALSE}]]
  /\ loading = {}
  /\ updating = {}
  /\ updates = 0

Sum(w) == MapThenSumSet(LAMBDA f : w[f], DOMAIN w)

---------------------------------------------------------------------------
ScoreInvoice(r) ==
  /\ scoring[r].op = "idle"
  /\ scoring' = [scoring EXCEPT ![r].op = "sum"]
  /\ UNCHANGED <<weight, copy, loading, updating, updates>>

\* Who still has to read: the check, then every factor.
Asks(r, k) ==
  /\ \/ k = TheSum /\ scoring[r].op = "sum"
     \/ k \in Factors \ DOMAIN scoring[r].used /\ scoring[r].op = "factors"
  /\ \A l \in loading : l.run # r \/ l.reader # k

\* What a reader makes of the weights it got.
Read(call, k, w) ==
  IF k = TheSum
  THEN [call EXCEPT !.op = IF Sum(w) = Total THEN "factors" ELSE "refused"]
  ELSE [call EXCEPT !.used = [f \in DOMAIN @ \cup {k} |-> IF f = k THEN w[k] ELSE @[f]]]

\* getRiskWeights from the copy ...
GetRiskWeights(r, k) ==
  LET w == copy[scoring[r].at] IN
  /\ Asks(r, k)
  /\ w # Empty
  /\ scoring' = [scoring EXCEPT ![r] = Read(@, k, w)]
  /\ UNCHANGED <<weight, copy, loading, updating, updates>>

\* ... or from the table, or the defaults when the SELECT fails; ...
LoadRiskConfig(r, k, rows) ==
  /\ Asks(r, k)
  /\ copy[scoring[r].at] = Empty
  /\ rows \in {weight, Defaults}
  /\ loading' = loading \cup {[run |-> r, reader |-> k, rows |-> rows]}
  /\ UNCHANGED <<weight, copy, scoring, updating, updates>>

\* ... which becomes the server's copy, however old it is by then.
Loaded(l) ==
  LET s == scoring[l.run].at IN
  /\ l \in loading
  /\ loading' = loading \ {l}
  /\ copy' = [copy EXCEPT ![s] = l.rows]
  /\ scoring' = [r \in Scorings |->
       LET c == IF r = l.run THEN Read(scoring[r], l.reader, l.rows) ELSE scoring[r]
       IN IF scoring[r].at = s /\ scoring[r].op = "factors"
          THEN [c EXCEPT !.reloaded = TRUE] ELSE c]
  /\ UNCHANGED <<weight, updating, updates>>

\* CACHE_TTL_MS
Expire(s) ==
  /\ copy[s] # Empty
  /\ copy' = [copy EXCEPT ![s] = Empty]
  /\ UNCHANGED <<weight, scoring, loading, updating, updates>>

---------------------------------------------------------------------------
\* Mutant: the value is taken as a change of the weight.
AddRiskConfig(s, f, v) ==
  /\ s \notin updating /\ updates < MaxUpdates
  /\ weight' = [weight EXCEPT ![f] = @ + v]
  /\ updating' = updating \cup {s}
  /\ updates' = updates + 1
  /\ UNCHANGED <<copy, scoring, loading>>

\* One key at a time, whatever the weights add up to meanwhile ...
UpdateRiskConfig(s, f, v) ==
  /\ s \notin updating /\ updates < MaxUpdates
  /\ weight' = [weight EXCEPT ![f] = v]
  /\ updating' = updating \cup {s}
  /\ updates' = updates + 1
  /\ UNCHANGED <<copy, scoring, loading>>

\* Mutant: the copy is brought up to date in place.
RefreshInPlace(s) ==
  /\ s \in updating
  /\ updating' = updating \ {s}
  /\ copy' = [copy EXCEPT ![s] = IF @ = Empty THEN Empty ELSE weight]
  /\ UNCHANGED <<weight, scoring, loading, updates>>

\* ... and then this server drops its copy; the others keep theirs.
InvalidateRiskConfigCache(s) ==
  /\ s \in updating
  /\ updating' = updating \ {s}
  /\ copy' = [copy EXCEPT ![s] = Empty]
  /\ UNCHANGED <<weight, scoring, loading, updates>>

RiskConfigNext ==
  \/ \E r \in Scorings :
       \/ ScoreInvoice(r)
       \/ \E k \in Factors \cup {TheSum} :
            \/ GetRiskWeights(r, k)
            \/ \E rows \in {weight, Defaults} : LoadRiskConfig(r, k, rows)
  \/ \E l \in loading : Loaded(l)
  \/ \E s \in Scorers :
       \/ Expire(s)
       \/ \E f \in Factors, v \in Weights : UpdateRiskConfig(s, f, v)
       \/ InvalidateRiskConfigCache(s)

---------------------------------------------------------------------------
\* The check of the sum covers the weights that the factors use, however
\* updates, other runs and the expiry of the copy interleave, unless the
\* copy was reloaded between the check and the last factor.
ConsistentScore ==
  \A r \in Scorings :
    DOMAIN scoring[r].used = Factors /\ ~scoring[r].reloaded
      => Sum(scoring[r].used) = Total
=============================================================================
