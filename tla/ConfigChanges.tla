--------------------------- MODULE ConfigChanges ---------------------------
(***************************************************************************)
(* system_settings and the changes proposed to it.  One manager proposes,  *)
(* another approves: the change is read without a lock, the transaction    *)
(* that marks it and writes the setting looks at nothing.  The payment     *)
(* kill switch has a handler of its own that needs no second manager.      *)
(***************************************************************************)
EXTENDS Integers

CONSTANTS
  SettingKeys,     \* the rows the migrations insert
  KillSwitch,      \* payment_kill_switch, one of them
  UnknownKey,      \* a key without a row
  SettingValues,
  SeedValue,       \* the value the migrations insert
  Changes,         \* rows of pending_config_changes
  Proposers,       \* managers
  Approvers        \* approval requests being served

ASSUME ConfigAssumption ==
  /\ KillSwitch \in SettingKeys
  /\ UnknownKey \notin SettingKeys
  /\ SeedValue \in SettingValues

VARIABLES
  setting,         \* system_settings
  change,          \* pending_config_changes
  approver         \* what each approval request has read, and its manager

configVars == <<setting, change, approver>>

NoChange == [status |-> "none"]
Resting == [op |-> "rest"]

Change ==
  {NoChange}
    \cup [status : {"pending"}, key : SettingKeys \cup {UnknownKey},
          value : SettingValues, by : Proposers]
    \cup [status : {"approved"}, key : SettingKeys \cup {UnknownKey},
          value : SettingValues, by : Proposers, approvedBy : Proposers]

ConfigTypeOK ==
  /\ setting \in [SettingKeys -> SettingValues]
  /\ change \in [Changes -> Change]
  /\ approver \in [Approvers -> {Resting} \cup [op : {"approve"}, id : Changes, who : Proposers]]

ConfigInit ==
  /\ setting = [k \in SettingKeys |-> SeedValue]
  /\ change = [x \in Changes |-> NoChange]
  /\ approver = [a \in Approvers |-> Resting]

\* UPDATE ... WHERE key = $3: no row is no error.
SetSystemSetting(k, v) ==
  setting' = [q \in SettingKeys |-> IF q = k THEN v ELSE setting[q]]

ToggleKillSwitch(v) ==
  /\ SetSystemSetting(KillSwitch, v)
  /\ UNCHANGED <<change, approver>>

ProposeConfigChange(x, k, v, u) ==
  /\ change[x] = NoChange
  /\ change' = [change EXCEPT ![x] = [status |-> "pending", key |-> k,
                                      value |-> v, by |-> u]]
  /\ UNCHANGED <<setting, approver>>

\* Mutant: the proposer may approve.
AnyManager(x, u) == change[x].status = "pending"

\* validateConfigChangeForApproval.
Approvable(x, u) == change[x].status = "pending" /\ change[x].by # u

ApproveConfigChange(a, x, u) ==
  /\ approver[a] = Resting
  /\ Approvable(x, u)
  /\ approver' = [approver EXCEPT ![a] = [op |-> "approve", id |-> x, who |-> u]]
  /\ UNCHANGED <<setting, change>>

\* Mutant: the row is written before the transaction that marks the change.
ApplyOnly(a) ==
  LET x == approver[a].id IN
  /\ approver[a] # Resting
  /\ SetSystemSetting(change[x].key, change[x].value)
  /\ approver' = [approver EXCEPT ![a] = Resting]
  /\ UNCHANGED change

\* The transaction.
ApplyConfigChange(a) ==
  LET x == approver[a].id IN
  /\ approver[a] # Resting
  /\ change' = [change EXCEPT ![x] =
       [status |-> "approved", key |-> @.key, value |-> @.value, by |-> @.by,
        approvedBy |-> approver[a].who]]
  /\ SetSystemSetting(change[x].key, change[x].value)
  /\ approver' = [approver EXCEPT ![a] = Resting]

\* The transaction is rolled back.
DropApproval(a) ==
  /\ approver[a] # Resting
  /\ approver' = [approver EXCEPT ![a] = Resting]
  /\ UNCHANGED <<setting, change>>

ConfigNext ==
  \/ \E v \in SettingValues : ToggleKillSwitch(v)
  \/ \E x \in Changes, u \in Proposers :
       \/ \E k \in SettingKeys \cup {UnknownKey}, v \in SettingValues :
            ProposeConfigChange(x, k, v, u)
       \/ \E a \in Approvers : ApproveConfigChange(a, x, u)
  \/ \E a \in Approvers : ApplyConfigChange(a) \/ DropApproval(a)

-----------------------------------------------------------------------------
\* approveConfigChange, "Enforces maker != checker": every setting but the kill
\* switch has its first value or one that two managers are on record for,
\* however often and in whatever order approvals of its changes overlap.
SettingTraced ==
  \A k \in SettingKeys \ {KillSwitch} :
    \/ setting[k] = SeedValue
    \/ \E x \in Changes :
         /\ change[x].status = "approved"
         /\ change[x].key = k /\ change[x].value = setting[k]
         /\ change[x].by # change[x].approvedBy
=============================================================================
