-------------------------------- MODULE Reports --------------------------------
(***************************************************************************)
(* The internal reports on the database: the overview of users, vaults and *)
(* members, the security alerts, the activity of the last day, and the     *)
(* dashboard's summary of all these.  A report is a sequence of SELECTs,   *)
(* each of which sees what is committed by then.  A row stands for what    *)
(* the SELECTs tell apart; its age is the one it has when the function     *)
(* that counts it reads the clock, so rows grow older only between those   *)
(* functions.  The activity's entries are below the limit of a page.       *)
(***************************************************************************)
EXTENDS Naturals, Sequences, Sums

CONSTANTS
  MaxRows,     \* bound: rows in the database
  MaxChanges,  \* bound: changes of the database during a report
  MaxShown     \* bound: counts for which the alerts are compared

ASSUME ReportsAssumption == MaxRows \in Nat /\ MaxChanges \in Nat /\ MaxShown \in Nat

VARIABLES
  rows,       \* how many rows there are of each kind
  kind,       \* the report that is being made
  step,       \* <<i, j>>: SELECT j of function i comes next
  report,     \* the fields that have been counted
  changes,
  resetting,  \* ResetVault has committed a vault's update and has its log yet to delete
  deleted     \* history: a vault or its log has been deleted since the report began

reportsVars == <<rows, kind, step, report, changes, resetting, deleted>>

UserRows == {"user_today", "user_week", "user_before"}
VaultRows == {"vault_pin", "vault_bare"}
HourRows == {"failed_hour", "lockout_hour"}
LockoutRows == {"lockout_hour", "lockout_day"}
FailedRows == HourRows \cup LockoutRows \cup {"failed_day"}
LogRows == FailedRows \cup {"other_day"}
AllRows == UserRows \cup VaultRows \cup {"member"} \cup LogRows

\* The SELECTs of each function, in order: the rows that make up each field.
GetUserMetrics == <<
  [users |-> UserRows],
  [new_today |-> {"user_today"}],
  [new_this_week |-> {"user_today", "user_week"}]>>

GetVaultMetrics == <<
  [vaults |-> VaultRows],
  [with_pin |-> {"vault_pin"}],
  [by_status |-> VaultRows]>>

GetMemberMetrics == << [members |-> {"member"}], [by_role |-> {"member"}]>>

\* A mutant of the function below, for testing the properties: the day comes first.
DayFirst == << [failed_24h |-> FailedRows], [failed_1h |-> HourRows]>>

GetFailedUnlockStats == << [failed_1h |-> HourRows], [failed_24h |-> FailedRows]>>

GetPinLockoutStats == << [lockouts_24h |-> LockoutRows]>>

GetRecentActivity == << [entries |-> LogRows]>>

GetActivitySummary == << [events |-> LogRows, failed_unlocks |-> FailedRows]>>

\* The functions of an endpoint, in the order it calls them.
Called ==
  [overview |-> <<GetUserMetrics, GetVaultMetrics, GetMemberMetrics>>,
   alerts   |-> <<GetFailedUnlockStats, GetPinLockoutStats>>,
   activity |-> <<GetRecentActivity, GetActivitySummary>>,
   summary  |-> <<GetUserMetrics, GetVaultMetrics, GetMemberMetrics,
                  GetFailedUnlockStats, GetPinLockoutStats, GetActivitySummary>>]

Kinds == DOMAIN Called

Total(S) == SumOf(rows, S)

ReportsTypeOK ==
  /\ rows \in [AllRows -> 0..MaxRows]
  /\ Total(AllRows) <= MaxRows
  /\ kind \in Kinds
  /\ step[1] \in 1..(Len(Called[kind]) + 1)
  /\ \A f \in DOMAIN report : report[f] \in 0..MaxRows
  /\ changes \in 0..MaxChanges
  /\ resetting \in BOOLEAN
  /\ deleted \in BOOLEAN

ReportsInit ==
  /\ rows = [r \in AllRows |-> 0]
  /\ kind = "summary"
  /\ step = <<1, 1>>
  /\ report = <<>>
  /\ changes = 0
  /\ resetting = FALSE
  /\ deleted = FALSE

Complete == step[1] > Len(Called[kind])

\* The next SELECT sees what is committed by now.
Select ==
  /\ ~Complete
  /\ LET f == Called[kind][step[1]]
         q == f[step[2]]
     IN /\ report' = [x \in DOMAIN report \cup DOMAIN q |->
                      IF x \in DOMAIN q THEN Total(q[x]) ELSE report[x]]
        /\ step' = IF step[2] < Len(f) THEN <<step[1], step[2] + 1>> ELSE <<step[1] + 1, 1>>
  /\ UNCHANGED <<rows, kind, changes, resetting, deleted>>

\* The report has been answered; another one is asked for.
Answer(k) ==
  /\ Complete
  /\ kind' = k
  /\ step' = <<1, 1>>
  /\ report' = <<>>
  /\ changes' = 0
  /\ deleted' = FALSE
  /\ UNCHANGED <<rows, resetting>>

-----------------------------------------------------------------------------
Change(new) ==
  /\ changes < MaxChanges
  /\ changes' = changes + 1
  /\ rows' = new
  /\ UNCHANGED <<kind, step, report>>

\* A user signs up, a vault is registered; a member is added to a vault, an event is
\* logged for one.
Insert(r) ==
  /\ r \in {"user_today", "vault_bare", "member", "failed_hour", "lockout_hour", "other_day"}
  /\ r \in LogRows \cup {"member"} => Total(VaultRows) > 0
  /\ Total(AllRows) < MaxRows
  /\ Change([rows EXCEPT ![r] = @ + 1])
  /\ UNCHANGED <<resetting, deleted>>

Move(from, to) ==
  /\ rows[from] > 0
  /\ Change([rows EXCEPT ![from] = @ - 1, ![to] = @ + 1])
  /\ UNCHANGED deleted

SetPIN == Move("vault_bare", "vault_pin") /\ UNCHANGED resetting

RemovePIN == Move("vault_pin", "vault_bare") /\ UNCHANGED resetting

RemoveMember ==
  /\ rows["member"] > 0
  /\ Change([rows EXCEPT !["member"] = @ - 1])
  /\ UNCHANGED <<resetting, deleted>>

\* The kinds among `kinds' of which there are rows.
Present(kinds) == {r \in kinds : rows[r] > 0}

\* The kinds that lose the rows of one vault: it may have had those of any kind, and the
\* only vault there is had them all.
Owned(kinds) == {own \in SUBSET Present(kinds) : Total(VaultRows) = 1 => own = Present(kinds)}

\* A vault v goes, and with it its members and its log (ON DELETE CASCADE); a reset of
\* this vault that is under way finds nothing more to delete.
DeleteVault(v, own) ==
  /\ rows[v] > 0
  /\ Change([r \in AllRows |-> IF r = v THEN rows[r] - 1 ELSE IF r \in own THEN 0 ELSE rows[r]])
  /\ resetting' \in {FALSE, resetting /\ Total(VaultRows) > 1}
  /\ deleted' = TRUE

\* ResetVault's first commit: the vault and its members stay, its PIN goes.  (Bound: one
\* reset at a time.)
ResetVault(v) ==
  /\ rows[v] > 0
  /\ ~resetting
  /\ resetting' = TRUE
  /\ IF v = "vault_pin" THEN Move("vault_pin", "vault_bare")
                        ELSE UNCHANGED <<rows, kind, step, report, changes, deleted>>

\* Its second commit deletes the vault's log,
DeleteLog(own) ==
  /\ resetting
  /\ resetting' = FALSE
  /\ Change([r \in AllRows |-> IF r \in own THEN 0 ELSE rows[r]])
  /\ deleted' = TRUE

\* or fails, which is only logged.
DeleteLogFails ==
  /\ resetting
  /\ resetting' = FALSE
  /\ UNCHANGED <<rows, kind, step, report, changes, deleted>>

\* An hour, a day or a week passes for a row, before the next function reads the clock.
GrowOlder(r) ==
  /\ step[2] = 1
  /\ UNCHANGED resetting
  /\ \/ r = "user_today" /\ Move(r, "user_week")
     \/ r = "user_week" /\ Move(r, "user_before")
     \/ r = "failed_hour" /\ Move(r, "failed_day")
     \/ r = "lockout_hour" /\ Move(r, "lockout_day")
     \/ /\ r \in {"failed_day", "lockout_day", "other_day"}
        /\ rows[r] > 0
        /\ Change([rows EXCEPT ![r] = @ - 1])
        /\ UNCHANGED deleted

ReportsNext ==
  \/ Select
  \/ \E k \in Kinds : Answer(k)
  \/ \E r \in AllRows : Insert(r) \/ GrowOlder(r)
  \/ SetPIN \/ RemovePIN \/ RemoveMember
  \/ \E v \in VaultRows :
       ResetVault(v) \/ \E own \in Owned(LogRows \cup {"member"}) : DeleteVault(v, own)
  \/ \E own \in Owned(LogRows) : DeleteLog(own)
  \/ DeleteLogFails

ReportsSpec == ReportsInit /\ [][ReportsNext]_reportsVars

-----------------------------------------------------------------------------
\* What the alerts endpoint and the dashboard's summary make of the counts.
FailedUnlockWarning == 5
FailedUnlockCritical == 20
PinLockoutWarning == 3
PinLockoutCritical == 10

\* _build_failed_unlock_alert and _build_pin_lockout_alert: the severity of the alert
\* that is active, if one is.
FailedUnlockAlert(failed) ==
  IF failed >= FailedUnlockCritical THEN <<"critical">>
  ELSE IF failed >= FailedUnlockWarning THEN <<"high">> ELSE <<>>

PinLockoutAlert(lockouts) ==
  IF lockouts >= PinLockoutCritical THEN <<"critical">>
  ELSE IF lockouts >= PinLockoutWarning THEN <<"medium">> ELSE <<>>

ActiveAlerts(failed, lockouts) == FailedUnlockAlert(failed) \o PinLockoutAlert(lockouts)

\* _determine_status of the active alerts.
DetermineStatus(alerts) ==
  IF alerts = <<>> THEN "ok"
  ELSE IF \E i \in 1..Len(alerts) : alerts[i] = "critical" THEN "critical" ELSE "warning"

\* A mutant of the operator below, for testing the properties: a threshold has to be
\* exceeded.
ExceededStatus(failed, lockouts) ==
  IF failed > FailedUnlockCritical \/ lockouts > PinLockoutCritical THEN "critical"
  ELSE IF failed > FailedUnlockWarning \/ lockouts > PinLockoutWarning THEN "warning" ELSE "ok"

\* _security_status and _alert_count of the summary.
SecurityStatus(failed, lockouts) ==
  IF failed >= FailedUnlockCritical \/ lockouts >= PinLockoutCritical THEN "critical"
  ELSE IF failed >= FailedUnlockWarning \/ lockouts >= PinLockoutWarning THEN "warning" ELSE "ok"

AlertCount(failed, lockouts) ==
  (IF failed >= FailedUnlockWarning THEN 1 ELSE 0) + (IF lockouts >= PinLockoutWarning THEN 1 ELSE 0)

-----------------------------------------------------------------------------
\* The alerts endpoint and the summary, which have their own code for it, make the same
\* of the same counts: the status and the number of alerts.
SeverityAgrees ==
  \A failed, lockouts \in 0..MaxShown :
    LET alerts == ActiveAlerts(failed, lockouts) IN
    /\ SecurityStatus(failed, lockouts) = DetermineStatus(alerts)
    /\ AlertCount(failed, lockouts) = Len(alerts)

\* The fields of a report fit together although rows are inserted while its SELECTs run:
\* a window never shows more than the one around it, unless a log has been deleted
\* meanwhile, and a report in which nothing has changed is consistent throughout.
CountsNested ==
  LET has(fields) == fields \subseteq DOMAIN report IN
  /\ has({"new_today", "new_this_week"}) => report.new_today <= report.new_this_week
  /\ has({"failed_1h", "failed_24h"}) => report.failed_1h <= report.failed_24h \/ deleted
  /\ Complete /\ changes = 0 =>
       /\ has({"users", "members"}) => /\ report.new_this_week <= report.users
                                       /\ report.with_pin <= report.vaults
                                       /\ report.by_status = report.vaults
                                       /\ report.by_role = report.members
       /\ has({"failed_24h"}) => report.lockouts_24h <= report.failed_24h
       /\ has({"events"}) => report.failed_unlocks <= report.events
       /\ has({"entries"}) => report.entries = report.events
       /\ kind = "summary" => report.failed_unlocks = report.failed_24h
=============================================================================
