----------------------------- MODULE HealthAlert -----------------------------
(***************************************************************************)
(* The health state a production run leaves in its hidden worksheet        *)
(* (record_sheet_sync_health) and the GitHub issue it raises and closes    *)
(* (GitHubIssueNotifier.notify), one GitHub call per step.  The workflow's *)
(* concurrency group keeps two runs from overlapping; people open and      *)
(* close issues between any two calls.                                     *)
(*                                                                         *)
(* Issues are numbered in the order they are opened; GitHub lists the      *)
(* newest first.                                                           *)
(***************************************************************************)
EXTENDS Naturals, FiniteSets

CONSTANTS
  Threshold,        \* HEALTH_ALERT_THRESHOLD
  PageSize,         \* issues in one answer; the notifier asks for one page
  MaxFailures,      \* longer rows of failures are not told apart
  MaxOutages,       \* bound on the rows of failures
  MaxDisturbances,  \* bound on what people do to the issues
  MaxFaults         \* bound on failed GitHub calls and lost runs

ASSUME HealthAssumption ==
  /\ Threshold \in Nat \ {0}
  /\ PageSize \in Nat
  /\ MaxFailures \in Nat /\ Threshold <= MaxFailures
  /\ MaxOutages \in Nat /\ MaxDisturbances \in Nat /\ MaxFaults \in Nat

VARIABLES
  counter,     \* consecutive_failures in the worksheet
  alertOpen,   \* alert_open in the worksheet
  pc,          \* the call of notify that comes next, or "idle"
  due,         \* alert_due of the run's SyncHealthState
  recovered,   \* recovered of the run's SyncHealthState
  issue,       \* the issue found, 0 for none
  opened,      \* number of the last issue
  open,        \* the open issues
  alerts,      \* the issues with the alert's title
  overflowed,  \* observed: some answer did not have every open issue
  streak,      \* observed: failed runs since the last good one
  outages, disturbances, faults

health == <<counter, alertOpen, due, recovered, streak, outages>>
github == <<opened, open, alerts>>
vars   == <<health, github, pc, issue, overflowed, disturbances, faults>>

Init ==
  /\ counter = 0 /\ alertOpen = FALSE
  /\ pc = "idle" /\ due = FALSE /\ recovered = FALSE /\ issue = 0
  /\ opened = 0 /\ open = {} /\ alerts = {}
  /\ overflowed = FALSE /\ streak = 0
  /\ outages = 0 /\ disturbances = 0 /\ faults = 0

OpenAlerts == open \cap alerts

\* The first page of the open issues.
Page == {i \in open : Cardinality({j \in open : j > i}) < PageSize}

\* _find_open_issue looks at no other page.
FoundAlerts == Page \cap alerts

OneMore(n) == IF n < MaxFailures THEN n + 1 ELSE n

Newest(i, S) == i \in S /\ \A j \in S : j <= i

-----------------------------------------------------------------------------
(* record_sync_health: the two outcomes of a run that reaches its end.     *)

\* Mutant: the counter is not reset by a good run.
RecordSuccessKeepingCount ==
  /\ pc = "idle" /\ pc' = "notify"
  /\ counter' = counter
  /\ due' = FALSE
  /\ recovered' = (alertOpen \/ counter >= Threshold)
  /\ alertOpen' = FALSE
  /\ streak' = 0
  /\ UNCHANGED <<github, issue, overflowed, outages, disturbances, faults>>

RecordSuccess ==
  /\ pc = "idle" /\ pc' = "notify"
  /\ counter' = 0
  /\ due' = FALSE
  /\ recovered' = (alertOpen \/ counter >= Threshold)
  /\ alertOpen' = FALSE
  /\ streak' = 0
  /\ UNCHANGED <<github, issue, overflowed, outages, disturbances, faults>>

\* Mutant: the alert is requested once, by the run that meets the threshold.
RecordFailureOnce ==
  /\ pc = "idle" /\ pc' = "notify"
  /\ counter > 0 \/ outages < MaxOutages
  /\ outages' = IF counter = 0 THEN outages + 1 ELSE outages
  /\ counter' = OneMore(counter)
  /\ due' = (counter' >= Threshold /\ ~ alertOpen)
  /\ recovered' = FALSE
  /\ alertOpen' = (alertOpen \/ counter' >= Threshold)
  /\ streak' = OneMore(streak)
  /\ UNCHANGED <<github, issue, overflowed, disturbances, faults>>

RecordFailure ==
  /\ pc = "idle" /\ pc' = "notify"
  /\ counter > 0 \/ outages < MaxOutages
  /\ outages' = IF counter = 0 THEN outages + 1 ELSE outages
  /\ counter' = OneMore(counter)
  /\ due' = (counter' >= Threshold)
  /\ recovered' = FALSE
  /\ alertOpen' = (alertOpen \/ counter' >= Threshold)
  /\ streak' = OneMore(streak)
  /\ UNCHANGED <<github, issue, overflowed, disturbances, faults>>

-----------------------------------------------------------------------------
(* GitHubIssueNotifier.notify.                                             *)

NothingToNotify ==
  /\ pc = "notify" /\ pc' = "idle"
  /\ ~ due /\ ~ recovered
  /\ UNCHANGED <<health, github, issue, overflowed, disturbances, faults>>

\* GET issues
ListIssues ==
  /\ overflowed' = (overflowed \/ Page # open)
  /\ UNCHANGED <<health, github, disturbances, faults>>

\* Mutant: notify does not look for an open issue first.
FindBeforeAlertSkipped ==
  /\ pc = "notify" /\ due
  /\ ListIssues
  /\ pc' = "create"
  /\ UNCHANGED issue

\* An open issue is left as it is.
FindBeforeAlert ==
  /\ pc = "notify" /\ due
  /\ ListIssues
  /\ pc' = IF FoundAlerts # {} THEN "idle" ELSE "create"
  /\ UNCHANGED issue

\* POST issues
CreateIssue ==
  /\ pc = "create" /\ pc' = "idle"
  /\ opened' = opened + 1
  /\ open' = open \cup {opened'}
  /\ alerts' = alerts \cup {opened'}
  /\ UNCHANGED <<health, issue, overflowed, disturbances, faults>>

FindNothingToClose ==
  /\ pc = "notify" /\ ~ due /\ recovered
  /\ ListIssues
  /\ FoundAlerts = {}
  /\ pc' = "idle"
  /\ UNCHANGED issue

\* Mutant: whatever issue is newest is taken for the alert.
FindAnyAfterRecovery ==
  /\ pc = "notify" /\ ~ due /\ recovered
  /\ ListIssues
  /\ \E i \in Page : Newest(i, Page) /\ issue' = i
  /\ pc' = "comment"

FindAfterRecovery ==
  /\ pc = "notify" /\ ~ due /\ recovered
  /\ ListIssues
  /\ \E i \in FoundAlerts : Newest(i, FoundAlerts) /\ issue' = i
  /\ pc' = "comment"

\* POST issues/<number>/comments
Comment ==
  /\ pc = "comment" /\ pc' = "close"
  /\ UNCHANGED <<health, github, issue, overflowed, disturbances, faults>>

\* Mutant: the issue gets its comment and stays open.
CloseIssueNever ==
  /\ pc = "close" /\ pc' = "idle"
  /\ issue' = 0
  /\ UNCHANGED <<health, github, overflowed, disturbances, faults>>

\* PATCH issues/<number>
CloseIssue ==
  /\ pc = "close" /\ pc' = "idle"
  /\ open' = open \ {issue}
  /\ issue' = 0
  /\ UNCHANGED <<health, opened, alerts, overflowed, disturbances, faults>>

\* notify_sync_health swallows every exception, and a run killed here does
\* not get any further either.
CallFails ==
  /\ pc # "idle" /\ pc' = "idle"
  /\ faults < MaxFaults
  /\ faults' = faults + 1
  /\ issue' = 0
  /\ UNCHANGED <<health, github, overflowed, disturbances>>

Notify == \/ NothingToNotify \/ FindBeforeAlert \/ CreateIssue
          \/ FindNothingToClose \/ FindAfterRecovery \/ Comment \/ CloseIssue

Run == RecordSuccess \/ RecordFailure \/ Notify

-----------------------------------------------------------------------------
(* People and their issues.                                                *)

OpenOther ==
  /\ disturbances < MaxDisturbances
  /\ disturbances' = disturbances + 1
  /\ opened' = opened + 1
  /\ open' = open \cup {opened'}
  /\ UNCHANGED <<health, alerts, pc, issue, overflowed, faults>>

CloseByHand(i) ==
  /\ disturbances < MaxDisturbances
  /\ disturbances' = disturbances + 1
  /\ open' = open \ {i}
  /\ UNCHANGED <<health, opened, alerts, pc, issue, overflowed, faults>>

People == OpenOther \/ \E i \in open : CloseByHand(i)

Next == Run \/ CallFails \/ People

\* The scheduler keeps starting runs, and a run goes on to its end.
Fairness == WF_vars(Run)

Spec     == Init /\ [][Next]_vars
FairSpec == Spec /\ Fairness

-----------------------------------------------------------------------------
(* What must hold.                                                         *)

\* Every variable keeps its type, and numbers are those of issues.
TypeOK ==
  /\ counter \in 0 .. MaxFailures /\ streak \in 0 .. MaxFailures
  /\ alertOpen \in BOOLEAN /\ due \in BOOLEAN /\ recovered \in BOOLEAN
  /\ overflowed \in BOOLEAN
  /\ pc \in {"idle", "notify", "create", "comment", "close"}
  /\ opened \in Nat
  /\ open \subseteq 1 .. opened /\ alerts \subseteq 1 .. opened
  /\ issue \in {0} \cup alerts
  /\ outages \in 0 .. MaxOutages
  /\ disturbances \in 0 .. MaxDisturbances /\ faults \in 0 .. MaxFaults

\* However long an outage lasts and whichever calls fail or succeed unseen,
\* there is one open alert at most, as long as the open issues fit one page.
\* (An alert that is not on the first page is raised a second time.)
OneAlertPerPage ==
  ~ overflowed => \A i, j \in OpenAlerts : i = j

\* No issue is raised before the threshold: when one appears, that many runs
\* in a row have really failed, however the outages and the good runs between
\* them came.
AlertOnlyAfterThreshold ==
  [][OpenAlerts' \subseteq OpenAlerts \/ streak >= Threshold]_vars

\* An alert that stands although the last run was good is one whose recovery
\* call was lost (the recovery is notified once, and the issue then stays open
\* for good): without a failed call every recovery closes its issue.
StaleAlertOnlyAfterFault ==
  pc = "idle" /\ counter = 0 /\ faults = 0 /\ ~ overflowed => OpenAlerts = {}

\* An outage that lasts is announced: a failed call is tried again by the next
\* run (sheet_meta.py:133-135).
AlertIsRaised ==
  counter >= Threshold ~> OpenAlerts # {} \/ counter < Threshold

=============================================================================
