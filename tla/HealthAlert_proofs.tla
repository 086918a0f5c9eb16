-------------------------- MODULE HealthAlert_proofs --------------------------
(***************************************************************************)
(* Theorems about HealthAlert, for any threshold, page size and bounds.    *)
(***************************************************************************)
EXTENDS HealthAlert, TLAPS

USE DEF health, github, ListIssues

\* Every state of every behaviour is well typed.
THEOREM TypeCorrect == Spec => []TypeOK
<1>1. Init => TypeOK
  <2> SUFFICES ASSUME Init PROVE TypeOK
    OBVIOUS
  <2>1. counter \in 0 .. MaxFailures /\ streak \in 0 .. MaxFailures
    BY HealthAssumption DEF Init
  <2>2. /\ outages \in 0 .. MaxOutages
        /\ disturbances \in 0 .. MaxDisturbances /\ faults \in 0 .. MaxFaults
    BY HealthAssumption DEF Init
  <2> QED BY <2>1, <2>2 DEF Init, TypeOK
<1>2. TypeOK /\ [Next]_vars => TypeOK'
  <2> SUFFICES ASSUME TypeOK, [Next]_vars PROVE TypeOK'
    OBVIOUS
  <2> USE HealthAssumption DEF TypeOK
  <2>1. CASE RecordSuccess
    <3>1. counter' \in 0 .. MaxFailures /\ streak' \in 0 .. MaxFailures
      BY <2>1 DEF RecordSuccess
    <3>2. alertOpen' \in BOOLEAN /\ due' \in BOOLEAN /\ recovered' \in BOOLEAN
      BY <2>1 DEF RecordSuccess
    <3> QED BY <2>1, <3>1, <3>2 DEF RecordSuccess
  <2>2. CASE RecordFailure
    <3>1. counter' \in 0 .. MaxFailures /\ streak' \in 0 .. MaxFailures
      BY <2>2 DEF RecordFailure, OneMore
    <3>2. alertOpen' \in BOOLEAN /\ due' \in BOOLEAN /\ recovered' \in BOOLEAN
      <4>1. (counter' >= Threshold) \in BOOLEAN
        BY <3>1
      <4>2. due' \in BOOLEAN /\ recovered' \in BOOLEAN
        BY <2>2, <4>1 DEF RecordFailure
      <4>3. alertOpen' \in BOOLEAN
        BY <2>2 DEF RecordFailure
      <4> QED BY <4>2, <4>3
    <3>3. outages' \in 0 .. MaxOutages
      <4>1. CASE counter = 0
        BY <2>2, <4>1 DEF RecordFailure
      <4>2. CASE counter # 0
        BY <2>2, <4>2 DEF RecordFailure
      <4> QED BY <4>1, <4>2
    <3> QED BY <2>2, <3>1, <3>2, <3>3 DEF RecordFailure
  <2>3. CASE NothingToNotify
    BY <2>3 DEF NothingToNotify
  <2>4. CASE FindBeforeAlert
    BY <2>4 DEF FindBeforeAlert
  <2>5. CASE CreateIssue
    BY <2>5 DEF CreateIssue
  <2>6. CASE FindNothingToClose
    BY <2>6 DEF FindNothingToClose
  <2>7. CASE FindAfterRecovery
    BY <2>7 DEF FindAfterRecovery, FoundAlerts
  <2>8. CASE Comment
    BY <2>8 DEF Comment
  <2>9. CASE CloseIssue
    BY <2>9 DEF CloseIssue
  <2>10. CASE CallFails
    BY <2>10 DEF CallFails
  <2>11. CASE People
    <3>1. CASE OpenOther
      <4>1. open' \subseteq 1 .. opened' /\ alerts' \subseteq 1 .. opened'
        BY <3>1 DEF OpenOther
      <4> QED BY <3>1, <4>1 DEF OpenOther
    <3>2. ASSUME NEW i \in open, CloseByHand(i) PROVE TypeOK'
      BY <3>2 DEF CloseByHand
    <3> QED BY <2>11, <3>1, <3>2 DEF People
  <2>12. CASE UNCHANGED vars
    BY <2>12 DEF vars
  <2> QED
    BY <2>1, <2>2, <2>3, <2>4, <2>5, <2>6, <2>7, <2>8, <2>9, <2>10, <2>11, <2>12
    DEF Next, Run, Notify
<1> QED BY <1>1, <1>2, PTL DEF Spec

\* Where notify stands tells what the worksheet counts and which alerts are
\* open: the inductive invariant of the three properties below.
CallInv ==
  /\ streak = counter
  /\ alertOpen => counter >= Threshold
  /\ pc # "idle" /\ due => counter >= Threshold
  /\ pc = "create" => counter >= Threshold
  /\ pc \in {"comment", "close"} => ~ due /\ recovered
  /\ recovered /\ pc # "idle" => counter = 0

AlertInv ==
  /\ ~ overflowed => \A i, j \in OpenAlerts : i = j
  /\ ~ overflowed /\ pc = "create" => OpenAlerts = {}
  /\ ~ overflowed /\ pc \in {"comment", "close"} => OpenAlerts \subseteq {issue}

\* With no call lost so far, an open alert means an outage, or a recovery
\* that is being notified.
StaleInv ==
  faults = 0 /\ ~ overflowed =>
    \/ OpenAlerts = {} \/ counter >= Threshold
    \/ pc \in {"notify", "comment", "close"} /\ recovered /\ ~ due

LEMMA CallInductive ==
  /\ Init => CallInv
  /\ TypeOK /\ CallInv /\ [Next]_vars => CallInv'
<1>1. Init => CallInv
  BY HealthAssumption DEF Init, CallInv
<1>2. ASSUME TypeOK, CallInv, [Next]_vars PROVE CallInv'
  <2> USE HealthAssumption DEF TypeOK, CallInv
  <2>1. CASE RecordSuccess
    BY <1>2, <2>1 DEF RecordSuccess
  <2>2. CASE RecordFailure
    BY <1>2, <2>2 DEF RecordFailure, OneMore
  <2>3. CASE Notify
    BY <1>2, <2>3
    DEF Notify, NothingToNotify, FindBeforeAlert, CreateIssue, FindNothingToClose,
        FindAfterRecovery, Comment, CloseIssue
  <2>4. CASE CallFails \/ People \/ UNCHANGED vars
    BY <1>2, <2>4 DEF CallFails, People, OpenOther, CloseByHand, vars
  <2> QED BY <1>2, <2>1, <2>2, <2>3, <2>4 DEF Next, Run
<1> QED BY <1>1, <1>2

LEMMA AlertInductive ==
  /\ Init => AlertInv
  /\ TypeOK /\ AlertInv /\ [Next]_vars => AlertInv'
<1>1. Init => AlertInv
  BY DEF Init, AlertInv, OpenAlerts
<1>2. ASSUME TypeOK, AlertInv, [Next]_vars PROVE AlertInv'
  <2> USE DEF TypeOK, AlertInv, OpenAlerts
  <2>1. CASE RecordSuccess \/ RecordFailure \/ NothingToNotify \/ Comment
    BY <1>2, <2>1 DEF RecordSuccess, RecordFailure, NothingToNotify, Comment
  <2>2. CASE FindBeforeAlert
    BY <1>2, <2>2 DEF FindBeforeAlert, FoundAlerts
  <2>3. CASE CreateIssue
    BY <1>2, <2>3 DEF CreateIssue
  <2>4. CASE FindNothingToClose
    BY <1>2, <2>4 DEF FindNothingToClose
  <2>5. CASE FindAfterRecovery
    BY <1>2, <2>5 DEF FindAfterRecovery, FoundAlerts
  <2>6. CASE CloseIssue
    BY <1>2, <2>6 DEF CloseIssue
  <2>7. CASE CallFails
    BY <1>2, <2>7 DEF CallFails
  <2>8. CASE OpenOther
    BY <1>2, <2>8 DEF OpenOther
  <2>9. ASSUME NEW i \in open, CloseByHand(i) PROVE AlertInv'
    BY <1>2, <2>9 DEF CloseByHand
  <2>10. CASE UNCHANGED vars
    BY <1>2, <2>10 DEF vars
  <2> QED
    BY <1>2, <2>1, <2>2, <2>3, <2>4, <2>5, <2>6, <2>7, <2>8, <2>9, <2>10
    DEF Next, Run, Notify, People
<1> QED BY <1>1, <1>2

LEMMA StaleInductive ==
  /\ Init => StaleInv
  /\ TypeOK /\ CallInv /\ AlertInv /\ StaleInv /\ [Next]_vars => StaleInv'
<1>1. Init => StaleInv
  BY DEF Init, StaleInv, OpenAlerts
<1>2. ASSUME TypeOK, CallInv, AlertInv, StaleInv, [Next]_vars PROVE StaleInv'
  <2> USE HealthAssumption DEF TypeOK, StaleInv, OpenAlerts
  <2>1. CASE RecordSuccess
    BY <1>2, <2>1 DEF RecordSuccess
  <2>2. CASE RecordFailure
    BY <1>2, <2>2 DEF RecordFailure, OneMore
  <2>3. CASE NothingToNotify \/ FindBeforeAlert \/ Comment
    BY <1>2, <2>3 DEF CallInv, NothingToNotify, FindBeforeAlert, Comment
  <2>4. CASE CreateIssue
    BY <1>2, <2>4 DEF CallInv, CreateIssue
  <2>5. CASE FindNothingToClose
    BY <1>2, <2>5 DEF FindNothingToClose, FoundAlerts
  <2>6. CASE FindAfterRecovery
    BY <1>2, <2>6 DEF FindAfterRecovery
  <2>7. CASE CloseIssue
    BY <1>2, <2>7 DEF AlertInv, CloseIssue
  <2>8. CASE CallFails
    BY <1>2, <2>8 DEF CallFails
  <2>9. CASE OpenOther
    BY <1>2, <2>9 DEF OpenOther
  <2>10. ASSUME NEW i \in open, CloseByHand(i) PROVE StaleInv'
    BY <1>2, <2>10 DEF CloseByHand
  <2>11. CASE UNCHANGED vars
    BY <1>2, <2>11 DEF vars
  <2> QED
    BY <1>2, <2>1, <2>2, <2>3, <2>4, <2>5, <2>6, <2>7, <2>8, <2>9, <2>10, <2>11
    DEF Next, Run, Notify, People
<1> QED BY <1>1, <1>2

\* There is at most one open alert while the open issues fit one page.
THEOREM OneAlert == Spec => []OneAlertPerPage
<1>1. AlertInv => OneAlertPerPage
  BY DEF AlertInv, OneAlertPerPage
<1> QED BY <1>1, AlertInductive, TypeCorrect, PTL DEF Spec

\* Without a failed call every recovery closes its alert.
THEOREM RecoveryClosesUnlessFault == Spec => []StaleAlertOnlyAfterFault
<1>1. TypeOK /\ StaleInv => StaleAlertOnlyAfterFault
  BY HealthAssumption DEF TypeOK, StaleInv, StaleAlertOnlyAfterFault
<1> QED
  BY <1>1, CallInductive, AlertInductive, StaleInductive, TypeCorrect, PTL DEF Spec

\* No alert is raised before that many runs in a row have failed.
THEOREM NoEarlyAlert == Spec => AlertOnlyAfterThreshold
<1>1. ASSUME TypeOK, CallInv, [Next]_vars
      PROVE  [OpenAlerts' \subseteq OpenAlerts \/ streak >= Threshold]_vars
  <2>1. CASE CreateIssue
    BY <1>1, <2>1 DEF CallInv, CreateIssue
  <2>2. CASE OpenOther
    BY <1>1, <2>2 DEF TypeOK, OpenOther, OpenAlerts
  <2>3. CASE ~ CreateIssue /\ ~ OpenOther
    BY <1>1, <2>3
    DEF Next, Run, Notify, People, RecordSuccess, RecordFailure, NothingToNotify,
        FindBeforeAlert, FindNothingToClose, FindAfterRecovery, Comment,
        CloseIssue, CallFails, CloseByHand, OpenAlerts, vars
  <2> QED BY <2>1, <2>2, <2>3
<1> QED
  BY <1>1, CallInductive, TypeCorrect, PTL DEF Spec, AlertOnlyAfterThreshold

=============================================================================
