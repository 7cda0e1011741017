------------------------- MODULE AlertServiceProofs -------------------------
(***************************************************************************)
(* Proofs about AlertService and the MetricsService it writes to, for any  *)
(* alert types, chains, throttle periods, limits and bounds.               *)
(***************************************************************************)
EXTENDS AlertService, FiniteSetTheorems, TLAPS

\* What makes SpacedAlerts inductive: the throttle table is never behind an
\* alert that passed it, and never ahead of the clock.
TableCovers ==
  /\ \A k \in Key : alertThrottling[k] <= now
  /\ \A a \in raised : a.throttled => a.at <= alertThrottling[<<a.alertType, a.chain>>]

ThrottleInv == TypeOK /\ TableCovers /\ SpacedAlerts

-----------------------------------------------------------------------------
\* A throttle period is a positive number, whatever the configuration lacks.
LEMMA PeriodPositive ==
  ASSUME NEW t, NEW many \in BOOLEAN
  PROVE  ThrottleSeconds(t, many) \in Nat \ {0}
BY AlertAssumption DEF AlertAssumption, ThrottleSeconds

\* scheduleReconnect() always leaves a timer pending.
LEMMA ScheduleArms ==
  ASSUME NEW a \in 0 .. MAX_RECONNECT_ATTEMPTS, NEW p \in Nat, NEW q \in Nat,
         ScheduleReconnect(a, p, q)
  PROVE  /\ reconnectAttempts' \in 0 .. MAX_RECONNECT_ATTEMPTS
         /\ reconnects' \in Nat /\ restarts' \in Nat
         /\ reconnects' + restarts' > 0
BY MetricsAssumption DEF ScheduleReconnect, MetricsAssumption

\* Every step of the writer keeps its types and keeps it from being stranded.
LEMMA MetricsStep ==
  ASSUME ConnectionTypeOK, NeverStranded, MetricsNext
  PROVE  ConnectionTypeOK' /\ NeverStranded'
<1> USE DEF ConnectionTypeOK, NeverStranded
<1>1. CASE InitializeInfluxDB
  BY <1>1, MetricsAssumption DEF InitializeInfluxDB, MetricsAssumption
<1>2. CASE InitializeInfluxDBFails
  <2>1. reconnects - 1 \in Nat
    BY <1>2 DEF InitializeInfluxDBFails
  <2>2. QED
    BY <1>2, <2>1, ScheduleArms DEF InitializeInfluxDBFails
<1>3. CASE RestartReconnect
  <2>1. restarts - 1 \in Nat /\ 0 \in 0 .. MAX_RECONNECT_ATTEMPTS
    BY <1>3, MetricsAssumption DEF RestartReconnect, MetricsAssumption
  <2>2. QED
    BY <1>3, <2>1, ScheduleArms DEF RestartReconnect
<1>4. CASE FlushMetrics
  BY <1>4 DEF FlushMetrics
<1>5. CASE FlushDone
  BY <1>5 DEF FlushDone
<1>6. CASE FlushConnectionError
  BY <1>6, ScheduleArms DEF FlushConnectionError
<1>7. CASE \E w \in writeBuffer : Store(w)
  BY <1>7 DEF Store, connectionVars
<1>8. QED
  BY <1>1, <1>2, <1>3, <1>4, <1>5, <1>6, <1>7 DEF MetricsNext

LEMMA WritePointStep ==
  ASSUME ConnectionTypeOK, NeverStranded, NEW p, WritePoint(p)
  PROVE  ConnectionTypeOK' /\ NeverStranded'
<1> USE DEF ConnectionTypeOK, NeverStranded
<1>1. CASE UNCHANGED connectionVars
  BY <1>1 DEF connectionVars
<1>2. CASE /\ connected' = FALSE
           /\ ScheduleReconnect(reconnectAttempts, reconnects, restarts)
           /\ UNCHANGED <<influxClient, isWriteInProgress, writeBuffer>>
  BY <1>2, ScheduleArms
<1>3. QED
  BY <1>1, <1>2 DEF WritePoint

-----------------------------------------------------------------------------
\* The writer's part of the state along every step of the whole system.
LEMMA ConnectionStep ==
  ASSUME ConnectionTypeOK, NeverStranded, [Next]_vars
  PROVE  ConnectionTypeOK' /\ NeverStranded'
<1>1. CASE \E p : WritePoint(p)
  BY <1>1, WritePointStep
<1>2. CASE MetricsNext
  BY <1>2, MetricsStep
<1>3. CASE UNCHANGED metricsVars
  BY <1>3 DEF metricsVars, connectionVars, ConnectionTypeOK, NeverStranded
<1>4. QED
  BY <1>1, <1>2, <1>3 DEF Next, vars, Raise, AddAlert, Record, ModuleInit,
     GenerateWeeklyReport, ReportQueryDone, Tick

LEMMA InitConnection == Init => ConnectionTypeOK /\ NeverStranded
<1> SUFFICES ASSUME Init PROVE ConnectionTypeOK /\ NeverStranded
  OBVIOUS
<1>1. connected \in BOOLEAN /\ influxClient \in BOOLEAN /\ isWriteInProgress \in BOOLEAN
  BY Zenon DEF Init, MetricsInit
<1>2. reconnectAttempts = 0 /\ reconnects = 1 /\ restarts = 0
  BY Zenon DEF Init, MetricsInit
<1>3. reconnectAttempts \in 0 .. MAX_RECONNECT_ATTEMPTS
  BY <1>2, MetricsAssumption DEF MetricsAssumption
<1>4. QED
  BY <1>1, <1>2, <1>3 DEF ConnectionTypeOK, NeverStranded

\* However writes, flushes and connection attempts interleave, a disconnected
\* writer has a reconnect timer pending (metrics.service.ts, scheduleReconnect).
THEOREM WriterNeverStranded == Spec => []NeverStranded
<1>1. Init => ConnectionTypeOK /\ NeverStranded
  BY InitConnection
<1>2. ConnectionTypeOK /\ NeverStranded /\ [Next]_vars
        => ConnectionTypeOK' /\ NeverStranded'
  BY ConnectionStep
<1>3. QED
  BY <1>1, <1>2, PTL DEF Spec

-----------------------------------------------------------------------------
\* An alert let through the throttle keeps the table covering and the spacing.
LEMMA RaiseStep ==
  ASSUME ThrottleInv, NEW t \in AlertTypes, NEW c \in Chains, NEW many \in BOOLEAN,
         Raise(t, c, many)
  PROVE  TableCovers' /\ SpacedAlerts'
<1> DEFINE k == <<t, c>>
           new == [id |-> NextId, alertType |-> t, chain |-> c, many |-> many,
                   throttled |-> TRUE, at |-> now]
<1> USE DEF ThrottleInv
<1>1. /\ alertThrottling' = [alertThrottling EXCEPT ![k] = now]
      /\ raised' = raised \cup {new}
      /\ now' = now
  BY DEF Raise, Record
<1>2. k \in Key /\ alertThrottling \in [Key -> Nat] /\ now \in Nat
  BY DEF Key, TypeOK
<1>3. now - alertThrottling[k] >= ThrottleSeconds(t, many)
  BY <1>2, PeriodPositive DEF Raise, ShouldThrottle
<1>4. TableCovers'
  <2>1. \A j \in Key : alertThrottling'[j] = IF j = k THEN now ELSE alertThrottling[j]
    BY <1>1, <1>2
  <2>2. \A j \in Key : alertThrottling'[j] <= now'
    BY <1>1, <1>2, <2>1 DEF TableCovers
  <2>3. ASSUME NEW a \in raised', a.throttled
        PROVE  a.at <= alertThrottling'[<<a.alertType, a.chain>>]
    <3>1. CASE a = new
      BY <3>1, <2>1, <1>2
    <3>2. CASE a \in raised
      <4>1. <<a.alertType, a.chain>> \in Key /\ a.at \in Nat
        BY <3>2 DEF TypeOK
      <4>2. a.at <= alertThrottling[<<a.alertType, a.chain>>]
        BY <3>2, <2>3 DEF TableCovers
      <4>3. alertThrottling[<<a.alertType, a.chain>>] <= now
        BY <4>1 DEF TableCovers
      <4>4. QED
        BY <4>1, <4>2, <4>3, <2>1, <1>2
    <3>3. QED
      BY <3>1, <3>2, <1>1
  <2>4. QED
    BY <2>2, <2>3 DEF TableCovers
<1>5. \* whoever passed the throttle before did so a full period ago
      ASSUME NEW a \in raised, a.throttled, a.alertType = t, a.chain = c
      PROVE  a.at \in Nat /\ now - a.at >= ThrottleSeconds(t, many)
  <2>1. a.at \in Nat /\ a.at <= alertThrottling[k]
    BY <1>5 DEF TypeOK, TableCovers
  <2>2. QED
    BY <2>1, <1>2, <1>3, PeriodPositive
<1>6. SpacedAlerts'
  <2> SUFFICES ASSUME NEW a \in raised', NEW b \in raised', a # b,
                      a.throttled, b.throttled, SameKey(a, b), a.at <= b.at
               PROVE  b.at - a.at >= ThrottleSeconds(b.alertType, b.many)
    BY DEF SpacedAlerts, SameKey, ThrottleSeconds
  <2>1. CASE a \in raised /\ b \in raised
    BY <2>1 DEF SpacedAlerts
  <2>2. CASE a \in raised /\ b = new
    <3>1. a.alertType = t /\ a.chain = c
      BY <2>2 DEF SameKey
    <3>2. QED
      BY <2>2, <3>1, <1>5
  <2>3. CASE a = new /\ b \in raised
    <3>1. b.alertType = t /\ b.chain = c
      BY <2>3 DEF SameKey
    <3>2. b.at \in Nat /\ now - b.at >= ThrottleSeconds(t, many) /\ now <= b.at
      BY <2>3, <3>1, <1>5
    <3>3. QED
      BY <3>2, <1>2, PeriodPositive
  <2>4. QED
    BY <1>1, <2>1, <2>2, <2>3
<1>7. QED
  BY <1>4, <1>6

\* A direct addAlert() leaves the table alone and is not a throttled alert.
LEMMA AddAlertStep ==
  ASSUME ThrottleInv, NEW t \in AlertTypes, NEW c \in Chains, AddAlert(t, c)
  PROVE  TableCovers' /\ SpacedAlerts'
<1> DEFINE new == [id |-> NextId, alertType |-> t, chain |-> c, many |-> FALSE,
                   throttled |-> FALSE, at |-> now]
<1>1. /\ alertThrottling' = alertThrottling
      /\ raised' = raised \cup {new}
      /\ now' = now
  BY DEF AddAlert, Record
<1>2. \A a \in raised' : a.throttled => a \in raised
  BY <1>1
<1>3. TableCovers'
  BY <1>1, <1>2 DEF ThrottleInv, TableCovers
<1>4. SpacedAlerts'
  BY <1>1, <1>2 DEF ThrottleInv, SpacedAlerts, SameKey, ThrottleSeconds
<1>5. QED
  BY <1>3, <1>4

\* The clock only moves away from what the table holds.
LEMMA TickStep ==
  ASSUME ThrottleInv, Tick
  PROVE  TableCovers' /\ SpacedAlerts'
<1>1. /\ alertThrottling' = alertThrottling /\ raised' = raised
      /\ now \in Nat /\ now' = now + 1 /\ alertThrottling \in [Key -> Nat]
  BY DEF Tick, alertVars, ThrottleInv, TypeOK
<1>2. TableCovers'
  BY <1>1 DEF ThrottleInv, TableCovers
<1>3. SpacedAlerts'
  BY <1>1 DEF ThrottleInv, SpacedAlerts, SameKey, ThrottleSeconds
<1>4. QED
  BY <1>2, <1>3

-----------------------------------------------------------------------------
\* Only four kinds of step touch the clock, the throttle table or the history.
LEMMA StepKinds ==
  ASSUME [Next]_vars
  PROVE  \/ \E t \in AlertTypes, c \in Chains, many \in BOOLEAN : Raise(t, c, many)
         \/ \E t \in AlertTypes, c \in Chains : AddAlert(t, c)
         \/ Tick
         \/ UNCHANGED <<now, alertThrottling, raised>>
<1>1. CASE UNCHANGED vars \/ (MetricsNext /\ UNCHANGED <<now, alertVars, reportVars>>)
  BY <1>1 DEF vars, alertVars
<1>2. CASE ModuleInit \/ \E r \in Requesters : GenerateWeeklyReport(r)
  BY <1>2 DEF ModuleInit, GenerateWeeklyReport, alertVars
<1>3. CASE \E r \in Requesters, fails \in BOOLEAN : ReportQueryDone(r, fails)
  BY <1>3 DEF ReportQueryDone
<1>4. QED
  BY <1>1, <1>2, <1>3 DEF Next

-----------------------------------------------------------------------------
\* The type invariant, along every step.
LEMMA TypeStep ==
  ASSUME TypeOK, NeverStranded, [Next]_vars
  PROVE  TypeOK'
<1>1. ConnectionTypeOK'
  BY ConnectionStep DEF TypeOK
<1>2. CASE \E t \in AlertTypes, c \in Chains, many \in BOOLEAN : Raise(t, c, many)
  <2> PICK t \in AlertTypes, c \in Chains, many \in BOOLEAN : Raise(t, c, many)
    BY <1>2
  <2>1. <<t, c>> \in Key
    BY DEF Key
  <2>2. alertThrottling' \in [Key -> Nat] /\ now' = now
    BY <2>1 DEF Raise, Record, TypeOK
  <2>3. \A a \in raised' : <<a.alertType, a.chain>> \in Key /\ a.at \in Nat
    <3> DEFINE new == [id |-> NextId, alertType |-> t, chain |-> c, many |-> many,
                       throttled |-> TRUE, at |-> now]
    <3>1. raised' = raised \cup {new}
      BY DEF Raise, Record
    <3>2. new.alertType = t /\ new.chain = c /\ new.at = now
      OBVIOUS
    <3>3. QED
      BY <2>1, <3>1, <3>2 DEF TypeOK
  <2>4. QED
    BY <1>1, <2>2, <2>3 DEF TypeOK
<1>3. CASE \E t \in AlertTypes, c \in Chains : AddAlert(t, c)
  <2> PICK t \in AlertTypes, c \in Chains : AddAlert(t, c)
    BY <1>3
  <2>1. <<t, c>> \in Key
    BY DEF Key
  <2>2. alertThrottling' = alertThrottling /\ now' = now
    BY DEF AddAlert, Record
  <2>3. \A a \in raised' : <<a.alertType, a.chain>> \in Key /\ a.at \in Nat
    <3> DEFINE new == [id |-> NextId, alertType |-> t, chain |-> c, many |-> FALSE,
                       throttled |-> FALSE, at |-> now]
    <3>1. raised' = raised \cup {new}
      BY DEF AddAlert, Record
    <3>2. new.alertType = t /\ new.chain = c /\ new.at = now
      OBVIOUS
    <3>3. QED
      BY <2>1, <3>1, <3>2 DEF TypeOK
  <2>4. QED
    BY <1>1, <2>2, <2>3 DEF TypeOK
<1>4. CASE Tick
  BY <1>1, <1>4, AlertAssumption DEF Tick, alertVars, TypeOK, AlertAssumption
<1>5. CASE UNCHANGED <<now, alertThrottling, raised>>
  BY <1>1, <1>5 DEF TypeOK
<1>6. QED
  BY <1>2, <1>3, <1>4, <1>5, StepKinds

LEMMA InitThrottle == Init => ThrottleInv
<1> SUFFICES ASSUME Init PROVE ThrottleInv
  OBVIOUS
<1>1. now = StartTime /\ alertThrottling = [k \in Key |-> 0] /\ raised = {}
  BY Zenon DEF Init
<1>2. StartTime \in Nat
  BY AlertAssumption DEF AlertAssumption
<1>3. TypeOK
  BY <1>1, <1>2, InitConnection DEF TypeOK
<1>4. TableCovers /\ SpacedAlerts
  BY <1>1, <1>2 DEF TableCovers, SpacedAlerts
<1>5. QED
  BY <1>3, <1>4 DEF ThrottleInv

\* The throttle of alert.service.ts spaces the alerts of one type and chain by
\* at least the throttle period, for every configuration and call sequence.
THEOREM ThrottleSpacesAlerts == Spec => []SpacedAlerts
<1>1. Init => ThrottleInv
  BY InitThrottle
<1>2. ASSUME ThrottleInv, NeverStranded, [Next]_vars
      PROVE  ThrottleInv'
  <2>1. TypeOK'
    BY <1>2, TypeStep DEF ThrottleInv
  <2>2. CASE \E t \in AlertTypes, c \in Chains, many \in BOOLEAN : Raise(t, c, many)
    BY <1>2, <2>1, <2>2, RaiseStep DEF ThrottleInv
  <2>3. CASE \E t \in AlertTypes, c \in Chains : AddAlert(t, c)
    BY <1>2, <2>1, <2>3, AddAlertStep DEF ThrottleInv
  <2>4. CASE Tick
    BY <1>2, <2>1, <2>4, TickStep DEF ThrottleInv
  <2>5. CASE UNCHANGED <<now, alertThrottling, raised>>
    BY <1>2, <2>1, <2>5 DEF ThrottleInv, TableCovers, SpacedAlerts, SameKey, ThrottleSeconds
  <2>6. QED
    BY <1>2, <2>2, <2>3, <2>4, <2>5, StepKinds
<1>3. ThrottleInv => SpacedAlerts
  BY DEF ThrottleInv
<1>4. QED
  BY <1>1, <1>2, <1>3, WriterNeverStranded, PTL DEF Spec

\* Every variable the throttle and the writer work on keeps its type.
THEOREM TypeCorrect == Spec => []TypeOK
<1>1. Init => TypeOK
  BY InitThrottle DEF ThrottleInv
<1>2. TypeOK /\ NeverStranded /\ [Next]_vars => TypeOK'
  BY TypeStep
<1>3. QED
  BY <1>1, <1>2, WriterNeverStranded, PTL DEF Spec
-----------------------------------------------------------------------------
(***************************************************************************)
(* The two lists of alerts.                                                *)
(***************************************************************************)
Entry == [id : Nat, at : Nat]

\* Alerts are numbered as they are recorded, and no two share a number.
HistoryOK ==
  /\ IsFiniteSet(raised)
  /\ \A a \in raised : a.id \in 1 .. Cardinality(raised) /\ a.at \in Nat
  /\ \A a, b \in raised : a.id = b.id => a.at = b.at

\* The legacy list holds the newest alerts, in order.
LegacyOK ==
  /\ alerts \in Seq(Entry)
  /\ \A i \in DOMAIN alerts : alerts[i].id = Cardinality(raised) - Len(alerts) + i

\* The manager's k-th alert is the k-th newest of all.
ManagerOK ==
  /\ managerAlerts \in Seq(Nat)
  /\ \A i \in DOMAIN managerAlerts :
       managerAlerts[i] # 0 => managerAlerts[i] = Cardinality(raised) + 1 - AlertsAmong(i)

ListsInv == HistoryOK /\ LegacyOK /\ ManagerOK

-----------------------------------------------------------------------------
\* A recorded alert has a number of its own, the next one.
LEMMA RaisedGrows ==
  ASSUME HistoryOK, NEW new, new.id = NextId, new.at = now, now \in Nat,
         raised' = raised \cup {new}
  PROVE  /\ HistoryOK'
         /\ Cardinality(raised) \in Nat /\ NextId = Cardinality(raised) + 1
         /\ Cardinality(raised') = Cardinality(raised) + 1
<1> DEFINE n == Cardinality(raised)
<1>1. n \in Nat /\ IsFiniteSet(raised) /\ NextId = n + 1
  BY FS_CardinalityType DEF HistoryOK, NextId
<1>2. new \notin raised
  BY <1>1 DEF HistoryOK
<1>3. IsFiniteSet(raised') /\ Cardinality(raised') = n + 1
  BY <1>1, <1>2, FS_AddElement
<1> HIDE DEF n
<1>4. \A a \in raised : a.id \in 1 .. n /\ a.at \in Nat
  BY DEF HistoryOK, n
<1>5. \A a \in raised' : a.id \in 1 .. (n + 1) /\ a.at \in Nat
  BY <1>1, <1>4
<1>6. \A a, b \in raised' : a.id = b.id => a.at = b.at
  <2>1. \A a \in raised : a.id # new.id
    BY <1>1, <1>4
  <2>2. QED
    BY <2>1 DEF HistoryOK
<1>7. QED
  BY <1>1, <1>3, <1>5, <1>6 DEF HistoryOK, n

\* The legacy list takes the newest alert and may lose its oldest.
LEMMA LegacyGrows ==
  ASSUME LegacyOK, PushLegacy([id |-> NextId, at |-> now]), now \in Nat,
         Cardinality(raised) \in Nat, NextId = Cardinality(raised) + 1,
         Cardinality(raised') = Cardinality(raised) + 1
  PROVE  LegacyOK'
<1> DEFINE n == Cardinality(raised)
           e == [id |-> NextId, at |-> now]
           longer == Append(alerts, e)
           size == Len(alerts)
<1>1. e \in Entry /\ alerts \in Seq(Entry) /\ size \in Nat
  BY DEF Entry, LegacyOK
<1>2. longer \in Seq(Entry) /\ Len(longer) = size + 1
  BY <1>1
<1>3. \A i \in 1 .. size : longer[i] = alerts[i]
  BY <1>1
<1>4. longer[size + 1] = e
  BY <1>1
<1>5. e.id = n + 1
  OBVIOUS
<1> HIDE DEF e, longer
<1>6. \A i \in 1 .. size + 1 : longer[i].id = n - size + i
  <2>1. \A i \in 1 .. size : alerts[i].id = n - size + i
    BY <1>1 DEF LegacyOK
  <2>2. n \in Nat
    OBVIOUS
  <2> HIDE DEF n, size
  <2>3. \A i \in 1 .. size : longer[i].id = n - size + i
    BY <1>3, <2>1
  <2>4. longer[size + 1].id = n - size + (size + 1)
    BY <1>1, <1>4, <1>5, <2>2
  <2>5. \A i \in 1 .. size + 1 : i \in 1 .. size \/ i = size + 1
    BY <1>1
  <2>6. QED
    BY <2>3, <2>4, <2>5
<1>7. CASE alerts' = longer
  <2>1. \A i \in DOMAIN alerts' : alerts'[i].id = (n + 1) - Len(alerts') + i
    BY <1>1, <1>2, <1>6, <1>7
  <2>2. QED
    BY <1>2, <1>7, <2>1 DEF LegacyOK
<1>8. CASE alerts' = Tail(longer)
  <2>1. /\ alerts' \in Seq(Entry) /\ Len(alerts') = size
        /\ \A i \in 1 .. size : alerts'[i] = longer[i + 1]
    BY <1>1, <1>2, <1>8
  <2>2. \A i \in 1 .. size : alerts'[i].id = (n + 1) - size + i
    <3> SUFFICES ASSUME NEW i \in 1 .. size
                 PROVE  alerts'[i].id = (n + 1) - size + i
      OBVIOUS
    <3>1. i + 1 \in 1 .. size + 1 /\ n \in Nat
      BY <1>1
    <3> HIDE DEF n, size
    <3>2. longer[i + 1].id = n - size + (i + 1)
      BY <1>6, <3>1
    <3>3. QED
      BY <1>1, <2>1, <3>1, <3>2
  <2>3. QED
    BY <2>1, <2>2 DEF LegacyOK
<1>9. QED
  BY <1>7, <1>8 DEF PushLegacy, longer, e

-----------------------------------------------------------------------------
\* A set of positions has as many elements when all of them move on by one.
LEMMA ShiftedCount ==
  ASSUME NEW n \in Nat, NEW S \in SUBSET (1 .. n), NEW T, T = {i + 1 : i \in S}
  PROVE  IsFiniteSet(T) /\ Cardinality(T) = Cardinality(S) /\ 1 \notin T
<1> DEFINE f == [i \in S |-> i + 1]
<1>1. IsFiniteSet(S)
  <2>1. IsFiniteSet(1 .. n)
    BY FS_Interval
  <2>2. QED
    BY <2>1, FS_Subset
<1>2. f \in Bijection(S, T)
  BY DEF Bijection, Injection, Surjection, IsInjective
<1>3. QED
  BY <1>1, <1>2, FS_Bijection DEF ExistsBijection

\* The count of alerts among the newest entries, when an entry comes first.
LEMMA AlertsAmongShifted ==
  ASSUME NEW id \in Nat, NEW n \in Nat,
         \A i \in 1 .. n + 1 : managerAlerts'[i] = IF i = 1 THEN id ELSE managerAlerts[i - 1]
  PROVE  /\ AlertsAmong(n) \in Nat
         /\ AlertsAmong(n + 1)' = AlertsAmong(n) + (IF id = 0 THEN 0 ELSE 1)
<1> DEFINE S == {i \in 1 .. n : managerAlerts[i] # 0}
           T == {i + 1 : i \in S}
           U == {i \in 1 .. n + 1 : managerAlerts'[i] # 0}
<1>1. IsFiniteSet(T) /\ Cardinality(T) = Cardinality(S) /\ 1 \notin T
  BY ShiftedCount
<1>2. Cardinality(S) \in Nat
  <2>1. IsFiniteSet(1 .. n) /\ S \subseteq 1 .. n
    BY FS_Interval
  <2> HIDE DEF S
  <2>2. IsFiniteSet(S)
    BY <2>1, FS_Subset
  <2>3. QED
    BY <2>2, FS_CardinalityType
<1>3. U = IF id = 0 THEN T ELSE T \cup {1}
  <2>1. \A i \in 1 .. n + 1 : i # 1 => (i \in U <=> i \in T)
    <3> SUFFICES ASSUME NEW i \in 1 .. n + 1, i # 1
                 PROVE  i \in U <=> i \in T
      OBVIOUS
    <3>1. i - 1 \in 1 .. n /\ managerAlerts'[i] = managerAlerts[i - 1]
      OBVIOUS
    <3>2. i \in U <=> i - 1 \in S
      BY <3>1
    <3>3. i \in T <=> i - 1 \in S
      <4>1. \A j \in S : j \in Nat /\ (i = j + 1 <=> j = i - 1)
        OBVIOUS
      <4> HIDE DEF S
      <4>2. QED
        BY <4>1
    <3>4. QED
      BY <3>2, <3>3
  <2>2. 1 \in U <=> id # 0
    OBVIOUS
  <2>3. U \subseteq 1 .. n + 1 /\ T \subseteq 1 .. n + 1
    OBVIOUS
  <2>4. 1 \in 1 .. n + 1
    OBVIOUS
  <2> HIDE DEF U, T
  <2>5. \A i : i \in U <=> (i \in T \/ (i = 1 /\ id # 0))
    BY <1>1, <2>1, <2>2, <2>3, <2>4
  <2>6. QED
    BY <2>5
<1> HIDE DEF T, S, U
<1>4. Cardinality(U) = Cardinality(S) + (IF id = 0 THEN 0 ELSE 1)
  BY <1>1, <1>2, <1>3, FS_AddElement
<1>5. QED
  BY <1>2, <1>4 DEF AlertsAmong, S, U
\* The manager's list takes an entry in front, an alert or a report.
LEMMA ManagerGrows ==
  ASSUME ManagerOK, NEW id \in Nat, AddToManager(id),
         NEW n \in Nat, n = Cardinality(raised), NEW m \in Nat, m = Cardinality(raised'),
         m = n + (IF id = 0 THEN 0 ELSE 1), id # 0 => id = m
  PROVE  ManagerOK'
<1> DEFINE longer == <<id>> \o managerAlerts
           size == Smaller(Len(longer), MAX_MANAGER_ALERTS)
<1>1. managerAlerts \in Seq(Nat) /\ Len(managerAlerts) \in Nat
  BY DEF ManagerOK
<1>2. /\ longer \in Seq(Nat) /\ Len(longer) = Len(managerAlerts) + 1
      /\ \A i \in 1 .. Len(longer) : longer[i] = IF i = 1 THEN id ELSE managerAlerts[i - 1]
  BY <1>1
<1>3. size \in 1 .. Len(longer)
  BY <1>1, <1>2, AlertAssumption DEF Smaller
<1>4. managerAlerts' = SubSeq(longer, 1, size)
  BY DEF AddToManager
<1> HIDE DEF longer, size
<1>5. /\ managerAlerts' \in Seq(Nat) /\ Len(managerAlerts') = size
      /\ \A i \in 1 .. size : managerAlerts'[i] = longer[i]
  BY <1>2, <1>3, <1>4
<1>6. \A i \in 1 .. size : managerAlerts'[i] = IF i = 1 THEN id ELSE managerAlerts[i - 1]
  BY <1>1, <1>2, <1>3, <1>5
<1>7. ASSUME NEW i \in 1 .. size, managerAlerts'[i] # 0
      PROVE  managerAlerts'[i] = m + 1 - AlertsAmong(i)'
  <2> DEFINE k == i - 1
             before == AlertsAmong(k)
             after == AlertsAmong(i)'
             first == IF id = 0 THEN 0 ELSE 1
  <2>1. k \in Nat /\ i = k + 1
    BY <1>2, <1>3, <1>7
  <2>2. \A j \in 1 .. k + 1 : managerAlerts'[j] = IF j = 1 THEN id ELSE managerAlerts[j - 1]
    <3>1. \A j \in 1 .. k + 1 : j \in 1 .. size
      BY <1>1, <1>2, <1>3, <1>7
    <3>2. QED
      BY <1>6, <3>1
  <2>3. before \in Nat /\ after = before + first
    <3>1. AlertsAmong(k) \in Nat /\ AlertsAmong(k + 1)' = AlertsAmong(k) + first
      <4> HIDE DEF k
      <4>1. QED
        BY <2>1, <2>2, AlertsAmongShifted
    <3>2. QED
      BY <2>1, <3>1
  <2>4. m = n + first
    OBVIOUS
  <2>5. CASE i = 1
    <3>1. id # 0 /\ managerAlerts'[i] = m /\ k = 0 /\ first = 1
      BY <1>6, <1>7, <2>5
    <3>2. before = 0
      <4>1. {j \in 1 .. k : managerAlerts[j] # 0} = {}
        BY <3>1
      <4>2. QED
        BY <4>1, FS_EmptySet DEF AlertsAmong
    <3> HIDE DEF before, after, first
    <3>3. QED
      BY <2>3, <3>1, <3>2 DEF after
  <2>6. CASE i # 1
    <3>1. k \in DOMAIN managerAlerts /\ managerAlerts'[i] = managerAlerts[k]
      <4>1. i \in 1 .. Len(managerAlerts) + 1
        BY <1>1, <1>2, <1>3, <1>7
      <4>2. k \in 1 .. Len(managerAlerts)
        BY <1>1, <2>1, <2>6, <4>1
      <4>3. managerAlerts'[i] = managerAlerts[k]
        BY <1>6, <1>7, <2>6
      <4>4. QED
        BY <1>1, <4>2, <4>3
    <3>2. managerAlerts[k] = n + 1 - before
      BY <1>7, <3>1 DEF ManagerOK
    <3>3. first \in Nat
      OBVIOUS
    <3> HIDE DEF before, after, first
    <3>4. managerAlerts[k] = m + 1 - after
      BY <2>3, <2>4, <3>2, <3>3
    <3>5. QED
      BY <3>1, <3>4 DEF after
  <2>7. QED
    BY <2>5, <2>6
<1>8. QED
  BY <1>5, <1>7 DEF ManagerOK

-----------------------------------------------------------------------------
\* What a recorded alert does to the two lists.
LEMMA RecordLists ==
  ASSUME ListsInv, TypeOK, NEW t \in AlertTypes, NEW c \in Chains, NEW many \in BOOLEAN,
         NEW throttled \in BOOLEAN, Record(t, c, many, throttled)
  PROVE  ListsInv'
<1> DEFINE new == [id |-> NextId, alertType |-> t, chain |-> c, many |-> many,
                   throttled |-> throttled, at |-> now]
<1>1. /\ raised' = raised \cup {new} /\ PushLegacy([id |-> NextId, at |-> now])
      /\ AddToManager(NextId)
  BY DEF Record
<1>2. new.id = NextId /\ new.at = now /\ now \in Nat
  BY DEF TypeOK
<1> HIDE DEF new
<1>3. /\ HistoryOK'
      /\ Cardinality(raised) \in Nat /\ NextId = Cardinality(raised) + 1
      /\ Cardinality(raised') = Cardinality(raised) + 1
  BY <1>1, <1>2, RaisedGrows DEF ListsInv
<1>4. LegacyOK'
  BY <1>1, <1>2, <1>3, LegacyGrows DEF ListsInv
<1>5. ManagerOK'
  <2> DEFINE n == Cardinality(raised)
             m == Cardinality(raised')
             id == NextId
  <2>1. /\ n \in Nat /\ m \in Nat /\ id \in Nat /\ AddToManager(id)
        /\ m = n + (IF id = 0 THEN 0 ELSE 1) /\ (id # 0 => id = m)
    BY <1>1, <1>3
  <2>2. n = Cardinality(raised) /\ m = Cardinality(raised')
    OBVIOUS
  <2> HIDE DEF n, m, id
  <2>3. QED
    BY <2>1, <2>2, ManagerGrows DEF ListsInv
<1>6. QED
  BY <1>3, <1>4, <1>5 DEF ListsInv

\* The lists along every step.
LEMMA ListsStep ==
  ASSUME ListsInv, TypeOK, [Next]_vars
  PROVE  ListsInv'
<1>1. CASE \E t \in AlertTypes, c \in Chains, many \in BOOLEAN : Raise(t, c, many)
  BY <1>1, RecordLists DEF Raise
<1>2. CASE \E t \in AlertTypes, c \in Chains : AddAlert(t, c)
  BY <1>2, RecordLists DEF AddAlert
<1>3. CASE \E r \in Requesters, fails \in BOOLEAN : ReportQueryDone(r, fails)
  <2>1. AddToManager(0) /\ UNCHANGED <<alerts, raised>>
    BY <1>3 DEF ReportQueryDone
  <2> DEFINE n == Cardinality(raised)
             id == 0
  <2>2. /\ n \in Nat /\ n = Cardinality(raised') /\ id \in Nat /\ AddToManager(id)
        /\ n = n + (IF id = 0 THEN 0 ELSE 1) /\ (id # 0 => id = n)
    BY <2>1, FS_CardinalityType DEF ListsInv, HistoryOK
  <2>3. n = Cardinality(raised)
    OBVIOUS
  <2> HIDE DEF n, id
  <2>4. ManagerOK'
    BY <2>2, <2>3, ManagerGrows DEF ListsInv
  <2>5. HistoryOK' /\ LegacyOK'
    BY <2>1 DEF ListsInv, HistoryOK, LegacyOK
  <2>6. QED
    BY <2>4, <2>5 DEF ListsInv
<1>4. CASE UNCHANGED <<alerts, managerAlerts, raised>>
  BY <1>4 DEF ListsInv, HistoryOK, LegacyOK, ManagerOK, AlertsAmong
<1>5. CASE \/ UNCHANGED vars \/ (MetricsNext /\ UNCHANGED <<now, alertVars, reportVars>>)
           \/ ModuleInit \/ (\E r \in Requesters : GenerateWeeklyReport(r)) \/ Tick
  BY <1>4, <1>5 DEF vars, alertVars, ModuleInit, GenerateWeeklyReport, Tick
<1>6. QED
  BY <1>1, <1>2, <1>3, <1>5 DEF Next

LEMMA InitLists == Init => ListsInv
<1> SUFFICES ASSUME Init PROVE ListsInv
  OBVIOUS
<1>1. raised = {} /\ alerts = <<>> /\ managerAlerts = <<>>
  BY Zenon DEF Init
<1>2. QED
  BY <1>1, FS_EmptySet DEF ListsInv, HistoryOK, LegacyOK, ManagerOK

\* The manager's list and the legacy list are one history, for every limit of
\* either and however many reports only one of them takes (alert.service.ts:664-692,
\* alert-manager.ts:77-111).
THEOREM ListsAlwaysAgree == Spec => []ListsAgree
<1>1. Init => ListsInv
  BY InitLists
<1>2. ListsInv /\ TypeOK /\ [Next]_vars => ListsInv'
  BY ListsStep
<1>3. ListsInv => ListsAgree
  <2> SUFFICES ASSUME ListsInv, NEW i \in DOMAIN managerAlerts, managerAlerts[i] # 0,
                      AlertsAmong(i) <= Len(alerts)
               PROVE  managerAlerts[i] = alerts[Len(alerts) + 1 - AlertsAmong(i)].id
    BY DEF ListsAgree
  <2> DEFINE n == Cardinality(raised)
             k == AlertsAmong(i)
             size == Len(alerts)
             S == {j \in 1 .. i : managerAlerts[j] # 0}
  <2>1. n \in Nat /\ size \in Nat /\ i \in Nat /\ i >= 1
    BY FS_CardinalityType DEF ListsInv, HistoryOK, LegacyOK, ManagerOK
  <2>2. managerAlerts[i] = n + 1 - k
    BY DEF ListsInv, ManagerOK
  <2>3. k \in Nat /\ k >= 1
    <3>1. IsFiniteSet(1 .. i) /\ S \subseteq 1 .. i /\ i \in S
      <4>1. i \in 1 .. i
        BY <2>1
      <4>2. IsFiniteSet(1 .. i)
        BY <2>1, FS_Interval
      <4>3. QED
        BY <4>1, <4>2
    <3>2. k = Cardinality(S)
      BY DEF AlertsAmong
    <3> HIDE DEF S, k
    <3>3. IsFiniteSet(S)
      BY <3>1, FS_Subset
    <3>4. Cardinality(S) \in Nat /\ Cardinality(S) # 0
      BY <3>1, <3>3, FS_CardinalityType, FS_EmptySet
    <3>5. QED
      BY <3>2, <3>4
  <2>4. k <= size
    OBVIOUS
  <2>5. \A j \in 1 .. size : alerts[j].id = n - size + j
    BY DEF ListsInv, LegacyOK
  <2> HIDE DEF n, k, size
  <2>6. size + 1 - k \in 1 .. size
    BY <2>1, <2>3, <2>4
  <2>7. alerts[size + 1 - k].id = n - size + (size + 1 - k)
    BY <2>5, <2>6
  <2>8. n - size + (size + 1 - k) = n + 1 - k
    BY <2>1, <2>3
  <2>9. QED
    BY <2>2, <2>7, <2>8 DEF k, size
<1>4. QED
  BY <1>1, <1>2, <1>3, TypeCorrect, PTL DEF Spec
-----------------------------------------------------------------------------
(***************************************************************************)
(* Weekly reports.                                                         *)
(***************************************************************************)
\* A row or a list entry carries the instant its alert was raised at, unless
\* the alert's point waited in the queue.
GenuineIn(p, history, queued) ==
  p.id \in queued \/ \E a \in history : a.id = p.id /\ a.at = p.at
Genuine(p) == GenuineIn(p, raised, everQueued)

PointsOK ==
  /\ connectionQueue \in Seq(Nat)
  /\ \A i \in DOMAIN connectionQueue : connectionQueue[i] \in everQueued
  /\ writeBuffer \cup stored \subseteq Entry
  /\ \A p \in writeBuffer \cup stored : Genuine(p)
  /\ \A i \in DOMAIN alerts : Genuine(alerts[i])

Counted == [id : Nat, at : Nat, from : {"query", "memory"}]
Report == [counted : SUBSET Counted, memory : Seq(Entry), start : Int, end : Int]

\* What a report may have counted twice, and what it may not have counted.
TwiceOnlyIfQueued(counted, queued) ==
  \A x, y \in counted : x # y /\ x.id = y.id => x.id \in queued
MissingOnlyForTwin(counted, memory, start, end) ==
  \A i \in DOMAIN memory :
    start <= memory[i].at /\ memory[i].at <= end
      => \E x \in counted : x.id = memory[i].id \/ x.at = memory[i].at

ReportOK(report, queued) ==
  /\ TwiceOnlyIfQueued(report.counted, queued)
  /\ MissingOnlyForTwin(report.counted, report.memory, report.start, report.end)

ReportsOK ==
  /\ reporting \in [Requesters -> [start : Int, end : Int]]
  /\ weeklyReports \in Seq(Report)
  /\ \A i \in DOMAIN weeklyReports : ReportOK(weeklyReports[i], everQueued)

WeeklyInv == PointsOK /\ ReportsOK

-----------------------------------------------------------------------------
\* Histories only grow, so what was genuine remains so.
LEMMA GenuineStays ==
  ASSUME raised \subseteq raised', everQueued \subseteq everQueued', NEW p, Genuine(p)
  PROVE  GenuineIn(p, raised', everQueued')
BY DEF GenuineIn, Genuine

\* Two genuine entries of one alert that never waited have one instant.
LEMMA GenuineAgree ==
  ASSUME HistoryOK, NEW x, NEW y, Genuine(x), Genuine(y), x.id = y.id, x.id \notin everQueued
  PROVE  x.at = y.at
BY DEF GenuineIn, Genuine, HistoryOK

\* A step of the writer stamps only points that waited.
LEMMA WriterPoints ==
  ASSUME PointsOK, MetricsNext, now \in Nat, UNCHANGED <<raised, everQueued, alerts>>
  PROVE  PointsOK'
<1>1. ASSUME NEW p, Genuine(p)
      PROVE  GenuineIn(p, raised', everQueued')
  BY <1>1 DEF GenuineIn, Genuine
<1>2. \A i \in DOMAIN alerts' : GenuineIn(alerts'[i], raised', everQueued')
  BY <1>1 DEF PointsOK, Genuine
<1>3. CASE UNCHANGED <<connectionQueue, writeBuffer, stored>>
  BY <1>1, <1>2, <1>3 DEF PointsOK, Genuine
<1>4. CASE InitializeInfluxDB
  <2>1. stored' = stored
    BY <1>4 DEF InitializeInfluxDB
  <2>2. ASSUME NEW queue \in Seq(Nat),
               \A i \in DOMAIN queue : queue[i] \in everQueued
        PROVE  /\ Stamped(queue) \subseteq Entry
               /\ \A p \in Stamped(queue) : GenuineIn(p, raised', everQueued')
    BY <2>2 DEF Stamped, Entry, GenuineIn, Genuine
  <2>3. CASE writeBuffer' = writeBuffer \cup Stamped(connectionQueue) /\ connectionQueue' = <<>>
    <3>1. /\ Stamped(connectionQueue) \subseteq Entry
          /\ \A p \in Stamped(connectionQueue) : GenuineIn(p, raised', everQueued')
      BY <2>2 DEF PointsOK, Genuine
    <3>2. QED
      BY <1>1, <1>2, <2>1, <2>3, <3>1 DEF PointsOK, Genuine
  <2>4. CASE \E k \in 0 .. (Len(connectionQueue) - 1) :
               /\ writeBuffer' = writeBuffer \cup Stamped(SubSeq(connectionQueue, 1, k))
               /\ UNCHANGED connectionQueue
    <3> PICK k \in 0 .. (Len(connectionQueue) - 1) :
               /\ writeBuffer' = writeBuffer \cup Stamped(SubSeq(connectionQueue, 1, k))
               /\ UNCHANGED connectionQueue
      BY <2>4
    <3> DEFINE queue == SubSeq(connectionQueue, 1, k)
    <3>1. queue \in Seq(Nat) /\ \A i \in DOMAIN queue : queue[i] \in everQueued
      BY DEF PointsOK, Genuine
    <3> HIDE DEF queue
    <3>2. /\ Stamped(queue) \subseteq Entry
          /\ \A p \in Stamped(queue) : GenuineIn(p, raised', everQueued')
      BY <2>2, <3>1
    <3>3. writeBuffer' = writeBuffer \cup Stamped(queue) /\ connectionQueue' = connectionQueue
      BY DEF queue
    <3>4. QED
      BY <1>1, <1>2, <2>1, <3>2, <3>3 DEF PointsOK, Genuine
  <2>5. QED
    BY <1>4, <2>3, <2>4 DEF InitializeInfluxDB
<1>5. CASE \E w \in writeBuffer : Store(w)
  <2> PICK w \in writeBuffer : Store(w)
    BY <1>5
  <2>1. /\ writeBuffer' \cup stored' \subseteq writeBuffer \cup stored
        /\ connectionQueue' = connectionQueue
    BY DEF Store
  <2>2. QED
    BY <1>1, <1>2, <2>1 DEF PointsOK, Genuine
<1>6. QED
  BY <1>3, <1>4, <1>5 DEF MetricsNext, InitializeInfluxDBFails, RestartReconnect, FlushMetrics,
     FlushDone, FlushConnectionError

\* A new alert is stamped at once or waits.
LEMMA RecordPoints ==
  ASSUME PointsOK, ListsInv, TypeOK, NEW t \in AlertTypes, NEW c \in Chains,
         NEW many \in BOOLEAN, NEW throttled \in BOOLEAN, Record(t, c, many, throttled)
  PROVE  PointsOK' /\ everQueued \subseteq everQueued'
<1> DEFINE id == NextId
           e == [id |-> id, at |-> now]
           new == [id |-> id, alertType |-> t, chain |-> c, many |-> many,
                   throttled |-> throttled, at |-> now]
<1>1. /\ raised' = raised \cup {new} /\ PushLegacy(e) /\ WritePoint(id) /\ stored' = stored
      /\ everQueued' = IF id \in {connectionQueue'[i] : i \in DOMAIN connectionQueue'}
                       THEN everQueued \cup {id} ELSE everQueued
  BY DEF Record
<1>2. id \in Nat /\ now \in Nat
  <2>1. Cardinality(raised) \in Nat
    BY FS_CardinalityType DEF ListsInv, HistoryOK
  <2>2. QED
    BY <2>1 DEF NextId, TypeOK
<1>3. e \in Entry /\ e.id = id /\ e.at = now /\ new.id = id /\ new.at = now
  BY <1>2 DEF Entry
<1> HIDE DEF new, id
<1>4. everQueued \subseteq everQueued' /\ raised \subseteq raised'
  BY <1>1
<1>5. ASSUME NEW p, Genuine(p)
      PROVE  GenuineIn(p, raised', everQueued')
  BY <1>4, <1>5, GenuineStays
<1>6. GenuineIn(e, raised', everQueued')
  BY <1>1, <1>3 DEF GenuineIn, Genuine
<1>7. /\ connectionQueue' = connectionQueue \/ connectionQueue' = Append(connectionQueue, id)
      /\ writeBuffer' = writeBuffer \/ writeBuffer' = writeBuffer \cup {e}
  BY <1>1 DEF WritePoint, QueuePoint, Stamped, connectionVars
<1> HIDE DEF e
<1>8. /\ connectionQueue' \in Seq(Nat)
      /\ \A i \in DOMAIN connectionQueue' : connectionQueue'[i] \in everQueued'
  <2>1. CASE connectionQueue' = connectionQueue
    BY <1>4, <2>1 DEF PointsOK, Genuine
  <2>2. CASE connectionQueue' = Append(connectionQueue, id)
    <3>1. connectionQueue' \in Seq(Nat) /\ connectionQueue \in Seq(Nat)
      BY <1>2, <2>2 DEF PointsOK, Genuine
    <3>2. id \in everQueued'
      <4>1. /\ Len(connectionQueue) + 1 \in DOMAIN connectionQueue'
            /\ connectionQueue'[Len(connectionQueue) + 1] = id
        BY <1>2, <2>2, <3>1
      <4>2. QED
        BY <1>1, <4>1
    <3>3. \A i \in DOMAIN connectionQueue' :
            connectionQueue'[i] = id
              \/ (i \in DOMAIN connectionQueue /\ connectionQueue'[i] = connectionQueue[i])
      BY <1>2, <2>2, <3>1
    <3>4. QED
      BY <1>4, <3>1, <3>2, <3>3 DEF PointsOK, Genuine
  <2>3. QED
    BY <1>7, <2>1, <2>2
<1>9. /\ writeBuffer' \cup stored' \subseteq Entry
      /\ \A p \in writeBuffer' \cup stored' : GenuineIn(p, raised', everQueued')
  BY <1>1, <1>3, <1>5, <1>6, <1>7 DEF PointsOK, Genuine
<1>10. \A i \in DOMAIN alerts' : GenuineIn(alerts'[i], raised', everQueued')
  <2> DEFINE longer == Append(alerts, e)
  <2>1. alerts \in Seq(Entry)
    BY DEF ListsInv, LegacyOK
  <2>2. /\ longer \in Seq(Entry)
        /\ \A i \in DOMAIN longer : longer[i] = e \/ (i \in DOMAIN alerts /\ longer[i] = alerts[i])
    BY <1>3, <2>1
  <2>3. \A i \in DOMAIN longer : GenuineIn(longer[i], raised', everQueued')
    BY <1>5, <1>6, <2>2 DEF PointsOK, Genuine
  <2>4. alerts' = longer \/ (alerts' = Tail(longer) /\ Len(longer) >= 1)
    BY <1>1, <1>3, <2>1 DEF PushLegacy
  <2> HIDE DEF longer
  <2>5. CASE alerts' = longer
    BY <2>3, <2>5
  <2>6. CASE alerts' = Tail(longer) /\ Len(longer) >= 1
    <3>1. \A i \in DOMAIN alerts' : i + 1 \in DOMAIN longer /\ alerts'[i] = longer[i + 1]
      BY <2>2, <2>6
    <3>2. QED
      BY <2>3, <3>1
  <2>7. QED
    BY <2>4, <2>5, <2>6
<1>11. QED
  BY <1>4, <1>8, <1>9, <1>10 DEF PointsOK, Genuine

-----------------------------------------------------------------------------
\* The list a report is built from, whichever way its query ends.
LEMMA ReportCounts ==
  ASSUME PointsOK, HistoryOK, LegacyOK, NEW start \in Int, NEW end \in Int,
         NEW fails \in BOOLEAN, NEW counted,
         counted = Merge(QueryAlerts(start, end, fails), InMemory(start, end))
  PROVE  /\ counted \subseteq Counted
         /\ TwiceOnlyIfQueued(counted, everQueued)
         /\ MissingOnlyForTwin(counted, alerts, start, end)
<1> DEFINE memory == InMemory(start, end)
           rows == QueryAlerts(start, end, fails)
           added == {a \in memory : \A w \in rows : w.at # a.at}
<1>1. \A a \in memory : a \in Entry /\ Genuine(a)
  BY DEF InMemory, PointsOK, LegacyOK
<1>2. \A a \in stored : a \in Entry /\ Genuine(a)
  BY DEF PointsOK
<1>3. \E found : /\ rows = From("query", found)
                 /\ \A a \in found : a \in Entry /\ Genuine(a)
  BY <1>1, <1>2 DEF QueryAlerts
<1>4. counted = rows \cup From("memory", added)
  BY DEF Merge
<1> HIDE DEF memory, rows
<1>5. \A x \in rows : x \in Counted /\ x.from = "query" /\ Genuine(x)
  BY <1>3 DEF From, Entry, Counted, Genuine, GenuineIn
<1>6. \A x \in From("memory", added) :
        /\ x \in Counted /\ x.from = "memory" /\ Genuine(x)
        /\ \A w \in rows : w.at # x.at
  BY <1>1 DEF From, Entry, Counted, Genuine, GenuineIn
<1>7. ASSUME NEW x \in counted, NEW y \in counted, x # y, x.id = y.id, x.id \notin everQueued
      PROVE  FALSE
  <2>1. x \in Counted /\ y \in Counted /\ Genuine(x) /\ Genuine(y)
    BY <1>4, <1>5, <1>6
  <2>2. x.at = y.at
    BY <1>7, <2>1, GenuineAgree
  <2>3. x.from = y.from
    BY <1>4, <1>5, <1>6, <2>2
  <2>4. x = [id |-> x.id, at |-> x.at, from |-> x.from]
        /\ y = [id |-> y.id, at |-> y.at, from |-> y.from]
    BY <2>1 DEF Counted
  <2>5. QED
    BY <1>7, <2>2, <2>3, <2>4
<1>8. ASSUME NEW i \in DOMAIN alerts, start <= alerts[i].at, alerts[i].at <= end
      PROVE  \E x \in counted : x.id = alerts[i].id \/ x.at = alerts[i].at
  <2> DEFINE a == alerts[i]
             x == [id |-> a.id, at |-> a.at, from |-> "memory"]
  <2>1. a \in memory
    BY <1>8 DEF InMemory, memory
  <2>2. CASE a \in added
    <3>1. x \in From("memory", added) /\ x.id = a.id
      BY <2>2 DEF From
    <3>2. QED
      BY <1>4, <3>1
  <2>3. CASE a \notin added
    BY <1>4, <2>1, <2>3
  <2>4. QED
    BY <2>2, <2>3
<1>9. QED
  BY <1>4, <1>5, <1>6, <1>7, <1>8 DEF TwiceOnlyIfQueued, MissingOnlyForTwin

\* A report is kept; the oldest may go.
LEMMA ReportKept ==
  ASSUME WeeklyInv, ListsInv, NEW r \in Requesters, NEW fails \in BOOLEAN,
         ReportQueryDone(r, fails)
  PROVE  ReportsOK'
<1> DEFINE start == reporting[r].start
           end == reporting[r].end
           counted == Merge(QueryAlerts(start, end, fails), InMemory(start, end))
           report == [counted |-> counted, memory |-> alerts, start |-> start, end |-> end]
           longer == Append(weeklyReports, report)
<1>1. /\ start \in Int /\ end \in Int /\ alerts \in Seq(Entry)
      /\ weeklyReports \in Seq(Report)
      /\ \A i \in DOMAIN weeklyReports : ReportOK(weeklyReports[i], everQueued)
  BY DEF WeeklyInv, ReportsOK, ListsInv, LegacyOK
<1>2. /\ weeklyReports' = IF Len(longer) > MAX_REPORTS THEN Tail(longer) ELSE longer
      /\ reporting' = [reporting EXCEPT ![r] = Idle] /\ everQueued' = everQueued
  BY DEF ReportQueryDone
<1> HIDE DEF start, end
<1>3. /\ counted \subseteq Counted
      /\ TwiceOnlyIfQueued(counted, everQueued)
      /\ MissingOnlyForTwin(counted, alerts, start, end)
  <2> HIDE DEF counted
  <2>1. QED
    BY <1>1, ReportCounts DEF WeeklyInv, ListsInv, counted
<1> HIDE DEF counted
<1>4. report \in Report /\ ReportOK(report, everQueued)
  BY <1>1, <1>3 DEF Report, ReportOK
<1> HIDE DEF report
<1>5. /\ longer \in Seq(Report)
      /\ \A i \in DOMAIN longer : ReportOK(longer[i], everQueued)
  <2>1. /\ longer \in Seq(Report)
        /\ \A i \in DOMAIN longer :
             longer[i] = report \/ (i \in DOMAIN weeklyReports /\ longer[i] = weeklyReports[i])
    BY <1>1, <1>4
  <2>2. QED
    BY <1>1, <1>4, <2>1
<1>6. Len(longer) >= 1
  BY <1>1, <1>4
<1> HIDE DEF longer
<1>7. /\ weeklyReports' \in Seq(Report)
      /\ \A i \in DOMAIN weeklyReports' : ReportOK(weeklyReports'[i], everQueued')
  <2>1. CASE weeklyReports' = longer
    BY <1>2, <1>5, <2>1
  <2>2. CASE weeklyReports' = Tail(longer)
    <3>1. /\ weeklyReports' \in Seq(Report)
          /\ \A i \in DOMAIN weeklyReports' :
               i + 1 \in DOMAIN longer /\ weeklyReports'[i] = longer[i + 1]
      BY <1>5, <1>6, <2>2
    <3>2. QED
      BY <1>2, <1>5, <3>1
  <2>3. QED
    BY <1>2, <2>1, <2>2
<1>8. reporting' \in [Requesters -> [start : Int, end : Int]]
  BY <1>2 DEF WeeklyInv, ReportsOK, Idle
<1>9. QED
  BY <1>7, <1>8 DEF ReportsOK

\* A report that is kept stays as it is while more points wait.
LEMMA ReportsStay ==
  ASSUME ReportsOK, UNCHANGED <<weeklyReports, reporting>>, everQueued \subseteq everQueued'
  PROVE  ReportsOK'
BY DEF ReportsOK, ReportOK, TwiceOnlyIfQueued

LEMMA WeeklyStep ==
  ASSUME WeeklyInv, ListsInv, TypeOK, [Next]_vars
  PROVE  WeeklyInv'
<1>1. CASE \E t \in AlertTypes, c \in Chains, many, throttled \in BOOLEAN :
             Record(t, c, many, throttled)
  <2>1. UNCHANGED <<weeklyReports, reporting>>
    BY <1>1 DEF Record, reportVars
  <2>2. PointsOK' /\ everQueued \subseteq everQueued'
    BY <1>1, RecordPoints DEF WeeklyInv
  <2>3. QED
    BY <2>1, <2>2, ReportsStay DEF WeeklyInv
<1>2. CASE MetricsNext /\ UNCHANGED <<now, alertVars, reportVars>>
  <2>1. now \in Nat
    BY DEF TypeOK
  <2>2. QED
    BY <1>2, <2>1, WriterPoints, ReportsStay DEF WeeklyInv, alertVars, reportVars
<1>3. ASSUME UNCHANGED <<connectionQueue, writeBuffer, stored, raised, everQueued, alerts>>
      PROVE  PointsOK'
  BY <1>3 DEF WeeklyInv, PointsOK, Genuine
<1>4. CASE \E r \in Requesters, fails \in BOOLEAN : ReportQueryDone(r, fails)
  BY <1>3, <1>4, ReportKept DEF WeeklyInv, ReportQueryDone, metricsVars
<1>5. CASE \E r \in Requesters : GenerateWeeklyReport(r)
  <2>1. PICK r \in Requesters : GenerateWeeklyReport(r)
    BY <1>5
  <2>2. /\ UNCHANGED <<metricsVars, alertVars, weeklyReports>>
        /\ reporting' = [reporting EXCEPT ![r] = [start |-> now - WEEK, end |-> now]]
    BY <2>1 DEF GenerateWeeklyReport
  <2>3. now - WEEK \in Int /\ now \in Int
    BY AlertAssumption DEF AlertAssumption, TypeOK
  <2>4. reporting' \in [Requesters -> [start : Int, end : Int]]
    BY <2>2, <2>3 DEF WeeklyInv, ReportsOK
  <2>5. ReportsOK'
    BY <2>2, <2>4 DEF WeeklyInv, ReportsOK, alertVars
  <2>6. QED
    BY <1>3, <2>2, <2>5 DEF WeeklyInv, metricsVars, alertVars
<1>6. CASE ModuleInit \/ Tick \/ UNCHANGED vars
  <2>1. UNCHANGED <<metricsVars, alertVars, weeklyReports, reporting>>
    BY <1>6 DEF ModuleInit, Tick, vars, reportVars
  <2>2. QED
    BY <1>3, <2>1, ReportsStay DEF WeeklyInv, metricsVars, alertVars
<1>7. QED
  BY <1>1, <1>2, <1>4, <1>5, <1>6 DEF Next, Raise, AddAlert

LEMMA InitWeekly == Init => WeeklyInv
<1> SUFFICES ASSUME Init PROVE WeeklyInv
  OBVIOUS
<1>1. /\ alerts = <<>> /\ connectionQueue = <<>> /\ writeBuffer = {} /\ stored = {}
      /\ weeklyReports = <<>> /\ reporting = [r \in Requesters |-> Idle]
  BY Zenon DEF Init, MetricsInit
<1>2. QED
  BY <1>1 DEF WeeklyInv, PointsOK, ReportsOK, Idle

\* The reports kept and what they are built from, in every reachable state.
LEMMA WeeklyInvariant == Spec => []WeeklyInv
<1>1. Init => ListsInv /\ WeeklyInv
  BY InitLists, InitWeekly
<1>2. ListsInv /\ WeeklyInv /\ TypeOK /\ [Next]_vars => ListsInv' /\ WeeklyInv'
  BY ListsStep, WeeklyStep
<1>3. QED
  BY <1>1, <1>2, TypeCorrect, PTL DEF Spec

\* generateWeeklyReport() counts an alert twice only if its point waited in the
\* connection queue, whatever the query answers or misses and whatever is raised,
\* stored or lost while it is awaited (alert.service.ts:341-457).
THEOREM DoubleCountsOnlyQueued == Spec => []DoubleCountOnlyWhenQueued
<1>1. WeeklyInv => DoubleCountOnlyWhenQueued
  BY DEF WeeklyInv, ReportsOK, ReportOK, TwiceOnlyIfQueued, DoubleCountOnlyWhenQueued, Entries
<1>2. QED
  BY <1>1, WeeklyInvariant, PTL

\* An alert of the week that is in memory when the query answers is missing from
\* the report only if one of the same instant is counted (alert.service.ts:350-369).
THEOREM MissingOnlyForTwins == Spec => []MissingOnlyIfTwin
<1>1. WeeklyInv => MissingOnlyIfTwin
  BY DEF WeeklyInv, ReportsOK, ReportOK, MissingOnlyForTwin, MissingOnlyIfTwin, Entries
<1>2. QED
  BY <1>1, WeeklyInvariant, PTL
-----------------------------------------------------------------------------
\* One chain's row of the throttle table, for the types the endpoint monitors
\* report under, is the gate of AlertGate.tla, which has the two periods in
\* force, and lets a sync-lag message count up to three endpoints
\* (alert.service.ts:813-832).
GateTypes == {"rpc_endpoint_down", "sync_blocks_lag", "rpc_no_peers", "rpc_low_peers",
              "transaction_failure_rate_high", "insufficient_wallet_balance"}

Row(c) == [t \in GateTypes |-> alertThrottling[<<t, c>>]]

Gate(c) == INSTANCE AlertGate WITH
  alertThrottling <- Row(c),
  THROTTLE_DEFAULT <- THROTTLE_SECONDS["DEFAULT"],
  THROTTLE_MANY_ENDPOINTS <- THROTTLE_SECONDS["SYNC_BLOCKS_LAG_MANY_ENDPOINTS"],
  MANY_ENDPOINTS <- 3

\* The values of the types are none of the keys of the configuration record
\* (config.ts:150-165, 339-345), and every type of the monitors is in use.
GateConfig ==
  /\ GateTypes \subseteq AlertTypes
  /\ SYNC_BLOCKS_LAG = "sync_blocks_lag"
  /\ AlertTypes \cap DOMAIN THROTTLE_SECONDS = {}

\* What the gate assumes of its constants holds of the service's, so whatever
\* is shown of the gate's users is shown for this instance of it.
LEMMA GateAssumptionHolds ==
  ASSUME NEW c
  PROVE  Gate(c)!GateAssumption
BY AlertAssumption DEF AlertAssumption, Gate!GateAssumption

\* The service's period is the gate's.
LEMMA SamePeriod ==
  ASSUME GateConfig, NEW c, NEW t \in GateTypes, NEW many \in BOOLEAN
  PROVE  ThrottleSeconds(t, many) = Gate(c)!ThrottlePeriod(t, IF many THEN 4 ELSE 0)
BY DEF GateConfig, ThrottleSeconds, Gate!ThrottlePeriod

\* A report for the chain is the gate's own, whatever it counts; a report for
\* another chain, or of another type, is no step of the gate.
LEMMA RaiseIsReported ==
  ASSUME GateConfig, TypeOK, NEW c \in Chains, NEW t \in AlertTypes, NEW d \in Chains,
         NEW many \in BOOLEAN, Raise(t, d, many)
  PROVE  Gate(c)!GateNext \/ UNCHANGED <<now, Row(c)>>
<1>1. /\ alertThrottling' = [alertThrottling EXCEPT ![<<t, d>>] = now]
      /\ now' = now
      /\ now - alertThrottling[<<t, d>>] >= ThrottleSeconds(t, many)
  <2>1. now - alertThrottling[<<t, d>>] \in Int /\ ThrottleSeconds(t, many) \in Int
    BY PeriodPositive DEF TypeOK, Key
  <2>2. QED
    BY <2>1 DEF Raise, Record, ShouldThrottle
<1>2. \A u \in GateTypes : <<u, c>> \in Key
  BY DEF Key, GateConfig
<1>3. alertThrottling \in [Key -> Nat]
  BY DEF TypeOK
<1>4. Row(c)' = [u \in GateTypes |-> alertThrottling'[<<u, c>>]]
  BY DEF Row
<1>5. CASE d = c /\ t \in GateTypes
  <2> DEFINE n == IF many THEN 4 ELSE 0
  <2>1. now - Row(c)[t] >= Gate(c)!ThrottlePeriod(t, n)
    BY <1>1, <1>5, SamePeriod DEF Row
  <2>2. Gate(c)!Reported(Row(c), t, n) = [Row(c) EXCEPT ![t] = now]
    BY <2>1 DEF Gate!Reported, Gate!LetThrough
  <2>3. Row(c)' = [Row(c) EXCEPT ![t] = now]
    BY <1>1, <1>2, <1>3, <1>4, <1>5 DEF Row
  <2>4. t \in Gate(c)!AlertType /\ n \in Nat
    BY <1>5 DEF Gate!AlertType, GateTypes
  <2>5. QED
    BY <1>1, <2>2, <2>3, <2>4 DEF Gate!GateNext
<1>6. CASE ~(d = c /\ t \in GateTypes)
  <2>1. Row(c)' = Row(c)
    BY <1>1, <1>2, <1>3, <1>4, <1>6 DEF Row
  <2>2. QED
    BY <1>1, <2>1
<1>7. QED
  BY <1>5, <1>6

\* Every step of the service is a step of the chain's gate or none.
LEMMA GateStep ==
  ASSUME GateConfig, TypeOK, NEW c \in Chains, [Next]_vars
  PROVE  Gate(c)!GateNext \/ UNCHANGED <<now, Row(c)>>
<1>1. CASE \E t \in AlertTypes, d \in Chains, many \in BOOLEAN : Raise(t, d, many)
  BY <1>1, RaiseIsReported
<1>2. CASE \E t \in AlertTypes, d \in Chains : AddAlert(t, d)
  BY <1>2 DEF AddAlert, Record, Row
<1>3. CASE Tick
  BY <1>3 DEF Tick, alertVars, Row, Gate!GateNext
<1>4. CASE UNCHANGED <<now, alertThrottling, raised>>
  BY <1>4 DEF Row
<1>5. QED
  BY <1>1, <1>2, <1>3, <1>4, StepKinds

\* With the configuration of the code, AlertService implements the gate that the
\* endpoint monitors of a chain are checked and proved with, for every chain at
\* once: reports of other chains, alerts from the HTTP controllers, weekly
\* reports and writes to InfluxDB are invisible to it.
THEOREM ServiceImplementsGate ==
  ASSUME GateConfig, NEW c \in Chains
  PROVE  Spec => Gate(c)!GateSpec
<1>1. Init => Gate(c)!GateInit
  <2> SUFFICES ASSUME Init PROVE Gate(c)!GateInit
    OBVIOUS
  <2>1. now = StartTime /\ alertThrottling = [k \in Key |-> 0]
    BY DEF Init
  <2>2. \A t \in GateTypes : <<t, c>> \in Key
    BY DEF Key, GateConfig
  <2>3. Row(c) = [t \in GateTypes |-> 0]
    BY <2>1, <2>2 DEF Row
  <2>4. QED
    BY <2>1, <2>3 DEF Gate!GateInit, Gate!AlertType, GateTypes
<1>2. TypeOK /\ [Next]_vars => [Gate(c)!GateNext]_<<now, Row(c)>>
  BY GateStep
<1>3. QED
  BY <1>1, <1>2, TypeCorrect, PTL DEF Spec, Gate!GateSpec
=============================================================================
