----------------------- MODULE EndpointMonitorsProofs -----------------------
(***************************************************************************)
(* Proofs about EndpointMonitors: the heights of BlocksMonitorService and  *)
(* the peer counts of PeerCountMonitor, for every set of endpoints, every  *)
(* threshold and every period.                                             *)
(***************************************************************************)
EXTENDS EndpointMonitors, FiniteSetTheorems, WellFoundedInduction, TLAPS

-----------------------------------------------------------------------------
(***************************************************************************)
(* The throttle of AlertService.                                           *)
(***************************************************************************)
Throttling == [AlertType -> 0 .. now]

\* A period is one of the two, and no entry of the table is of the future.
LEMMA PeriodBounded ==
  ASSUME NEW t, NEW n
  PROVE  ThrottlePeriod(t, n) \in {THROTTLE_DEFAULT, THROTTLE_MANY_ENDPOINTS}
  BY DEF ThrottlePeriod

\* A report touches the entry of its type alone, and leaves there an instant
\* less than a period ago.
LEMMA ReportedOK ==
  ASSUME GateTypeOK, NEW throttling \in Throttling, NEW t \in AlertType, NEW n
  PROVE  /\ Reported(throttling, t, n) \in Throttling
         /\ \A u \in AlertType : u # t => Reported(throttling, t, n)[u] = throttling[u]
         /\ Reported(throttling, t, n)[t] # 0
         /\ Reported(throttling, t, n)[t] >= throttling[t]
         /\ now - Reported(throttling, t, n)[t] < ThrottlePeriod(t, n)
         /\ LetThrough(throttling, t, n) => Reported(throttling, t, n)[t] = now
  <1>1. now \in Nat /\ now >= StartTime /\ StartTime \in Nat \ {0}
    BY GateAssumption DEF GateTypeOK
  <1>2. throttling[t] \in 0 .. now
    BY DEF Throttling
  <1>3. /\ ThrottlePeriod(t, n) \in Nat \ {0}
        /\ StartTime >= ThrottlePeriod(t, n)
    BY PeriodBounded, GateAssumption
  <1>4. CASE LetThrough(throttling, t, n)
    <2>1. Reported(throttling, t, n) = [throttling EXCEPT ![t] = now]
      BY <1>4 DEF Reported
    <2> QED
      BY <1>1, <1>2, <1>3, <2>1 DEF Throttling
  <1>5. CASE ~LetThrough(throttling, t, n)
    <2>1. Reported(throttling, t, n) = throttling
      BY <1>5 DEF Reported
    <2>2. now - throttling[t] < ThrottlePeriod(t, n)
      BY <1>1, <1>2, <1>3, <1>5 DEF LetThrough
    <2> QED
      BY <1>1, <1>2, <1>3, <1>5, <2>1, <2>2
  <1> QED BY <1>4, <1>5

\* The clock leaves the table where it was.
LEMMA GateTicked ==
  ASSUME GateTypeOK, now' = now + 1, alertThrottling' = alertThrottling
  PROVE  GateTypeOK' /\ now' >= now
  <1>1. /\ now \in Nat /\ StartTime \in Nat /\ now >= StartTime
        /\ alertThrottling \in [AlertType -> 0 .. now]
    BY GateAssumption DEF GateTypeOK
  <1>2. \A t \in AlertType : alertThrottling[t] \in 0 .. now + 1
    BY <1>1
  <1>3. alertThrottling \in [AlertType -> 0 .. now + 1]
    BY <1>1, <1>2
  <1> QED
    BY <1>1, <1>3 DEF GateTypeOK

-----------------------------------------------------------------------------
(***************************************************************************)
(* Block heights.                                                          *)
(***************************************************************************)
\* The history variables have the types of what they remember.
HistoryOK ==
  /\ lagSeenAt \in 0 .. now
  /\ lastAnswered \in StartTime .. now
  /\ downAlerts \subseteq [at : 0 .. now, lastAnswered : 0 .. now]

\* Both throttles of the lag alert hold the same instant: the monitor lets
\* none through that AlertService, with its shorter periods, would drop.
LagInv ==
  /\ alertThrottling["sync_blocks_lag"] = lastSyncLagAlertTime
  /\ LagNeverSilent

\* The time the primary went down is of the silence it is in, and that silence
\* was alerted about only if it says so.
DownInv ==
  /\ primaryEndpointStatus.downSince # 0 => lastAnswered <= primaryEndpointStatus.downSince
  /\ \A a \in downAlerts :
       /\ a.at - a.lastAnswered >= DOWNTIME_NOTIFICATION_THRESHOLD
       /\ a.lastAnswered <= lastAnswered
       /\ a.lastAnswered = lastAnswered => primaryEndpointStatus.alerted
  /\ DownAlertsTrue

HeightsInv == GateTypeOK /\ HeightsTypeOK /\ HistoryOK /\ LagInv /\ DownInv

\* The lag check writes one entry of the throttle, and keeps LagInv.
LEMMA LagCheckOK ==
  ASSUME GateTypeOK, HeightsTypeOK, HistoryOK, LagNeverSilent, now' = now,
         NEW heights, NEW throttling \in Throttling,
         throttling["sync_blocks_lag"] = alertThrottling["sync_blocks_lag"],
         throttling["sync_blocks_lag"] = lastSyncLagAlertTime,
         CheckForBlockHeightLag(heights, throttling)
  PROVE  /\ alertThrottling' \in Throttling /\ lastSyncLagAlertTime' \in 0 .. now
         /\ lagSeenAt' \in 0 .. now
         /\ LagInv'
  <1> DEFINE lag == "sync_blocks_lag"
             critical == CriticalLagging(heights)
             warning == WarningLagging(heights)
             lagging == critical \cup warning # {}
             alert == lagging /\ ~SyncLagThrottled
             C == Cardinality(critical)
             W == Cardinality(warning)
  <1>1. /\ now \in Nat /\ now >= StartTime
        /\ lastSyncLagAlertTime \in 0 .. now /\ lagSeenAt \in 0 .. now
    BY DEF GateTypeOK, HeightsTypeOK, HistoryOK
  <1>2. /\ lag \in AlertType
        /\ SYNC_LAG_THROTTLE \in Nat \ {0}
        /\ \A n : ThrottlePeriod(lag, n) \in Nat \ {0} /\ ThrottlePeriod(lag, n) <= SYNC_LAG_THROTTLE
                  /\ StartTime >= ThrottlePeriod(lag, n)
    BY PeriodBounded, GateAssumption, HeightsAssumption DEF AlertType
  <1>3. /\ alertThrottling' = IF alert THEN LagReported(throttling, heights) ELSE throttling
        /\ lastSyncLagAlertTime' = IF alert THEN now ELSE lastSyncLagAlertTime
        /\ lagSeenAt' = IF lagging THEN now ELSE lagSeenAt
    BY DEF CheckForBlockHeightLag
  <1>4. CASE alert
    <2>1. \A n : LetThrough(throttling, lag, n)
      <3>1. lastSyncLagAlertTime = 0 \/ now - lastSyncLagAlertTime >= SYNC_LAG_THROTTLE
        BY <1>1, <1>2, <1>4 DEF SyncLagThrottled
      <3> QED
        BY <1>1, <1>2, <3>1, GateAssumption DEF LetThrough
    <2>2. \A n : Reported(throttling, lag, n) \in Throttling /\ Reported(throttling, lag, n)[lag] = now
      BY <1>2, <2>1, ReportedOK
    <2>3. \A n, m : LET again == Reported(Reported(throttling, lag, n), lag, m)
                    IN  again \in Throttling /\ again[lag] = now
      <3> TAKE n, m
      <3> DEFINE first == Reported(throttling, lag, n)
      <3>1. first \in Throttling /\ first[lag] = now
        BY <2>2
      <3> HIDE DEF first
      <3>2. /\ Reported(first, lag, m) \in Throttling
            /\ Reported(first, lag, m)[lag] >= now
        BY <1>2, <3>1, ReportedOK
      <3>3. Reported(first, lag, m)[lag] \in 0 .. now
        BY <1>2, <3>2 DEF Throttling
      <3> QED
        BY <1>1, <3>2, <3>3 DEF first
    <2>4. LagReported(throttling, heights) \in Throttling /\ LagReported(throttling, heights)[lag] = now
      <3>1. CASE critical # {} /\ warning # {}
        BY <3>1, <2>3 DEF LagReported
      <3>2. CASE critical = {} \/ warning = {}
        BY <3>2, <1>4, <2>2 DEF LagReported
      <3> QED BY <3>1, <3>2
    <2>5. alertThrottling'[lag] = now /\ lastSyncLagAlertTime' = now /\ lagSeenAt' = now
      BY <1>3, <1>4, <2>4
    <2>6. now # 0 /\ now - now < SYNC_LAG_THROTTLE
      BY <1>1, <1>2, GateAssumption
    <2> QED
      BY <1>1, <1>3, <1>4, <2>4, <2>5, <2>6 DEF LagInv, LagNeverSilent
  <1>5. CASE ~alert
    <2>1. alertThrottling' = throttling /\ lastSyncLagAlertTime' = lastSyncLagAlertTime
      BY <1>3, <1>5
    <2>2. CASE lagging
      <3>1. lastSyncLagAlertTime # 0 /\ now - lastSyncLagAlertTime < SYNC_LAG_THROTTLE
        BY <1>5, <2>2 DEF SyncLagThrottled
      <3>2. lagSeenAt' = now
        BY <1>3, <2>2
      <3> QED
        BY <1>1, <2>1, <3>1, <3>2 DEF LagInv, LagNeverSilent
    <2>3. CASE ~lagging
      BY <1>1, <1>3, <2>1, <2>3 DEF LagInv, LagNeverSilent
    <2> QED BY <2>2, <2>3
  <1> QED BY <1>4, <1>5

\* The end of a request, with the heights and the throttle it leaves.
LEMMA FinishCheckOK ==
  ASSUME HeightsInv, NEW c \in checks, NEW heights, NEW throttling \in Throttling,
         throttling["sync_blocks_lag"] = alertThrottling["sync_blocks_lag"],
         FinishCheck(c, heights, throttling)
  PROVE  /\ checks' \subseteq checks /\ UNCHANGED <<now, nextScan, cycle>>
         /\ alertThrottling' \in Throttling
         /\ lastSyncLagAlertTime' \in 0 .. now /\ lagSeenAt' \in 0 .. now
         /\ LagInv'
  <1>1. /\ checks' = checks \ {c} /\ UNCHANGED <<now, nextScan, cycle>>
        /\ \/ alertThrottling' = throttling /\ UNCHANGED <<lastSyncLagAlertTime, lagSeenAt>>
           \/ CheckForBlockHeightLag(heights, throttling)
    BY DEF FinishCheck
  <1>2. CASE CheckForBlockHeightLag(heights, throttling)
    BY <1>1, <1>2, LagCheckOK DEF HeightsInv, LagInv
  <1>3. CASE alertThrottling' = throttling /\ UNCHANGED <<lastSyncLagAlertTime, lagSeenAt>>
    BY <1>1, <1>3 DEF HeightsInv, LagInv, LagNeverSilent, HistoryOK, HeightsTypeOK
  <1> QED BY <1>1, <1>2, <1>3

Status == [url : Endpoints, downSince : 0 .. now, alerted : BOOLEAN]

\* A status with another downtime.
LEMMA StatusReplaced ==
  ASSUME NEW s \in Status, NEW d \in 0 .. now, NEW b \in BOOLEAN
  PROVE  LET t == [s EXCEPT !.downSince = d, !.alerted = b]
         IN  t \in Status /\ t.downSince = d /\ t.alerted = b
  BY DEF Status

\* What the end of a request leaves of the types, whatever it does to the
\* heights and the primary's status.
LEMMA RequestOverOK ==
  ASSUME HeightsInv, checks' \subseteq checks, UNCHANGED <<now, nextScan, cycle>>,
         alertThrottling' \in Throttling,
         lastSyncLagAlertTime' \in 0 .. now, lagSeenAt' \in 0 .. now,
         endpointBlockHeights' \in [Endpoints -> Heights \cup {0}],
         primaryEndpointStatus' \in Status,
         primaryEndpointStatus'.alerted => primaryEndpointStatus'.downSince # 0
  PROVE  GateTypeOK' /\ HeightsTypeOK'
  BY DEF HeightsInv, GateTypeOK, HeightsTypeOK, Throttling, Status

LEMMA CheckAnsweredOK ==
  ASSUME HeightsInv, NEW c \in checks, NEW height \in Heights, CheckAnswered(c, height)
  PROVE  HeightsInv'
  <1> DEFINE s == primaryEndpointStatus
             heights == [endpointBlockHeights EXCEPT ![c.endpoint] = height]
  <1>1. /\ endpointBlockHeights' = heights
        /\ FinishCheck(c, heights, alertThrottling)
        /\ downAlerts' = downAlerts
        /\ \/ s' = ResetEndpointStatus(s) /\ lastAnswered' = now
           \/ s' = s /\ lastAnswered' = lastAnswered
    BY DEF CheckAnswered
  <1>2. /\ now \in Nat /\ c.endpoint \in Endpoints
        /\ alertThrottling \in Throttling /\ heights \in [Endpoints -> Heights \cup {0}]
        /\ s \in Status
        /\ s.alerted => s.downSince # 0
        /\ lastAnswered \in StartTime .. now /\ StartTime \in Nat \ {0}
        /\ downAlerts \subseteq [at : 0 .. now, lastAnswered : 0 .. now]
    BY GateAssumption DEF HeightsInv, GateTypeOK, HeightsTypeOK, HistoryOK, Throttling, Status
  <1>3. /\ checks' \subseteq checks /\ UNCHANGED <<now, nextScan, cycle>>
        /\ alertThrottling' \in Throttling
        /\ lastSyncLagAlertTime' \in 0 .. now /\ lagSeenAt' \in 0 .. now
        /\ LagInv'
    BY <1>1, <1>2, FinishCheckOK
  <1>4. /\ ResetEndpointStatus(s) \in Status
        /\ ResetEndpointStatus(s).downSince = 0 /\ ResetEndpointStatus(s).alerted = FALSE
    <2>1. PICK d \in 0 .. now : d = 0
      BY <1>2
    <2>2. ResetEndpointStatus(s) = [s EXCEPT !.downSince = d, !.alerted = FALSE]
      BY <2>1 DEF ResetEndpointStatus
    <2>3. s \in Status /\ FALSE \in BOOLEAN
      BY <1>2
    <2> HIDE DEF s
    <2>4. LET t == [s EXCEPT !.downSince = d, !.alerted = FALSE]
          IN  t \in Status /\ t.downSince = d /\ t.alerted = FALSE
      BY <2>3, StatusReplaced
    <2> QED BY <2>1, <2>2, <2>4
  <1>5. GateTypeOK' /\ HeightsTypeOK'
    BY <1>1, <1>2, <1>3, <1>4, RequestOverOK
  <1>6. HistoryOK'
    BY <1>1, <1>2, <1>3 DEF HistoryOK
  <1>7. DownInv'
    <2>1. CASE s' = ResetEndpointStatus(s) /\ lastAnswered' = now
      <3>1. \A a \in downAlerts : a.lastAnswered < now
        BY <1>2, HeightsAssumption DEF HeightsInv, DownInv
      <3> QED
        BY <1>1, <1>2, <1>4, <2>1, <3>1 DEF HeightsInv, DownInv, DownAlertsTrue
    <2>2. CASE s' = s /\ lastAnswered' = lastAnswered
      BY <1>1, <2>2 DEF HeightsInv, DownInv, DownAlertsTrue
    <2> QED BY <1>1, <2>1, <2>2
  <1> QED BY <1>3, <1>5, <1>6, <1>7 DEF HeightsInv

LEMMA CheckUnreadableOK ==
  ASSUME HeightsInv, NEW c \in checks, CheckUnreadable(c)
  PROVE  HeightsInv'
  <1>1. /\ FinishCheck(c, endpointBlockHeights, alertThrottling)
        /\ UNCHANGED <<endpointBlockHeights, primaryEndpointStatus, lastAnswered, downAlerts>>
    BY DEF CheckUnreadable
  <1>2. alertThrottling \in Throttling
    BY DEF HeightsInv, GateTypeOK, Throttling
  <1>3. /\ checks' \subseteq checks /\ UNCHANGED <<now, nextScan, cycle>>
        /\ alertThrottling' \in Throttling
        /\ lastSyncLagAlertTime' \in 0 .. now /\ lagSeenAt' \in 0 .. now
        /\ LagInv'
    BY <1>1, <1>2, FinishCheckOK
  <1>4. GateTypeOK' /\ HeightsTypeOK'
    BY <1>1, <1>3, RequestOverOK DEF HeightsInv, HeightsTypeOK, Status
  <1>5. HistoryOK' /\ DownInv'
    BY <1>1, <1>3 DEF HeightsInv, HistoryOK, DownInv, DownAlertsTrue
  <1> QED BY <1>3, <1>4, <1>5 DEF HeightsInv

\* handlePrimaryEndpointError() on the status.
LEMMA PrimaryErrorOK ==
  ASSUME GateTypeOK, NEW s \in Status,
         s.alerted => s.downSince # 0
  PROVE  LET e == HandlePrimaryEndpointError(s)
         IN  /\ e \in Status
             /\ e.downSince # 0
             /\ s.downSince # 0 => e.downSince = s.downSince
             /\ s.downSince = 0 => e.downSince = now
             /\ s.alerted => e.alerted
             /\ DowntimeOver(s) => e.alerted
  <1>1. now \in Nat /\ now # 0
    BY GateAssumption DEF GateTypeOK
  <1>2. CASE s.downSince = 0
    <2>1. HandlePrimaryEndpointError(s) = [s EXCEPT !.downSince = now, !.alerted = FALSE]
      BY <1>2 DEF HandlePrimaryEndpointError
    <2>2. now \in 0 .. now
      BY <1>1
    <2>3. LET t == [s EXCEPT !.downSince = now, !.alerted = FALSE]
          IN  t \in Status /\ t.downSince = now
      BY <2>2, StatusReplaced
    <2> QED BY <1>1, <1>2, <2>1, <2>3 DEF DowntimeOver
  <1>3. CASE s.downSince # 0 /\ DowntimeOver(s)
    BY <1>1, <1>3 DEF HandlePrimaryEndpointError, Status
  <1>4. CASE s.downSince # 0 /\ ~DowntimeOver(s)
    BY <1>1, <1>4 DEF HandlePrimaryEndpointError
  <1> QED BY <1>2, <1>3, <1>4

LEMMA CheckFailedOK ==
  ASSUME HeightsInv, NEW c \in checks, CheckFailed(c)
  PROVE  HeightsInv'
  <1> DEFINE s == primaryEndpointStatus
             e == HandlePrimaryEndpointError(s)
             primary == c.endpoint = s.url
             down == primary /\ DowntimeOver(s)
             new == [at |-> now, lastAnswered |-> lastAnswered]
             throttling == IF down THEN Reported(alertThrottling, "rpc_endpoint_down", 1)
                           ELSE alertThrottling
  <1>1. /\ s' = IF primary THEN e ELSE s
        /\ downAlerts' = IF down THEN downAlerts \cup {new} ELSE downAlerts
        /\ FinishCheck(c, endpointBlockHeights, throttling)
        /\ UNCHANGED <<endpointBlockHeights, lastAnswered>>
    BY DEF CheckFailed
  <1>2. /\ GateTypeOK /\ now \in Nat /\ alertThrottling \in Throttling
        /\ endpointBlockHeights \in [Endpoints -> Heights \cup {0}]
        /\ s \in Status
        /\ s.alerted => s.downSince # 0
        /\ lastAnswered \in StartTime .. now /\ StartTime \in Nat \ {0}
        /\ downAlerts \subseteq [at : 0 .. now, lastAnswered : 0 .. now]
    BY GateAssumption DEF HeightsInv, GateTypeOK, HeightsTypeOK, HistoryOK, Throttling, Status
  <1>3. throttling \in Throttling /\ throttling["sync_blocks_lag"] = alertThrottling["sync_blocks_lag"]
    BY <1>2, ReportedOK DEF AlertType
  <1> HIDE DEF throttling
  <1>4. /\ checks' \subseteq checks /\ UNCHANGED <<now, nextScan, cycle>>
        /\ alertThrottling' \in Throttling
        /\ lastSyncLagAlertTime' \in 0 .. now /\ lagSeenAt' \in 0 .. now
        /\ LagInv'
    BY <1>1, <1>3, FinishCheckOK
  <1>5. /\ e \in Status
        /\ e.downSince # 0
        /\ s.downSince # 0 => e.downSince = s.downSince
        /\ s.downSince = 0 => e.downSince = now
        /\ s.alerted => e.alerted
        /\ DowntimeOver(s) => e.alerted
    BY <1>2, PrimaryErrorOK
  <1> HIDE DEF e
  <1>6. GateTypeOK' /\ HeightsTypeOK'
    <2>1. /\ s' \in Status
          /\ s'.alerted => s'.downSince # 0
      BY <1>1, <1>2, <1>5
    <2> QED BY <1>1, <1>2, <1>4, <2>1, RequestOverOK
  <1>7. new \in [at : 0 .. now, lastAnswered : 0 .. now]
    BY <1>2
  <1>8. HistoryOK'
    BY <1>1, <1>2, <1>4, <1>7 DEF HistoryOK
  <1>9. DownInv'
    <2>1. s'.downSince # 0 => lastAnswered' <= s'.downSince
      BY <1>1, <1>2, <1>5 DEF HeightsInv, DownInv
    <2>2. \A a \in downAlerts : a.lastAnswered = lastAnswered => s'.alerted
      BY <1>1, <1>5 DEF HeightsInv, DownInv
    <2>3. CASE down
      <3>1. /\ s.downSince # 0 /\ ~s.alerted
            /\ now - s.downSince >= DOWNTIME_NOTIFICATION_THRESHOLD
        BY <2>3 DEF DowntimeOver
      <3>2. now - lastAnswered >= DOWNTIME_NOTIFICATION_THRESHOLD
        <4>1. s.downSince \in 0 .. now /\ DOWNTIME_NOTIFICATION_THRESHOLD \in Nat
          BY <1>2, HeightsAssumption DEF Status
        <4>2. lastAnswered <= s.downSince
          BY <3>1 DEF HeightsInv, DownInv
        <4> QED BY <1>2, <3>1, <4>1, <4>2
      <3>3. \A a \in downAlerts : a.lastAnswered # lastAnswered
        BY <3>1 DEF HeightsInv, DownInv
      <3>4. s'.alerted
        BY <1>1, <1>5, <2>3
      <3>5. downAlerts' = downAlerts \cup {new} /\ lastAnswered' = lastAnswered
            /\ new.at = now /\ new.lastAnswered = lastAnswered
        BY <1>1, <2>3
      <3> HIDE DEF new
      <3>6. \A a \in downAlerts' :
              /\ a.at - a.lastAnswered >= DOWNTIME_NOTIFICATION_THRESHOLD
              /\ a.lastAnswered <= lastAnswered'
              /\ a.lastAnswered = lastAnswered' => s'.alerted
        BY <1>2, <3>2, <3>4, <3>5 DEF HeightsInv, DownInv
      <3>7. DownAlertsTrue'
        BY <3>3, <3>5, <3>6 DEF HeightsInv, DownInv, DownAlertsTrue
      <3> QED BY <2>1, <3>6, <3>7 DEF DownInv
    <2>4. CASE ~down
      BY <1>1, <2>1, <2>2, <2>4 DEF HeightsInv, DownInv, DownAlertsTrue
    <2> QED BY <2>3, <2>4
  <1> QED BY <1>4, <1>6, <1>8, <1>9 DEF HeightsInv

LEMMA OnModuleInitOK ==
  ASSUME HeightsInv, NEW heights \in [Endpoints -> Heights \cup {0}], NEW failing \in SUBSET Endpoints,
         OnModuleInit(heights, failing)
  PROVE  HeightsInv'
  <1> DEFINE p == primaryEndpointStatus
             s == IF ConfiguredPrimary \in failing THEN HandlePrimaryEndpointError(p) ELSE p
  <1>1. /\ now \in Nat /\ now # 0 /\ p \in Status /\ (p.alerted => p.downSince # 0)
        /\ GateTypeOK /\ lastAnswered \in StartTime .. now
    BY GateAssumption DEF HeightsInv, HeightsTypeOK, GateTypeOK, HistoryOK, Status
  <1>2. /\ s \in Status
        /\ s.alerted => s.downSince # 0
        /\ s.downSince # 0 => (s.downSince = p.downSince /\ p.downSince # 0) \/ s.downSince = now
        /\ p.alerted => s.alerted
    BY <1>1, PrimaryErrorOK
  <1>3. /\ p' = s \/ \E best \in BestEndpoints(heights) : p' = [s EXCEPT !.url = best]
        /\ endpointBlockHeights' = heights /\ nextScan' = now
        /\ UNCHANGED <<now, alertThrottling, cycle, checks, lastSyncLagAlertTime, heightsHistory>>
    BY DEF OnModuleInit
  <1> HIDE DEF s
  <1>4. /\ p' \in Status /\ p'.downSince = s.downSince /\ p'.alerted = s.alerted
    BY <1>2, <1>3 DEF Status, BestEndpoints, Known
  <1>5. GateTypeOK' /\ HeightsTypeOK' /\ HistoryOK' /\ LagInv'
    BY <1>1, <1>2, <1>3, <1>4
    DEF HeightsInv, GateTypeOK, HeightsTypeOK, HistoryOK, LagInv, LagNeverSilent, heightsHistory, Status
  <1>6. DownInv'
    <2>1. p'.downSince # 0 => lastAnswered <= p'.downSince
      BY <1>1, <1>2, <1>4 DEF HeightsInv, DownInv
    <2>2. p.alerted => p'.alerted
      BY <1>2, <1>4
    <2> QED
      BY <1>3, <2>1, <2>2 DEF HeightsInv, DownInv, DownAlertsTrue, heightsHistory
  <1> QED BY <1>5, <1>6 DEF HeightsInv

LEMMA MonitorBlocksOK == HeightsInv /\ MonitorBlocks => HeightsInv'
  <1> SUFFICES ASSUME HeightsInv, MonitorBlocks PROVE HeightsInv'
    OBVIOUS
  <1>1. /\ now \in Nat /\ now >= StartTime /\ StartTime \in Nat /\ nextScan \in Nat /\ cycle \in Nat
        /\ SCAN_INTERVAL \in Nat
    BY GateAssumption, HeightsAssumption DEF HeightsInv, HeightsTypeOK, GateTypeOK
  <1>2. /\ nextScan' = nextScan + SCAN_INTERVAL /\ cycle' = cycle + 1
        /\ checks' = checks \cup [endpoint : Endpoints, cycle : {cycle + 1}, since : {now}]
        /\ endpointBlockHeights' = [e \in Endpoints |-> 0]
        /\ UNCHANGED <<now, alertThrottling, primaryEndpointStatus, lastSyncLagAlertTime,
                       lastAnswered, downAlerts, lagSeenAt>>
    BY DEF MonitorBlocks
  <1>3. checks' \subseteq [endpoint : Endpoints, cycle : 1 .. cycle', since : StartTime .. now']
    <2>1. \A c \in checks : c \in [endpoint : Endpoints, cycle : 1 .. cycle + 1, since : StartTime .. now]
      BY <1>1 DEF HeightsInv, HeightsTypeOK
    <2>2. \A c \in [endpoint : Endpoints, cycle : {cycle + 1}, since : {now}] :
            c \in [endpoint : Endpoints, cycle : 1 .. cycle + 1, since : StartTime .. now]
      BY <1>1
    <2> QED BY <1>2, <2>1, <2>2
  <1> QED
    BY <1>1, <1>2, <1>3
    DEF HeightsInv, GateTypeOK, HeightsTypeOK, HistoryOK, LagInv, LagNeverSilent, DownInv, DownAlertsTrue

\* Whatever leaves the monitor and its entry of the throttle alone.
LEMMA HeightsKept ==
  ASSUME HeightsInv, UNCHANGED heightsVars, GateTypeOK', now' >= now,
         alertThrottling'["sync_blocks_lag"] = alertThrottling["sync_blocks_lag"]
  PROVE  HeightsInv'
  <1>1. now \in Nat /\ now' \in Nat /\ StartTime \in Nat
    BY GateAssumption DEF HeightsInv, GateTypeOK
  <1>2. HeightsTypeOK'
    <2>1. \A S : S \in [endpoint : Endpoints, cycle : 1 .. cycle, since : StartTime .. now]
                => S \in [endpoint : Endpoints, cycle : 1 .. cycle, since : StartTime .. now']
      BY <1>1
    <2> QED
      BY <1>1, <2>1 DEF HeightsInv, HeightsTypeOK, heightsVars
  <1>3. HistoryOK'
    <2>1. \A a \in [at : 0 .. now, lastAnswered : 0 .. now] :
            a \in [at : 0 .. now', lastAnswered : 0 .. now']
      BY <1>1
    <2> QED BY <1>1, <2>1 DEF HeightsInv, HistoryOK, heightsVars, heightsHistory
  <1>4. LagInv' /\ DownInv'
    BY DEF HeightsInv, LagInv, LagNeverSilent, DownInv, DownAlertsTrue, heightsVars, heightsHistory
  <1> QED BY <1>2, <1>3, <1>4 DEF HeightsInv

-----------------------------------------------------------------------------
(***************************************************************************)
(* What the steps of one monitor leave of the throttle to another one.     *)
(***************************************************************************)
PeerTypes == {"rpc_no_peers", "rpc_low_peers"}

LEMMA LagReportedElsewhere ==
  ASSUME GateTypeOK, NEW throttling \in Throttling, NEW heights, NEW t \in PeerTypes
  PROVE  LagReported(throttling, heights)[t] = throttling[t]
  <1> DEFINE lag == "sync_blocks_lag"
  <1>1. lag \in AlertType /\ t \in AlertType /\ t # lag
    BY DEF AlertType, PeerTypes
  <1>2. \A f \in Throttling : \A n : Reported(f, lag, n) \in Throttling /\ Reported(f, lag, n)[t] = f[t]
    BY <1>1, ReportedOK
  <1>3. \A n, m : Reported(Reported(throttling, lag, n), lag, m)[t] = throttling[t]
    BY <1>2
  <1>4. CASE CriticalLagging(heights) # {} /\ WarningLagging(heights) # {}
    BY <1>3, <1>4 DEF LagReported
  <1>5. CASE CriticalLagging(heights) = {} \/ WarningLagging(heights) = {}
    BY <1>2, <1>5 DEF LagReported
  <1> QED BY <1>4, <1>5

LEMMA FinishCheckElsewhere ==
  ASSUME GateTypeOK, NEW c, NEW heights, NEW throttling \in Throttling, NEW t \in PeerTypes,
         FinishCheck(c, heights, throttling)
  PROVE  alertThrottling'[t] = throttling[t]
  BY LagReportedElsewhere DEF FinishCheck, CheckForBlockHeightLag

LEMMA HeightsElsewhere ==
  ASSUME GateTypeOK, HeightsNext, NEW t \in PeerTypes
  PROVE  alertThrottling'[t] = alertThrottling[t]
  <1>1. /\ alertThrottling \in Throttling
        /\ t \in AlertType /\ "rpc_endpoint_down" \in AlertType /\ t # "rpc_endpoint_down"
    BY DEF GateTypeOK, Throttling, AlertType, PeerTypes
  <1>2. /\ Reported(alertThrottling, "rpc_endpoint_down", 1) \in Throttling
        /\ Reported(alertThrottling, "rpc_endpoint_down", 1)[t] = alertThrottling[t]
    BY <1>1, ReportedOK
  <1>3. ASSUME NEW c \in checks, NEW height \in Heights, CheckAnswered(c, height)
        PROVE  alertThrottling'[t] = alertThrottling[t]
    BY <1>1, <1>3, FinishCheckElsewhere DEF CheckAnswered
  <1>4. ASSUME NEW c \in checks, CheckUnreadable(c) \/ CheckFailed(c)
        PROVE  alertThrottling'[t] = alertThrottling[t]
    BY <1>1, <1>2, <1>4, FinishCheckElsewhere DEF CheckUnreadable, CheckFailed
  <1>5. CASE RpcMonitorReport
    BY <1>2, <1>5 DEF RpcMonitorReport
  <1> QED
    BY <1>3, <1>4, <1>5 DEF HeightsNext, OnModuleInit, MonitorBlocks, HeightsTick

LEMMA PeersElsewhere ==
  ASSUME GateTypeOK, PeersNext
  PROVE  /\ GateTypeOK' /\ now' >= now
         /\ alertThrottling'["sync_blocks_lag"] = alertThrottling["sync_blocks_lag"]
  <1>1. /\ alertThrottling \in Throttling /\ now \in Nat
        /\ "sync_blocks_lag" \in AlertType /\ PeerTypes \subseteq AlertType
        /\ "sync_blocks_lag" \notin PeerTypes
    BY DEF GateTypeOK, Throttling, AlertType, PeerTypes
  <1>2. \A t \in PeerTypes :
          /\ Reported(alertThrottling, t, 1) \in Throttling
          /\ Reported(alertThrottling, t, 1)["sync_blocks_lag"] = alertThrottling["sync_blocks_lag"]
    BY <1>1, ReportedOK
  <1>3. CASE PeersTick
    BY <1>1, <1>3, GateTicked DEF PeersTick
  <1>4. CASE \E t \in PeerTypes : OtherEndpointsAlert(t)
    BY <1>1, <1>2, <1>4 DEF OtherEndpointsAlert, GateTypeOK, Throttling
  <1>5. CASE \E n \in PeerCounts \cup {NaN} : ProcessPeerCount(n)
    <2>1. /\ now' = now
          /\ \/ alertThrottling' = alertThrottling
             \/ \E t \in PeerTypes : alertThrottling' = Reported(alertThrottling, t, 1)
      BY <1>5 DEF ProcessPeerCount, CheckForAlert, PeerTypes
    <2> QED BY <1>1, <1>2, <2>1 DEF GateTypeOK, Throttling
  <1> QED
    BY <1>3, <1>4, <1>5 DEF PeersNext, PeerTypes

LEMMA BlocksElsewhere ==
  ASSUME GateTypeOK, BlocksNext
  PROVE  GateTypeOK' /\ now' >= now /\ alertThrottling' = alertThrottling
  <1>1. alertThrottling' = alertThrottling /\ (now' = now \/ now' = now + 1)
    BY DEF BlocksNext, ProcessLatestBlockData, BlocksFetched, BlocksNotFetched, BatchSettled, BlocksTick
  <1> QED BY <1>1, GateTicked DEF GateTypeOK

LEMMA HeightsNextOK == HeightsInv /\ HeightsNext => HeightsInv' /\ now' >= now
  <1> SUFFICES ASSUME HeightsInv, HeightsNext PROVE HeightsInv' /\ now' >= now
    OBVIOUS
  <1>1. GateTypeOK /\ now \in Nat /\ alertThrottling \in Throttling
    BY DEF HeightsInv, GateTypeOK, Throttling
  <1>2. CASE \E heights \in [Endpoints -> Heights \cup {0}], failing \in SUBSET Endpoints :
               OnModuleInit(heights, failing)
    BY <1>1, <1>2, OnModuleInitOK DEF OnModuleInit
  <1>3. CASE MonitorBlocks
    BY <1>1, <1>3, MonitorBlocksOK DEF MonitorBlocks
  <1>4. CASE \E c \in checks : \/ \E height \in Heights : CheckAnswered(c, height)
                               \/ CheckUnreadable(c)
                               \/ CheckFailed(c)
    <2>1. HeightsInv'
      BY <1>4, CheckAnsweredOK, CheckUnreadableOK, CheckFailedOK
    <2>2. now' = now
      BY <1>4 DEF CheckAnswered, CheckUnreadable, CheckFailed, FinishCheck
    <2> QED BY <1>1, <2>1, <2>2
  <1>5. CASE RpcMonitorReport
    <2>1. /\ "rpc_endpoint_down" \in AlertType /\ "sync_blocks_lag" \in AlertType
          /\ "rpc_endpoint_down" # "sync_blocks_lag"
      BY DEF AlertType
    <2>2. /\ now' = now /\ UNCHANGED heightsVars
          /\ alertThrottling' = Reported(alertThrottling, "rpc_endpoint_down", 1)
      BY <1>5 DEF RpcMonitorReport
    <2>3. /\ alertThrottling' \in Throttling
          /\ alertThrottling'["sync_blocks_lag"] = alertThrottling["sync_blocks_lag"]
      BY <1>1, <2>1, <2>2, ReportedOK
    <2>4. GateTypeOK'
      BY <1>1, <2>2, <2>3 DEF GateTypeOK, Throttling
    <2> QED BY <1>1, <2>2, <2>3, <2>4, HeightsKept
  <1>6. CASE HeightsTick
    <2>1. now' = now + 1 /\ UNCHANGED <<alertThrottling, heightsVars>>
      BY <1>6 DEF HeightsTick
    <2>2. GateTypeOK'
      BY <1>1, <2>1, GateTicked
    <2> QED BY <1>1, <2>1, <2>2, HeightsKept
  <1> QED
    BY <1>2, <1>3, <1>4, <1>5, <1>6 DEF HeightsNext

LEMMA HeightsInitOK == Init => HeightsInv
  <1> SUFFICES ASSUME Init PROVE HeightsInv
    OBVIOUS
  <1>1. /\ now = StartTime /\ StartTime \in Nat \ {0} /\ ConfiguredPrimary \in Endpoints
        /\ alertThrottling = [t \in AlertType |-> 0]
        /\ nextScan = 0 /\ cycle = 0 /\ checks = {}
        /\ endpointBlockHeights = [e \in Endpoints |-> 0]
        /\ primaryEndpointStatus = [url |-> ConfiguredPrimary, downSince |-> 0, alerted |-> FALSE]
        /\ lastSyncLagAlertTime = 0 /\ lastAnswered = StartTime /\ downAlerts = {} /\ lagSeenAt = 0
    BY GateAssumption, HeightsAssumption DEF Init, GateInit, HeightsInit
  <1>2. GateTypeOK /\ "sync_blocks_lag" \in AlertType
    BY <1>1 DEF GateTypeOK, AlertType
  <1>3. HeightsTypeOK /\ HistoryOK
    BY <1>1 DEF HeightsTypeOK, HistoryOK
  <1>4. LagInv /\ DownInv
    BY <1>1, <1>2 DEF LagInv, LagNeverSilent, DownInv, DownAlertsTrue
  <1> QED BY <1>2, <1>3, <1>4 DEF HeightsInv

\* A step of one monitor, whether the others run in the same behaviour or not:
\* when the clock advances for all, none of them does anything else.
OneSteps ==
  \/ HeightsNext /\ UNCHANGED <<blocksVars, peersVars>>
  \/ BlocksNext /\ UNCHANGED <<heightsVars, peersVars>>
  \/ PeersNext /\ UNCHANGED <<heightsVars, blocksVars>>
  \/ UNCHANGED vars

LEMMA NextIsOne == [Next]_vars => OneSteps
  BY DEF Next, AtHorizon, OneSteps

LEMMA TogetherIsOne == [TogetherNext]_vars => OneSteps
  <1>1. HeightsTick /\ BlocksTick /\ PeersTick
          => HeightsNext /\ UNCHANGED <<blocksVars, peersVars>>
    BY DEF HeightsNext, BlocksTick, PeersTick
  <1> QED BY <1>1 DEF TogetherNext, OneSteps

LEMMA HeightsStep == HeightsInv /\ OneSteps => HeightsInv'
  <1> SUFFICES ASSUME HeightsInv, OneSteps PROVE HeightsInv'
    OBVIOUS
  <1>1. GateTypeOK
    BY DEF HeightsInv
  <1>2. CASE HeightsNext
    BY <1>2, HeightsNextOK
  <1>3. CASE BlocksNext /\ UNCHANGED heightsVars
    BY <1>1, <1>3, BlocksElsewhere, HeightsKept
  <1>4. CASE PeersNext /\ UNCHANGED heightsVars
    BY <1>1, <1>4, PeersElsewhere, HeightsKept
  <1>5. CASE UNCHANGED vars
    <2>1. UNCHANGED heightsVars /\ now' = now /\ alertThrottling' = alertThrottling
      BY <1>5 DEF vars
    <2>2. GateTypeOK' /\ now' >= now
      BY <1>1, <2>1 DEF GateTypeOK
    <2> QED BY <2>1, <2>2, HeightsKept
  <1> QED
    BY <1>2, <1>3, <1>4, <1>5 DEF OneSteps

LEMMA HeightsInvariant == Spec => []HeightsInv
  BY HeightsInitOK, NextIsOne, HeightsStep, PTL DEF Spec

\* A lag that a cycle finds was alerted about within the hour, for every number
\* of endpoints, every threshold and every throttle that AlertService does not
\* hold longer than the monitor (blocks.monitor.ts:846-862, 917-920).
THEOREM LagIsNeverSilent == Spec => []LagNeverSilent
  <1>1. HeightsInv => LagNeverSilent
    BY DEF HeightsInv, LagInv
  <1> QED BY <1>1, HeightsInvariant, PTL

\* Every downtime alert is of a primary that gave no height for the threshold,
\* and no silence is alerted about twice, whatever requests overlap and however
\* late they fail (blocks.monitor.ts:502-530).
THEOREM DownAlertsAreTrue == Spec => []DownAlertsTrue
  <1>1. HeightsInv => DownAlertsTrue
    BY DEF HeightsInv, DownInv
  <1> QED BY <1>1, HeightsInvariant, PTL

-----------------------------------------------------------------------------
(***************************************************************************)
(* Heights of one cycle.                                                   *)
(***************************************************************************)
LEMMA PowerZero == 2 ^ 0 = 1
  <1>1. IsFiniteSet({}) /\ Cardinality({}) = 0
    BY FS_EmptySet
  <1>2. SUBSET {} = {{}}
    OBVIOUS
  <1>3. Cardinality({{}}) = 1
    BY FS_Singleton
  <1> QED BY <1>1, <1>2, <1>3, FS_SUBSET

LEMMA CheckDurationIs == CheckDuration = CHECK_TIMEOUT
  <1>1. CHECK_TIMEOUT \in Nat /\ CHECK_RETRY_DELAY \in Nat
    BY HeightsAssumption
  <1>2. CheckDuration = 1 * CHECK_TIMEOUT + CHECK_RETRY_DELAY * (2 ^ 0 - 1)
    BY DEF CheckDuration, CallDuration
  <1> QED BY <1>1, <1>2, PowerZero

\* Requests in flight are of the newest cycle, which the interval will not
\* follow by another one before their timeout.
CycleInv ==
  /\ nextScan = 0 => checks = {} /\ cycle = 0
  /\ nextScan = 0 => \A e \in Endpoints : heightCycle[e] = 0
  /\ nextScan # 0 => now <= nextScan
  /\ \A c \in checks : /\ c.cycle = cycle /\ c.since + SCAN_INTERVAL = nextScan
                       /\ now <= c.since + CHECK_TIMEOUT
  /\ heightCycle \in [Endpoints -> Nat]
  /\ HeightsOfOneCycle

LEMMA CycleStep ==
  ASSUME CHECK_TIMEOUT < SCAN_INTERVAL, HeightsInv, CycleInv, HeightsNext
  PROVE  CycleInv'
  <1>1. /\ now \in Nat /\ nextScan \in Nat /\ cycle \in Nat /\ now # 0 /\ now >= StartTime
        /\ SCAN_INTERVAL \in Nat \ {0} /\ CHECK_TIMEOUT \in Nat
        /\ \A c \in checks : c.endpoint \in Endpoints /\ c.since \in StartTime .. now
        /\ StartTime \in Nat
        /\ endpointBlockHeights \in [Endpoints -> Heights \cup {0}]
    BY GateAssumption, HeightsAssumption DEF HeightsInv, GateTypeOK, HeightsTypeOK
  <1>2. CASE \E heights \in [Endpoints -> Heights \cup {0}], failing \in SUBSET Endpoints :
               OnModuleInit(heights, failing)
    BY <1>1, <1>2 DEF OnModuleInit, heightsHistory, CycleInv, HeightsOfOneCycle, Known
  <1>3. CASE MonitorBlocks
    <2>1. now = nextScan /\ checks = {}
      BY <1>1, <1>3 DEF MonitorBlocks, CycleInv
    <2>2. /\ nextScan' = now + SCAN_INTERVAL /\ cycle' = cycle + 1 /\ now' = now
          /\ checks' = [endpoint : Endpoints, cycle : {cycle + 1}, since : {now}]
          /\ endpointBlockHeights' = [e \in Endpoints |-> 0]
          /\ heightCycle' = [e \in Endpoints |-> 0]
      BY <1>3, <2>1 DEF MonitorBlocks
    <2>3. \A c \in checks' : c.cycle = cycle + 1 /\ c.since = now
      BY <2>2
    <2>4. HeightsOfOneCycle' /\ heightCycle' \in [Endpoints -> Nat]
      BY <2>2 DEF HeightsOfOneCycle, Known
    <2> QED
      BY <1>1, <2>2, <2>3, <2>4 DEF CycleInv
  <1>4. ASSUME NEW c \in checks, NEW height \in Heights, CheckAnswered(c, height)
        PROVE  CycleInv'
    <2>1. /\ checks' = checks \ {c} /\ UNCHANGED <<now, nextScan, cycle>>
          /\ endpointBlockHeights' = [endpointBlockHeights EXCEPT ![c.endpoint] = height]
          /\ heightCycle' = [heightCycle EXCEPT ![c.endpoint] = c.cycle]
          /\ c.cycle = cycle /\ c.endpoint \in Endpoints /\ nextScan # 0
      BY <1>1, <1>4 DEF CheckAnswered, FinishCheck, CycleInv
    <2> QED
      BY <1>1, <2>1 DEF CycleInv, HeightsOfOneCycle, Known
  <1>5. ASSUME NEW c \in checks, CheckUnreadable(c) \/ CheckFailed(c)
        PROVE  CycleInv'
    <2>1. /\ checks' = checks \ {c}
          /\ UNCHANGED <<now, nextScan, cycle, endpointBlockHeights, heightCycle>>
      BY <1>5 DEF CheckUnreadable, CheckFailed, FinishCheck
    <2>2. nextScan # 0
      BY <1>5 DEF CycleInv
    <2> QED
      BY <2>1, <2>2 DEF CycleInv, HeightsOfOneCycle, Known
  <1>6. CASE RpcMonitorReport
    BY <1>6 DEF RpcMonitorReport, heightsVars, heightsHistory, CycleInv, HeightsOfOneCycle, Known
  <1>7. CASE HeightsTick
    <2>1. /\ now' = now + 1 /\ nextScan > now /\ UNCHANGED heightsVars
          /\ \A c \in checks : now < c.since + CHECK_TIMEOUT
      BY <1>7, CheckDurationIs DEF HeightsTick
    <2>2. \A c \in checks : now + 1 <= c.since + CHECK_TIMEOUT
      BY <1>1, <2>1
    <2> QED
      BY <1>1, <2>1, <2>2 DEF heightsVars, heightsHistory, CycleInv, HeightsOfOneCycle, Known
  <1> QED
    BY <1>2, <1>3, <1>4, <1>5, <1>6, <1>7 DEF HeightsNext

\* Nothing else makes time pass once the heights are asked for.
LEMMA CycleKept ==
  ASSUME CycleInv, UNCHANGED heightsVars, nextScan = 0 \/ now' = now
  PROVE  CycleInv'
  BY DEF CycleInv, HeightsOfOneCycle, Known, heightsVars, heightsHistory

LEMMA CycleInitOK == Init => CycleInv
  BY DEF Init, HeightsInit, CycleInv, HeightsOfOneCycle, Known

\* With a timeout shorter than the scan interval, as they are by default, the
\* lag check and the choice of the best endpoint compare heights of one cycle,
\* although nothing in the code waits for the cycle before
\* (blocks.monitor.ts:379-412).
THEOREM HeightsAreOfOneCycle ==
  ASSUME CHECK_TIMEOUT < SCAN_INTERVAL
  PROVE  Spec => []HeightsOfOneCycle
  <1> DEFINE Inv == CycleInv /\ (part # "heights" => nextScan = 0)
  <1>1. Init => Inv
    BY CycleInitOK DEF Init, HeightsInit
  <1>2. HeightsInv /\ Inv /\ [Next]_vars => Inv'
    <2> SUFFICES ASSUME HeightsInv, Inv, [Next]_vars
                 PROVE  Inv'
      OBVIOUS
    <2>1. CASE part = "heights" /\ HeightsNext /\ UNCHANGED part
      BY <2>1, CycleStep
    <2>2. CASE part # "heights" /\ UNCHANGED <<heightsVars, part>>
      BY <2>2, CycleKept DEF heightsVars
    <2>3. CASE UNCHANGED vars
      BY <2>3, CycleKept DEF vars, heightsVars
    <2> QED
      BY <2>1, <2>2, <2>3 DEF Next, AtHorizon
  <1>3. Inv => HeightsOfOneCycle
    BY DEF CycleInv
  <1> QED
    BY <1>1, <1>2, <1>3, HeightsInvariant, PTL DEF Spec

-----------------------------------------------------------------------------
(***************************************************************************)
(* Peer counts.                                                            *)
(***************************************************************************)
LEMMA MaxIs ==
  ASSUME NEW S \in SUBSET Int, NEW m \in S, \A y \in S : m >= y
  PROVE  Max(S) = m
  <1>1. \A x \in S : (\A y \in S : x >= y) => x = m
    OBVIOUS
  <1> QED BY <1>1 DEF Max

\* A non-empty set of natural numbers has a least element, a bounded one a
\* greatest.
LEMMA LeastExists ==
  ASSUME NEW S, S \subseteq Nat, S # {}
  PROVE  \E x \in S : \A y \in S : x <= y
  <1>1. PICK x \in S : \A y \in S : ~(<<y, x>> \in OpToRel(<, Nat))
    BY WFMin, NatLessThanWellFounded
  <1>2. \A y \in S : ~(y < x)
    BY <1>1 DEF OpToRel
  <1> QED BY <1>2

LEMMA MaxExists ==
  ASSUME NEW n \in Nat, NEW S \in SUBSET (0 .. n), S # {}
  PROVE  Max(S) \in S /\ \A y \in S : Max(S) >= y
  <1> DEFINE distances == {n - y : y \in S}
  <1>1. \A y \in S : y \in Nat /\ n - y \in Nat
    OBVIOUS
  <1>2. PICK d \in distances : \A e \in distances : d <= e
    <2>1. distances \subseteq Nat /\ distances # {}
      BY <1>1
    <2> HIDE DEF distances
    <2> QED BY <2>1, LeastExists
  <1>3. PICK m \in S : d = n - m
    OBVIOUS
  <1>4. \A y \in S : n - m <= n - y
    BY <1>2, <1>3
  <1>5. \A y \in S : m >= y
    BY <1>1, <1>4
  <1>6. Max(S) = m
    BY <1>1, <1>5, MaxIs
  <1> QED BY <1>5, <1>6

LEMMA PowerMonotone ==
  ASSUME NEW m \in Nat, NEW n \in Nat, m <= n
  PROVE  2 ^ m \in Nat /\ 2 ^ n \in Nat /\ 2 ^ m <= 2 ^ n
  <1>1. /\ IsFiniteSet(1 .. m) /\ Cardinality(1 .. m) = m
        /\ IsFiniteSet(1 .. n) /\ Cardinality(1 .. n) = n
    BY FS_Interval
  <1>2. /\ IsFiniteSet(SUBSET (1 .. n)) /\ Cardinality(SUBSET (1 .. n)) = 2 ^ n
        /\ IsFiniteSet(SUBSET (1 .. m)) /\ Cardinality(SUBSET (1 .. m)) = 2 ^ m
    BY <1>1, FS_SUBSET
  <1>3. SUBSET (1 .. m) \in SUBSET SUBSET (1 .. n)
    OBVIOUS
  <1>4. Cardinality(SUBSET (1 .. m)) <= Cardinality(SUBSET (1 .. n))
    BY <1>2, <1>3, FS_Subset
  <1> QED BY <1>2, <1>4, FS_CardinalityType

LEMMA TimesMonotone ==
  ASSUME NEW a \in Nat, NEW m \in Nat, NEW n \in Nat, m <= n
  PROVE  a * m <= a * n
  OBVIOUS

\* The back-off of more alerts is no shorter.
LEMMA BackoffMonotone ==
  ASSUME NEW S, NEW T \in SUBSET S, IsFiniteSet(S), T # {}
  PROVE  Backoff(T) \in Nat \ {0} /\ Backoff(S) \in Nat \ {0} /\ Backoff(T) <= Backoff(S)
  <1> DEFINE t == Cardinality(T) - 1
             s == Cardinality(S) - 1
  <1>1. /\ IsFiniteSet(T) /\ Cardinality(T) \in Nat /\ Cardinality(S) \in Nat
        /\ Cardinality(T) <= Cardinality(S) /\ Cardinality(T) # 0
    BY FS_Subset, FS_CardinalityType, FS_EmptySet
  <1>2. s \in Nat /\ t \in Nat /\ t <= s
    BY <1>1
  <1>3. Backoff(T) = ALERT_BACKOFF_INITIAL * 2 ^ t /\ Backoff(S) = ALERT_BACKOFF_INITIAL * 2 ^ s
    BY DEF Backoff
  <1> HIDE DEF s, t
  <1>4. 2 ^ t \in Nat /\ 2 ^ s \in Nat /\ 2 ^ t <= 2 ^ s
    BY <1>2, PowerMonotone
  <1>5. 1 <= 2 ^ t
    <2>1. 0 \in Nat /\ 0 <= t
      BY <1>2
    <2>2. 2 ^ 0 <= 2 ^ t
      BY <1>2, <2>1, PowerMonotone
    <2> QED BY <2>2, PowerZero
  <1> DEFINE p == 2 ^ t
             q == 2 ^ s
  <1>6. ALERT_BACKOFF_INITIAL \in Nat \ {0} /\ p \in Nat /\ q \in Nat /\ 1 <= p /\ p <= q
    BY <1>4, <1>5, PeersAssumption
  <1>7. Backoff(T) = ALERT_BACKOFF_INITIAL * p /\ Backoff(S) = ALERT_BACKOFF_INITIAL * q
    BY <1>3
  <1> HIDE DEF p, q
  <1>8. ALERT_BACKOFF_INITIAL * p <= ALERT_BACKOFF_INITIAL * q
    BY <1>6, TimesMonotone
  <1> QED BY <1>6, <1>7, <1>8

\* Alerts of the endpoint that are still remembered at an instant.
RememberedAt(alerts, t) == {u \in alerts : t >= u /\ t - u < ALERT_HISTORY_RETENTION}

LastLetThrough(throttling) == Max({throttling["rpc_no_peers"], throttling["rpc_low_peers"]})

\* An alert of the endpoint was let through, or another one of its type less
\* than a throttle period before.
PeerAlertsHeard ==
  \A t \in peerAlerts : \E type \in PeerTypes :
    alertThrottling[type] # 0 /\ t - alertThrottling[type] < THROTTLE_DEFAULT

PeersInv == PeersTypeOK /\ PeerAlertsHeard /\ PeerOutageNeverSilent

LEMMA LastLetThroughIs ==
  ASSUME NEW throttling, \A type \in PeerTypes : throttling[type] \in Nat
  PROVE  /\ LastLetThrough(throttling) \in Nat
         /\ \A type \in PeerTypes : LastLetThrough(throttling) >= throttling[type]
         /\ \E type \in PeerTypes : LastLetThrough(throttling) = throttling[type]
  <1> DEFINE a == throttling["rpc_no_peers"]
             b == throttling["rpc_low_peers"]
  <1>1. a \in Nat /\ b \in Nat /\ {a, b} \in SUBSET Int
    BY DEF PeerTypes
  <1>2. LastLetThrough(throttling) = Max({a, b})
    BY DEF LastLetThrough
  <1>3. \A m : LastLetThrough(throttling) = m /\ m \in Nat /\ m >= a /\ m >= b /\ (m = a \/ m = b)
                => /\ LastLetThrough(throttling) \in Nat
                   /\ \A type \in PeerTypes : LastLetThrough(throttling) >= throttling[type]
                   /\ \E type \in PeerTypes : LastLetThrough(throttling) = throttling[type]
    BY DEF PeerTypes
  <1> HIDE DEF a, b
  <1>4. CASE a >= b
    <2>1. Max({a, b}) = a
      BY <1>1, <1>4, MaxIs
    <2> QED BY <1>1, <1>2, <1>3, <1>4, <2>1
  <1>5. CASE b >= a
    <2>1. Max({a, b}) = b
      BY <1>1, <1>5, MaxIs
    <2> QED BY <1>1, <1>2, <1>3, <1>5, <2>1
  <1> QED BY <1>1, <1>4, <1>5

LEMMA OutageIs ==
  PeerOutageNeverSilent <=>
    (peersOutAt # 0 =>
       /\ RememberedAt(peerAlerts, peersOutAt) # {} /\ LastLetThrough(alertThrottling) # 0
       /\ peersOutAt - LastLetThrough(alertThrottling)
            < Backoff(RememberedAt(peerAlerts, peersOutAt)) + THROTTLE_DEFAULT)
  BY DEF PeerOutageNeverSilent, RememberedAt, LastLetThrough

LEMMA PeerTypesOK ==
  ASSUME GateTypeOK, PeersTypeOK
  PROVE  /\ now \in Nat /\ StartTime \in Nat \ {0}
         /\ \A type \in PeerTypes : type \in AlertType /\ alertThrottling[type] \in 0 .. now
         /\ peerAlerts \subseteq StartTime .. now
         /\ peersReadAt \in 0 .. now /\ peersOutAt \in 0 .. peersReadAt
  BY GateAssumption DEF GateTypeOK, PeersTypeOK, AlertType, PeerTypes

LEMMA RememberedFinite ==
  ASSUME NEW alerts, NEW t, NEW m \in Int, NEW n \in Int, alerts \subseteq m .. n
  PROVE  IsFiniteSet(RememberedAt(alerts, t))
  <1>1. RememberedAt(alerts, t) \subseteq m .. n
    BY DEF RememberedAt
  <1> QED BY <1>1, FS_Interval, FS_Subset

\* Later reports of the chain take nothing from an alert that was heard.
LEMMA AlertsStillHeard ==
  ASSUME GateTypeOK, PeersTypeOK, PeerAlertsHeard, peerAlerts' = peerAlerts,
         \A type \in PeerTypes : alertThrottling'[type] \in Nat
                                  /\ alertThrottling'[type] >= alertThrottling[type]
  PROVE  PeerAlertsHeard'
  <1>1. \A type \in PeerTypes : alertThrottling[type] \in Nat
    BY PeerTypesOK
  <1>2. \A t \in peerAlerts : t \in Int
    BY PeerTypesOK
  <1>3. THROTTLE_DEFAULT \in Int
    BY GateAssumption
  <1> QED
    BY <1>1, <1>2, <1>3 DEF PeerAlertsHeard

\* Nor does time, or a later alert of the endpoint, from an outage that was.
LEMMA OutageStillHeard ==
  ASSUME GateTypeOK, PeersTypeOK, PeerOutageNeverSilent,
         peersOutAt' = peersOutAt, peerAlerts \subseteq peerAlerts',
         \A t \in peerAlerts' \ peerAlerts : t \in Int /\ t > peersOutAt,
         \A type \in PeerTypes : alertThrottling'[type] \in Nat
                                  /\ alertThrottling'[type] >= alertThrottling[type]
  PROVE  PeerOutageNeverSilent'
  <1> DEFINE out == peersOutAt
             heard == LastLetThrough(alertThrottling)
             remembered == RememberedAt(peerAlerts, out)
  <1>1. /\ out \in Nat /\ THROTTLE_DEFAULT \in Nat
        /\ now \in Int /\ StartTime \in Int /\ peerAlerts \subseteq StartTime .. now
    BY GateAssumption, PeerTypesOK
  <1>2. /\ heard \in Nat /\ LastLetThrough(alertThrottling') \in Nat
        /\ LastLetThrough(alertThrottling') >= heard
    <2>1. \A type \in PeerTypes : alertThrottling[type] \in Nat
      BY PeerTypesOK
    <2>2. /\ heard \in Nat /\ LastLetThrough(alertThrottling') \in Nat
          /\ \A type \in PeerTypes : LastLetThrough(alertThrottling') >= alertThrottling'[type]
      BY <2>1, LastLetThroughIs
    <2>3. PICK type \in PeerTypes : heard = alertThrottling[type]
      BY <2>1, LastLetThroughIs
    <2> HIDE DEF heard
    <2> QED BY <2>1, <2>2, <2>3
  <1>3. RememberedAt(peerAlerts', out) = remembered
    <2>1. \A t \in peerAlerts' \ peerAlerts : ~(out >= t)
      BY <1>1
    <2> QED BY <2>1 DEF RememberedAt
  <1>4. CASE out # 0
    <2>1. /\ remembered # {} /\ heard # 0
          /\ out - heard < Backoff(remembered) + THROTTLE_DEFAULT
      BY <1>4, OutageIs
    <2>2. Backoff(remembered) \in Nat
      <3>1. IsFiniteSet(remembered)
        BY <1>1, RememberedFinite
      <3> HIDE DEF remembered
      <3> QED BY <2>1, <3>1, BackoffMonotone
    <2> DEFINE backoff == Backoff(remembered)
    <2>3. out - LastLetThrough(alertThrottling') < backoff + THROTTLE_DEFAULT
      <3> HIDE DEF backoff, heard, out
      <3> QED BY <1>1, <1>2, <2>1, <2>2 DEF backoff
    <2>4. LastLetThrough(alertThrottling') # 0
      <3> HIDE DEF heard
      <3> QED BY <1>2, <2>1
    <2> QED
      BY <1>3, <2>1, <2>3, <2>4 DEF PeerOutageNeverSilent, RememberedAt, LastLetThrough
  <1>5. CASE out = 0
    BY <1>5 DEF PeerOutageNeverSilent
  <1> QED BY <1>4, <1>5

\* A reading keeps the shape of the baseline, and remembers alerts of the
\* retention period alone.
LEMMA UpdateBaselineOK ==
  ASSUME GateTypeOK, PeersTypeOK, NEW n \in PeerCounts \cup {NaN}
  PROVE  LET b == UpdateBaseline(peers, n)
         IN  /\ b.baselinePeerCount \in Int /\ b.highestPeerCount \in PeerCounts \cup {0}
             /\ b.sampleCount \in 0 .. MIN_SAMPLES_FOR_BASELINE
             /\ b.typicallyHasPeers \in BOOLEAN
             /\ b.recentAlerts \subseteq RememberedAt(peerAlerts, now)
  <1> DEFINE b == UpdateBaseline(peers, n)
  <1>1. /\ n \in Int /\ PeerCounts \subseteq Nat /\ SCALE \in Nat \ {0} /\ MIN_SAMPLES_FOR_BASELINE \in Nat
        /\ peers.baselinePeerCount \in Int /\ peers.highestPeerCount \in PeerCounts \cup {0}
        /\ peers.sampleCount \in 0 .. MIN_SAMPLES_FOR_BASELINE
        /\ peers.recentAlerts \subseteq peerAlerts
        /\ peers.typicallyHasPeers \in BOOLEAN
    BY PeersAssumption DEF PeersTypeOK, NaN
  <1>2. b.baselinePeerCount \in Int
    <2> DEFINE x == peers.baselinePeerCount * peers.sampleCount + n * SCALE
               y == peers.baselinePeerCount * 9 + n * SCALE
               d == peers.sampleCount + 1
    <2>1. x \in Int /\ y \in Int /\ d \in Nat \ {0}
      BY <1>1
    <2>2. b.baselinePeerCount \in {NaN, x \div d, y \div 10}
      BY DEF UpdateBaseline
    <2> HIDE DEF x, y, d
    <2>3. x \div d \in Int /\ y \div 10 \in Int /\ NaN \in Int
      BY <2>1 DEF NaN
    <2> QED BY <2>2, <2>3
  <1>3. b.highestPeerCount \in PeerCounts \cup {0}
    <2>1. b.highestPeerCount = IF n > peers.highestPeerCount THEN n ELSE peers.highestPeerCount
      BY DEF UpdateBaseline
    <2>2. peers.highestPeerCount \in Nat
      <3>1. \A k \in PeerCounts \cup {0} : k \in Nat
        BY <1>1
      <3> QED BY <1>1, <3>1
    <2>3. n > peers.highestPeerCount => n # NaN
      BY <1>1, <2>2 DEF NaN
    <2> QED BY <1>1, <2>1, <2>3
  <1>4. b.sampleCount \in 0 .. MIN_SAMPLES_FOR_BASELINE
    <2> DEFINE k == peers.sampleCount
    <2>1. b.sampleCount = IF k < MIN_SAMPLES_FOR_BASELINE THEN k + 1 ELSE k
      BY DEF UpdateBaseline
    <2>2. k \in 0 .. MIN_SAMPLES_FOR_BASELINE /\ MIN_SAMPLES_FOR_BASELINE \in Nat
      BY <1>1
    <2> HIDE DEF k, b
    <2> QED BY <2>1, <2>2
  <1>5. b.typicallyHasPeers \in BOOLEAN
    <2>1. \/ b.typicallyHasPeers = peers.typicallyHasPeers
          \/ b.typicallyHasPeers = (2 * b.baselinePeerCount > SCALE)
      BY DEF UpdateBaseline
    <2> HIDE DEF b
    <2>2. (2 * b.baselinePeerCount > SCALE) \in BOOLEAN
      BY <1>1, <1>2
    <2> QED BY <1>1, <2>1, <2>2
  <1>6. b.recentAlerts \subseteq RememberedAt(peerAlerts, now)
    <2>1. b.recentAlerts = {t \in peers.recentAlerts : now - t < ALERT_HISTORY_RETENTION}
      BY DEF UpdateBaseline
    <2>2. now \in Int /\ \A t \in peerAlerts : t \in Int /\ now >= t
      BY PeerTypesOK
    <2> QED BY <1>1, <2>1, <2>2 DEF RememberedAt
  <1> QED BY <1>2, <1>3, <1>4, <1>5, <1>6

LEMMA ProcessPeerCountOK ==
  ASSUME GateTypeOK, PeersInv, NEW n \in PeerCounts \cup {NaN}, ProcessPeerCount(n)
  PROVE  PeersInv'
  <1> DEFINE b == UpdateBaseline(peers, n)
             type == IF NoPeers(b, n) THEN "rpc_no_peers" ELSE "rpc_low_peers"
             out == Established(b) /\ NoPeers(b, n)
             due == Established(b) /\ (NoPeers(b, n) \/ LowPeers(b, n))
             raise == due /\ ~IsAlertThrottled(b)
             remembered == RememberedAt(peerAlerts', now)
  <1>1. /\ now' = now /\ now > peersReadAt /\ peersReadAt' = now
        /\ peersOutAt' = IF out THEN now ELSE peersOutAt
        /\ peers' = IF raise THEN [b EXCEPT !.recentAlerts = @ \cup {now}] ELSE b
        /\ alertThrottling' = IF raise THEN Reported(alertThrottling, type, 1) ELSE alertThrottling
        /\ peerAlerts' = IF raise THEN peerAlerts \cup {now} ELSE peerAlerts
    BY DEF ProcessPeerCount, CheckForAlert
  <1>2. /\ PeersTypeOK /\ PeerAlertsHeard /\ PeerOutageNeverSilent
        /\ now \in Nat /\ StartTime \in Nat \ {0} /\ now >= StartTime
        /\ \A u \in PeerTypes : u \in AlertType /\ alertThrottling[u] \in 0 .. now
        /\ peerAlerts \subseteq StartTime .. now
        /\ peersReadAt \in 0 .. now /\ peersOutAt \in 0 .. peersReadAt
        /\ alertThrottling \in Throttling /\ type \in PeerTypes
        /\ THROTTLE_DEFAULT \in Nat \ {0} /\ ALERT_HISTORY_RETENTION \in Nat \ {0}
    BY GateAssumption, PeersAssumption, PeerTypesOK DEF PeersInv, GateTypeOK, Throttling, PeerTypes
  <1>3. /\ b.baselinePeerCount \in Int /\ b.highestPeerCount \in PeerCounts \cup {0}
        /\ b.sampleCount \in 0 .. MIN_SAMPLES_FOR_BASELINE
        /\ b.typicallyHasPeers \in BOOLEAN
        /\ b.recentAlerts \subseteq RememberedAt(peerAlerts, now)
    BY <1>2, UpdateBaselineOK
  <1>4. PeersTypeOK'
    <2>1. /\ peers'.baselinePeerCount = b.baselinePeerCount
          /\ peers'.highestPeerCount = b.highestPeerCount
          /\ peers'.sampleCount = b.sampleCount
          /\ peers'.typicallyHasPeers = b.typicallyHasPeers
          /\ peers'.recentAlerts = IF raise THEN b.recentAlerts \cup {now} ELSE b.recentAlerts
      BY <1>1 DEF UpdateBaseline
    <2> HIDE DEF b, raise, out
    <2>2. peers'.recentAlerts \subseteq peerAlerts' /\ peerAlerts' \subseteq StartTime .. now
      BY <1>1, <1>2, <1>3, <2>1 DEF RememberedAt
    <2>3. peersReadAt' \in 0 .. now /\ peersOutAt' \in 0 .. peersReadAt'
      BY <1>1, <1>2
    <2> QED BY <1>1, <1>3, <2>1, <2>2, <2>3 DEF PeersTypeOK
  <1> HIDE DEF b, type
  <1>5. /\ \A u \in PeerTypes : alertThrottling'[u] \in 0 .. now /\ alertThrottling'[u] >= alertThrottling[u]
        /\ raise => alertThrottling'[type] # 0 /\ now - alertThrottling'[type] < THROTTLE_DEFAULT
    <2> DEFINE after == Reported(alertThrottling, type, 1)
    <2>1. /\ after \in Throttling
          /\ \A u \in AlertType : u # type => after[u] = alertThrottling[u]
          /\ after[type] # 0 /\ after[type] >= alertThrottling[type]
          /\ now - after[type] < ThrottlePeriod(type, 1)
      BY <1>2, ReportedOK
    <2>2. ThrottlePeriod(type, 1) = THROTTLE_DEFAULT
      BY <1>2 DEF ThrottlePeriod, PeerTypes
    <2> HIDE DEF after
    <2>3. \A u \in PeerTypes : after[u] \in 0 .. now /\ after[u] >= alertThrottling[u]
      BY <1>2, <2>1 DEF Throttling
    <2> HIDE DEF raise
    <2>4. alertThrottling' = IF raise THEN after ELSE alertThrottling
      BY <1>1 DEF after
    <2> QED BY <1>2, <2>1, <2>2, <2>3, <2>4
  <1> HIDE DEF raise
  <1>6. PeerAlertsHeard'
    <2>1. CASE raise
      <3>1. \A t \in peerAlerts : t \in Int
        BY <1>2
      <3> QED
        BY <1>1, <1>2, <1>5, <2>1, <3>1 DEF PeerAlertsHeard
    <2>2. CASE ~raise
      BY <1>1, <1>2, <1>5, <2>2, AlertsStillHeard
    <2> QED BY <2>1, <2>2
  <1>7. CASE ~out
    <2>1. /\ peersOutAt' = peersOutAt /\ peerAlerts \subseteq peerAlerts'
          /\ \A t \in peerAlerts' \ peerAlerts : t \in Int /\ t > peersOutAt
      BY <1>1, <1>2, <1>7
    <2>2. PeerOutageNeverSilent'
      BY <1>2, <1>5, <2>1, OutageStillHeard
    <2> QED BY <1>4, <1>6, <2>2 DEF PeersInv
  <1>8. CASE out
    <2> DEFINE last == LastLetThrough(alertThrottling')
    <2>1. /\ last \in Nat /\ \A u \in PeerTypes : last >= alertThrottling'[u]
      BY <1>5, LastLetThroughIs
    <2>2. IsFiniteSet(remembered)
      <3>1. now \in Int /\ StartTime \in Int /\ peerAlerts' \subseteq StartTime .. now
        BY <1>1, <1>2
      <3> QED BY <3>1, RememberedFinite
    <2> HIDE DEF last
    <2>3. CASE raise
      <3>1. now \in remembered
        BY <1>1, <1>2, <2>3 DEF RememberedAt
      <3> DEFINE backoff == Backoff(remembered)
      <3>2. backoff \in Nat
        <4>1. remembered # {} /\ remembered \in SUBSET remembered
          BY <3>1
        <4> HIDE DEF remembered
        <4> QED BY <2>2, <4>1, BackoffMonotone
      <3>3. last # 0 /\ now - last < backoff + THROTTLE_DEFAULT
        <4> HIDE DEF backoff
        <4> QED BY <1>2, <1>5, <2>1, <2>3, <3>2
      <3> QED
        BY <1>1, <1>4, <1>6, <1>8, <3>1, <3>3
        DEF PeersInv, PeerOutageNeverSilent, RememberedAt, LastLetThrough, last
    <2>4. CASE ~raise
      <3>1. b.recentAlerts # {} /\ now - Max(b.recentAlerts) < Backoff(b.recentAlerts)
        BY <1>8, <2>4 DEF raise, IsAlertThrottled
      <3> DEFINE recent == b.recentAlerts
                 m == Max(recent)
                 backoff == Backoff(remembered)
      <3>2. recent \in SUBSET remembered
        BY <1>1, <1>3, <2>4
      <3>3. m \in peerAlerts /\ m \in Nat
        <4>1. recent \in SUBSET (0 .. now) /\ recent \subseteq peerAlerts
          <5>1. recent \subseteq peerAlerts
            BY <1>3 DEF RememberedAt
          <5>2. \A t \in StartTime .. now : t \in 0 .. now
            BY <1>2
          <5> HIDE DEF recent
          <5> QED BY <1>2, <5>1, <5>2
        <4>2. recent # {}
          BY <3>1
        <4> HIDE DEF recent
        <4>3. m \in recent
          BY <1>2, <4>1, <4>2, MaxExists
        <4>4. \A t \in recent : t \in peerAlerts /\ t \in Nat
          BY <1>2, <4>1
        <4> HIDE DEF m
        <4> QED BY <4>3, <4>4
      <3>4. PICK u \in PeerTypes : alertThrottling[u] # 0 /\ m - alertThrottling[u] < THROTTLE_DEFAULT
        BY <1>2, <3>3 DEF PeerAlertsHeard
      <3>5. Backoff(recent) \in Nat /\ backoff \in Nat /\ Backoff(recent) <= backoff
        <4>1. recent # {}
          BY <3>1
        <4> HIDE DEF recent, remembered
        <4> QED BY <2>2, <3>2, <4>1, BackoffMonotone
      <3>6. /\ remembered # {}
            /\ now - m < Backoff(recent)
        BY <3>1, <3>2
      <3>7. last >= alertThrottling[u] /\ alertThrottling[u] \in Nat
        BY <1>1, <1>2, <2>1, <2>4
      <3> HIDE DEF recent, m, backoff, remembered
      <3>8. last # 0 /\ now - last < backoff + THROTTLE_DEFAULT
        BY <1>2, <2>1, <3>3, <3>4, <3>5, <3>6, <3>7
      <3> QED
        BY <1>1, <1>4, <1>6, <1>8, <3>6, <3>8
        DEF PeersInv, PeerOutageNeverSilent, RememberedAt, LastLetThrough, last, remembered, backoff
    <2> QED BY <2>3, <2>4
  <1> QED BY <1>7, <1>8

\* Whatever leaves the monitor alone and takes nothing from the throttle.
LEMMA PeersKept ==
  ASSUME GateTypeOK, PeersInv, UNCHANGED peersVars, now' >= now, now' \in Nat,
         \A u \in PeerTypes : alertThrottling'[u] \in Nat /\ alertThrottling'[u] >= alertThrottling[u]
  PROVE  PeersInv'
  <1>1. /\ PeersTypeOK /\ PeerAlertsHeard /\ PeerOutageNeverSilent
        /\ UNCHANGED <<peers, peersReadAt, peerAlerts, peersOutAt>>
    BY DEF PeersInv, peersVars
  <1>2. PeersTypeOK'
    <2>1. /\ now \in Nat /\ StartTime \in Nat \ {0}
          /\ peerAlerts \subseteq StartTime .. now
          /\ peersReadAt \in 0 .. now /\ peersOutAt \in 0 .. peersReadAt
      BY <1>1, PeerTypesOK
    <2>2. peerAlerts \subseteq StartTime .. now' /\ peersReadAt \in 0 .. now'
      BY <2>1
    <2> QED BY <1>1, <2>1, <2>2 DEF PeersTypeOK
  <1>3. PeerAlertsHeard'
    BY <1>1, AlertsStillHeard
  <1>4. PeerOutageNeverSilent'
    BY <1>1, OutageStillHeard
  <1> QED BY <1>2, <1>3, <1>4 DEF PeersInv

LEMMA PeersNextOK == GateTypeOK /\ PeersInv /\ PeersNext => PeersInv'
  <1> SUFFICES ASSUME GateTypeOK, PeersInv, PeersNext PROVE PeersInv'
    OBVIOUS
  <1>1. /\ now \in Nat /\ alertThrottling \in Throttling
        /\ \A u \in PeerTypes : u \in AlertType /\ alertThrottling[u] \in Nat
    BY DEF GateTypeOK, Throttling, AlertType, PeerTypes
  <1>2. CASE \E n \in PeerCounts \cup {NaN} : ProcessPeerCount(n)
    BY <1>2, ProcessPeerCountOK
  <1>3. CASE \E t \in PeerTypes : OtherEndpointsAlert(t)
    <2>1. PICK t \in PeerTypes : OtherEndpointsAlert(t)
      BY <1>3
    <2>2. /\ alertThrottling' = Reported(alertThrottling, t, 1) /\ now' = now
          /\ UNCHANGED peersVars
      BY <2>1 DEF OtherEndpointsAlert
    <2>3. /\ alertThrottling' \in Throttling
          /\ \A u \in AlertType : u # t => alertThrottling'[u] = alertThrottling[u]
          /\ alertThrottling'[t] >= alertThrottling[t]
      BY <1>1, <2>2, ReportedOK
    <2>4. \A u \in PeerTypes : alertThrottling'[u] \in Nat /\ alertThrottling'[u] >= alertThrottling[u]
      BY <1>1, <2>3 DEF Throttling
    <2> QED BY <1>1, <2>2, <2>4, PeersKept
  <1>4. CASE PeersTick
    BY <1>1, <1>4, PeersKept DEF PeersTick
  <1> QED
    BY <1>2, <1>3, <1>4 DEF PeersNext, PeerTypes

LEMMA PeersInitOK == Init => PeersInv
  <1> SUFFICES ASSUME Init PROVE PeersInv
    OBVIOUS
  <1>1. /\ now = StartTime /\ StartTime \in Nat \ {0} /\ MIN_SAMPLES_FOR_BASELINE \in Nat
        /\ peers = [baselinePeerCount |-> 0, highestPeerCount |-> 0, sampleCount |-> 0,
                    recentAlerts |-> {}, typicallyHasPeers |-> FALSE, consecutiveZeros |-> 0]
        /\ peersReadAt = 0 /\ peerAlerts = {} /\ peersOutAt = 0
    BY GateAssumption, PeersAssumption DEF Init, GateInit, PeersInit
  <1> QED
    BY <1>1 DEF PeersInv, PeersTypeOK, PeerAlertsHeard, PeerOutageNeverSilent

LEMMA PeersStep == GateTypeOK /\ PeersInv /\ OneSteps => PeersInv'
  <1> SUFFICES ASSUME GateTypeOK, PeersInv, OneSteps PROVE PeersInv'
    OBVIOUS
  <1>1. /\ now \in Nat
        /\ \A u \in PeerTypes : alertThrottling[u] \in Nat
    BY DEF GateTypeOK, AlertType, PeerTypes
  <1>2. CASE HeightsNext /\ UNCHANGED peersVars
    <2>1. now' = now \/ now' = now + 1
      BY <1>2
      DEF HeightsNext, OnModuleInit, MonitorBlocks, CheckAnswered, CheckUnreadable, CheckFailed,
          FinishCheck, RpcMonitorReport, HeightsTick
    <2>2. \A u \in PeerTypes : alertThrottling'[u] = alertThrottling[u]
      BY <1>2, HeightsElsewhere
    <2> QED BY <1>1, <1>2, <2>1, <2>2, PeersKept
  <1>3. CASE BlocksNext /\ UNCHANGED peersVars
    <2>1. now' >= now /\ now' \in Nat /\ alertThrottling' = alertThrottling
      BY <1>3, BlocksElsewhere DEF GateTypeOK
    <2> QED BY <1>1, <1>3, <2>1, PeersKept
  <1>4. CASE PeersNext
    BY <1>4, PeersNextOK
  <1>5. CASE UNCHANGED vars
    BY <1>1, <1>5, PeersKept DEF vars
  <1> QED
    BY <1>2, <1>3, <1>4, <1>5 DEF OneSteps

LEMMA PeersInvariant == Spec => []PeersInv
  <1>1. HeightsInv => GateTypeOK
    BY DEF HeightsInv
  <1> QED
    BY <1>1, PeersInitOK, NextIsOne, PeersStep, HeightsInvariant, PTL DEF Spec

\* An endpoint that keeps answering zero peers is never passed over in silence
\* for longer than its back-off and the throttle: for every history of counts,
\* every number of endpoints that share the throttle, and every limit
\* (peer-count.monitor.ts:138-169, 238-316).
THEOREM PeerOutageIsNeverSilent == Spec => []PeerOutageNeverSilent
  <1>1. PeersInv => PeerOutageNeverSilent
    BY DEF PeersInv
  <1> QED BY <1>1, PeersInvariant, PTL
=============================================================================
