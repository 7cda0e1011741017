---------------------------- MODULE BlockHeights ----------------------------
(***************************************************************************)
(* monitoring/blocks/blocks.monitor.ts for one chain, up to the choice of  *)
(* the best endpoint: the cycle of monitorBlocks() that asks every         *)
(* endpoint for its height, the downtime of the primary endpoint, and the  *)
(* alert about endpoints that lag behind.  What is done with the best      *)
(* height is in BlockProcessing.  Chains share nothing here but the code.  *)
(***************************************************************************)
EXTENDS AlertGate, RpcRetryClient

CONSTANTS
  Endpoints,               \* HTTP RPC endpoints of the chain, all monitored
  ConfiguredPrimary,       \* ConfigService.getPrimaryRpcUrl()
  Heights,                 \* block heights nodes may answer with
  SYNC_LAG_ERROR_BLOCKS,   \* blocks behind that warrant a warning (100)
  SYNC_LAG_CRITICAL_BLOCKS,         \* and an error (1000)
  SYNC_LAG_THROTTLE,                \* syncLagAlertThrottleMs (1 h)
  DOWNTIME_NOTIFICATION_THRESHOLD,  \* 1 h
  SCAN_INTERVAL,           \* scanInterval (15 s)
  CHECK_TIMEOUT,           \* timeoutMs of a height request (3 s)
  CHECK_RETRY_DELAY        \* its retryDelayMs (500 ms)

ASSUME HeightsAssumption ==
  /\ ConfiguredPrimary \in Endpoints
  /\ Heights \subseteq Nat \ {0}
  /\ SYNC_LAG_ERROR_BLOCKS \in Nat \ {0} /\ SYNC_LAG_CRITICAL_BLOCKS \in Nat
  /\ SYNC_LAG_ERROR_BLOCKS <= SYNC_LAG_CRITICAL_BLOCKS
  /\ SYNC_LAG_THROTTLE \in Nat \ {0} /\ DOWNTIME_NOTIFICATION_THRESHOLD \in Nat \ {0}
  /\ SCAN_INTERVAL \in Nat \ {0} /\ CHECK_TIMEOUT \in Nat /\ CHECK_RETRY_DELAY \in Nat
  \* the process knows no instant before its start
  /\ StartTime >= SYNC_LAG_THROTTLE
  \* config.ts: one hour here, five minutes or one hour in AlertService
  /\ SYNC_LAG_THROTTLE >= THROTTLE_DEFAULT /\ SYNC_LAG_THROTTLE >= THROTTLE_MANY_ENDPOINTS

VARIABLES
  nextScan,              \* when the interval fires next; 0 before onModuleInit is done
  cycle,                 \* cycles started
  checks,                \* height requests in flight: [endpoint, cycle, since]
  endpointBlockHeights,  \* endpoint -> height, 0 if none
  primaryEndpointStatus, \* [url, downSince, alerted]; downSince 0 if up
  lastSyncLagAlertTime,  \* 0 if none
  heightCycle,           \* history: endpoint -> cycle of the request its height is from
  lastAnswered,          \* history: when the primary last gave a height, or the start
  downAlerts,            \* history: downtime alerts, [at, lastAnswered]
  lagSeenAt              \* history: when a cycle last ended with a lagging endpoint

heightsHistory == <<heightCycle, lastAnswered, downAlerts, lagSeenAt>>
heightsVars == <<nextScan, cycle, checks, endpointBlockHeights, primaryEndpointStatus,
                 lastSyncLagAlertTime, heightsHistory>>

HeightsInit ==
  /\ nextScan = 0 /\ cycle = 0 /\ checks = {}
  /\ endpointBlockHeights = [e \in Endpoints |-> 0]
  /\ primaryEndpointStatus = [url |-> ConfiguredPrimary, downSince |-> 0, alerted |-> FALSE]
  /\ lastSyncLagAlertTime = 0
  /\ heightCycle = [e \in Endpoints |-> 0]
  /\ lastAnswered = StartTime /\ downAlerts = {} /\ lagSeenAt = 0

-----------------------------------------------------------------------------
Known(heights) == {e \in Endpoints : heights[e] # 0}
Highest(heights) ==
  CHOOSE h \in {heights[e] : e \in Known(heights)} :
    \A e \in Known(heights) : heights[e] <= h

\* getBestEndpoint(): the first of the highest in the order they answered in,
\* which may be any.
BestEndpoints(heights) == {e \in Known(heights) : heights[e] = Highest(heights)}

\* mutant: a height request with the client's default of three attempts
CheckDurationRetrying == CallDuration(3, CHECK_RETRY_DELAY, CHECK_TIMEOUT)

\* A height request is one attempt of a client of its own.
CheckDuration == CallDuration(1, CHECK_RETRY_DELAY, CHECK_TIMEOUT)

\* mutant: an answer clears the time and leaves the flag
ResetEndpointStatusFlagged(s) == [s EXCEPT !.downSince = 0]

\* mutant: an answer clears the flag and leaves the time the endpoint went down
ResetEndpointStatusHalf(s) == [s EXCEPT !.alerted = FALSE]

ResetEndpointStatus(s) == [s EXCEPT !.downSince = 0, !.alerted = FALSE]

DowntimeOver(s) ==
  s.downSince # 0 /\ ~s.alerted /\ now - s.downSince >= DOWNTIME_NOTIFICATION_THRESHOLD

\* handlePrimaryEndpointError(): the first error starts the downtime, one
\* after the threshold reports it.  It counts as alerted though the throttle
\* may have dropped the report.
HandlePrimaryEndpointError(s) ==
  IF s.downSince = 0 THEN [s EXCEPT !.downSince = now, !.alerted = FALSE]
  ELSE IF DowntimeOver(s) THEN [s EXCEPT !.alerted = TRUE] ELSE s

\* Endpoints behind the highest by as much, each counted in one list.
CriticalLagging(heights) ==
  {e \in Known(heights) : Highest(heights) - heights[e] >= SYNC_LAG_CRITICAL_BLOCKS}
WarningLagging(heights) ==
  {e \in Known(heights) : Highest(heights) - heights[e] >= SYNC_LAG_ERROR_BLOCKS}
    \ CriticalLagging(heights)

\* One message for each non-empty list, the critical one first.
LagReported(throttling, heights) ==
  LET critical == CriticalLagging(heights)
      warning  == WarningLagging(heights)
      first == IF critical = {} THEN throttling
               ELSE Reported(throttling, "sync_blocks_lag", Cardinality(critical))
  IN  IF warning = {} THEN first
      ELSE Reported(first, "sync_blocks_lag", Cardinality(warning))

SyncLagThrottled ==
  lastSyncLagAlertTime # 0 /\ now - lastSyncLagAlertTime < SYNC_LAG_THROTTLE

\* mutant: the stamp is renewed by every check, alert or not
CheckForBlockHeightLagStamping(heights, throttling) ==
  LET lagging == CriticalLagging(heights) \cup WarningLagging(heights)
      alert == lagging # {} /\ ~SyncLagThrottled
  IN  /\ alertThrottling' = IF alert THEN LagReported(throttling, heights) ELSE throttling
      /\ lastSyncLagAlertTime' = now
      /\ lagSeenAt' = IF lagging # {} THEN now ELSE lagSeenAt

\* checkForBlockHeightLag(), with the heights and the throttle the last answer
\* of the cycle leaves.
CheckForBlockHeightLag(heights, throttling) ==
  LET lagging == CriticalLagging(heights) \cup WarningLagging(heights)
      alert == lagging # {} /\ ~SyncLagThrottled
  IN  /\ alertThrottling' = IF alert THEN LagReported(throttling, heights) ELSE throttling
      /\ lastSyncLagAlertTime' = IF alert THEN now ELSE lastSyncLagAlertTime
      /\ lagSeenAt' = IF lagging # {} THEN now ELSE lagSeenAt

-----------------------------------------------------------------------------
\* onModuleInit(): every endpoint asked at once, `failing` with an error and
\* the rest with a height or none; then the primary is the best, if there is
\* one, and monitoring begins.  A downtime begun by the configured primary
\* stays with the new one.
OnModuleInit(heights, failing) ==
  /\ nextScan = 0
  /\ failing \cap Known(heights) = {}
  /\ endpointBlockHeights' = heights
  /\ LET s == IF ConfiguredPrimary \in failing
              THEN HandlePrimaryEndpointError(primaryEndpointStatus) ELSE primaryEndpointStatus
     IN  IF Known(heights) = {} THEN primaryEndpointStatus' = s
         ELSE \E best \in BestEndpoints(heights) : primaryEndpointStatus' = [s EXCEPT !.url = best]
  /\ nextScan' = now
  /\ UNCHANGED <<now, alertThrottling, cycle, checks, lastSyncLagAlertTime, heightsHistory>>

\* The interval fires: monitorBlocks(), checkChain() and checkAllEndpoints() up
\* to the await.  It does not look whether the cycle before has ended.
MonitorBlocks ==
  /\ nextScan # 0 /\ now >= nextScan
  /\ nextScan' = nextScan + SCAN_INTERVAL
  /\ cycle' = cycle + 1
  /\ endpointBlockHeights' = [e \in Endpoints |-> 0]
  /\ checks' = checks \cup [endpoint : Endpoints, cycle : {cycle + 1}, since : {now}]
  /\ heightCycle' = [e \in Endpoints |-> 0]
  /\ UNCHANGED <<now, alertThrottling, primaryEndpointStatus, lastSyncLagAlertTime,
                 lastAnswered, downAlerts, lagSeenAt>>

\* Request c is over; the last one of its cycle goes on to the lag check, on
\* whatever heights there are by then.
FinishCheck(c, heights, throttling) ==
  /\ checks' = checks \ {c}
  /\ IF \E d \in checks \ {c} : d.cycle = c.cycle
     THEN alertThrottling' = throttling /\ UNCHANGED <<lastSyncLagAlertTime, lagSeenAt>>
     ELSE CheckForBlockHeightLag(heights, throttling)
  /\ UNCHANGED <<now, nextScan, cycle>>

\* checkEndpointBlockHeight(), with a height.  It goes into the heights of the
\* newest cycle, whichever cycle asked.
CheckAnswered(c, height) ==
  LET heights == [endpointBlockHeights EXCEPT ![c.endpoint] = height]
      primary == c.endpoint = primaryEndpointStatus.url
  IN  /\ endpointBlockHeights' = heights
      /\ heightCycle' = [heightCycle EXCEPT ![c.endpoint] = c.cycle]
      /\ primaryEndpointStatus' = IF primary THEN ResetEndpointStatus(primaryEndpointStatus)
                                  ELSE primaryEndpointStatus
      /\ lastAnswered' = IF primary THEN now ELSE lastAnswered
      /\ FinishCheck(c, heights, alertThrottling)
      /\ UNCHANGED downAlerts

\* The same with an empty or unreadable answer, which changes nothing.
CheckUnreadable(c) ==
  /\ FinishCheck(c, endpointBlockHeights, alertThrottling)
  /\ UNCHANGED <<endpointBlockHeights, heightCycle, primaryEndpointStatus, lastAnswered, downAlerts>>

\* The same with an error.
CheckFailed(c) ==
  LET primary == c.endpoint = primaryEndpointStatus.url
      down == primary /\ DowntimeOver(primaryEndpointStatus)
  IN  /\ primaryEndpointStatus' = IF primary THEN HandlePrimaryEndpointError(primaryEndpointStatus)
                                  ELSE primaryEndpointStatus
      /\ downAlerts' = IF down THEN downAlerts \cup {[at |-> now, lastAnswered |-> lastAnswered]}
                       ELSE downAlerts
      /\ FinishCheck(c, endpointBlockHeights,
                     IF down THEN Reported(alertThrottling, "rpc_endpoint_down", 1)
                     ELSE alertThrottling)
      /\ UNCHANGED <<endpointBlockHeights, heightCycle, lastAnswered>>

\* RpcMonitorService reports an endpoint of the chain under the same type.
RpcMonitorReport ==
  /\ LetThrough(alertThrottling, "rpc_endpoint_down", 1)
  /\ alertThrottling' = Reported(alertThrottling, "rpc_endpoint_down", 1)
  /\ UNCHANGED <<now, heightsVars>>

\* A request ends by its timeout, and the interval fires when it is due.
HeightsTick ==
  /\ now < Horizon
  /\ nextScan > now /\ \A c \in checks : now < c.since + CheckDuration
  /\ now' = now + 1
  /\ UNCHANGED <<alertThrottling, heightsVars>>

HeightsNext ==
  \/ \E heights \in [Endpoints -> Heights \cup {0}], failing \in SUBSET Endpoints :
       OnModuleInit(heights, failing)
  \/ MonitorBlocks
  \/ \E c \in checks : \/ \E height \in Heights : CheckAnswered(c, height)
                       \/ CheckUnreadable(c)
                       \/ CheckFailed(c)
  \/ RpcMonitorReport
  \/ HeightsTick

-----------------------------------------------------------------------------
\* Shape of the state; only a primary that is down can have been reported.
HeightsTypeOK ==
  /\ nextScan \in Nat /\ cycle \in Nat
  /\ checks \subseteq [endpoint : Endpoints, cycle : 1 .. cycle, since : StartTime .. now]
  /\ endpointBlockHeights \in [Endpoints -> Heights \cup {0}]
  /\ primaryEndpointStatus \in [url : Endpoints, downSince : 0 .. now, alerted : BOOLEAN]
  /\ primaryEndpointStatus.alerted => primaryEndpointStatus.downSince # 0
  /\ lastSyncLagAlertTime \in 0 .. now

\* The lag check and the choice of the best endpoint compare heights of one
\* cycle, although a new cycle empties the shared table without a look at the
\* requests still in flight and every answer goes into the newest table
\* (blocks.monitor.ts:379-412).
HeightsOfOneCycle ==
  \A e \in Known(endpointBlockHeights) : heightCycle[e] = cycle

\* A downtime alert is true and told once: the primary gave no height for the
\* threshold before it, and no other alert is about the same silence
\* (blocks.monitor.ts:502-530).
DownAlertsTrue ==
  \A a, b \in downAlerts :
    /\ a.at - a.lastAnswered >= DOWNTIME_NOTIFICATION_THRESHOLD
    /\ a.lastAnswered = b.lastAnswered => a = b

\* A lag that a cycle finds is never passed over in silence: an alert about
\* lag got through AlertService within the hour before, through both throttles
\* with their different periods (blocks.monitor.ts:846-862, 917-920).
LagNeverSilent ==
  lagSeenAt # 0 => /\ alertThrottling["sync_blocks_lag"] # 0
                   /\ lagSeenAt - alertThrottling["sync_blocks_lag"] < SYNC_LAG_THROTTLE
=============================================================================
