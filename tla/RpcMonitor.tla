----------------------------- MODULE RpcMonitor -----------------------------
(***************************************************************************)
(* monitoring/rpc/rpc.monitor.ts on the services it drives: the periodic   *)
(* checks of HTTP and WebSocket endpoints, the periodic copy of the        *)
(* provider table over the monitor's own statuses, and the downtime alert. *)
(*                                                                         *)
(* One unit of time is the check interval (30 s).  In each period every    *)
(* endpoint's check, and when it is due the copy, completes once, in any   *)
(* order.  RPC and WebSocket statuses are one map: their urls differ.      *)
(* Metrics, latency alerts and peer counts change nothing kept here.       *)
(***************************************************************************)
EXTENDS BlockchainService, SequencesExt

CONSTANTS
  DOWNTIME_NOTIFICATION_THRESHOLD,  \* 1 hour
  SYNC_INTERVAL,                    \* 60 s
  THROTTLE,                         \* AlertService's period for one key
  WsOrder                           \* WsUrls in the order of the configuration

Endpoints == Urls \cup WsUrls
SYNC == "sync"

ASSUME MonitorAssumption ==
  /\ DOWNTIME_NOTIFICATION_THRESHOLD \in Nat \ {0}
  /\ SYNC_INTERVAL \in Nat \ {0} /\ THROTTLE \in Nat \ {0}
  /\ WsOrder \in Seq(WsUrls)
  \* one begins with http, the other with ws
  /\ Urls \cap WsUrls = {} /\ SYNC \notin Endpoints

VARIABLES
  monitor,       \* [status, lastAlert, reports]: rpcStatuses and wsStatuses;
                 \* the time of AlertService's last RPC_ENDPOINT_DOWN alert of
                 \* this chain (0 = none); history: every downtime alert raised
  due,           \* what has still to run in this period
  wsProbing,     \* WebSocket checks awaiting testWebSocketConnection()
  lastUp,        \* history: when a check last found the endpoint up (0 = never)
  failingSince   \* history: first of the checks failed in a row (0 = none)

monitorVars == <<monitor, due, wsProbing, lastUp, failingSince>>
vars == <<now, selectorVars, providerVars, monitorVars>>

Up   == [status |-> "up", downSince |-> 0, alerted |-> FALSE]
Down == [status |-> "down", downSince |-> now, alerted |-> FALSE]

Init ==
  /\ now = StartTime /\ SelectorInit /\ ProvidersInit
  /\ monitor = [status |-> [e \in Endpoints |-> [Up EXCEPT !.status = "unknown"]],
                lastAlert |-> 0, reports |-> <<>>]
  /\ due = {} /\ wsProbing = {}
  /\ lastUp = [e \in Endpoints |-> 0] /\ failingSince = [e \in Endpoints |-> 0]

-----------------------------------------------------------------------------
\* mutant: going up does not clear the time the endpoint went down
UpdateStatusSticky(s, isUp) ==
  IF ~isUp /\ s.status # "down" /\ s.downSince = 0 THEN Down
  ELSE [s EXCEPT !.status = IF isUp THEN "up" ELSE "down"]

\* updateStatus(): only a change of status touches downSince and alerted.
UpdateStatus(s, isUp) ==
  IF ~isUp /\ s.status # "down" THEN Down
  ELSE IF isUp /\ s.status = "down" THEN Up
  ELSE [s EXCEPT !.status = IF isUp THEN "up" ELSE "down"]

SetStatus(m, e, isUp) == [m EXCEPT !.status[e] = UpdateStatus(@, isUp)]

\* mutant: alerted is not set
CheckDowntimeNotificationForgetful(m, e) ==
  LET s    == m.status[e]
      sent == m.lastAlert = 0 \/ now - m.lastAlert >= THROTTLE
  IN  IF \/ s.downSince = 0 \/ s.alerted
         \/ now - s.downSince < DOWNTIME_NOTIFICATION_THRESHOLD
      THEN m
      ELSE [m EXCEPT !.lastAlert = IF sent THEN now ELSE @,
                     !.reports = Append(@, [url |-> e, at |-> now, since |-> s.downSince,
                                            sent |-> sent, lastUp |-> lastUp[e]])]

\* mutant: strictly longer than the threshold
CheckDowntimeNotificationStrict(m, e) ==
  LET s    == m.status[e]
      sent == m.lastAlert = 0 \/ now - m.lastAlert >= THROTTLE
  IN  IF \/ s.downSince = 0 \/ s.alerted
         \/ now - s.downSince <= DOWNTIME_NOTIFICATION_THRESHOLD
      THEN m
      ELSE [m EXCEPT !.status[e].alerted = TRUE,
                     !.lastAlert = IF sent THEN now ELSE @,
                     !.reports = Append(@, [url |-> e, at |-> now, since |-> s.downSince,
                                            sent |-> sent, lastUp |-> lastUp[e]])]

\* checkDowntimeNotification(): the endpoint counts as alerted whether or not
\* AlertService throttles the alert.
CheckDowntimeNotification(m, e) ==
  LET s    == m.status[e]
      sent == m.lastAlert = 0 \/ now - m.lastAlert >= THROTTLE
  IN  IF \/ s.downSince = 0 \/ s.alerted
         \/ now - s.downSince < DOWNTIME_NOTIFICATION_THRESHOLD
      THEN m
      ELSE [m EXCEPT !.status[e].alerted = TRUE,
                     !.lastAlert = IF sent THEN now ELSE @,
                     !.reports = Append(@, [url |-> e, at |-> now, since |-> s.downSince,
                                            sent |-> sent, lastUp |-> lastUp[e]])]

Observed(e, isUp) ==
  /\ lastUp' = IF isUp THEN [lastUp EXCEPT ![e] = now] ELSE lastUp
  /\ failingSince' = [failingSince EXCEPT ![e] = IF isUp THEN 0 ELSE IF @ = 0 THEN now ELSE @]

-----------------------------------------------------------------------------
\* startMonitoring(): statuses as the providers are at that moment.
StartMonitoring ==
  /\ \A e \in Endpoints : monitor.status[e].status = "unknown"
  /\ monitor' = [monitor EXCEPT !.status = [e \in Endpoints |->
                   IF e \in Urls THEN IF providers[e].made THEN Up ELSE Down
                   ELSE IF wsProviders[e].made THEN Up ELSE Down]]
  /\ due' = Endpoints \cup {SYNC}
  /\ UNCHANGED <<now, selectorVars, providerVars, wsProbing, lastUp, failingSince>>

\* mutant: a failed check is not reported to the selector
UpdateRpcEndpointStatusQuiet(u, isUp, latency) ==
  IF isUp
  THEN /\ monitor' = SetStatus(monitor, u, TRUE)
       /\ BecomesSelector(Reported(selector, u, TRUE, latency, TRUE, 0))
  ELSE /\ monitor' = CheckDowntimeNotification(SetStatus(monitor, u, FALSE), u)
       /\ UNCHANGED selectorVars

\* updateRpcEndpointStatus(); monitorRpcEndpoint() calls it a second time for
\* a failed check, whose only further effect is on the selector.
UpdateRpcEndpointStatus(u, isUp, latency) ==
  IF isUp
  THEN /\ monitor' = SetStatus(monitor, u, TRUE)
       /\ BecomesSelector(Reported(selector, u, TRUE, latency, TRUE, 0))
  ELSE /\ monitor' = CheckDowntimeNotification(SetStatus(monitor, u, FALSE), u)
       /\ BecomesSelector(Reported(Reported(selector, u, FALSE, latency, TRUE, 0),
                                   u, FALSE, 0, TRUE, 0))

MonitorRpcEndpoint(u, isUp, latency) ==
  /\ u \in due
  /\ due' = due \ {u}
  /\ UpdateRpcEndpointStatus(u, isUp, latency)
  /\ Observed(u, isUp)
  /\ UNCHANGED <<now, providerVars, wsProbing>>

\* A provider in the table counts as up without being asked...
MonitorWsProvider(w) ==
  /\ w \in due /\ wsProviders[w].made
  /\ due' = due \ {w}
  /\ monitor' = SetStatus(monitor, w, TRUE)
  /\ UpdateWsProviderStatus(w, TRUE)
  /\ Observed(w, TRUE)
  /\ UNCHANGED <<now, selectorVars, wsProbing>>

\* ... otherwise a connection is tried.
MonitorWsProbe(w) ==
  /\ w \in due /\ ~wsProviders[w].made
  /\ due' = due \ {w}
  /\ wsProbing' = wsProbing \cup {w}
  /\ UNCHANGED <<now, selectorVars, providerVars, monitor, lastUp, failingSince>>

MonitorWsAnswer(w, isUp) ==
  /\ w \in wsProbing
  /\ wsProbing' = wsProbing \ {w}
  /\ monitor' = IF isUp THEN SetStatus(monitor, w, TRUE)
                ELSE CheckDowntimeNotification(SetStatus(monitor, w, FALSE), w)
  /\ UpdateWsProviderStatus(w, isUp)
  /\ Observed(w, isUp)
  /\ UNCHANGED <<now, selectorVars, due>>

\* monitorWsPort(): the same test, without the downtime alert.
MonitorWsPort(w, isUp) ==
  /\ monitor.status[w].status # "unknown"
  /\ monitor' = SetStatus(monitor, w, isUp)
  /\ UpdateWsProviderStatus(w, isUp)
  /\ Observed(w, isUp)
  /\ UNCHANGED <<now, selectorVars, due, wsProbing>>

\* What the provider table says of an endpoint; "none" without an entry.
EntryStatus(e) ==
  IF e \in Urls THEN IF providers[e].up THEN "up" ELSE "down" ELSE wsProviders[e].status

\* One turn of the loops of syncWithBlockchainService().
Synced(m, e) ==
  IF EntryStatus(e) = "none" THEN m
  ELSE IF EntryStatus(e) = "up" THEN SetStatus(m, e, TRUE)
  ELSE CheckDowntimeNotification(SetStatus(m, e, FALSE), e)

SyncWithBlockchainService ==
  /\ SYNC \in due
  /\ due' = due \ {SYNC}
  /\ monitor' = FoldLeft(Synced, monitor, ProviderOrder \o WsOrder)
  /\ UNCHANGED <<now, selectorVars, providerVars, wsProbing, lastUp, failingSince>>

\* The next period starts when the checks of this one are done.
Tick ==
  /\ now < Horizon
  /\ due = {} /\ wsProbing = {}
  /\ \A e \in Endpoints : monitor.status[e].status # "unknown"
  /\ now' = now + 1
  /\ due' = Endpoints \cup (IF (now' - StartTime) % SYNC_INTERVAL = 0 THEN {SYNC} ELSE {})
  /\ UNCHANGED <<selectorVars, providerVars, monitor, wsProbing, lastUp, failingSince>>

Next ==
  \/ StartMonitoring
  \/ \E u \in Urls, isUp \in BOOLEAN, latency \in Latencies :
       MonitorRpcEndpoint(u, isUp, latency)
  \/ \E w \in WsUrls : MonitorWsProvider(w)
  \/ \E w \in WsUrls : MonitorWsProbe(w)
  \/ \E w \in WsUrls, isUp \in BOOLEAN : MonitorWsAnswer(w, isUp)
  \/ \E w \in WsUrls, isUp \in BOOLEAN : MonitorWsPort(w, isUp)
  \/ SyncWithBlockchainService
  \/ ProviderEvent /\ UNCHANGED <<now, selectorVars, monitorVars>>
  \/ Tick

Spec == Init /\ [][Next]_vars

-----------------------------------------------------------------------------
\* Shape of the state; an endpoint that was seen is down exactly when it has a
\* time it went down at, and only then can it have been alerted about.
TypeOK ==
  /\ SelectorTypeOK /\ ProvidersTypeOK
  /\ \A e \in Endpoints :
       LET s == monitor.status[e] IN
         /\ s.status \in {"unknown", "up", "down"} /\ s.downSince \in 0 .. now
         /\ s.downSince # 0 <=> s.status = "down"
         /\ s.alerted => s.status = "down"
  /\ due \subseteq Endpoints \cup {SYNC} /\ wsProbing \subseteq WsUrls

\* A downtime alert is true: no check or port test found the endpoint up
\* within the threshold before it, though three jobs write its status.
AlertAfterFullOutage ==
  \A i \in DOMAIN monitor.reports :
    LET r == monitor.reports[i] IN r.at - r.lastUp >= DOWNTIME_NOTIFICATION_THRESHOLD

\* An outage is alerted about once, though each failed check asks for the
\* alert three times and the copy asks again.
OneReportPerOutage ==
  \A i, j \in DOMAIN monitor.reports :
    monitor.reports[i].url = monitor.reports[j].url
      /\ monitor.reports[i].since = monitor.reports[j].since => i = j

Outage(u) ==
  /\ u \notin due /\ failingSince[u] # 0
  /\ now - failingSince[u] >= DOWNTIME_NOTIFICATION_THRESHOLD

\* An HTTP endpoint that never had a provider and fails every check for the
\* threshold has been alerted about.
OutageWithoutProviderReported ==
  \A u \in Urls : Outage(u) /\ ~providers[u].made => monitor.status[u].alerted

\* The same of every HTTP endpoint, as the documentation has it.  The copy
\* restarts the outage of one whose provider was made: its entry stays 'up'.
OutageReported == \A u \in Urls : Outage(u) => monitor.status[u].alerted

\* When the checks of a period are in and the switch interval is over, the
\* primary is not an endpoint whose check failed while another one answered.
PrimaryAnswersChecks ==
  /\ due \cap Urls = {}
  /\ now - selector.lastSwitch >= MIN_SWITCH_INTERVAL
  /\ \E u \in Urls : lastUp[u] = now
  => failingSince[selector.primary] = 0
=============================================================================
