---------------------------- MODULE AlertService ----------------------------
(***************************************************************************)
(* alerts/alert.service.ts with the AlertManager it feeds                  *)
(* (common/utils/alert-manager.ts) and the metrics writer it saves to.     *)
(*                                                                         *)
(* Every monitor reports through error(), warning() or info(); each runs   *)
(* to its end in one event-loop turn, so each is one action.  A weekly     *)
(* report awaits an InfluxDB query, so it is two.  An alert is its type,   *)
(* chain and instant; titles and texts are left out.                       *)
(***************************************************************************)
EXTENDS MetricsService, FiniteSets

CONSTANTS
  AlertTypes,          \* values of ALERTS.TYPES in use
  SYNC_BLOCKS_LAG,     \* the type whose message carries an endpoint count
  Chains,              \* chain ids; 0 stands for a call without one
  THROTTLE_SECONDS,    \* the config record, a function on its key names
  MAX_ALERTS,          \* legacy list limit (100)
  MAX_MANAGER_ALERTS,  \* AlertManager.maxAlerts (1000)
  MAX_REPORTS,         \* weekly reports kept (4)
  WEEK,                \* span of a report
  StartTime,           \* Date.now() when the process starts
  Horizon,             \* bound: last instant explored
  MaxAlerts,           \* bound: alerts recorded
  MaxReports           \* bound: weekly reports asked for

ASSUME AlertAssumption ==
  /\ SYNC_BLOCKS_LAG \in AlertTypes
  /\ {"DEFAULT", "SYNC_BLOCKS_LAG_MANY_ENDPOINTS"} \subseteq DOMAIN THROTTLE_SECONDS
  /\ \A k \in DOMAIN THROTTLE_SECONDS : THROTTLE_SECONDS[k] \in Nat \ {0}
  /\ MAX_ALERTS \in Nat \ {0} /\ MAX_MANAGER_ALERTS \in Nat \ {0}
  /\ MAX_REPORTS \in Nat \ {0} /\ WEEK \in Nat
  /\ StartTime \in Nat /\ Horizon \in Nat /\ MaxAlerts \in Nat
  \* epoch milliseconds dwarf every throttle period
  /\ \A k \in DOMAIN THROTTLE_SECONDS : StartTime >= THROTTLE_SECONDS[k]

VARIABLES
  alertThrottling,       \* key -> instant of the last alert let through, 0 if none
  alerts,                \* legacy list, oldest first
  managerAlerts,         \* AlertManager list, newest first; 0 is a weekly report
  isInitialized,
  queryApi,              \* InfluxDB queries possible
  lastWeeklyReportDate,  \* 0 if none
  weeklyReports,
  reporting,             \* who awaits a report query -> [start, end] or Idle
  raised,                \* history: every alert recorded
  everQueued             \* history: alerts whose point waited in the queue

alertVars == <<alertThrottling, alerts, managerAlerts, raised, everQueued>>
reportVars == <<isInitialized, queryApi, lastWeeklyReportDate, weeklyReports, reporting>>
vars == <<now, metricsVars, alertVars, reportVars>>

Key == AlertTypes \X Chains
Requesters == {"cron", "api"}
Idle == [start |-> 0, end |-> 0]
Smaller(a, b) == IF a < b THEN a ELSE b

Init ==
  /\ MetricsInit
  /\ now = StartTime
  /\ alertThrottling = [k \in Key |-> 0]
  /\ alerts = <<>> /\ managerAlerts = <<>>
  /\ isInitialized = FALSE /\ queryApi = FALSE
  /\ lastWeeklyReportDate = 0 /\ weeklyReports = <<>>
  /\ reporting = [r \in Requesters |-> Idle]
  /\ raised = {} /\ everQueued = {}

-----------------------------------------------------------------------------
\* THROTTLE_SECONDS[alertType] || THROTTLE_SECONDS.DEFAULT, and the longer
\* period of a sync-lag message that counts more than three endpoints.
ThrottleSeconds(alertType, many) ==
  IF alertType = SYNC_BLOCKS_LAG /\ many
  THEN THROTTLE_SECONDS["SYNC_BLOCKS_LAG_MANY_ENDPOINTS"]
  ELSE IF alertType \in DOMAIN THROTTLE_SECONDS /\ THROTTLE_SECONDS[alertType] # 0
       THEN THROTTLE_SECONDS[alertType]
       ELSE THROTTLE_SECONDS["DEFAULT"]

\* mutant: the lookup forgets the chain
ShouldThrottleAnyChain(alertType, many, chain) ==
  now - alertThrottling[<<alertType, 0>>] < ThrottleSeconds(alertType, many)

ShouldThrottle(alertType, many, chain) ==
  now - alertThrottling[<<alertType, chain>>] < ThrottleSeconds(alertType, many)

\* mutant: a full list refuses the newest alert
PushLegacyRefusing(a) ==
  alerts' = IF Len(alerts) < MAX_ALERTS THEN Append(alerts, a) ELSE alerts

\* push, then shift the oldest out over the limit
PushLegacy(a) ==
  LET longer == Append(alerts, a)
  IN  alerts' = IF Len(longer) > MAX_ALERTS THEN Tail(longer) ELSE longer

\* AlertManager.addAlert: unshift, cut to maxAlerts.  The notifications it
\* starts are not awaited and change nothing here.
AddToManager(id) ==
  LET longer == <<id>> \o managerAlerts
  IN  managerAlerts' = SubSeq(longer, 1, Smaller(Len(longer), MAX_MANAGER_ALERTS))

NextId == Cardinality(raised) + 1

Record(alertType, chain, many, throttled) ==
  LET id == NextId
  IN  /\ id <= MaxAlerts
      /\ PushLegacy([id |-> id, at |-> now])
      /\ AddToManager(id)
      /\ WritePoint(id)
      /\ raised' = raised \cup {[id |-> id, alertType |-> alertType, chain |-> chain,
                                 many |-> many, throttled |-> throttled, at |-> now]}
      /\ everQueued' = IF id \in {connectionQueue'[i] : i \in DOMAIN connectionQueue'}
                       THEN everQueued \cup {id} ELSE everQueued
      /\ UNCHANGED <<now, stored, reportVars>>

\* error(), warning() and info(), which differ in severity and in whether the
\* AlertManager notifies; a throttled call does nothing.
Raise(alertType, chain, many) ==
  /\ many => alertType = SYNC_BLOCKS_LAG
  /\ ~ShouldThrottle(alertType, many, chain)
  /\ alertThrottling' = [alertThrottling EXCEPT ![<<alertType, chain>>] = now]
  /\ Record(alertType, chain, many, TRUE)

\* addAlert() called directly, as the HTTP controllers do: not throttled.
AddAlert(alertType, chain) ==
  /\ UNCHANGED alertThrottling
  /\ Record(alertType, chain, FALSE, FALSE)

-----------------------------------------------------------------------------
\* onModuleInit: after up to five looks for the client it goes on with or
\* without a query API.  The report it then asks for finds isInitialized
\* still FALSE and returns at once.
ModuleInit ==
  /\ ~isInitialized
  /\ isInitialized' = TRUE
  /\ queryApi' \in {influxClient, FALSE}
  /\ UNCHANGED <<now, metricsVars, alertVars, lastWeeklyReportDate, weeklyReports, reporting>>

\* Six days as the code writes it: 6/7 of the report's span, rounded down.
SixDays == (6 * WEEK) \div 7

GenerateWeeklyReport(r) ==
  /\ reporting[r] = Idle
  /\ Len(weeklyReports) + Cardinality({q \in Requesters : reporting[q] # Idle}) < MaxReports
  /\ isInitialized
  /\ r = "cron" => lastWeeklyReportDate = 0 \/ now - lastWeeklyReportDate > SixDays
  /\ reporting' = [reporting EXCEPT ![r] = [start |-> now - WEEK, end |-> now]]
  /\ UNCHANGED <<now, metricsVars, alertVars, isInitialized, queryApi,
                 lastWeeklyReportDate, weeklyReports>>

InMemory(start, end) ==
  {a \in {alerts[i] : i \in DOMAIN alerts} : start <= a.at /\ a.at <= end}

\* An entry of the report's list remembers which of its two sources gave it:
\* the code pushes onto a list, where equal entries stay two.
From(source, found) == {[id |-> a.id, at |-> a.at, from |-> source] : a \in found}

\* The rows of range(start, stop), whose stop is exclusive; the in-memory
\* alerts stand in for them when there is no query API or the query fails.
QueryAlerts(start, end, fails) ==
  From("query", IF ~queryApi \/ fails
                THEN InMemory(start, end)
                ELSE {w \in stored : start <= w.at /\ w.at < end})

\* mutants: no comparison at all; memory used only when InfluxDB has nothing
MergeAll(rows, memory) == rows \cup From("memory", memory)
MergeEither(rows, memory) == IF rows = {} THEN From("memory", memory) ELSE rows

\* In-memory alerts are added unless a row of the same instant is there.
Merge(rows, memory) ==
  rows \cup From("memory", {a \in memory : \A w \in rows : w.at # a.at})

\* The query answers: the report is built from the lists of this instant,
\* kept (the oldest beyond MAX_REPORTS goes) and handed to the AlertManager.
ReportQueryDone(r, fails) ==
  LET asked  == reporting[r]
      counted == Merge(QueryAlerts(asked.start, asked.end, fails),
                       InMemory(asked.start, asked.end))
      longer == Append(weeklyReports, [counted |-> counted, memory |-> alerts,
                                       start |-> asked.start, end |-> asked.end])
  IN  /\ asked # Idle
      /\ weeklyReports' = IF Len(longer) > MAX_REPORTS THEN Tail(longer) ELSE longer
      /\ AddToManager(0)
      /\ lastWeeklyReportDate' = IF r = "cron" THEN asked.end ELSE lastWeeklyReportDate
      /\ reporting' = [reporting EXCEPT ![r] = Idle]
      /\ UNCHANGED <<now, metricsVars, alertThrottling, alerts, raised, everQueued,
                     isInitialized, queryApi>>

Tick ==
  /\ now < Horizon
  /\ now' = now + 1
  /\ UNCHANGED <<metricsVars, alertVars, reportVars>>

Next ==
  \/ \E t \in AlertTypes, c \in Chains, many \in BOOLEAN : Raise(t, c, many)
  \/ \E t \in AlertTypes, c \in Chains : AddAlert(t, c)
  \/ MetricsNext /\ UNCHANGED <<now, alertVars, reportVars>>
  \/ ModuleInit
  \/ \E r \in Requesters : GenerateWeeklyReport(r)
  \/ \E r \in Requesters, fails \in BOOLEAN : ReportQueryDone(r, fails)
  \/ Tick

Spec == Init /\ [][Next]_vars

-----------------------------------------------------------------------------
\* Shape of the state the throttle and the report work on.
TypeOK ==
  /\ ConnectionTypeOK
  /\ now \in Nat /\ now >= StartTime
  /\ alertThrottling \in [Key -> Nat]
  /\ \A a \in raised : <<a.alertType, a.chain>> \in Key /\ a.at \in Nat

SameKey(a, b) == a.alertType = b.alertType /\ a.chain = b.chain

\* Two alerts of one type and chain that came through the throttle are at
\* least the later one's throttle period apart, whoever raised them and
\* whatever was raised, queued or reported in between.
SpacedAlerts ==
  \A a, b \in raised :
    a # b /\ a.throttled /\ b.throttled /\ SameKey(a, b) /\ a.at <= b.at
      => b.at - a.at >= ThrottleSeconds(b.alertType, b.many)

\* How many of the manager's n newest entries are alerts, not weekly reports.
AlertsAmong(n) == Cardinality({i \in 1 .. n : managerAlerts[i] # 0})

\* The two lists never disagree: the manager's k-th alert is the k-th newest of
\* the legacy list as far as that reaches, although one drops its oldest at the
\* front, the other at the back, and only one of them also takes the weekly
\* reports (alert.service.ts:664-692, alert-manager.ts:77-111).
ListsAgree ==
  \A i \in DOMAIN managerAlerts :
    managerAlerts[i] # 0 /\ AlertsAmong(i) <= Len(alerts)
      => managerAlerts[i] = alerts[Len(alerts) + 1 - AlertsAmong(i)].id

Entries(s) == {s[i] : i \in DOMAIN s}

\* A weekly report counts an alert twice only if its point waited in the
\* connection queue: a waiting point is stamped when it is handed over, so the
\* comparison by instant no longer recognises it.
DoubleCountOnlyWhenQueued ==
  \A r \in Entries(weeklyReports) : \A x, y \in r.counted :
    x # y /\ x.id = y.id => x.id \in everQueued

\* An alert of the week that is still in memory is missing from the report
\* only if another alert of the same instant is in it.
MissingOnlyIfTwin ==
  \A r \in Entries(weeklyReports) : \A a \in Entries(r.memory) :
    r.start <= a.at /\ a.at <= r.end => \E x \in r.counted : x.id = a.id \/ x.at = a.at

\* config.ts gives some types a period of their own (RPC_ENDPOINT_DOWN: 600,
\* "10 minutes"); its keys are the upper-case names of the types.
CONSTANT ConfigKey     \* alert type -> the key config.ts files it under

ConfiguredPeriodHonoured ==
  \A a, b \in raised :
    a # b /\ a.throttled /\ b.throttled /\ SameKey(a, b) /\ a.at <= b.at
          /\ ConfigKey[b.alertType] \in DOMAIN THROTTLE_SECONDS
      => b.at - a.at >= THROTTLE_SECONDS[ConfigKey[b.alertType]]
=============================================================================
