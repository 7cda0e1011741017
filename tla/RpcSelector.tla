---------------------------- MODULE RpcSelector ----------------------------
(***************************************************************************)
(* monitoring/rpc/rpc-selector.service.ts, for one chain: the service      *)
(* keeps every map per chain id and no handler reads another chain's.      *)
(*                                                                         *)
(* Success rates are whole percentages (the code's are floating point),    *)
(* scores are scaled to integers; the weights and thresholds are the       *)
(* code's.  An endpoint never checked has no record in the code; here its  *)
(* record is NewHealth, known by lastChecked = 0.                          *)
(***************************************************************************)
EXTENDS Integers, Sequences

CONSTANTS
  Urls,                    \* the chain's RPC endpoints
  PRIMARY_RPC_URL,         \* PRIMARY_RPC_URLS[chainId]
  MIN_SWITCH_INTERVAL,     \* 5 minutes
  DAY,                     \* span over which old results lose their weight
  GOOD_LATENCY_THRESHOLD,  \* 1000 ms
  SLOW_LATENCY,            \* 5000 ms
  MAX_BLOCKS_BEHIND,       \* 50
  Latencies,               \* latencies a check may report
  Behinds,                 \* distances behind the network a check may report
  StartTime,               \* Date.now() when the process starts
  Horizon,                 \* bound: last instant explored
  MaxFailures              \* bound: consecutive failures of one endpoint

ASSUME SelectorAssumption ==
  /\ PRIMARY_RPC_URL \in Urls
  /\ MIN_SWITCH_INTERVAL \in Nat \ {0} /\ DAY \in Nat \ {0}
  /\ GOOD_LATENCY_THRESHOLD \in Nat
  /\ SLOW_LATENCY \in Nat \ {0} /\ MAX_BLOCKS_BEHIND \in Nat \ {0}
  /\ Latencies \subseteq Nat /\ Behinds \subseteq Nat
  /\ StartTime \in Nat \ {0} /\ Horizon \in Nat /\ MaxFailures \in Nat
  \* epoch milliseconds dwarf the interval
  /\ StartTime >= 6 * MIN_SWITCH_INTERVAL

VARIABLES
  now,
  selector,   \* [health, order, primary, lastSwitch]: endpointHealth, the order
              \* its keys were inserted in, selectedPrimary, lastSwitchTime
  switches    \* history: every change of the primary

selectorVars == <<selector, switches>>

LOW == 1  MEDIUM == 2  HIGH == 3
Smaller(a, b) == IF a < b THEN a ELSE b
AtLeastZero(a) == IF a < 0 THEN 0 ELSE a

NewHealth == [isUp |-> TRUE, latency |-> 0, lastChecked |-> 0, successRate |-> 100,
              failureCount |-> 0, tier |-> 0, synced |-> TRUE, behind |-> 0]

SelectorInit ==
  /\ selector = [health |-> [u \in Urls |-> NewHealth], order |-> <<>>,
                 primary |-> PRIMARY_RPC_URL, lastSwitch |-> 0]
  /\ switches = {}

-----------------------------------------------------------------------------
Known(h) == h.lastChecked # 0

\* mutant: the old rate does not decay
SuccessRateUndecayed(h, isUp) ==
  LET weight == 9 * Smaller(DAY, now - h.lastChecked)
      share  == IF isUp THEN 100 * weight ELSE 0
  IN  IF Known(h) THEN h.successRate + share \div (10 * DAY) ELSE h.successRate

\* 90 % of the weight of the time since the last check goes to its result; a
\* full day outweighs the past.  The first check leaves the rate alone.
SuccessRate(h, isUp) ==
  LET weight == 9 * Smaller(DAY, now - h.lastChecked)
      share  == IF isUp THEN 100 * weight ELSE 0
  IN  IF Known(h) THEN (h.successRate * (10 * DAY - weight) + share) \div (10 * DAY)
                  ELSE h.successRate

\* A bad run demotes; only a good, fast, synced answer can promote.
Tier(h, failures, rate, good) ==
  IF failures > 3 THEN LOW
  ELSE IF good /\ rate > 95 THEN HIGH
  ELSE IF good /\ rate > 85 /\ h.tier < MEDIUM THEN MEDIUM
  ELSE h.tier

Measured(h, isUp, latency, synced, behind) ==
  LET failures == IF isUp THEN 0 ELSE h.failureCount + 1
      rate     == SuccessRate(h, isUp)
      good     == isUp /\ latency < GOOD_LATENCY_THRESHOLD /\ synced
  IN  [isUp |-> isUp, latency |-> latency, lastChecked |-> now, successRate |-> rate,
       failureCount |-> failures, tier |-> Tier(h, failures, rate, good),
       synced |-> synced, behind |-> behind]

-----------------------------------------------------------------------------
\* What both the choice and the complaint look at.
Usable(h) == Known(h) /\ h.isUp /\ h.synced /\ h.behind <= MAX_BLOCKS_BEHIND

\* 40 % latency, 30 % success, 20 % sync, 5 % per tier, times
\* 20 * 100 * SLOW_LATENCY * MAX_BLOCKS_BEHIND.
Score(h) ==
    800 * MAX_BLOCKS_BEHIND * AtLeastZero(SLOW_LATENCY - h.latency)
  + 6 * h.successRate * SLOW_LATENCY * MAX_BLOCKS_BEHIND
  + 400 * SLOW_LATENCY * AtLeastZero(MAX_BLOCKS_BEHIND - h.behind)
  + 100 * h.tier * SLOW_LATENCY * MAX_BLOCKS_BEHIND

Place(order, u) == CHOOSE i \in DOMAIN order : order[i] = u

UsableUrls(health) == {u \in Urls : Usable(health[u])}
TopUrls(health) ==
  {u \in UsableUrls(health) : \A v \in UsableUrls(health) :
                                Score(health[u]) >= Score(health[v])}

\* The first of the best in insertion order; the configured primary if none
\* is usable, whatever its own state.
FindBestEndpoint(s) ==
  IF UsableUrls(s.health) = {} THEN PRIMARY_RPC_URL
  ELSE CHOOSE u \in TopUrls(s.health) :
         \A v \in TopUrls(s.health) : Place(s.order, u) <= Place(s.order, v)

\* mutant: being out of sync is not an issue
HasIssuesButSync(h) ==
  ~Known(h) \/ ~h.isUp \/ h.latency > SLOW_LATENCY \/ h.failureCount > 2

HasIssues(h) == ~Usable(h) \/ h.latency > SLOW_LATENCY \/ h.failureCount > 2

\* mutant: the instant of the switch is not kept
CheckAndUpdatePrimaryForgetful(s) ==
  LET best    == FindBestEndpoint(s)
      elapsed == now - s.lastSwitch
  IN  IF \/ elapsed < MIN_SWITCH_INTERVAL
         \/ ~HasIssues(s.health[s.primary]) /\ elapsed < 6 * MIN_SWITCH_INTERVAL
      THEN s ELSE [s EXCEPT !.primary = best]

CheckAndUpdatePrimary(s) ==
  LET best    == FindBestEndpoint(s)
      elapsed == now - s.lastSwitch
  IN  IF \/ elapsed < MIN_SWITCH_INTERVAL
         \/ ~HasIssues(s.health[s.primary]) /\ elapsed < 6 * MIN_SWITCH_INTERVAL
         \/ best = s.primary
      THEN s
      ELSE [s EXCEPT !.primary = best, !.lastSwitch = now]

\* updateEndpointHealth() as a function on the service's state, so that a
\* handler that reports twice in one turn can be written as its composition.
Reported(s, u, isUp, latency, synced, behind) ==
  CheckAndUpdatePrimary(
    [s EXCEPT !.health[u] = Measured(@, isUp, latency, synced, behind),
              !.order = IF Known(s.health[u]) THEN @ ELSE Append(@, u)])

BecomesSelector(s) ==
  /\ selector' = s
  /\ switches' = IF s.primary = selector.primary THEN switches
                 ELSE switches \cup {[at |-> now, from |-> selector.primary, to |-> s.primary]}

UpdateEndpointHealth(u, isUp, latency, synced, behind) ==
  BecomesSelector(Reported(selector, u, isUp, latency, synced, behind))

UpdateEndpointSyncStatus(u, synced, behind) ==
  /\ Known(selector.health[u])
  /\ BecomesSelector(CheckAndUpdatePrimary(
       [selector EXCEPT !.health[u].synced = synced, !.health[u].behind = behind]))

\* The service under any sequence of reports.
SelectorTick ==
  /\ now < Horizon
  /\ now' = now + 1
  /\ UNCHANGED selectorVars

Report(u, isUp, latency, synced, behind) ==
  /\ isUp \/ selector.health[u].failureCount < MaxFailures
  /\ UpdateEndpointHealth(u, isUp, latency, synced, behind)
  /\ UNCHANGED now

ReportSync(u, synced, behind) ==
  /\ UpdateEndpointSyncStatus(u, synced, behind)
  /\ UNCHANGED now

SelectorNext ==
  \/ \E u \in Urls, isUp \in BOOLEAN, latency \in Latencies,
        synced \in BOOLEAN, behind \in Behinds : Report(u, isUp, latency, synced, behind)
  \/ \E u \in Urls, synced \in BOOLEAN, behind \in Behinds : ReportSync(u, synced, behind)
  \/ SelectorTick

SelectorStart == now = StartTime /\ SelectorInit

SelectorSpec == SelectorStart /\ [][SelectorNext]_<<now, selectorVars>>

-----------------------------------------------------------------------------
Health == [isUp : BOOLEAN, latency : Nat, lastChecked : Nat, successRate : 0 .. 100,
           failureCount : Nat, tier : 0 .. HIGH, synced : BOOLEAN, behind : Nat]

Inserted(order) == {order[i] : i \in DOMAIN order}

\* Shape of the service's state: nothing lies in the future, and an endpoint
\* has a place in the map exactly when it was checked.
SelectorTypeOK ==
  /\ now \in Nat /\ now >= StartTime
  /\ selector \in [health : [Urls -> Health], order : Seq(Urls),
                   primary : Urls, lastSwitch : Nat]
  /\ selector.lastSwitch <= now
  /\ \A u \in Urls : selector.health[u].lastChecked <= now
  /\ \A u \in Urls : Known(selector.health[u]) <=> u \in Inserted(selector.order)

\* Two changes of the primary are at least the minimum interval apart, in
\* whatever order health reports and sync reports of all endpoints arrive.
SwitchesSpaced ==
  \A a, b \in switches :
    a # b => a.at - b.at >= MIN_SWITCH_INTERVAL \/ b.at - a.at >= MIN_SWITCH_INTERVAL

\* Once the interval has passed, no report leaves an unusable primary in place
\* while some endpoint is usable.
UnusablePrimaryReplaced ==
  [][ selector'.health # selector.health /\ now - selector.lastSwitch >= MIN_SWITCH_INTERVAL
        => \/ Usable(selector'.health[selector'.primary])
           \/ UsableUrls(selector'.health) = {} ]_<<now, selectorVars>>

\* The service, for every sequence of reports, implements PrimaryChoice.
Choice == INSTANCE PrimaryChoice WITH
  usable     <- UsableUrls(selector.health),
  primary    <- selector.primary,
  lastSwitch <- selector.lastSwitch

ImplementsPrimaryChoice == Choice!Spec
=============================================================================
