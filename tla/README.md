# XDCMonitor in TLA+

XDCMonitor is one NestJS process that watches the XDC mainnet (chain 50) and
testnet (chain 51): it probes RPC and WebSocket endpoints, follows blocks,
masternodes, penalties and missed rounds, writes metrics to InfluxDB and raises
alerts.  This directory specifies the parts of it that keep state between
events, checks them with TLC and proves their main invariants with TLAPS.

Node runs one event handler at a time, so between two `await`s a handler is
atomic; what makes the code hard is what other timers and answers do *between*
them.  Every action below is a handler, or the piece of one between two awaits.
Paths are relative to `src/src/`.

## Inventory

| part | state it keeps | operations | what is hard about it |
|---|---|---|---|
| `metrics/metrics.service.ts` MetricsService | `connected`, attempts, reconnect and restart timers, `connectionQueue`, the WriteApi's buffer | connect, reconnect with back-off, flush every 5 s, write or queue a point | failing flushes, failing attempts and timers interleave; a point is stamped late |
| `alerts/alert.service.ts` AlertService, `common/utils/alert-manager.ts` AlertManager | `alertThrottling`, two bounded lists, weekly reports | `error`/`warning`/`info`, `addAlert`, weekly report by cron and by request; channels in turn, Telegram in six requests | throttle per type and chain; a report awaits a query while alerts arrive; text that breaks the markup of a message |
| `monitoring/rpc/rpc-selector.service.ts` RpcSelectorService | health record per endpoint, the primary, when it last changed | `updateEndpointHealth`, `updateEndpointSyncStatus` | a report of any endpoint may move the primary |
| `blockchain/blockchain.service.ts` BlockchainService | provider tables, the active provider | error events, socket events, fallback loop with awaits, status updates | events during the loop's await; two connection attempts per WebSocket |
| `monitoring/rpc/rpc.monitor.ts` RpcMonitorService | status, `downSince`, `alerted` per endpoint | checks, port tests, the copy of provider statuses, downtime alert | three jobs write one record |
| `monitoring/consensus/consensus.monitor.ts` ConsensusMonitor | validator data per chain | refresh every minute, no guard against overlap | answers out of order |
| `monitoring/consensus/epoch/epoch.monitor.ts` EpochMonitor | penalty window per chain, one `lastEpochChecked` | `updatePenaltyData`, `monitorEpochPenalties` | two callers, several chains, one number |
| `monitoring/consensus/miner/miner.monitor.ts` MinerMonitor | `lastCheckedBlock`, known missed rounds, counts, violations | a run every 15 s, no guard against overlap | runs overlap and end in any order, fetches fail in part |
| `monitoring/blocks/blocks.monitor.ts` BlocksMonitorService, `common/utils/time-window-data.ts` | height per endpoint, downtime of the primary, instant of the last lag alert, time windows, gauges | a cycle asks every endpoint for its height; lag and downtime alerts; the best height's block is fetched and its transactions looked up in batches | cycles and jobs overlap and share the tables; two throttles in series |
| `monitoring/transaction/transaction.monitor.ts` TransactionMonitorService | `hasBalance` of each test wallet | a run per five minutes: wallet check, a transaction and a contract through each endpoint, failure rates | runs overlap and share `hasBalance`; polls and retries draw on one count; `tx.wait()` has no deadline |
| `monitoring/rpc/peer-count.monitor.ts` PeerCountMonitor | baseline, zeros in a row and recent alerts per endpoint | process a peer count | moving average, thresholds taken from it, a back-off in series with the throttle, NaN |
| `common/utils/rpc-retry-client.ts` RpcRetryClient | – | call with retries (fallback urls are passed by no caller) | how long a call takes |
| health, controllers, configuration, logging, startup | nothing another part reads | – | – |

Interaction: RpcMonitorService reports each check to RpcSelectorService, reads
and updates BlockchainService's provider tables, and alerts through AlertService;
AlertService saves every alert through MetricsService and reads them back from
InfluxDB for the weekly report; ConsensusMonitor feeds EpochMonitor with penalty
lists and MinerMonitor with the masternode list; both alert through
AlertService, as do BlocksMonitorService, TransactionMonitorService and
PeerCountMonitor.  Blocks and transactions go through the providers
BlockchainService selects, heights and peer counts through clients of their own;
RpcMonitorService and BlocksMonitorService
report under one alert type, and so throttle each other.  AlertService passes
what comes through the throttle to AlertManager, whose sendings nobody awaits.  `EnhancedQueue` and `MetricsManager` are used by nothing in the
application, and nothing calls `updateEndpointSyncStatus`, `setActiveProvider`,
`acknowledge` or `resolve`.

What each part must get right, apart from its types:

- MetricsService: a disconnected writer always has something pending that
  connects it again.
- AlertService: alerts of one type and chain are a period apart; the two lists
  are one history; a report neither loses nor doubles an alert, but for the
  cases its comparison by instant cannot see.
- RpcSelectorService: the primary changes seldom, only for the better, and does
  change when it must.
- BlockchainService: one fallback loop at a time.
- RpcMonitorService: a downtime alert is true, is sent once, and is sent.
- ConsensusMonitor and EpochMonitor: the window is the newest epochs, verdicts
  are exact, every epoch is checked.
- MinerMonitor: no block passed over, nothing counted twice, every missed round
  recorded, the count of missed miners right.
- BlocksMonitorService: heights compared are of one cycle, a downtime alert is
  true and told once, a lag is never silent, the transaction rate covers its
  window.
- PeerCountMonitor: an endpoint that loses its peers is never silent for longer
  than its back-off.
- TransactionMonitorService: an endpoint is blamed for a cause, and a test ends
  once its transaction is mined.
- AlertManager: an alert is lost only to the network.

## Modules

```
MetricsService <- AlertService <- MCAlertService, AlertServiceProofs
AlertGate                      <~ AlertServiceProofs
PrimaryChoice  <~ RpcSelector  <- MCRpcSelector, RpcSelectorProofs     (<~ INSTANCE)
                  RpcSelector  <- BlockchainService <- RpcMonitor <- MCRpcMonitor
                                                       RpcMonitorProofs (also on RpcSelectorProofs)
EpochMonitor   <- ConsensusMonitor <- MCConsensusMonitor, ConsensusMonitorProofs
MinerMonitor   <- MCMinerMonitor, MinerMonitorProofs
AlertGate, RpcRetryClient <- BlockHeights    \
AlertGate, TimeWindowData <- BlockProcessing  } <- EndpointMonitors <- MCEndpointMonitors
AlertGate                 <- PeerCount       /
                  EndpointMonitors <- EndpointMonitorsProofs <- BlockProcessingProofs
AlertGate <- TransactionMonitor \
             AlertDelivery       } <- TransactionAlerts <- MCTransactionAlerts, TransactionAlertsProofs
```

Operators that start with the name of another one and are commented `mutant:`
are wrong variants used to see that a property notices the mistake; no
specification uses them.

**MetricsService, AlertService.**  The writer's timers are counted
(`reconnects`, `restarts`), the WriteApi is external: it stamps a point when it
is handed over, and stores it later or loses it.  An alert is its type, chain
and instant.  `error()`, `warning()` and `info()` end in one turn and are one
action (`Raise`); `addAlert()` without throttle is reachable from a controller.
A weekly report is two actions around its query, for the cron job and for a
request, which may overlap.  `raised` and `everQueued` are history.  Left out:
texts, notification channels, the recorders of other points (they differ only
in the point they pass to `writePoint`).

**PrimaryChoice** says what the selector promises: at each report it keeps its
primary or, after the interval and only if it thereby gets a usable one,
changes it.  **RpcSelector** is the service for one chain (chains share
nothing): health records, decaying success rate, tier, score, and the choice;
`ImplementsPrimaryChoice` is the refinement.  The order of the health map
matters when scores are equal, so it is kept (`order`).  The module alone takes every
report its interface allows; the monitor composed with it makes only those of its
source, which never calls `updateEndpointSyncStatus()`.  Scores
are kept as integers, the code's times a constant, and success rates in whole percent,
rounded down.

**BlockchainService** keeps an entry per url, the active provider and the
position of the one fallback loop (`trying`); **RpcMonitor** puts the monitor on
top.  `Init` is the moment before `startMonitoring()`, with both connection
attempts of each WebSocket outstanding, as `initializeProviders()` runs twice at
start.  An HTTP check is atomic, although it awaits: it writes nothing before
its answer.  A WebSocket check that probes is split, as the table may change
meanwhile.  A failed check calls `updateRpcEndpointStatus()` twice; both calls
are in the action.  The copy of the provider table is one action, folding over
the endpoints in configuration order.  Time is counted in check intervals;
within one every check, and the copy when due, completes in any order
(`due`); a check that outlasts its interval counts as completing in it.
`lastUp` and `failingSince` are history, what an outside observer of the checks
would know.

**EpochMonitor, ConsensusMonitor.**  All chains are in one module because
`lastEpochChecked` is shared.  A refresh is asked and answered in two actions,
several may be in flight and answer in any order; an answer is cached even when
older than the cache, and goes to the window when newer.  `Init` is the end of
`onModuleInit`.  The penalty check awaits nothing that takes time and is one
action.  `seen`, `checks` and `verdict` are history.  Assumed: the chains'
epoch numbers differ (they are thousands apart and grow alike, see
`consensus.utils.ts`), and a penalty list is a function of its epoch.

**MinerMonitor** is one chain with several runs of `monitorMiners()` at once:
each asks for the latest block, maybe for the missed rounds, looks into the new
ones one at a time, and fetches blocks, awaiting in between while others change
the same `ChainState`.  The node may fail any call; a block fetch may bring any
subset.  `blockLog` and `roundLog` are history.

**AlertGate** is AlertService as the monitors of one chain meet it: the throttle
with the periods it really applies (see `throttle_config`), as a function, since
one turn may report several times.  `GateSpec` is what a chain may see of the
service; that AlertService implements it is a theorem (`ServiceImplementsGate`).

**BlockHeights, BlockProcessing, PeerCount** are composed in
**EndpointMonitors** for one chain.  A cycle of `monitorBlocks()` is its start, which
empties the table of heights, an answer, an unreadable answer or an error per
endpoint, in any order and late, and the lag check in the action of the last of
them; the next cycle starts when the interval fires, whether or not this one has
ended.  `RpcRetryClient` gives the longest a height request may take, and the
clock waits for requests and interval, so overlap happens exactly when these
durations allow it.  A block is processed by a job of its own: fetched, or not,
from the provider BlockchainService selects, then batch by batch, each with any
outcome its size allows; jobs overlap without bound on their duration.  The gauge
`transactionsPerMinute` is kept as the sum (the division by the window is left
out).  A time window (**TimeWindowData**) is a set of points numbered in the order
they were pushed; pruning keeps those of the window and of these the newest
`maxDataPoints`.  The peer-count baseline is a float in the code and kept in hundredths of a
peer here, cut down; NaN is a value of its own that comparisons and averages treat as the
language does.  Averages, minima and other read-outs of time windows are left
out: they feed gauges only.  `heightCycle`, `lastAnswered`, `downAlerts`,
`lagSeenAt`, `processedBlocks`, `peerAlerts` and `peersOutAt` are history.
The three parts write no variable in common but the clock and the throttle, and
never the throttle entry another one reads, so no property can tell an
interleaving of two from each by itself: `part` makes a behaviour follow one of
them, which keeps the product of their states out of TLC's way.  `Together` is
the interleaving, in which the clock advances when each part lets it;
`MonitorsKeepApart` and `CyclesKeepApart` prove that it keeps every invariant the
run checks of the parts.

**TransactionMonitor, AlertDelivery** are composed in **TransactionAlerts**.  A
run is the firing of the cron job, the wallet check, the choice of providers,
for each a transaction and a contract test, and the rates at its end.  A test is
sent (or refused), waits without a deadline to be mined, and is polled:
`attempts` of the monitor and `failedCount` of `getTransaction()` are both kept,
as the code passes the one for the other.  The providers a run has left to test
are a set of positions of `TestProviders`, taken from the lowest up: the code walks
its list in order and removes nothing from it.  Runs share `hasBalance`.  `failedTest`
holds the verdict of the step just taken, if it is one, and `clearedBy` the run
whose check last found the wallet empty; both are history.  A sending walks the
configured channels; at Telegram, six requests, of which the environment decides
what arrives and what is answered, but text that breaks the markup is never
accepted formatted.  `readable` and `arrived` are history.

## Runs

All specifications check deadlock: no part of this process may stop.  Bounds
appear as constants marked `bound:` in the modules and only cut off exploration
(the clock, how many alerts, timers in flight).

| run | checks | bounds, and why they are enough |
|---|---|---|
| `alerts` | `TypeOK`, `NeverStranded`, `SpacedAlerts`, `ListsAgree`, `DoubleCountOnlyWhenQueued`, `MissingOnlyIfTwin` | two alerts, two keys of one type, lists of one and two, one queued point, one attempt before the pause, three instants: lists overflow, the queue fills, attempts run out, a report overlaps a reconnect |
| `throttle_config` | finds `ConfiguredPeriodHonoured` violated | two types |
| `selector` | `SelectorTypeOK`, `SwitchesSpaced`, `UnusablePrimaryReplaced`, `ImplementsPrimaryChoice` | two endpoints, a good and a slow latency, in and out of sync (which the choice treats as it does too many blocks behind), up to four failures, two instants an interval apart: two changes are possible |
| `endpoints_http` | `TypeOK`, `OneFallback`, `AlertAfterFullOutage`, `OneReportPerOutage`, `OutageWithoutProviderReported`, `PrimaryAnswersChecks`, `ImplementsPrimaryChoice` | two endpoints, five periods, threshold of two periods, copy every second one: an outage may be reported, end and begin again |
| `endpoints_ws` | `AlertAfterFullOutage`, `OneReportPerOutage` | one endpoint of each kind, four periods |
| `endpoints_outage` | finds `OutageReported` violated | as `endpoints_http`, threshold longer than the copy's interval, as in the code |
| `consensus` | `TypeOK`, `WindowIsNewest`, `VerdictsExact`, `NoEpochSkipped`, `EveryEpochChecked` | two chains of three and two epochs, window of two, two refreshes in flight: the window overflows and answers cross |
| `epoch_once` | finds `OncePerEpoch` violated | the same |
| `miner` | `TypeOK`, `CoveredUpToLastChecked`, `CountedOnceWithoutOverlap`, `KnownRoundsAccounted`, `RecordedOnceWithoutOverlap`, `MissedMinersLeadToActual` | four blocks, an epoch that ends among them, three missed rounds, two interchangeable runs (symmetry) |
| `miner_rounds` | finds `EveryMissedRoundRecorded` violated | one run |
| `monitors` | `TypeOK`, `HeightsOfOneCycle`, `DownAlertsTrue`, `LagNeverSilent`, `RateCoversWindow`, `PeerOutageNeverSilent` | three endpoints and heights, a warning at one block and an error at two, six instants with a cycle at every second one, an hour of four: a downtime alert may come, end and come again, both lag lists in one turn; three blocks of up to two batches, two at a time, over two windows; peer counts 0, 1, 12 and NaN, one sample for a baseline and two zeros for an alarm: established, alarmed, forgotten and alarmed again |
| `notifications` | `TypeOK`, `BlamedForCause`, `LostOnlyByTheNetwork`, `MinedTestsEnd` | two runs, started an interval apart, three endpoints of which one is disabled by host and port and one pattern names another protocol, two tries and three attempts (the code's are 3 and 8, where the smaller decides as well), all three channels and kinds of text |

What they show:

- A disconnected writer always has a timer pending; its restart timer and its
  limit of attempts work together.
- The throttle keeps alerts of a type and chain apart, whatever else happens.
  But the periods of `config.ts` for single types are never used: the table is
  keyed by the types' names and looked up by their values (`throttle_config`).
- A weekly report counts an alert twice only if its point waited in the queue,
  and misses one only if another of the same instant hides it.  Both happen: an
  unconditional property would fail.
- The selector keeps its promise, alone and inside the monitor.
- A downtime alert is never early and never repeated for one outage.  It is
  sent for an endpoint that had no provider from the start; for one whose
  provider was made it is not, since the provider's entry stays 'up' and the
  copy restarts the outage every minute (`endpoints_outage`).
- At most one fallback loop runs, and only while the active provider is down.
- Out-of-order answers do not disturb the penalty window, no epoch is skipped
  through the shared `lastEpochChecked`, but it makes every check repeat
  (`epoch_once`).
- Overlapping miner runs pass over no block and lose no known round, though they
  may count blocks and rounds twice; rounds missed after the last look in an
  epoch are never recorded (`miner_rounds`).
- Cycles of height requests overlap in code but not in time: one attempt of three
  seconds ends before the fifteen-second interval fires, and only thereby are the
  heights compared of one cycle.  With the client's default of three attempts they
  would not be.
- A downtime alert about the primary is true and told once, though it may be
  dropped by the throttle it shares with RpcMonitorService.
- A lag is never silent for longer than the hour of its own throttle, because that
  throttle is never shorter than AlertService's; likewise an endpoint without
  peers, within its back-off and one more throttle period, as the back-off also
  counts alerts that were dropped.  (Until an answer without digits makes its
  baseline NaN: from then on it does not "typically have peers" and is out of the
  property's reach, and of the monitor's.)
- The transaction rate counts every block of its window once, whatever the jobs'
  order.
- An endpoint fails a test only for a cause, but the cause may be another run's
  check of the wallet, as runs overlap.
- Retries and polls draw on one count, so polling ends; the count also cuts the
  documented eight attempts to three.
- The plain-text requests give an alert that breaks its markup two or more chances;
  without them such alerts would never arrive.

Fairness is used twice.  `MinedTestsEnd` assumes that a poll under way goes on: a
request through a provider has a deadline and the waits between polls are timers.
Nothing is assumed of `tx.wait()`, of the webhook, which has no timeout, or of
the network.  `EveryEpochChecked` assumes that each chain's penalty
check keeps being called, which `setInterval` does for the life of the process;
nothing is assumed of refreshes or of the node.

## Proofs

For every value of the constants that satisfies the modules' assumptions, TLAPS
checks:

| module | theorems |
|---|---|
| `AlertServiceProofs` | `TypeCorrect`, `WriterNeverStranded`, `ThrottleSpacesAlerts`, `ListsAlwaysAgree`, `DoubleCountsOnlyQueued`, `MissingOnlyForTwins`, `ServiceImplementsGate` |
| `RpcSelectorProofs` | `SelectorTypeCorrect`, `PrimarySwitchesSpaced`, `FailoverHappens`, `SelectorImplementsChoice` |
| `RpcMonitorProofs` | `TypeCorrect`, `OneFallbackAlways`, `StatusInvariant`, `DowntimeAlertsAreTrue`, `OutageAlertedOnce`, `OutageWithoutProviderAlerted`, `MonitorImplementsChoice`, `PrimaryFollowsChecks` |
| `ConsensusMonitorProofs` | `TypeCorrect`, `WindowAlwaysNewest`, `VerdictsAlwaysExact`, `NoEpochEverSkipped` |
| `MinerMonitorProofs` | `MinerTypeCorrect`, `NoBlockPassedOver`, `KnownRoundsNeverForgotten`, `MissedMinersExact`, `BlocksCountedOnce`, `RoundsRecordedOnce` |
| `EndpointMonitorsProofs` | `LagIsNeverSilent`, `DownAlertsAreTrue`, `HeightsAreOfOneCycle`, `PeerOutageIsNeverSilent` |
| `BlockProcessingProofs` | `TypeCorrect`, `RateAlwaysCoversWindow`, `MonitorsKeepApart`, `CyclesKeepApart` |
| `TransactionAlertsProofs` | `TypeCorrect`, `EndpointsBlamedForCause`, `AlertsLostOnlyByTheNetwork` |

What is assumed of the constants is named in the modules.  Some of it is more than
types and signs:

- `HeightsAssumption` has the monitor's throttle for lags no shorter than
  AlertService's, as in `config.ts`.
- `BlocksAssumption` has `SAMPLE_SIZE > TX_WINDOW + MAX_BLOCK_JOBS`: a time window
  may hold a point of every block of its span and of the jobs under way.  The code
  keeps a hundred points of a window of five minutes, in which a scan every ten
  seconds begins thirty blocks (`block-monitoring.ts:20-23`, `config.ts:174`), and
  so has room for some seventy jobs at once; with more, or with a shorter interval,
  points of the window would be dropped and the rate fall short.
- `MonitorAssumption` has HTTP and WebSocket urls apart, and the job that copies the
  provider table is not an endpoint: the code keeps the two kinds in one map, under
  urls whose protocols differ.
- `HeightsAreOfOneCycle` and `CyclesKeepApart` have a hypothesis of their own,
  `CHECK_TIMEOUT < SCAN_INTERVAL`: the timeout is a constant of the code, the
  interval is configured, and with a shorter one cycles do overlap.
- `ServiceImplementsGate` has `GateConfig`: the types the monitors report under are
  in use, and no type's value is a key of the table of periods
  (`config.ts:276-297, 339-345`).

The strengthenings the invariants need:

- `SpacedAlerts`: the throttle's stamp of a key is the instant of the last alert
  let through, and no such alert is later.
- `ListsAgree`: alerts are numbered as they are recorded; the legacy list holds
  the last numbers, and an entry of the manager's list is as far from the newest
  as there are alerts before it (`ListsInv`).  Putting an entry in front moves
  every position by one, which is a lemma about the cardinality of a shifted set.
- `DoubleCountOnlyWhenQueued` and `MissingOnlyIfTwin`: every row, buffered point
  and list entry is *genuine*: it carries the instant its alert was raised at, or
  its point waited in the queue, where everything is in `everQueued`.  Two genuine
  entries of one alert that never waited have one instant, so the comparison by
  instant finds them.
- `SwitchesSpaced`: every change recorded is at most as late as `lastSwitch`,
  which is the last of them.  `FailoverHappens` and the refinement rest on one
  lemma: the endpoint `findBestEndpoint` returns is usable if any is.
- `OneFallback`: inductive with the type of the table: the loop only starts when
  the active provider goes down, and nothing turns an HTTP entry up again.  The
  proof carries this through every action of the monitor.
- The downtime alerts of `RpcMonitor`: `StatusInv` says of each entry that it is
  down exactly when it has an instant it went down at, that it went down after
  its endpoint was last found up, and, for an endpoint without a provider, no
  later than its checks began to fail; and of each alert that the entry it is about
  remembers it while the outage lasts.  The copy of the provider table is a fold,
  so the proof is about the states the fold goes through, with the least position
  that breaks the invariant as the counterexample to exclude.
- `MonitorImplementsChoice`: the two reports of a failed check are one step of
  `PrimaryChoice`, or none: both leave the same endpoints usable, and when the
  first changed the primary the interval keeps the second from it.
- `PrimaryAnswersChecks`: an endpoint found up is usable to the selector, one
  whose checks fail is not, and after any report the primary is usable as far as
  the interval allows (`ChecksInv`).
- `WindowIsNewest`: the newest *n* of a set and one more element can be computed
  from the newest *n* alone (a lemma about cardinalities).
- `NoEpochSkipped`: `lastEpochChecked` is an epoch of some chain and was checked for
  that chain (`LastIsChecked`), and no two chains have an epoch in common.
- `CoveredUpToLastChecked`: everything below the first block a run fetches is
  covered already (`RunsCovered`), which holds when the run reads
  `lastCheckedBlock` and stays true when others move it, forth or back.
- `KnownRoundsAccounted`: only a run that is at its rounds has rounds left.
- `CountedOnceWithoutOverlap` and `RecordedOnceWithoutOverlap`: as long as no two
  runs overlapped, at most one run is in flight, and it fetches from
  `lastCheckedBlock` on; no block above that was counted (`Alone`).  The rounds
  known are those of the last answer, each recorded round is among them or of an
  epoch before, and the rounds a run has left are known and unrecorded
  (`RoundsAlone`), which needs that the start of the epoch never goes back.
- `MissedMinersLeadToActual`: every violation in the list carries the count of
  its own round, and the two arithmetic cases of that count land on the actual
  miner modulo the length of the list.
- `LostOnlyByTheNetwork`: what a sending has met by its request at Telegram
  (`MetBy`): fewer readable requests than requests, one from the fourth on and
  two from the fifth on, since the third and the fourth are plain whatever the
  text; and once it is past Telegram, an arrival or two readable requests.  The
  list of channels is any that has Telegram once.
- `LagNeverSilent`: the monitor's own throttle and AlertService's hold the same
  instant (`LagInv`): the monitor lets no lag alert through that AlertService, whose
  periods are no longer, would drop.
- `DownAlertsTrue`: the instant the primary went down at is of the silence it is
  in, and that silence was alerted about only if `alerted` says so (`DownInv`).
- `HeightsOfOneCycle`: all requests in flight are of the newest cycle and were made
  when it started, so their timeout comes before the next start (`CycleInv`).
- `RateCoversWindow`: a job has recorded exactly the blocks it is past, each once
  (`JobsOK`, `ProcessedOK`), so from any instant of the window on the points and the
  processed blocks are equally many and have the same sum (`RateOK`).  One job
  begins per instant, so those under way are few and the points of a window stay
  below the limit of the sample (`FewOK`, `WindowFits`): pruning drops no point that
  is still in the window.  That a sum is the same whichever element is taken out first is not
  induction over data: sums are a recursive function on finite sets, and a lemma
  with the least set that breaks it as the counterexample settles it.
- `MonitorsKeepApart`: each part's step is proved from its own conjuncts, with the
  clock and the throttle given, so a step of another part changes nothing it reads
  (`HeightsStep`, `PeersStep`, `PartInv`).
- `ServiceImplementsGate`: the row of one chain in the throttle table is the gate's
  table.  A report for the chain is the gate's report, counting four endpoints or
  none; a report for another chain, an alert from a controller, a weekly report or
  a write leaves the row alone.  The gate's assumptions hold of the service's
  constants (`GateAssumptionHolds`).
- `PeerOutageNeverSilent`: every alert the back-off counts was let through, or
  another one of the two types was, less than the throttle's period before
  (`PeerAlertsHeard`); the steps through the baseline and its thresholds need
  the powers of two of the back-off and division of integers.
- `BlamedForCause`: tries made and tries still to come, a triangle number of the
  attempts left, stay within `MaxTries`; failures counted and tests to come stay
  within the run's endpoints; and a run with endpoints left to test while there
  is no balance had it cleared by another run (`TestsInv`).

Only model-checked, and why:

- `EveryEpochChecked` and `MinedTestsEnd` are liveness under fairness, which the
  prover does not do; nor does it do ENABLED, so no theorem says that nothing
  deadlocks.

Every other property of a run that passes is stated by a theorem.

## Plan

The components that keep state are modelled, and the safety properties of their runs
proved.  What could follow:

1. Lemmas that several proofs have in a form of their own (an entry put in front of
   a bounded list, a record changed in one field) could be shared.
2. The composition of RpcMonitor with BlocksMonitorService, which report under one
   alert type: `DownAlertsTrue` meets the other's alerts only as reports that may
   come at any time.

## Not modelled

Formatting of messages, delivery of the weekly report (it takes the same
channels), controllers that only read, configuration and logging, the health
ping, the reward monitor (a stub), the email channel (a stub), the recorders of
metric points (they differ only in the point they pass to `writePoint`), methods
of BlockchainService nothing calls, port statuses of HTTP endpoints and the
checks of explorers and faucets (each keeps its last value only), and the unused
`EnhancedQueue` and `MetricsManager`.
