SPECIFICATION Spec
CONSTANTS
  Urls = {p}
  WsUrls = {w}
  ProviderOrder <- MCProviderOrder
  WsOrder <- MCWsOrder
  PRIMARY_RPC_URL = p
  MIN_SWITCH_INTERVAL = 1
  DAY = 2
  GOOD_LATENCY_THRESHOLD = 10
  SLOW_LATENCY = 50
  MAX_BLOCKS_BEHIND = 50
  StartTime = 6
  Latencies = {2}
  Behinds = {0}
  MaxFailures = 8
  Horizon = 9
  DOWNTIME_NOTIFICATION_THRESHOLD = 2
  SYNC_INTERVAL = 2
  THROTTLE = 1
INVARIANTS
  AlertAfterFullOutage
  OneReportPerOutage
