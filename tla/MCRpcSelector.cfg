SPECIFICATION SelectorSpec
CONSTANTS
  Urls = {p, q}
  PRIMARY_RPC_URL = p
  MIN_SWITCH_INTERVAL = 1
  DAY = 2
  GOOD_LATENCY_THRESHOLD = 10
  SLOW_LATENCY = 50
  MAX_BLOCKS_BEHIND = 50
  StartTime = 6
  Latencies = {2, 60}
  Behinds = {0}
  MaxFailures = 4
  Horizon = 7
INVARIANTS
  SelectorTypeOK
  SwitchesSpaced
PROPERTIES
  ImplementsPrimaryChoice
  UnusablePrimaryReplaced
