SPECIFICATION Spec
CONSTANTS
  THROTTLE_DEFAULT = 1
  THROTTLE_MANY_ENDPOINTS = 4
  MANY_ENDPOINTS = 1
  StartTime = 4
  Horizon = 10
  Endpoints = {a, b, c}
  ConfiguredPrimary = a
  Heights = {1, 2, 3}
  SYNC_LAG_ERROR_BLOCKS = 1
  SYNC_LAG_CRITICAL_BLOCKS = 2
  SYNC_LAG_THROTTLE = 4
  DOWNTIME_NOTIFICATION_THRESHOLD = 4
  SCAN_INTERVAL = 2
  CHECK_TIMEOUT = 1
  CHECK_RETRY_DELAY = 1
  BlockSizes = {0, 2}
  BlockTimes = {0, 2}
  TX_WINDOW = 2
  BLOCK_TIME_WINDOW = 4
  SAMPLE_SIZE = 5
  DEFAULT_BATCH_SIZE = 1
  LARGE_BLOCK = 1
  LARGE_BATCH_SIZE = 1
  MAX_BLOCK_JOBS = 2
  MAX_BLOCKS = 3
  PeerCounts = {0, 1, 12}
  SCALE = 100
  MIN_SAMPLES_FOR_BASELINE = 1
  CONSECUTIVE_ZEROS_THRESHOLD = 2
  ALERT_BACKOFF_INITIAL = 1
  ALERT_HISTORY_RETENTION = 4
INVARIANTS
  TypeOK
  HeightsOfOneCycle
  DownAlertsTrue
  
  
  PeerOutageNeverSilent
