SPECIFICATION Spec
CONSTANTS
  AlertTypes = {"sync_blocks_lag"}
  SYNC_BLOCKS_LAG = "sync_blocks_lag"
  Chains = {0, 50}
  THROTTLE_SECONDS <- MCThrottle
  ConfigKey <- MCConfigKey
  MAX_ALERTS = 1
  MAX_MANAGER_ALERTS = 2
  MAX_REPORTS = 1
  WEEK = 3
  StartTime = 3
  Horizon = 5
  MaxAlerts = 2
  MaxReports = 1
  MAX_QUEUE_SIZE = 1
  MAX_RECONNECT_ATTEMPTS = 1
  MaxPending = 1
INVARIANTS
  TypeOK
  NeverStranded
  SpacedAlerts
  ListsAgree
  
  
