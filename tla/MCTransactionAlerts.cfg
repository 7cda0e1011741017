SPECIFICATION Spec
CONSTANTS
  THROTTLE_DEFAULT = 1
  THROTTLE_MANY_ENDPOINTS = 1
  MANY_ENDPOINTS = 3
  StartTime = 1
  Horizon = 2
  TestProviders <- MCTestProviders
  DisabledPatterns <- MCDisabledPatterns
  MAX_FAILURES = 2
  MAX_ATTEMPTS = 3
  CRON_INTERVAL = 1
  MAX_TEST_RUNS = 2
  Channels <- MCChannels
  TopicId = "mainnet"
INVARIANTS
  TypeOK
  BlamedForCause
  LostOnlyByTheNetwork
PROPERTY
  MinedTestsEnd
