SPECIFICATION Spec
CONSTANTS
  mainnet = mainnet
  testnet = testnet
  m = m
  n = n
  Chains <- MCChains
  Nodes <- MCNodes
  Penalty <- MCPenalty
  SwitchEpoch <- MCSwitchEpoch
  SLIDING_WINDOW_SIZE = 2
  MIN_EPOCHS = 1
  PENALTY_THRESHOLD_PERCENTAGE = 70
  MAX_PENALTY_LIST_SIZE = 2
  EPOCH_LENGTH = 2
  MaxRound <- MCMaxRound
  MaxInflight = 2
INVARIANTS
  TypeOK
  WindowIsNewest
  VerdictsExact
  NoEpochSkipped
PROPERTIES
  EveryEpochChecked
