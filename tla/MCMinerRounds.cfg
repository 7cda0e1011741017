SPECIFICATION Spec
CONSTANTS
  Runs = {r1}
  Masternodes <- MCMasternodes
  MinerOf <- MCMinerOf
  Missed = {2, 3, 4}
  ExpectedOf <- MCExpectedOf
  Estimate <- MCEstimate
  EPOCH = 4
  MISSED_ROUNDS_SPAN = 2
  LOOK_BACK = 1
  MAX_RECENT_VIOLATIONS = 1
  StartHead = 2
  MaxHead = 4
INVARIANTS
  EveryMissedRoundRecorded
