------------------------- MODULE MCConsensusMonitor -------------------------
(***************************************************************************)
(* ConsensusMonitor for TLC: two chains, one with three epochs, one more    *)
(* than the window holds, and one with two.  Node m is penalized in every  *)
(* epoch, n in the epochs of even number.                                  *)
(***************************************************************************)
EXTENDS ConsensusMonitor

CONSTANTS mainnet, testnet, m, n

MCChains == {mainnet, testnet}
MCNodes == {m, n}
MCPenalty(c, e) == IF e % 2 = 0 THEN {m, n} ELSE {m}
MCSwitchEpoch == [c \in MCChains |-> IF c = mainnet THEN 20 ELSE 10]
MCMaxRound == [c \in MCChains |-> IF c = mainnet THEN 5 ELSE 3]

ASSUME MoreEpochsThanWindow ==
  \E c \in Chains : Cardinality(EpochsOf(c)) > SLIDING_WINDOW_SIZE
=============================================================================
