--------------------------- MODULE MCMinerMonitor ---------------------------
(***************************************************************************)
(* MinerMonitor for TLC: three masternodes that mine in turn.  Block 2     *)
(* came after two missed miners, block 3 after one at the end of the list, *)
(* block 4 after one that is no longer listed.                             *)
(***************************************************************************)
EXTENDS MinerMonitor, TLC

\* The runs are interchangeable.
RunSymmetry == Permutations(Runs)

MCMasternodes == <<"m1", "m2", "m3">>
MCMinerOf(b) == MCMasternodes[(b % 3) + 1]
MCExpectedOf(b) == CASE b = 2 -> "m1" [] b = 3 -> "m3" [] OTHER -> "retired"
MCEstimate(b) == 1
=============================================================================
