--------------------------- MODULE MCRpcSelector ---------------------------
(***************************************************************************)
(* RpcSelector for TLC.  Time in units of the switch interval, a "day" of  *)
(* two; latencies in units of 100 ms, one good and one over the limit.     *)
(***************************************************************************)
EXTENDS RpcSelector

ASSUME HorizonAllowsTwoSwitches == Horizon >= StartTime + MIN_SWITCH_INTERVAL
=============================================================================
