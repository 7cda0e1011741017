--------------------------- MODULE MCAlertService ---------------------------
(***************************************************************************)
(* AlertService on one chain and a call without chain, with the periods of *)
(* config.ts in units of five minutes (300 s -> 1; 600 s and 3600 s -> 2,  *)
(* which keeps their order) and lists of one and two entries.              *)
(***************************************************************************)
EXTENDS AlertService

MCAlertTypes == {"rpc_endpoint_down", "sync_blocks_lag"}
MCThrottle == [DEFAULT |-> 1, RPC_ENDPOINT_DOWN |-> 2, SYNC_BLOCKS_LAG |-> 2,
               SYNC_BLOCKS_LAG_MANY_ENDPOINTS |-> 2]
MCConfigKey == [rpc_endpoint_down |-> "RPC_ENDPOINT_DOWN",
                sync_blocks_lag |-> "SYNC_BLOCKS_LAG"]
=============================================================================
