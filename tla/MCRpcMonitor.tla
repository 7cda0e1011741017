---------------------------- MODULE MCRpcMonitor ----------------------------
(***************************************************************************)
(* RpcMonitor for TLC: two HTTP endpoints, or an HTTP and a WebSocket one. *)
(***************************************************************************)
EXTENDS RpcMonitor

MCProviderOrder == SetToSeq(Urls)
MCWsOrder == SetToSeq(WsUrls)

\* Long enough for an outage to be reported and for one to be reported late.
ASSUME HorizonAllowsOutage == Horizon >= StartTime + DOWNTIME_NOTIFICATION_THRESHOLD
=============================================================================
