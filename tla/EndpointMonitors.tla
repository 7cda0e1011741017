--------------------------- MODULE EndpointMonitors ---------------------------
(***************************************************************************)
(* What watches the HTTP endpoints of one chain besides RpcMonitorService: *)
(* the block heights and the blocks of BlocksMonitorService and the peer   *)
(* counts of PeerCountMonitor, on one clock and through one AlertService.  *)
(* The three write no variable in common but these, and never the entry of *)
(* the throttle another one reads, so an interleaving of two is each of    *)
(* them by itself: a behaviour of Spec, which TLC explores, follows one,   *)
(* the others standing still.  Together is the interleaving, for proofs.   *)
(***************************************************************************)
EXTENDS BlockHeights, BlockProcessing, PeerCount

VARIABLE part  \* bound: the monitor this behaviour follows

vars == <<now, alertThrottling, heightsVars, blocksVars, peersVars, part>>

Init ==
  /\ part \in {"heights", "blocks", "peers"}
  /\ GateInit /\ HeightsInit /\ BlocksInit /\ PeersInit

\* The clock stops at the horizon, where what is under way may end.
AtHorizon ==
  /\ now = IF part = "blocks" THEN BlocksHorizon ELSE Horizon
  /\ UNCHANGED vars

Next ==
  \/ part = "heights" /\ HeightsNext /\ UNCHANGED <<blocksVars, peersVars, part>>
  \/ part = "blocks" /\ BlocksNext /\ UNCHANGED <<heightsVars, peersVars, part>>
  \/ part = "peers" /\ PeersNext /\ UNCHANGED <<heightsVars, blocksVars, part>>
  \/ AtHorizon

Spec == Init /\ [][Next]_vars

\* The three at once: a step of one between any two of the others, on one
\* clock, which advances when each of them lets it.
TogetherNext ==
  \/ HeightsNext /\ now' = now /\ UNCHANGED <<blocksVars, peersVars, part>>
  \/ BlocksNext /\ now' = now /\ UNCHANGED <<heightsVars, peersVars, part>>
  \/ PeersNext /\ now' = now /\ UNCHANGED <<heightsVars, blocksVars, part>>
  \/ HeightsTick /\ BlocksTick /\ PeersTick /\ UNCHANGED part

Together == Init /\ [][TogetherNext]_vars

-----------------------------------------------------------------------------
\* The three monitors keep their shapes and their limits, whatever nodes
\* answer and in whatever order (blocks.monitor.ts, peer-count.monitor.ts).
TypeOK == GateTypeOK /\ HeightsTypeOK /\ BlocksTypeOK /\ PeersTypeOK
=============================================================================
