------------------------------ MODULE PeerCount ------------------------------
(***************************************************************************)
(* monitoring/rpc/peer-count.monitor.ts for one endpoint: the baseline of  *)
(* its peer count, the alerts measured against it and their back-off.      *)
(* Baselines of endpoints share nothing but the chain's throttle.          *)
(* Counts are whole; the baseline, a float in the code, is kept in units   *)
(* of 1/SCALE and cut there.                                               *)
(***************************************************************************)
EXTENDS AlertGate, FiniteSetsExt

CONSTANTS
  PeerCounts,                   \* peer counts the node may answer with
  SCALE,                        \* units of the baseline in a peer
  MIN_SAMPLES_FOR_BASELINE,     \* 5
  CONSECUTIVE_ZEROS_THRESHOLD,  \* 3
  ALERT_BACKOFF_INITIAL,        \* 30 min
  ALERT_HISTORY_RETENTION       \* 24 h

ASSUME PeersAssumption ==
  /\ PeerCounts \subseteq Nat /\ SCALE \in Nat \ {0}
  /\ MIN_SAMPLES_FOR_BASELINE \in Nat /\ CONSECUTIVE_ZEROS_THRESHOLD \in Nat \ {0}
  /\ ALERT_BACKOFF_INITIAL \in Nat \ {0} /\ ALERT_HISTORY_RETENTION \in Nat \ {0}
  /\ ALERT_BACKOFF_INITIAL < ALERT_HISTORY_RETENTION

VARIABLES
  peers,         \* the PeerCountBaseline of the endpoint
  peersReadAt,   \* when a count was last read
  peerAlerts,    \* history: when the endpoint raised an alert
  peersOutAt     \* history: when it last read too many zeros while it typically has peers

peersVars == <<peers, peersReadAt, peerAlerts, peersOutAt>>

\* parseInt() of an answer without digits, and what becomes of a baseline
\* that took it in
NaN == -1

PeersInit ==
  /\ peers = [baselinePeerCount |-> 0, highestPeerCount |-> 0, sampleCount |-> 0,
              recentAlerts |-> {}, typicallyHasPeers |-> FALSE, consecutiveZeros |-> 0]
  /\ peersReadAt = 0 /\ peerAlerts = {} /\ peersOutAt = 0

-----------------------------------------------------------------------------
\* updateBaseline(): an average of the first samples, then a tenth of the new
\* one.  Comparisons with NaN are false, and it is never left again.
UpdateBaseline(b, peerCount) ==
  LET nan   == NaN \in {b.baselinePeerCount, peerCount}
      first == b.sampleCount < MIN_SAMPLES_FOR_BASELINE
      average ==
        IF nan THEN NaN
        ELSE IF first
        THEN (b.baselinePeerCount * b.sampleCount + peerCount * SCALE) \div (b.sampleCount + 1)
        ELSE (b.baselinePeerCount * 9 + peerCount * SCALE) \div 10
  IN  [baselinePeerCount |-> average,
       highestPeerCount  |-> IF peerCount > b.highestPeerCount THEN peerCount ELSE b.highestPeerCount,
       sampleCount       |-> IF first THEN b.sampleCount + 1 ELSE b.sampleCount,
       recentAlerts      |-> {t \in b.recentAlerts : now - t < ALERT_HISTORY_RETENTION},
       typicallyHasPeers |-> IF first THEN b.typicallyHasPeers ELSE 2 * average > SCALE,
       consecutiveZeros  |-> IF peerCount = 0 THEN b.consecutiveZeros + 1 ELSE 0]

Ceil(n, d) == (n + d - 1) \div d

\* calculateThresholds()
AbsoluteDrop(b) == Max({Ceil(b.baselinePeerCount, 5 * SCALE), 4})
HighPeer(b) == Max({Ceil(2 * b.baselinePeerCount, SCALE), 8})

Established(b) == b.sampleCount >= MIN_SAMPLES_FOR_BASELINE /\ b.typicallyHasPeers

NoPeers(b, peerCount) == peerCount = 0 /\ b.consecutiveZeros >= CONSECUTIVE_ZEROS_THRESHOLD
LowPeers(b, peerCount) ==
  \/ b.baselinePeerCount > 5 * SCALE /\ peerCount <= 1
  \/ /\ b.baselinePeerCount > 2 * SCALE /\ peerCount > 1
     /\ 10 * (b.baselinePeerCount - peerCount * SCALE) >= 7 * b.baselinePeerCount
  \/ /\ b.highestPeerCount >= HighPeer(b)
     /\ b.highestPeerCount - peerCount >= 2 * AbsoluteDrop(b)

\* isAlertThrottled(): the back-off doubles with every alert still remembered.
Backoff(alerts) == ALERT_BACKOFF_INITIAL * 2 ^ (Cardinality(alerts) - 1)
IsAlertThrottled(b) ==
  b.recentAlerts # {} /\ now - Max(b.recentAlerts) < Backoff(b.recentAlerts)

\* mutant: a reading within the back-off is remembered as if it were an alert
CheckForAlertRemembering(b, peerCount) ==
  LET type  == IF NoPeers(b, peerCount) THEN "rpc_no_peers" ELSE "rpc_low_peers"
      alert == Established(b) /\ (NoPeers(b, peerCount) \/ LowPeers(b, peerCount))
      raise == alert /\ ~IsAlertThrottled(b)
  IN  /\ peers' = IF alert THEN [b EXCEPT !.recentAlerts = @ \cup {now}] ELSE b
      /\ alertThrottling' = IF raise THEN Reported(alertThrottling, type, 1) ELSE alertThrottling
      /\ peerAlerts' = IF raise THEN peerAlerts \cup {now} ELSE peerAlerts

\* checkForAlert(): an alert is remembered for the back-off though AlertService
\* may drop it.
CheckForAlert(b, peerCount) ==
  LET type  == IF NoPeers(b, peerCount) THEN "rpc_no_peers" ELSE "rpc_low_peers"
      raise == /\ Established(b) /\ (NoPeers(b, peerCount) \/ LowPeers(b, peerCount))
               /\ ~IsAlertThrottled(b)
  IN  /\ peers' = IF raise THEN [b EXCEPT !.recentAlerts = @ \cup {now}] ELSE b
      /\ alertThrottling' = IF raise THEN Reported(alertThrottling, type, 1) ELSE alertThrottling
      /\ peerAlerts' = IF raise THEN peerAlerts \cup {now} ELSE peerAlerts

\* monitorPeerCount(), processPeerCount(): a count arrives.  Checks overlap, so
\* counts come in any order, of which the node's answers may be any anyway.  An
\* error or a timeout changes nothing but a gauge.
\* bound: one count an instant
ProcessPeerCount(peerCount) ==
  LET b == UpdateBaseline(peers, peerCount)
  IN  /\ now > peersReadAt
      /\ peersReadAt' = now
      /\ CheckForAlert(b, peerCount)
      /\ peersOutAt' = IF Established(b) /\ NoPeers(b, peerCount) THEN now ELSE peersOutAt
      /\ UNCHANGED now

\* Another endpoint of the chain raises an alert of the same types.
OtherEndpointsAlert(type) ==
  /\ LetThrough(alertThrottling, type, 1)
  /\ alertThrottling' = Reported(alertThrottling, type, 1)
  /\ UNCHANGED <<now, peersVars>>

PeersTick ==
  /\ now < Horizon
  /\ now' = now + 1
  /\ UNCHANGED <<alertThrottling, peersVars>>

PeersNext ==
  \/ \E peerCount \in PeerCounts \cup {NaN} : ProcessPeerCount(peerCount)
  \/ \E type \in {"rpc_no_peers", "rpc_low_peers"} : OtherEndpointsAlert(type)
  \/ PeersTick

-----------------------------------------------------------------------------
\* Shape of the state; zeros are counted by readings, alerts are of the past.
PeersTypeOK ==
  /\ peers.baselinePeerCount \in Int /\ peers.highestPeerCount \in PeerCounts \cup {0}
  /\ peers.sampleCount \in 0 .. MIN_SAMPLES_FOR_BASELINE
  /\ peers.recentAlerts \subseteq peerAlerts /\ peerAlerts \subseteq StartTime .. now
  /\ peers.typicallyHasPeers \in BOOLEAN
  /\ peersReadAt \in 0 .. now /\ peersOutAt \in 0 .. peersReadAt

\* An endpoint that typically has peers and keeps answering zero is not passed
\* over in silence: an alert about peers of its chain got through AlertService
\* within the back-off that the alerts of the last 24 hours warrant and the
\* throttle that may have dropped the newest of them
\* (peer-count.monitor.ts:138-169, 238-316).
PeerOutageNeverSilent ==
  peersOutAt # 0 =>
    LET remembered == {t \in peerAlerts : peersOutAt >= t /\ peersOutAt - t < ALERT_HISTORY_RETENTION}
        letThrough == Max({alertThrottling["rpc_no_peers"], alertThrottling["rpc_low_peers"]})
    IN  /\ remembered # {} /\ letThrough # 0
        /\ peersOutAt - letThrough < Backoff(remembered) + THROTTLE_DEFAULT
=============================================================================
