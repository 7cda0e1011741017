-------------------------- MODULE ConsensusMonitor --------------------------
(***************************************************************************)
(* monitoring/consensus/consensus.monitor.ts with the epoch monitor it     *)
(* feeds: each chain's cached validator data, refreshed by requests that   *)
(* may overlap and answer out of order, and the two callers of the penalty *)
(* window.                                                                 *)
(*                                                                         *)
(* Init is the end of onModuleInit(): each chain's first refresh has       *)
(* answered or failed.                                                     *)
(***************************************************************************)
EXTENDS EpochMonitor

CONSTANTS
  EPOCH_LENGTH,   \* 900 rounds
  SwitchEpoch,    \* per chain: its V2 switch block / 900
  MaxRound,       \* bound: per chain, the last round explored
  MaxInflight     \* bound: refreshes of a chain outstanding at once

VARIABLES
  round,               \* the chain's round, as its node sees it
  chainValidatorData,  \* [epoch, loaded]: currentEpoch, masternodeList # null
  inflight             \* per chain: epochs in answers not yet processed

vars == <<round, chainValidatorData, inflight, epochVars>>

CalculateEpochNumber(r, c) == SwitchEpoch[c] + r \div EPOCH_LENGTH

EpochsOf(c) == {CalculateEpochNumber(r, c) : r \in 0 .. MaxRound[c]}

\* The chains' epoch numbers lie thousands apart and grow alike.
ASSUME ConsensusAssumption ==
  /\ EPOCH_LENGTH \in Nat \ {0} /\ SwitchEpoch \in [Chains -> Nat \ {0}]
  /\ MaxRound \in [Chains -> Nat] /\ MaxInflight \in Nat
  /\ \A c, d \in Chains : c # d => EpochsOf(c) \cap EpochsOf(d) = {}
  /\ \A c \in Chains : \A e \in EpochsOf(c) : Penalty(c, e) \subseteq Nodes

FirstEpochs(c, loaded) == IF c \in loaded THEN {CalculateEpochNumber(0, c)} ELSE {}

Init ==
  \E loaded \in SUBSET Chains :
    /\ round = [c \in Chains |-> 0]
    /\ chainValidatorData = [c \in Chains |->
         IF c \in loaded THEN [epoch |-> CalculateEpochNumber(0, c), loaded |-> TRUE]
         ELSE [epoch |-> 0, loaded |-> FALSE]]
    /\ inflight = [c \in Chains |-> {}]
    /\ lastEpochChecked = 0
    /\ seen = [c \in Chains |-> FirstEpochs(c, loaded)]
    /\ processedEpochs = seen
    /\ penaltyHistory = [c \in Chains |-> [e \in FirstEpochs(c, loaded) |-> Penalty(c, e)]]
    /\ checks = {}
    /\ verdict = [c \in Chains |-> [of |-> {}, frequent |-> {}, epoch |-> 0, oversized |-> FALSE]]

-----------------------------------------------------------------------------
\* The chain moves to its next epoch.
NextEpoch(c) ==
  /\ round[c] + EPOCH_LENGTH <= MaxRound[c]
  /\ round' = [round EXCEPT ![c] = @ + EPOCH_LENGTH]
  /\ UNCHANGED <<chainValidatorData, inflight, epochVars>>

\* refreshValidatorData() asks, with no guard against a request outstanding,
\* and the node answers...
RefreshStart(c) ==
  /\ Cardinality(inflight[c]) < MaxInflight
  /\ inflight' = [inflight EXCEPT ![c] = @ \cup {CalculateEpochNumber(round[c], c)}]
  /\ UNCHANGED <<round, chainValidatorData, epochVars>>

\* mutant: one cache for all chains, as lastEpochChecked is one number
RefreshAnswerAnyChain(c, e) ==
  /\ e \in inflight[c]
  /\ inflight' = [inflight EXCEPT ![c] = @ \ {e}]
  /\ chainValidatorData' = [d \in Chains |-> [epoch |-> e, loaded |-> TRUE]]
  /\ IF e > chainValidatorData[c].epoch THEN UpdatePenaltyData(c, e) ELSE UNCHANGED windowVars
  /\ UNCHANGED <<round, lastEpochChecked, checks, verdict>>

\* ... the answer is cached, also one older than the cache, and a larger epoch
\* goes to the window...
RefreshAnswer(c, e) ==
  /\ e \in inflight[c]
  /\ inflight' = [inflight EXCEPT ![c] = @ \ {e}]
  /\ chainValidatorData' = [chainValidatorData EXCEPT ![c] = [epoch |-> e, loaded |-> TRUE]]
  /\ IF e > chainValidatorData[c].epoch THEN UpdatePenaltyData(c, e) ELSE UNCHANGED windowVars
  /\ UNCHANGED <<round, lastEpochChecked, checks, verdict>>

\* ... or is lost: null, an exception, the retries exhausted.
RefreshFailed(c, e) ==
  /\ e \in inflight[c]
  /\ inflight' = [inflight EXCEPT ![c] = @ \ {e}]
  /\ UNCHANGED <<round, chainValidatorData, epochVars>>

MonitorEpochPenalties(c) ==
  /\ chainValidatorData[c].loaded
  /\ CheckPenalties(c, chainValidatorData[c].epoch)
  /\ UNCHANGED <<round, chainValidatorData, inflight>>

Next ==
  \E c \in Chains :
    \/ NextEpoch(c)
    \/ RefreshStart(c)
    \/ \E e \in inflight[c] : RefreshAnswer(c, e)
    \/ \E e \in inflight[c] : RefreshFailed(c, e)
    \/ MonitorEpochPenalties(c)

\* Each chain's check is called by an interval timer, for ever.
Fairness == \A c \in Chains : WF_vars(MonitorEpochPenalties(c))

Spec == Init /\ [][Next]_vars /\ Fairness

-----------------------------------------------------------------------------
\* Shape of the state; the caches, the answers awaited and the epochs checked of
\* the chains never mix.
TypeOK ==
  /\ round \in [Chains -> Nat] /\ \A c \in Chains : round[c] \in 0 .. MaxRound[c]
  /\ chainValidatorData \in [Chains -> [epoch : Nat, loaded : BOOLEAN]]
  /\ inflight \in [Chains -> SUBSET Nat]
  /\ lastEpochChecked \in Nat
  /\ penaltyHistory = [c \in Chains |-> penaltyHistory[c]]
  /\ verdict = [c \in Chains |-> verdict[c]]
  /\ seen \in [Chains -> SUBSET Nat] /\ processedEpochs \in [Chains -> SUBSET Nat]
  \* cached, asked for or checked, an epoch is one of its own chain
  /\ \A c \in Chains :
       /\ inflight[c] \subseteq EpochsOf(c) /\ seen[c] \subseteq EpochsOf(c)
       /\ chainValidatorData[c].loaded => chainValidatorData[c].epoch \in EpochsOf(c)

\* The check of a chain is skipped only for an epoch of that chain already
\* checked, though both chains share lastEpochChecked.
NoEpochSkipped ==
  \A c \in Chains :
    chainValidatorData[c].loaded /\ chainValidatorData[c].epoch = lastEpochChecked
      => <<c, lastEpochChecked, 1>> \in checks

\* An epoch that stays the cached one of its chain is checked in the end.
EveryEpochChecked ==
  \A c \in Chains : \A e \in EpochsOf(c) :
    chainValidatorData[c] = [epoch |-> e, loaded |-> TRUE]
      ~> <<c, e, 1>> \in checks \/ chainValidatorData[c].epoch # e

\* As documented, penalties are processed when the epoch changes, once.  The
\* shared lastEpochChecked makes every call of either chain process them anew.
OncePerEpoch == \A c \in Chains : \A e \in seen[c] : <<c, e, 2>> \notin checks
=============================================================================
