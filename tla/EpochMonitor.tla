---------------------------- MODULE EpochMonitor ----------------------------
(***************************************************************************)
(* monitoring/consensus/epoch/epoch.monitor.ts: the sliding window of      *)
(* penalty lists of each chain and the check that raises penalty alerts.   *)
(*                                                                         *)
(* processedEpochs is kept sorted and free of duplicates, so it is a set   *)
(* here and "the newest" stands for a prefix of the array.  A chain's      *)
(* penalty list is fixed for an epoch: Penalty(c, e).                      *)
(***************************************************************************)
EXTENDS Integers, FiniteSets

CONSTANTS
  Chains,
  Nodes,                         \* validator addresses
  Penalty(_, _),                 \* the penalty list of a chain in an epoch
  SLIDING_WINDOW_SIZE,           \* 10 epochs
  MIN_EPOCHS,                    \* 5: fewer are no sample
  PENALTY_THRESHOLD_PERCENTAGE,  \* 70
  MAX_PENALTY_LIST_SIZE          \* 20

ASSUME EpochAssumption ==
  /\ IsFiniteSet(Nodes)
  /\ SLIDING_WINDOW_SIZE \in Nat \ {0} /\ MIN_EPOCHS \in Nat
  /\ PENALTY_THRESHOLD_PERCENTAGE \in Nat /\ MAX_PENALTY_LIST_SIZE \in Nat

VARIABLES
  lastEpochChecked,  \* one number for all chains; 0 = none yet
  penaltyHistory,    \* [chain -> [epoch -> list]]
  processedEpochs,   \* [chain -> set of epochs]
  seen,              \* history: every epoch given to updatePenaltyData
  checks,            \* history: [chain, epoch] pairs checked once, twice or more
  verdict            \* history: outcome of the chain's last check

windowVars == <<penaltyHistory, processedEpochs, seen>>
epochVars  == <<lastEpochChecked, windowVars, checks, verdict>>

\* The n largest members of a finite set of numbers.
Newest(S, n) == {e \in S : Cardinality({f \in S : f > e}) < n}

Window(S) == Newest(S, SLIDING_WINDOW_SIZE)

-----------------------------------------------------------------------------
\* updatePenaltyData() on one chain's window [history, processed].
\* mutant: a full window takes nothing new
UpdatedWindowClosed(c, w, e) ==
  IF e \in w.processed \/ Cardinality(w.processed) = SLIDING_WINDOW_SIZE THEN w
  ELSE [processed |-> w.processed \cup {e},
        history |-> [f \in DOMAIN w.history \cup {e} |->
                      IF f = e THEN Penalty(c, e) ELSE w.history[f]]]

UpdatedWindow(c, w, e) ==
  LET added == w.processed \cup {e}
      old   == added \ Window(added)
  IN  IF e \in w.processed THEN w
      ELSE [processed |-> Window(added),
            history |-> [f \in (DOMAIN w.history \cup {e}) \ old |->
                          IF f = e THEN Penalty(c, e) ELSE w.history[f]]]

UpdatePenaltyData(c, e) ==
  LET w == UpdatedWindow(c, [processed |-> processedEpochs[c],
                             history |-> penaltyHistory[c]], e)
  IN  /\ penaltyHistory' = [penaltyHistory EXCEPT ![c] = w.history]
      /\ processedEpochs' = [processedEpochs EXCEPT ![c] = w.processed]
      /\ seen' = [seen EXCEPT ![c] = @ \cup {e}]

-----------------------------------------------------------------------------
\* mutant: the share of the full window, however few epochs there are
FrequentNodesOfWindow(history, epochs) ==
  IF Cardinality(epochs) < MIN_EPOCHS THEN {}
  ELSE {n \in Nodes : 100 * Cardinality({e \in epochs : n \in history[e]})
                        >= PENALTY_THRESHOLD_PERCENTAGE * SLIDING_WINDOW_SIZE}

\* countPenalties() and the filter of checkFrequentlyPenalizedNodes().
FrequentNodes(history, epochs) ==
  IF Cardinality(epochs) < MIN_EPOCHS THEN {}
  ELSE {n \in Nodes : 100 * Cardinality({e \in epochs : n \in history[e]})
                        >= PENALTY_THRESHOLD_PERCENTAGE * Cardinality(epochs)}

Oversized(list) == Cardinality(list) >= MAX_PENALTY_LIST_SIZE

\* The second check of an epoch is told apart from the first, a third is not.
Counted(c, e) ==
  IF <<c, e, 1>> \in checks THEN checks \cup {<<c, e, 2>>} ELSE checks \cup {<<c, e, 1>>}

\* The outcome of a check, after the window took the epoch.
Verdict(c, e) ==
  [of |-> seen'[c], epoch |-> e, oversized |-> Oversized(Penalty(c, e)),
   frequent |-> FrequentNodes(penaltyHistory'[c], processedEpochs'[c])]

\* mutant: only a larger epoch number is news
CheckPenaltiesIfLater(c, e) ==
  /\ e > lastEpochChecked
  /\ UpdatePenaltyData(c, e)
  /\ verdict' = [verdict EXCEPT ![c] = Verdict(c, e)]
  /\ checks' = Counted(c, e)
  /\ lastEpochChecked' = e

\* mutant: an epoch already in the window is taken for checked
CheckPenaltiesIfNew(c, e) ==
  /\ e # lastEpochChecked
  /\ UpdatePenaltyData(c, e)
  /\ verdict' = IF e \in processedEpochs[c] THEN verdict
                ELSE [verdict EXCEPT ![c] = Verdict(c, e)]
  /\ checks' = IF e \in processedEpochs[c] THEN checks ELSE Counted(c, e)
  /\ lastEpochChecked' = e

\* monitorEpochPenalties() given the cached epoch and list of the chain.  The
\* awaits inside only wait for AlertService, which answers in the same turn.
CheckPenalties(c, e) ==
  /\ e # lastEpochChecked
  /\ UpdatePenaltyData(c, e)
  /\ verdict' = [verdict EXCEPT ![c] = Verdict(c, e)]
  /\ checks' = Counted(c, e)
  /\ lastEpochChecked' = e

-----------------------------------------------------------------------------
\* The window of a chain is the newest of all epochs it was ever told of, and
\* exactly their lists are kept, though lists arrive late, repeatedly and from
\* two callers.
WindowIsNewest ==
  \A c \in Chains :
    /\ processedEpochs[c] = Window(seen[c])
    /\ DOMAIN penaltyHistory[c] = processedEpochs[c]
    /\ \A e \in processedEpochs[c] : penaltyHistory[c][e] = Penalty(c, e)

\* A check names a node exactly when it was penalized in at least the
\* threshold share of the newest epochs known then, and of enough epochs.
VerdictsExact ==
  \A c \in Chains :
    LET v == verdict[c]
        epochs == Window(v.of)
        share(n) == Cardinality({e \in epochs : n \in Penalty(c, e)})
    IN  v.epoch # 0 =>
          /\ v.frequent = {n \in Nodes :
               /\ Cardinality(epochs) >= MIN_EPOCHS
               /\ 100 * share(n) >= PENALTY_THRESHOLD_PERCENTAGE * Cardinality(epochs)}
          /\ v.oversized <=> Cardinality(Penalty(c, v.epoch)) >= MAX_PENALTY_LIST_SIZE
=============================================================================
