---------------------------- MODULE MinerMonitor ----------------------------
(***************************************************************************)
(* monitoring/consensus/miner/miner.monitor.ts for one chain: the runs of  *)
(* monitorMiners(), started by an interval timer whether or not the last   *)
(* one has ended, what they keep between awaits, and the counts they       *)
(* leave.                                                                  *)
(*                                                                         *)
(* The chain is external: its head, who mined a block, and which blocks    *)
(* came late.  A missed round is named by the block mined after it, one    *)
(* round per block.  Init is the end of loadHistoricalMinerData(); counts  *)
(* are relative to the ones it loaded.  Metrics, and the alert at every    *)
(* tenth missed round of a miner, change nothing kept here.                *)
(***************************************************************************)
EXTENDS Integers, Sequences, FiniteSets

CONSTANTS
  Runs,                   \* bound: runs of monitorMiners() in flight
  Masternodes,            \* the masternode list, in its order
  MinerOf(_),             \* who mined a block
  Missed,                 \* blocks mined after a missed round
  ExpectedOf(_),          \* whose round it was
  Estimate(_),            \* missed miners by the time between the blocks
  EPOCH,                  \* blocks in an epoch (900)
  MISSED_ROUNDS_SPAN,     \* blocks between looks at missed rounds (50)
  LOOK_BACK,              \* blocks before the head to start from (100)
  MAX_RECENT_VIOLATIONS,  \* 100
  StartHead,              \* the head when monitoring starts
  MaxHead                 \* bound: last block explored

Blocks == 1 .. MaxHead
Addresses == {MinerOf(b) : b \in Blocks} \cup {ExpectedOf(b) : b \in Missed}

ASSUME MinerAssumption ==
  /\ Missed \subseteq Blocks
  /\ EPOCH \in Nat \ {0} /\ MISSED_ROUNDS_SPAN \in Nat \ {0}
  /\ LOOK_BACK \in Nat /\ MaxHead \in Nat /\ StartHead \in LOOK_BACK .. MaxHead
  /\ Masternodes \in Seq({Masternodes[i] : i \in DOMAIN Masternodes})
  /\ \A i, j \in DOMAIN Masternodes : Masternodes[i] = Masternodes[j] => i = j
  /\ \A b \in Missed : Estimate(b) \in Nat
  /\ MAX_RECENT_VIOLATIONS \in Nat \ {0}

VARIABLES
  head,                   \* the chain's latest block
  loaded,                 \* ConsensusMonitor has a masternode list
  lastCheckedBlock,
  lastMissedRoundsCheck,  \* 0 = never
  knownMissedRounds,
  minerPerformance,       \* [address -> [mined, missed]]
  recentViolations,       \* newest first
  runs,                   \* [run -> [at, latest, asked, todo, from]]
  blockLog,               \* history: [first, counted, lost, overlapped]
  roundLog                \* history: [since, upTo, recorded, failed]

chainState == <<lastCheckedBlock, lastMissedRoundsCheck, knownMissedRounds,
                minerPerformance, recentViolations>>
vars == <<head, loaded, chainState, runs, blockLog, roundLog>>

EpochStart(h) == EPOCH * (h \div EPOCH)

\* The node's list at a head: the missed rounds of the head's epoch.
MissedRoundsInEpoch(h) == {b \in Missed : EpochStart(h) <= b /\ b <= h}

Ended == [at |-> "ended", latest |-> 0, asked |-> 0, todo |-> {}, from |-> 0]

Init ==
  /\ head = StartHead /\ loaded \in BOOLEAN
  /\ lastCheckedBlock \in {0, StartHead - LOOK_BACK}
  /\ lastMissedRoundsCheck = 0 /\ knownMissedRounds = {}
  /\ minerPerformance = [a \in Addresses |-> [mined |-> 0, missed |-> 0]]
  /\ recentViolations = <<>>
  /\ runs = [r \in Runs |-> Ended]
  /\ blockLog = [first |-> lastCheckedBlock, counted |-> [b \in Blocks |-> 0],
                 lost |-> {}, overlapped |-> FALSE]
  /\ roundLog = [since |-> 0, upTo |-> 0, recorded |-> [b \in Missed |-> 0], failed |-> {}]

-----------------------------------------------------------------------------
\* The chain, and ConsensusMonitor's first masternode list.
NextBlock ==
  /\ head < MaxHead
  /\ head' = head + 1
  /\ UNCHANGED <<loaded, chainState, runs, blockLog, roundLog>>

ValidatorDataLoaded ==
  /\ ~loaded /\ loaded' = TRUE
  /\ UNCHANGED <<head, chainState, runs, blockLog, roundLog>>

\* The timer fires: the run asks for the latest block, and the node answers.
MonitorMiners(r) ==
  /\ runs[r].at = "ended" /\ loaded
  /\ runs' = [runs EXCEPT ![r] = [Ended EXCEPT !.at = "latest", !.latest = head]]
  /\ blockLog' = [blockLog EXCEPT !.overlapped = @ \/ \E q \in Runs : runs[q].at # "ended"]
  /\ UNCHANGED <<head, loaded, chainState, roundLog>>

\* mutant: the last block checked is fetched again
FetchBlocksInclusive(run) == [run EXCEPT !.at = "blocks", !.from = lastCheckedBlock]

\* The blocks after lastCheckedBlock, as it is now, are asked for.
FetchBlocks(run) == [run EXCEPT !.at = "blocks", !.from = lastCheckedBlock + 1]

MissedRoundsDue(latest) ==
  lastMissedRoundsCheck = 0 \/ latest - lastMissedRoundsCheck >= MISSED_ROUNDS_SPAN

\* The latest block arrives; now and then the missed rounds come first.
LatestArrived(r) ==
  LET run == runs[r] IN
  /\ run.at = "latest"
  /\ runs' = [runs EXCEPT ![r] =
       IF run.latest <= lastCheckedBlock THEN Ended
       ELSE IF MissedRoundsDue(run.latest) THEN [run EXCEPT !.at = "missed", !.asked = head]
       ELSE FetchBlocks(run)]
  /\ UNCHANGED <<head, loaded, chainState, blockLog, roundLog>>

\* The call fails on every url, or answers nothing: the run ends with an alert.
LatestFailed(r) ==
  /\ runs[r].at = "latest"
  /\ runs' = [runs EXCEPT ![r] = Ended]
  /\ UNCHANGED <<head, loaded, chainState, blockLog, roundLog>>

-----------------------------------------------------------------------------
\* updateMissedRounds() has `todo` left; with nothing left the look counts as
\* done up to the run's latest block, and the blocks follow.
RoundsLeft(r, todo) ==
  LET run == [runs[r] EXCEPT !.todo = todo] IN
  /\ runs' = [runs EXCEPT ![r] = IF todo = {} THEN FetchBlocks(run)
                                 ELSE [run EXCEPT !.at = "rounds"]]
  /\ lastMissedRoundsCheck' = IF todo = {} THEN run.latest ELSE lastMissedRoundsCheck

Asked(run) ==
  roundLog' = [roundLog EXCEPT !.since = IF roundLog.upTo = 0 THEN EpochStart(run.asked) ELSE @,
                               !.upTo  = IF run.asked > @ THEN run.asked ELSE @]

\* mutant: new rounds are told after the list was replaced
MissedRoundsArrivedReplacedFirst(r) ==
  /\ runs[r].at = "missed"
  /\ knownMissedRounds' = MissedRoundsInEpoch(runs[r].asked)
  /\ RoundsLeft(r, MissedRoundsInEpoch(runs[r].asked) \ knownMissedRounds')
  /\ Asked(runs[r])
  /\ UNCHANGED <<head, loaded, lastCheckedBlock, minerPerformance, recentViolations, blockLog>>

\* mutant: every round of the list is taken for new
MissedRoundsArrivedUnfiltered(r) ==
  /\ runs[r].at = "missed"
  /\ knownMissedRounds' = MissedRoundsInEpoch(runs[r].asked)
  /\ RoundsLeft(r, MissedRoundsInEpoch(runs[r].asked))
  /\ Asked(runs[r])
  /\ UNCHANGED <<head, loaded, lastCheckedBlock, minerPerformance, recentViolations, blockLog>>

\* The list arrives and becomes the known one before its new rounds are looked
\* into.
MissedRoundsArrived(r) ==
  /\ runs[r].at = "missed"
  /\ knownMissedRounds' = MissedRoundsInEpoch(runs[r].asked)
  /\ RoundsLeft(r, MissedRoundsInEpoch(runs[r].asked) \ knownMissedRounds)
  /\ Asked(runs[r])
  /\ UNCHANGED <<head, loaded, lastCheckedBlock, minerPerformance, recentViolations, blockLog>>

\* null: the look counts as done all the same.
MissedRoundsFailed(r) ==
  /\ runs[r].at = "missed"
  /\ RoundsLeft(r, {})
  /\ UNCHANGED <<head, loaded, lastCheckedBlock, knownMissedRounds, minerPerformance,
                 recentViolations, blockLog, roundLog>>

Listed(a) == \E i \in DOMAIN Masternodes : Masternodes[i] = a
Index(a)  == CHOOSE i \in DOMAIN Masternodes : Masternodes[i] = a

\* mutant: no wraparound
MissedMinersStraight(b) ==
  IF Listed(ExpectedOf(b)) /\ Listed(MinerOf(b))
  THEN Index(MinerOf(b)) - Index(ExpectedOf(b)) ELSE Estimate(b)

\* How many masternodes in a row missed their turn before block b.
MissedMiners(b) ==
  LET expected == Index(ExpectedOf(b))
      actual   == Index(MinerOf(b))
  IN  IF ~Listed(ExpectedOf(b)) \/ ~Listed(MinerOf(b)) THEN Estimate(b)
      ELSE IF actual > expected THEN actual - expected
      ELSE Len(Masternodes) - expected + actual

\* mutant: the list is not cut
RecordViolationUncut(b) ==
  recentViolations' = <<[round |-> b, missed |-> MissedMiners(b)]>> \o recentViolations

\* unshift, then pop over the limit
RecordViolation(b) ==
  LET longer == <<[round |-> b, missed |-> MissedMiners(b)]>> \o recentViolations
  IN  recentViolations' = IF Len(longer) > MAX_RECENT_VIOLATIONS
                          THEN SubSeq(longer, 1, Len(longer) - 1) ELSE longer

\* The two blocks around the next new round arrive.
ProcessMissedRound(r, b) ==
  /\ runs[r].at = "rounds" /\ b \in runs[r].todo
  /\ \A c \in runs[r].todo : b <= c
  /\ RecordViolation(b)
  /\ minerPerformance' = [minerPerformance EXCEPT ![ExpectedOf(b)].missed = @ + 1]
  /\ roundLog' = [roundLog EXCEPT !.recorded[b] = @ + 1]
  /\ RoundsLeft(r, runs[r].todo \ {b})
  /\ UNCHANGED <<head, loaded, lastCheckedBlock, knownMissedRounds, blockLog>>

\* One of them does not: the round is dropped, and never new again.
MissedRoundDropped(r, b) ==
  /\ runs[r].at = "rounds" /\ b \in runs[r].todo
  /\ \A c \in runs[r].todo : b <= c
  /\ roundLog' = [roundLog EXCEPT !.failed = @ \cup {b}]
  /\ RoundsLeft(r, runs[r].todo \ {b})
  /\ UNCHANGED <<head, loaded, lastCheckedBlock, knownMissedRounds, minerPerformance,
                 recentViolations, blockLog>>

-----------------------------------------------------------------------------
\* mutant: lastCheckedBlock becomes the head of now, not of the fetch
BlocksArrivedAtHead(r, got) ==
  /\ runs[r].at = "blocks"
  /\ got \subseteq runs[r].from .. runs[r].latest
  /\ minerPerformance' = [a \in Addresses |->
       [minerPerformance[a] EXCEPT !.mined = @ + Cardinality({b \in got : MinerOf(b) = a})]]
  /\ blockLog' = [blockLog EXCEPT
       !.counted = [b \in Blocks |-> IF b \in got THEN @[b] + 1 ELSE @[b]],
       !.lost = @ \cup ((runs[r].from .. runs[r].latest) \ got)]
  /\ lastCheckedBlock' = head
  /\ runs' = [runs EXCEPT ![r] = Ended]
  /\ UNCHANGED <<head, loaded, lastMissedRoundsCheck, knownMissedRounds, recentViolations,
                 roundLog>>

\* The blocks arrive, but for those answered with null; an exception in any of
\* the calls leaves none.  The missing ones are not fetched again.
BlocksArrived(r, got) ==
  /\ runs[r].at = "blocks"
  /\ got \subseteq runs[r].from .. runs[r].latest
  /\ minerPerformance' = [a \in Addresses |->
       [minerPerformance[a] EXCEPT !.mined = @ + Cardinality({b \in got : MinerOf(b) = a})]]
  /\ blockLog' = [blockLog EXCEPT
       !.counted = [b \in Blocks |-> IF b \in got THEN @[b] + 1 ELSE @[b]],
       !.lost = @ \cup ((runs[r].from .. runs[r].latest) \ got)]
  /\ lastCheckedBlock' = runs[r].latest
  /\ runs' = [runs EXCEPT ![r] = Ended]
  /\ UNCHANGED <<head, loaded, lastMissedRoundsCheck, knownMissedRounds, recentViolations,
                 roundLog>>

Next ==
  \/ NextBlock
  \/ ValidatorDataLoaded
  \/ \E r \in Runs : MonitorMiners(r)
  \/ \E r \in Runs : LatestArrived(r)
  \/ \E r \in Runs : LatestFailed(r)
  \/ \E r \in Runs : MissedRoundsArrived(r)
  \/ \E r \in Runs : MissedRoundsFailed(r)
  \/ \E r \in Runs, b \in Missed : ProcessMissedRound(r, b)
  \/ \E r \in Runs, b \in Missed : MissedRoundDropped(r, b)
  \/ \E r \in Runs : \E got \in SUBSET (runs[r].from .. runs[r].latest) : BlocksArrived(r, got)

Spec == Init /\ [][Next]_vars

-----------------------------------------------------------------------------
RunType == [at : {"ended", "latest", "missed", "rounds", "blocks"}, latest : Nat,
            asked : Nat, todo : SUBSET Missed, from : Nat]

\* Shape of the state.  Nothing is known beyond the head, by any run.
TypeOK ==
  /\ head \in Nat /\ loaded \in BOOLEAN
  /\ lastCheckedBlock \in 0 .. head /\ lastMissedRoundsCheck \in 0 .. head
  /\ knownMissedRounds \subseteq Missed
  /\ minerPerformance \in [Addresses -> [mined : Nat, missed : Nat]]
  /\ recentViolations \in Seq([round : Missed, missed : Int])
  /\ Len(recentViolations) <= MAX_RECENT_VIOLATIONS
  /\ runs \in [Runs -> RunType]
  /\ \A r \in Runs : runs[r].latest <= head /\ runs[r].asked <= head
  /\ blockLog \in [first : Nat, counted : [Blocks -> Nat], lost : SUBSET Nat,
                   overlapped : BOOLEAN]
  /\ roundLog \in [since : Int, upTo : Nat, recorded : [Missed -> Nat], failed : SUBSET Missed]

Covered(b) == blockLog.counted[b] > 0 \/ b \in blockLog.lost

\* No block is passed over: every block from the first up to lastCheckedBlock
\* was counted, or its own fetch failed.  Runs overlap, end in any order and
\* may set lastCheckedBlock back.
CoveredUpToLastChecked ==
  \A b \in Blocks : blockLog.first < b /\ b <= lastCheckedBlock => Covered(b)

\* A block counts twice for its miner only if two runs ever overlapped.
CountedOnceWithoutOverlap ==
  blockLog.overlapped \/ \A b \in Blocks : blockLog.counted[b] <= 1

\* A round in the known list is never new again, so it has been recorded, or
\* dropped, or some run in flight still has to look into it.
KnownRoundsAccounted ==
  \A b \in knownMissedRounds :
    \/ roundLog.recorded[b] > 0 \/ b \in roundLog.failed
    \/ \E r \in Runs : b \in runs[r].todo

\* A round is held against its miner twice only if two runs ever overlapped.
RecordedOnceWithoutOverlap ==
  blockLog.overlapped \/ \A b \in Missed : roundLog.recorded[b] <= 1

\* The k-th masternode after a listed one, the list being a ring.
TurnAfter(a, k) == Masternodes[((Index(a) - 1 + k) % Len(Masternodes)) + 1]

\* The missed miners of a violation lead from the expected miner to the actual
\* one, once around the ring at most.
MissedMinersLeadToActual ==
  \A i \in DOMAIN recentViolations :
    LET v == recentViolations[i]
    IN  Listed(ExpectedOf(v.round)) /\ Listed(MinerOf(v.round)) =>
          /\ v.missed \in 1 .. Len(Masternodes)
          /\ TurnAfter(ExpectedOf(v.round), v.missed) = MinerOf(v.round)

\* As documented, every missed round is recorded: those between the first
\* epoch looked at and the last look.  The rounds missed after the last look in
\* an epoch are never seen, as the next look gets the next epoch's list.
EveryMissedRoundRecorded ==
  \A b \in Missed : roundLog.since <= b /\ b <= roundLog.upTo =>
    \/ roundLog.recorded[b] > 0 \/ b \in roundLog.failed
    \/ \E r \in Runs : b \in runs[r].todo
=============================================================================
