------------------------- MODULE MinerMonitorProofs -------------------------
(***************************************************************************)
(* MinerMonitor for every number of overlapping runs, every chain and      *)
(* every masternode list: the type invariant, that no block is passed over *)
(* silently, that no known missed round is forgotten, and that nothing is  *)
(* counted or recorded twice while runs do not overlap.                    *)
(***************************************************************************)
EXTENDS MinerMonitor, FiniteSetTheorems, SequenceTheorems, TLAPS

\* Every change of a run is one of these, from a typed record to a typed one.
LEMMA EndedTyped == Ended \in RunType /\ Ended.latest = 0 /\ Ended.asked = 0
  /\ Ended.at = "ended" /\ Ended.todo = {}
BY DEF Ended, RunType

LEMMA FetchBlocksTyped ==
  ASSUME NEW run \in RunType, lastCheckedBlock \in Nat
  PROVE  LET next == FetchBlocks(run)
         IN  /\ next \in RunType /\ next.latest = run.latest /\ next.asked = run.asked
             /\ next.at = "blocks" /\ next.from = lastCheckedBlock + 1 /\ next.todo = run.todo
<1> DEFINE fetching == [run EXCEPT !.at = "blocks"]
           next == [fetching EXCEPT !.from = lastCheckedBlock + 1]
<1>1. fetching \in RunType /\ fetching.latest = run.latest /\ fetching.asked = run.asked
      /\ fetching.at = "blocks" /\ fetching.todo = run.todo
  BY DEF RunType
<1>2. FetchBlocks(run) = next
  BY DEF FetchBlocks
<1> HIDE DEF fetching
<1>3. next \in RunType /\ next.latest = fetching.latest /\ next.asked = fetching.asked
      /\ next.at = fetching.at /\ next.from = lastCheckedBlock + 1 /\ next.todo = fetching.todo
  <2>1. lastCheckedBlock + 1 \in Nat
    OBVIOUS
  <2>2. QED
    BY <1>1, <2>1 DEF RunType
<1>4. QED
  BY <1>1, <1>2, <1>3

\* What RoundsLeft does to the runs and to lastMissedRoundsCheck.
LEMMA RoundsLeftStep ==
  ASSUME TypeOK, NEW r \in Runs, NEW todo, todo \subseteq Missed, RoundsLeft(r, todo)
  PROVE  /\ runs' \in [Runs -> RunType]
         /\ \A q \in Runs : runs'[q].latest = runs[q].latest /\ runs'[q].asked = runs[q].asked
         /\ runs'[r].todo = todo
         /\ \A q \in Runs : q # r => runs'[q] = runs[q]
         /\ runs'[r].at = "blocks" => runs'[r].from = lastCheckedBlock + 1
         /\ lastMissedRoundsCheck' \in 0 .. head
<1> DEFINE run == [runs[r] EXCEPT !.todo = todo]
           waiting == [run EXCEPT !.at = "rounds"]
           next == IF todo = {} THEN FetchBlocks(run) ELSE waiting
<1>1. runs[r] \in RunType /\ runs[r].latest \in Nat /\ runs[r].latest <= head /\ head \in Nat
  BY DEF TypeOK, RunType
<1>2. run \in RunType /\ run.latest = runs[r].latest /\ run.asked = runs[r].asked /\ run.todo = todo
  BY <1>1 DEF RunType
<1>3. runs' = [runs EXCEPT ![r] = next]
      /\ lastMissedRoundsCheck' = IF todo = {} THEN run.latest ELSE lastMissedRoundsCheck
  BY DEF RoundsLeft
<1>4. lastMissedRoundsCheck' \in 0 .. head
  <2> HIDE DEF run
  <2>1. lastMissedRoundsCheck \in 0 .. head
    BY DEF TypeOK
  <2>2. QED
    BY <1>1, <1>2, <1>3, <2>1
<1> HIDE DEF run
<1>5. waiting \in RunType /\ waiting.latest = run.latest /\ waiting.asked = run.asked
      /\ waiting.at = "rounds" /\ waiting.todo = run.todo
  BY <1>2 DEF RunType
<1>6. next \in RunType /\ next.latest = run.latest /\ next.asked = run.asked /\ next.todo = todo
      /\ (next.at = "blocks" => next.from = lastCheckedBlock + 1)
  <2>1. lastCheckedBlock \in Nat
    BY DEF TypeOK
  <2>2. CASE todo = {}
    BY <1>2, <2>1, <2>2, FetchBlocksTyped
  <2>3. CASE todo # {}
    BY <1>2, <1>5, <2>3
  <2>4. QED
    BY <2>2, <2>3
<1> HIDE DEF next
<1>7. runs \in [Runs -> RunType]
  BY DEF TypeOK
<1>8. QED
  BY <1>2, <1>3, <1>4, <1>6, <1>7

-----------------------------------------------------------------------------
(* Recording a violation. *)

Violation == [round : Missed, missed : Int]

\* The place of a listed masternode is the place of that masternode.
LEMMA IndexListed ==
  ASSUME NEW a, Listed(a)
  PROVE  Index(a) \in 1 .. Len(Masternodes) /\ Len(Masternodes) \in Nat /\ Masternodes[Index(a)] = a
<1>1. \E i \in DOMAIN Masternodes : Masternodes[i] = a
  BY DEF Listed
<1>2. Index(a) \in DOMAIN Masternodes /\ Masternodes[Index(a)] = a
  BY <1>1 DEF Index
<1>3. Masternodes \in Seq({Masternodes[i] : i \in DOMAIN Masternodes})
  BY MinerAssumption DEF MinerAssumption
<1>4. DOMAIN Masternodes = 1 .. Len(Masternodes) /\ Len(Masternodes) \in Nat
  BY <1>3
<1>5. QED
  BY <1>2, <1>4

\* Of two listed masternodes, the missed ones lead around the ring from one to
\* the other: at least one turn and at most all.
LEMMA MissedMinersRing ==
  ASSUME NEW b, Listed(ExpectedOf(b)), Listed(MinerOf(b))
  PROVE  LET n == Len(Masternodes)
         IN  /\ MissedMiners(b) \in 1 .. n
             /\ (Index(ExpectedOf(b)) - 1 + MissedMiners(b)) % n = Index(MinerOf(b)) - 1
<1> DEFINE n == Len(Masternodes)
           e == Index(ExpectedOf(b))
           a == Index(MinerOf(b))
<1>1. e \in 1 .. n /\ a \in 1 .. n /\ n \in Nat \ {0}
  BY IndexListed
<1>2. MissedMiners(b) = IF a > e THEN a - e ELSE n - e + a
  BY DEF MissedMiners
<1> HIDE DEF e, a, n
<1>3. CASE a > e
  <2>1. MissedMiners(b) = a - e /\ e - 1 + (a - e) = a - 1
    BY <1>1, <1>2, <1>3
  <2>2. (a - 1) % n = a - 1
    BY <1>1
  <2>3. QED
    BY <1>1, <1>3, <2>1, <2>2 DEF n, e, a
<1>4. CASE ~(a > e)
  <2>1. MissedMiners(b) = n - e + a /\ e - 1 + (n - e + a) = (a - 1) + n
    BY <1>1, <1>2, <1>4
  <2>2. ((a - 1) + n) % n = a - 1
    BY <1>1
  <2>3. MissedMiners(b) \in 1 .. n
    BY <1>1, <1>4, <2>1
  <2>4. QED
    BY <2>1, <2>2, <2>3 DEF n, e, a
<1>5. QED
  BY <1>3, <1>4

LEMMA MissedMinersInt == ASSUME NEW b \in Missed PROVE MissedMiners(b) \in Int
<1>1. CASE Listed(ExpectedOf(b)) /\ Listed(MinerOf(b))
  BY <1>1, MissedMinersRing, IndexListed
<1>2. CASE ~(Listed(ExpectedOf(b)) /\ Listed(MinerOf(b)))
  BY <1>2, MinerAssumption DEF MinerAssumption, MissedMiners
<1>3. QED
  BY <1>1, <1>2

\* The list takes the violation at its front and stays within its limit.
LEMMA RecordViolationStep ==
  ASSUME recentViolations \in Seq(Violation), Len(recentViolations) <= MAX_RECENT_VIOLATIONS,
         NEW b \in Missed, RecordViolation(b)
  PROVE  /\ recentViolations' \in Seq(Violation)
         /\ Len(recentViolations') <= MAX_RECENT_VIOLATIONS
         /\ \A i \in DOMAIN recentViolations' :
              \/ recentViolations'[i] = [round |-> b, missed |-> MissedMiners(b)]
              \/ \E j \in DOMAIN recentViolations : recentViolations'[i] = recentViolations[j]
<1> DEFINE v == [round |-> b, missed |-> MissedMiners(b)]
           longer == <<v>> \o recentViolations
           cut == SubSeq(longer, 1, Len(longer) - 1)
<1>1. v \in Violation
  BY MissedMinersInt DEF Violation
<1> HIDE DEF v
<1>2. <<v>> \in Seq(Violation) /\ Len(<<v>>) = 1 /\ <<v>>[1] = v
  BY <1>1
<1>3. /\ longer \in Seq(Violation) /\ Len(longer) = 1 + Len(recentViolations)
      /\ \A i \in 1 .. Len(longer) :
           longer[i] = IF i <= 1 THEN <<v>>[i] ELSE recentViolations[i - 1]
  BY <1>2, ConcatProperties
<1>4. \A i \in DOMAIN longer :
        longer[i] = v \/ \E j \in DOMAIN recentViolations : longer[i] = recentViolations[j]
  <2> SUFFICES ASSUME NEW i \in 1 .. Len(longer)
               PROVE  longer[i] = v \/ \E j \in DOMAIN recentViolations : longer[i] = recentViolations[j]
    BY <1>3
  <2>1. CASE i = 1
    BY <1>2, <1>3, <2>1
  <2>2. CASE i # 1
    <3>1. i - 1 \in DOMAIN recentViolations /\ longer[i] = recentViolations[i - 1]
      BY <1>3, <2>2
    <3>2. QED
      BY <3>1
  <2>3. QED
    BY <2>1, <2>2
<1>5. recentViolations' = IF Len(longer) > MAX_RECENT_VIOLATIONS THEN cut ELSE longer
  BY DEF RecordViolation, v
<1> HIDE DEF longer
<1>6. Len(longer) \in Nat \ {0} /\ Len(recentViolations) \in Nat
      /\ MAX_RECENT_VIOLATIONS \in Nat \ {0}
  BY <1>3, MinerAssumption DEF MinerAssumption
<1>7. /\ cut \in Seq(Violation) /\ Len(cut) = Len(longer) - 1
      /\ \A i \in 1 .. Len(cut) : cut[i] = longer[i]
  <2>1. 1 \in 1 .. Len(longer) + 1 /\ Len(longer) - 1 \in 0 .. Len(longer)
    BY <1>6
  <2>2. QED
    BY <1>3, <1>6, <2>1, SubSeqProperties
<1>8. CASE Len(longer) > MAX_RECENT_VIOLATIONS
  <2>1. recentViolations' = cut
    BY <1>5, <1>8
  <2>2. \A i \in DOMAIN cut : i \in DOMAIN longer /\ cut[i] = longer[i]
    BY <1>3, <1>6, <1>7
  <2> HIDE DEF cut
  <2>3. QED
    BY <1>3, <1>4, <1>6, <1>7, <2>1, <2>2 DEF v
<1>9. CASE ~(Len(longer) > MAX_RECENT_VIOLATIONS)
  BY <1>3, <1>4, <1>5, <1>6, <1>9 DEF v
<1>10. QED
  BY <1>8, <1>9

-----------------------------------------------------------------------------
(* Typing. *)

LEMMA TypeInit == Init => TypeOK
<1> SUFFICES ASSUME Init PROVE TypeOK
  OBVIOUS
<1>1. /\ StartHead \in LOOK_BACK .. MaxHead /\ LOOK_BACK \in Nat /\ MaxHead \in Nat
      /\ MAX_RECENT_VIOLATIONS \in Nat \ {0}
  BY MinerAssumption DEF MinerAssumption
<1>2. head \in Nat /\ lastCheckedBlock \in 0 .. head /\ lastMissedRoundsCheck \in 0 .. head
      /\ knownMissedRounds \subseteq Missed
  BY <1>1 DEF Init
<1>3. loaded \in BOOLEAN
  BY Zenon DEF Init
<1>4. minerPerformance \in [Addresses -> [mined : Nat, missed : Nat]]
  BY DEF Init
<1>5. recentViolations = << >>
  BY DEF Init
<1>6. recentViolations \in Seq([round : Missed, missed : Int])
      /\ Len(recentViolations) <= MAX_RECENT_VIOLATIONS
  BY <1>1, <1>5
<1>7. runs = [r \in Runs |-> Ended]
  BY DEF Init
<1>8. runs \in [Runs -> RunType] /\ \A r \in Runs : runs[r].latest <= head /\ runs[r].asked <= head
  BY <1>2, <1>7, EndedTyped
<1>9. blockLog \in [first : Nat, counted : [Blocks -> Nat], lost : SUBSET Nat,
                    overlapped : BOOLEAN]
  <2>1. blockLog = [first |-> lastCheckedBlock, counted |-> [b \in Blocks |-> 0],
                    lost |-> {}, overlapped |-> FALSE]
    BY DEF Init
  <2>2. lastCheckedBlock \in Nat
    BY <1>2
  <2>3. [b \in Blocks |-> 0] \in [Blocks -> Nat]
    OBVIOUS
  <2>4. QED
    BY <2>1, <2>2, <2>3
<1>10. roundLog \in [since : Int, upTo : Nat, recorded : [Missed -> Nat], failed : SUBSET Missed]
  BY DEF Init
<1>11. QED
  BY <1>2, <1>3, <1>4, <1>6, <1>8, <1>9, <1>10 DEF TypeOK

\* The conjuncts on the runs, the head and the counters, which most actions
\* touch, and those on the rest, which few do.
ControlOK ==
  /\ head \in Nat
  /\ lastCheckedBlock \in 0 .. head /\ lastMissedRoundsCheck \in 0 .. head
  /\ runs \in [Runs -> RunType]
  /\ \A r \in Runs : runs[r].latest <= head /\ runs[r].asked <= head

DataOK ==
  /\ loaded \in BOOLEAN
  /\ knownMissedRounds \subseteq Missed
  /\ minerPerformance \in [Addresses -> [mined : Nat, missed : Nat]]
  /\ recentViolations \in Seq(Violation)
  /\ Len(recentViolations) <= MAX_RECENT_VIOLATIONS

LogOK ==
  /\ blockLog \in [first : Nat, counted : [Blocks -> Nat], lost : SUBSET Nat,
                   overlapped : BOOLEAN]
  /\ roundLog \in [since : Int, upTo : Nat, recorded : [Missed -> Nat], failed : SUBSET Missed]

LEMMA TypeSplit == TypeOK <=> ControlOK /\ DataOK /\ LogOK
BY DEF TypeOK, ControlOK, DataOK, LogOK, Violation

\* One run is replaced by a typed one; the counters stay within the head.
LEMMA RunReplaced ==
  ASSUME ControlOK, NEW r \in Runs, NEW run \in RunType,
         run.latest <= head, run.asked <= head,
         runs' = [runs EXCEPT ![r] = run], head' = head,
         lastCheckedBlock' = lastCheckedBlock, lastMissedRoundsCheck' = lastMissedRoundsCheck
  PROVE  ControlOK'
BY DEF ControlOK

\* A step of updateMissedRounds keeps the control typed.
LEMMA RoundsLeftControl ==
  ASSUME TypeOK, NEW r \in Runs, NEW todo, todo \subseteq Missed, RoundsLeft(r, todo),
         head' = head, lastCheckedBlock' = lastCheckedBlock
  PROVE  ControlOK'
<1>1. /\ runs' \in [Runs -> RunType]
      /\ \A q \in Runs : runs'[q].latest = runs[q].latest /\ runs'[q].asked = runs[q].asked
      /\ lastMissedRoundsCheck' \in 0 .. head
  BY RoundsLeftStep
<1>2. QED
  BY <1>1 DEF ControlOK, TypeOK

LEMMA MonitorMinersControl ==
  ASSUME TypeOK, NEW r \in Runs, MonitorMiners(r)
  PROVE  ControlOK'
<1> DEFINE started == [Ended EXCEPT !.at = "latest"]
           run == [started EXCEPT !.latest = head]
<1>1. head \in Nat
  BY DEF TypeOK
<1>2. started \in RunType /\ started.asked = 0
  BY EndedTyped DEF RunType
<1>3. runs' = [runs EXCEPT ![r] = run]
  BY DEF MonitorMiners
<1> HIDE DEF started
<1>4. run \in RunType /\ run.latest = head /\ run.asked = 0
  BY <1>1, <1>2 DEF RunType
<1> HIDE DEF run
<1>5. run.latest <= head /\ run.asked <= head
  BY <1>1, <1>4
<1>6. head' = head /\ lastCheckedBlock' = lastCheckedBlock
      /\ lastMissedRoundsCheck' = lastMissedRoundsCheck
  BY DEF MonitorMiners, chainState
<1>7. ControlOK
  BY TypeSplit
<1>8. QED
  BY <1>3, <1>4, <1>5, <1>6, <1>7, RunReplaced

LEMMA LatestArrivedControl ==
  ASSUME TypeOK, NEW r \in Runs, LatestArrived(r)
  PROVE  ControlOK'
<1> DEFINE run == runs[r]
           asking == [run EXCEPT !.at = "missed"]
           asked == [asking EXCEPT !.asked = head]
           next == IF run.latest <= lastCheckedBlock THEN Ended
                   ELSE IF MissedRoundsDue(run.latest) THEN asked ELSE FetchBlocks(run)
<1>1. /\ head \in Nat /\ lastCheckedBlock \in Nat
      /\ run \in RunType /\ run.latest <= head /\ run.asked <= head
  BY DEF TypeOK
<1>2. runs' = [runs EXCEPT ![r] = next]
  BY DEF LatestArrived
<1> HIDE DEF run
<1>3. asking \in RunType /\ asking.latest = run.latest
  BY <1>1 DEF RunType
<1> HIDE DEF asking
<1>4. asked \in RunType /\ asked.latest = run.latest /\ asked.asked = head
  BY <1>1, <1>3 DEF RunType
<1> HIDE DEF asked
<1>5. next \in RunType /\ next.latest <= head /\ next.asked <= head
  <2>1. CASE next = Ended
    BY <1>1, <2>1, EndedTyped
  <2>2. CASE next = asked
    BY <1>1, <1>4, <2>2
  <2>3. CASE next = FetchBlocks(run)
    BY <1>1, <2>3, FetchBlocksTyped
  <2>4. QED
    BY <2>1, <2>2, <2>3
<1> HIDE DEF next
<1>6. QED
  BY <1>1, <1>2, <1>5, RunReplaced, TypeSplit DEF LatestArrived, chainState

LEMMA BlocksArrivedTyped ==
  ASSUME TypeOK, NEW r \in Runs, NEW got, BlocksArrived(r, got)
  PROVE  TypeOK'
<1> DEFINE mined(a) == Cardinality({b \in got : MinerOf(b) = a})
           fetched == runs[r].from .. runs[r].latest
           more(a) == [minerPerformance[a] EXCEPT !.mined = @ + mined(a)]
           counted == [b \in Blocks |-> IF b \in got THEN blockLog.counted[b] + 1
                                        ELSE blockLog.counted[b]]
           lost == blockLog.lost \cup (fetched \ got)
<1>1. runs[r] \in RunType /\ runs[r].from \in Nat /\ runs[r].latest \in Nat
      /\ runs[r].latest <= head /\ head \in Nat
  BY DEF TypeOK, RunType
<1>2. IsFiniteSet(got)
  <2>1. runs[r].from \in Int /\ runs[r].latest \in Int
    BY <1>1
  <2>2. IsFiniteSet(fetched)
    BY <2>1, FS_Interval
  <2>3. got \in SUBSET fetched
    BY DEF BlocksArrived
  <2>4. QED
    BY <2>2, <2>3, FS_Subset
<1>3. \A a : mined(a) \in Nat
  BY <1>2, FS_Subset, FS_CardinalityType
<1> HIDE DEF mined
<1>4. ASSUME NEW a \in Addresses PROVE more(a) \in [mined : Nat, missed : Nat]
  <2>1. minerPerformance[a] \in [mined : Nat, missed : Nat]
    BY DEF TypeOK
  <2>2. mined(a) \in Nat
    BY <1>3
  <2>3. minerPerformance[a].mined + mined(a) \in Nat
    BY <2>1, <2>2
  <2>4. QED
    BY <2>1, <2>3
<1>5. minerPerformance' = [a \in Addresses |-> more(a)]
  BY DEF BlocksArrived, mined
<1> HIDE DEF more
<1>6. DataOK'
  <2>1. minerPerformance' \in [Addresses -> [mined : Nat, missed : Nat]]
    BY <1>4, <1>5
  <2>2. loaded' = loaded /\ knownMissedRounds' = knownMissedRounds
        /\ recentViolations' = recentViolations
    BY DEF BlocksArrived
  <2>3. DataOK
    BY TypeSplit
  <2>4. QED
    BY <2>1, <2>2, <2>3 DEF DataOK
<1>7. LogOK'
  <2>1. blockLog' = [[blockLog EXCEPT !.counted = counted] EXCEPT !.lost = lost]
        /\ roundLog' = roundLog
    BY DEF BlocksArrived
  <2>2. /\ blockLog \in [first : Nat, counted : [Blocks -> Nat], lost : SUBSET Nat,
                         overlapped : BOOLEAN]
        /\ LogOK
    BY TypeSplit DEF LogOK
  <2>3. counted \in [Blocks -> Nat]
    BY <2>2
  <2>4. lost \in SUBSET Nat
    BY <1>1, <2>2
  <2> HIDE DEF counted, lost
  <2>5. [blockLog EXCEPT !.counted = counted]
          \in [first : Nat, counted : [Blocks -> Nat], lost : SUBSET Nat, overlapped : BOOLEAN]
    BY <2>2, <2>3
  <2>6. blockLog' \in [first : Nat, counted : [Blocks -> Nat], lost : SUBSET Nat,
                       overlapped : BOOLEAN]
    BY <2>1, <2>4, <2>5
  <2>7. QED
    BY <2>1, <2>2, <2>6 DEF LogOK
<1>8. ControlOK'
  <2>1. runs' = [runs EXCEPT ![r] = Ended] /\ head' = head
        /\ lastCheckedBlock' = runs[r].latest /\ lastMissedRoundsCheck' = lastMissedRoundsCheck
    BY DEF BlocksArrived
  <2>2. ControlOK
    BY TypeSplit
  <2>3. QED
    BY <1>1, <2>1, <2>2, EndedTyped DEF ControlOK
<1>9. QED
  BY <1>6, <1>7, <1>8, TypeSplit DEF TypeOK, ControlOK, DataOK, LogOK, Violation

LEMMA MissedRoundsArrivedTyped ==
  ASSUME TypeOK, NEW r \in Runs, MissedRoundsArrived(r)
  PROVE  TypeOK'
<1> DEFINE list == MissedRoundsInEpoch(runs[r].asked)
           start == EpochStart(runs[r].asked)
           since == IF roundLog.upTo = 0 THEN start ELSE roundLog.since
           upTo == IF runs[r].asked > roundLog.upTo THEN runs[r].asked ELSE roundLog.upTo
<1>1. list \subseteq Missed
  BY DEF MissedRoundsInEpoch
<1> HIDE DEF list
<1>2. /\ knownMissedRounds' = list /\ RoundsLeft(r, list \ knownMissedRounds)
      /\ Asked(runs[r])
      /\ UNCHANGED <<head, loaded, lastCheckedBlock, minerPerformance, recentViolations, blockLog>>
  BY DEF MissedRoundsArrived, list
<1>3. ControlOK'
  BY <1>1, <1>2, RoundsLeftControl
<1>4. DataOK'
  <2>1. DataOK
    BY TypeSplit
  <2>2. QED
    BY <1>1, <1>2, <2>1 DEF DataOK
<1>5. LogOK'
  <2>1. LogOK /\ runs[r] \in RunType /\ runs[r].asked \in Nat
    BY TypeSplit DEF TypeOK, RunType
  <2>2. roundLog' = [[roundLog EXCEPT !.since = since] EXCEPT !.upTo = upTo]
    BY <1>2 DEF Asked
  <2>3. start \in Int
    BY <2>1, MinerAssumption DEF MinerAssumption, EpochStart
  <2> HIDE DEF start
  <2>4. since \in Int /\ upTo \in Nat
    BY <2>1, <2>3 DEF LogOK
  <2> HIDE DEF since, upTo
  <2>5. roundLog' \in [since : Int, upTo : Nat, recorded : [Missed -> Nat], failed : SUBSET Missed]
    BY <2>1, <2>2, <2>4 DEF LogOK
  <2>6. QED
    BY <1>2, <2>1, <2>5 DEF LogOK
<1>6. QED
  BY <1>3, <1>4, <1>5, TypeSplit DEF TypeOK, ControlOK, DataOK, LogOK, Violation

LEMMA ProcessMissedRoundTyped ==
  ASSUME TypeOK, NEW r \in Runs, NEW b \in Missed, ProcessMissedRound(r, b)
  PROVE  TypeOK'
<1> DEFINE a == ExpectedOf(b)
           counted == [minerPerformance[a] EXCEPT !.missed = @ + 1]
           recorded == [roundLog.recorded EXCEPT ![b] = @ + 1]
<1>1. ControlOK /\ DataOK /\ LogOK /\ runs[r] \in RunType /\ runs[r].todo \subseteq Missed
  BY TypeSplit DEF TypeOK, RunType
<1>2. ControlOK'
  BY <1>1, RoundsLeftControl DEF ProcessMissedRound
<1>3. DataOK'
  <2>1. a \in Addresses
    BY DEF Addresses
  <2>2. minerPerformance' = [minerPerformance EXCEPT ![a] = counted]
    BY DEF ProcessMissedRound
  <2>3. counted \in [mined : Nat, missed : Nat]
    BY <1>1, <2>1 DEF DataOK
  <2> HIDE DEF counted
  <2>4. minerPerformance' \in [Addresses -> [mined : Nat, missed : Nat]]
    BY <1>1, <2>2, <2>3 DEF DataOK
  <2>5. recentViolations' \in Seq(Violation) /\ Len(recentViolations') <= MAX_RECENT_VIOLATIONS
    BY <1>1, RecordViolationStep DEF DataOK, ProcessMissedRound
  <2>6. loaded' = loaded /\ knownMissedRounds' = knownMissedRounds
    BY DEF ProcessMissedRound
  <2>7. QED
    BY <1>1, <2>4, <2>5, <2>6 DEF DataOK
<1>4. LogOK'
  <2>1. roundLog' = [roundLog EXCEPT !.recorded = recorded] /\ blockLog' = blockLog
    BY DEF ProcessMissedRound
  <2>2. recorded \in [Missed -> Nat]
    BY <1>1 DEF LogOK
  <2> HIDE DEF recorded
  <2>3. QED
    BY <1>1, <2>1, <2>2 DEF LogOK
<1>5. QED
  BY <1>2, <1>3, <1>4, TypeSplit DEF TypeOK, ControlOK, DataOK, LogOK, Violation

LEMMA RestTyped ==
  ASSUME TypeOK, NEW r \in Runs,
         \/ LatestFailed(r) \/ MissedRoundsFailed(r)
         \/ \E b \in Missed : MissedRoundDropped(r, b)
  PROVE  TypeOK'
<1>1. ControlOK /\ DataOK /\ LogOK /\ runs[r] \in RunType /\ runs[r].todo \subseteq Missed
  BY TypeSplit DEF TypeOK, RunType
<1>2. CASE LatestFailed(r)
  <2>1. Ended \in RunType /\ Ended.latest <= head /\ Ended.asked <= head
    BY <1>1, EndedTyped DEF ControlOK
  <2>2. ControlOK'
    BY <1>1, <1>2, <2>1, RunReplaced DEF LatestFailed, chainState
  <2>3. DataOK' /\ LogOK'
    BY <1>1, <1>2 DEF LatestFailed, chainState, DataOK, LogOK
  <2>4. QED
    BY <2>2, <2>3, TypeSplit DEF TypeOK, ControlOK, DataOK, LogOK, Violation
<1>3. CASE MissedRoundsFailed(r)
  <2>1. ControlOK'
    BY <1>3, RoundsLeftControl DEF MissedRoundsFailed
  <2>2. DataOK' /\ LogOK'
    BY <1>1, <1>3 DEF MissedRoundsFailed, DataOK, LogOK
  <2>3. QED
    BY <2>1, <2>2, TypeSplit DEF TypeOK, ControlOK, DataOK, LogOK, Violation
<1>4. ASSUME NEW b \in Missed, MissedRoundDropped(r, b) PROVE TypeOK'
  <2>1. ControlOK'
    BY <1>1, <1>4, RoundsLeftControl DEF MissedRoundDropped
  <2>2. DataOK'
    BY <1>1, <1>4 DEF MissedRoundDropped, DataOK
  <2>3. LogOK'
    BY <1>1, <1>4 DEF MissedRoundDropped, LogOK
  <2>4. QED
    BY <2>1, <2>2, <2>3, TypeSplit DEF TypeOK, ControlOK, DataOK, LogOK, Violation
<1>5. QED
  BY <1>2, <1>3, <1>4

LEMMA StartTyped ==
  ASSUME TypeOK, NEW r \in Runs, MonitorMiners(r) \/ LatestArrived(r)
  PROVE  TypeOK'
<1>1. DataOK /\ LogOK
  BY TypeSplit
<1>2. CASE MonitorMiners(r)
  <2>1. ControlOK'
    BY <1>2, MonitorMinersControl
  <2>2. DataOK'
    BY <1>1, <1>2 DEF MonitorMiners, chainState, DataOK
  <2>3. LogOK'
    <3> DEFINE over == blockLog.overlapped \/ \E q \in Runs : runs[q].at # "ended"
    <3>1. blockLog' = [blockLog EXCEPT !.overlapped = over] /\ roundLog' = roundLog
      BY <1>2 DEF MonitorMiners
    <3>2. over \in BOOLEAN
      BY Zenon
    <3> HIDE DEF over
    <3>3. QED
      BY <1>1, <3>1, <3>2 DEF LogOK
  <2>4. QED
    BY <2>1, <2>2, <2>3, TypeSplit DEF TypeOK, ControlOK, DataOK, LogOK, Violation
<1>3. CASE LatestArrived(r)
  <2>1. ControlOK'
    BY <1>3, LatestArrivedControl
  <2>2. DataOK' /\ LogOK'
    BY <1>1, <1>3 DEF LatestArrived, chainState, DataOK, LogOK
  <2>3. QED
    BY <2>1, <2>2, TypeSplit DEF TypeOK, ControlOK, DataOK, LogOK, Violation
<1>4. QED
  BY <1>2, <1>3

LEMMA ChainTyped ==
  ASSUME TypeOK, NextBlock \/ ValidatorDataLoaded \/ UNCHANGED vars
  PROVE  TypeOK'
<1>1. CASE NextBlock
  <2>1. /\ head' = head + 1 /\ head \in Nat /\ runs' = runs
        /\ lastCheckedBlock' = lastCheckedBlock /\ lastMissedRoundsCheck' = lastMissedRoundsCheck
    BY <1>1 DEF NextBlock, chainState, TypeOK
  <2>2. \A r \in Runs : runs[r].latest \in Nat /\ runs[r].asked \in Nat
    BY DEF TypeOK, RunType
  <2>3. ControlOK /\ DataOK /\ LogOK
    BY TypeSplit
  <2>4. ControlOK'
    BY <2>1, <2>2, <2>3 DEF ControlOK
  <2>5. DataOK' /\ LogOK'
    BY <1>1, <2>3 DEF NextBlock, chainState, DataOK, LogOK
  <2>6. QED
    BY <2>4, <2>5, TypeSplit DEF TypeOK, ControlOK, DataOK, LogOK, Violation
<1>2. CASE ValidatorDataLoaded
  BY <1>2 DEF ValidatorDataLoaded, chainState, TypeOK
<1>3. CASE UNCHANGED vars
  BY <1>3 DEF vars, chainState, TypeOK
<1>4. QED
  BY <1>1, <1>2, <1>3

LEMMA TypeStep == TypeOK /\ [Next]_vars => TypeOK'
<1> SUFFICES ASSUME TypeOK, [Next]_vars PROVE TypeOK'
  OBVIOUS
<1>1. ASSUME NEW r \in Runs, MonitorMiners(r) \/ LatestArrived(r) PROVE TypeOK'
  BY <1>1, StartTyped
<1>2. ASSUME NEW r \in Runs, MissedRoundsArrived(r) PROVE TypeOK'
  BY <1>2, MissedRoundsArrivedTyped
<1>3. ASSUME NEW r \in Runs, NEW b \in Missed, ProcessMissedRound(r, b) PROVE TypeOK'
  BY <1>3, ProcessMissedRoundTyped
<1>4. ASSUME NEW r \in Runs,
             \/ LatestFailed(r) \/ MissedRoundsFailed(r)
             \/ \E b \in Missed : MissedRoundDropped(r, b)
      PROVE  TypeOK'
  BY <1>4, RestTyped
<1>5. ASSUME NEW r \in Runs, NEW got, BlocksArrived(r, got) PROVE TypeOK'
  BY <1>5, BlocksArrivedTyped
<1>6. QED
  BY <1>1, <1>2, <1>3, <1>4, <1>5, ChainTyped DEF Next

\* Type correctness: whatever runs overlap and however calls fail, nothing is
\* known beyond the head and the list of violations keeps its limit.
THEOREM MinerTypeCorrect == Spec => []TypeOK
<1>1. QED
  BY TypeInit, TypeStep, PTL DEF Spec

-----------------------------------------------------------------------------
(* Coverage of blocks. *)

\* A run that has asked for blocks has nothing uncovered behind it either.
RunsCovered ==
  \A r \in Runs : runs[r].at = "blocks" =>
    \A b \in Blocks : blockLog.first < b /\ b < runs[r].from => Covered(b)

CoverageInv == CoveredUpToLastChecked /\ RunsCovered

\* Steps that neither touch the log of blocks nor lastCheckedBlock, and after
\* which a run that asks for blocks asks from lastCheckedBlock + 1.
LEMMA CoverageKept ==
  ASSUME TypeOK, CoverageInv,
         blockLog'.first = blockLog.first, blockLog'.counted = blockLog.counted,
         blockLog'.lost = blockLog.lost, lastCheckedBlock' = lastCheckedBlock,
         \A r \in Runs : runs'[r].at = "blocks" =>
           runs'[r].from = lastCheckedBlock + 1 \/ runs'[r] = runs[r]
  PROVE  CoverageInv'
<1>1. \A b : Covered(b)' <=> Covered(b)
  BY DEF Covered
<1>2. CoveredUpToLastChecked'
  BY <1>1 DEF CoverageInv, CoveredUpToLastChecked
<1>3. RunsCovered'
  <2> SUFFICES ASSUME NEW r \in Runs, runs'[r].at = "blocks", NEW b \in Blocks,
                      blockLog.first < b, b < runs'[r].from
               PROVE  Covered(b)
    BY <1>1 DEF RunsCovered
  <2>1. CASE runs'[r].from = lastCheckedBlock + 1
    <3>1. b \in Int /\ lastCheckedBlock \in Int
      BY MinerAssumption DEF TypeOK, Blocks, MinerAssumption
    <3>2. b <= lastCheckedBlock
      BY <2>1, <3>1
    <3>3. QED
      BY <3>2 DEF CoverageInv, CoveredUpToLastChecked
  <2>2. CASE runs'[r] = runs[r]
    BY <2>2 DEF CoverageInv, RunsCovered
  <2>3. QED
    BY <2>1, <2>2
<1>4. QED
  BY <1>2, <1>3 DEF CoverageInv

\* The blocks that arrive join those covered; those that do not are lost.
LEMMA BlocksArrivedCovers ==
  ASSUME TypeOK, CoverageInv, NEW r \in Runs, NEW got, BlocksArrived(r, got)
  PROVE  CoverageInv'
<1>1. /\ runs[r].at = "blocks" /\ runs[r].from \in Nat /\ runs[r].latest \in Nat
      /\ blockLog.counted \in [Blocks -> Nat] /\ blockLog.first \in Nat
  BY DEF BlocksArrived, TypeOK, RunType
<1>2. /\ blockLog'.counted = [b \in Blocks |-> IF b \in got THEN blockLog.counted[b] + 1
                                               ELSE blockLog.counted[b]]
      /\ blockLog'.lost = blockLog.lost \cup ((runs[r].from .. runs[r].latest) \ got)
      /\ blockLog'.first = blockLog.first
      /\ lastCheckedBlock' = runs[r].latest /\ runs' = [runs EXCEPT ![r] = Ended]
  BY DEF BlocksArrived, TypeOK
<1>3. \A b \in Blocks : Covered(b) => Covered(b)'
  BY <1>1, <1>2 DEF Covered
<1>4. \A b \in Blocks : b \in runs[r].from .. runs[r].latest => Covered(b)'
  BY <1>1, <1>2 DEF Covered
<1>5. CoveredUpToLastChecked'
  <2> SUFFICES ASSUME NEW b \in Blocks, blockLog.first < b, b <= runs[r].latest
               PROVE  Covered(b)'
    BY <1>2 DEF CoveredUpToLastChecked
  <2>1. b \in Int
    BY MinerAssumption DEF Blocks, MinerAssumption
  <2>2. CASE b < runs[r].from
    BY <1>1, <1>3, <2>2 DEF CoverageInv, RunsCovered
  <2>3. CASE ~(b < runs[r].from)
    BY <1>1, <1>4, <2>1, <2>3
  <2>4. QED
    BY <2>2, <2>3
<1>6. RunsCovered'
  <2> SUFFICES ASSUME NEW q \in Runs, runs'[q].at = "blocks", NEW b \in Blocks,
                      blockLog.first < b, b < runs'[q].from
               PROVE  Covered(b)'
    BY <1>2 DEF RunsCovered
  <2>1. q # r /\ runs'[q] = runs[q]
    BY <1>2, EndedTyped DEF TypeOK
  <2>2. QED
    BY <1>3, <2>1 DEF CoverageInv, RunsCovered
<1>7. QED
  BY <1>5, <1>6 DEF CoverageInv

LEMMA CoverageStep == TypeOK /\ CoverageInv /\ [Next]_vars => CoverageInv'
<1> SUFFICES ASSUME TypeOK, CoverageInv, [Next]_vars PROVE CoverageInv'
  OBVIOUS
<1>0. runs \in [Runs -> RunType] /\ lastCheckedBlock \in Nat
  BY DEF TypeOK
<1>1. CASE NextBlock \/ ValidatorDataLoaded \/ UNCHANGED vars
  BY <1>1, CoverageKept DEF NextBlock, ValidatorDataLoaded, vars, chainState
<1>2. ASSUME NEW r \in Runs, MonitorMiners(r) PROVE CoverageInv'
  <2>1. runs'[r].at = "latest" /\ \A q \in Runs : q # r => runs'[q] = runs[q]
    BY <1>0, <1>2 DEF MonitorMiners, Ended
  <2>2. /\ blockLog'.first = blockLog.first /\ blockLog'.counted = blockLog.counted
        /\ blockLog'.lost = blockLog.lost /\ lastCheckedBlock' = lastCheckedBlock
    BY <1>2 DEF MonitorMiners, chainState, TypeOK
  <2>3. QED
    BY <2>1, <2>2, CoverageKept
<1>3. ASSUME NEW r \in Runs, LatestArrived(r) PROVE CoverageInv'
  <2> DEFINE run == runs[r]
             asked == [run EXCEPT !.at = "missed", !.asked = head]
             next == IF run.latest <= lastCheckedBlock THEN Ended
                     ELSE IF MissedRoundsDue(run.latest) THEN asked ELSE FetchBlocks(run)
  <2>1. runs' = [runs EXCEPT ![r] = next] /\ run \in RunType
    BY <1>0, <1>3 DEF LatestArrived
  <2>2. asked.at = "missed"
    BY <2>1 DEF RunType
  <2>3. next.at = "blocks" => next.from = lastCheckedBlock + 1
    BY <1>0, <2>1, <2>2, EndedTyped, FetchBlocksTyped
  <2> HIDE DEF next
  <2>4. \A q \in Runs : runs'[q].at = "blocks" =>
          runs'[q].from = lastCheckedBlock + 1 \/ runs'[q] = runs[q]
    BY <1>0, <2>1, <2>3
  <2>5. QED
    BY <1>3, <2>4, CoverageKept DEF LatestArrived, chainState
<1>4. ASSUME NEW r \in Runs, LatestFailed(r) PROVE CoverageInv'
  <2>1. \A q \in Runs : runs'[q].at = "blocks" => runs'[q] = runs[q]
    BY <1>0, <1>4, EndedTyped DEF LatestFailed
  <2>2. QED
    BY <1>4, <2>1, CoverageKept DEF LatestFailed, chainState
<1>5. ASSUME NEW r \in Runs, NEW todo, todo \subseteq Missed, RoundsLeft(r, todo),
             blockLog' = blockLog, lastCheckedBlock' = lastCheckedBlock
      PROVE  CoverageInv'
  <2>1. /\ \A q \in Runs : q # r => runs'[q] = runs[q]
        /\ runs'[r].at = "blocks" => runs'[r].from = lastCheckedBlock + 1
    BY <1>5, RoundsLeftStep
  <2>2. QED
    BY <1>5, <2>1, CoverageKept
<1>6. ASSUME NEW r \in Runs, NEW b \in Missed,
             ProcessMissedRound(r, b) \/ MissedRoundDropped(r, b)
      PROVE  CoverageInv'
  <2>1. runs[r].todo \ {b} \subseteq Missed
    BY <1>0 DEF RunType
  <2>2. QED
    BY <1>5, <1>6, <2>1 DEF ProcessMissedRound, MissedRoundDropped
<1>7. ASSUME NEW r \in Runs, MissedRoundsArrived(r) \/ MissedRoundsFailed(r)
      PROVE  CoverageInv'
  <2>1. runs[r].todo \subseteq Missed /\ MissedRoundsInEpoch(runs[r].asked) \subseteq Missed
    BY <1>0 DEF RunType, MissedRoundsInEpoch
  <2>2. QED
    BY <1>5, <1>7, <2>1 DEF MissedRoundsArrived, MissedRoundsFailed
<1>8. ASSUME NEW r \in Runs, NEW got, BlocksArrived(r, got) PROVE CoverageInv'
  BY <1>8, BlocksArrivedCovers
<1>9. QED
  BY <1>1, <1>2, <1>3, <1>4, <1>6, <1>7, <1>8 DEF Next

\* No block is passed over: whatever runs overlap, end in any order and set
\* lastCheckedBlock back, each block up to it was counted or its fetch failed.
THEOREM NoBlockPassedOver == Spec => []CoveredUpToLastChecked
<1>1. Init => CoverageInv
  <2> SUFFICES ASSUME Init PROVE CoverageInv
    OBVIOUS
  <2>1. blockLog.first = lastCheckedBlock /\ \A r \in Runs : runs[r] = Ended
    BY DEF Init
  <2>2. \A b \in Blocks : ~(blockLog.first < b /\ b <= lastCheckedBlock)
    <3>1. lastCheckedBlock \in Int
      BY TypeInit DEF TypeOK
    <3>2. QED
      BY <2>1, <3>1, MinerAssumption DEF Blocks, MinerAssumption
  <2>3. QED
    BY <2>1, <2>2, EndedTyped DEF CoverageInv, CoveredUpToLastChecked, RunsCovered
<1>2. TypeOK /\ CoverageInv /\ [Next]_vars => CoverageInv'
  BY CoverageStep
<1>3. CoverageInv => CoveredUpToLastChecked
  BY DEF CoverageInv
<1>4. QED
  BY <1>1, <1>2, <1>3, MinerTypeCorrect, PTL DEF Spec

-----------------------------------------------------------------------------
(* Missed rounds. *)

Accounted(b) ==
  \/ roundLog.recorded[b] > 0 \/ b \in roundLog.failed
  \/ \E r \in Runs : b \in runs[r].todo

\* Rounds are left to look into only by a run that is at it.
TodoOnlyInRounds == \A r \in Runs : runs[r].at # "rounds" => runs[r].todo = {}

RoundsInv == KnownRoundsAccounted /\ TodoOnlyInRounds

\* Steps that look into nothing: what was accounted for stays so.
LEMMA AccountedKept ==
  ASSUME RoundsInv, knownMissedRounds' = knownMissedRounds, roundLog' = roundLog,
         \A r \in Runs : \/ runs'[r] = runs[r]
                         \/ runs'[r].at # "rounds" /\ runs'[r].todo = {} /\ runs[r].todo = {}
  PROVE  RoundsInv'
<1>1. \A b : Accounted(b) => Accounted(b)'
  BY DEF Accounted
<1>2. KnownRoundsAccounted'
  BY <1>1 DEF RoundsInv, KnownRoundsAccounted, Accounted
<1>3. TodoOnlyInRounds'
  BY DEF RoundsInv, TodoOnlyInRounds
<1>4. QED
  BY <1>2, <1>3 DEF RoundsInv

LEMMA TodoLeft ==
  ASSUME TypeOK, TodoOnlyInRounds, NEW r \in Runs, NEW todo, todo \subseteq Missed,
         RoundsLeft(r, todo)
  PROVE  TodoOnlyInRounds'
<1> DEFINE run == [runs[r] EXCEPT !.todo = todo]
           waiting == [run EXCEPT !.at = "rounds"]
<1>1. runs' = [runs EXCEPT ![r] = IF todo = {} THEN FetchBlocks(run) ELSE waiting]
      /\ runs \in [Runs -> RunType]
  BY DEF RoundsLeft, TypeOK
<1>2. run \in RunType
  BY <1>1 DEF RunType
<1> HIDE DEF run
<1>3. waiting.at = "rounds"
  BY <1>2 DEF RunType
<1> HIDE DEF waiting
<1>4. todo # {} => runs'[r].at = "rounds"
  BY <1>1, <1>3
<1>5. runs'[r].todo = todo /\ \A q \in Runs : q # r => runs'[q] = runs[q]
  BY RoundsLeftStep
<1>6. QED
  BY <1>4, <1>5 DEF TodoOnlyInRounds

LEMMA ListAccounted ==
  ASSUME TypeOK, RoundsInv, NEW r \in Runs, MissedRoundsArrived(r)
  PROVE  RoundsInv'
<1> DEFINE list == MissedRoundsInEpoch(runs[r].asked)
<1>1. list \subseteq Missed /\ knownMissedRounds' = list
      /\ RoundsLeft(r, list \ knownMissedRounds) /\ runs[r].at = "missed"
  BY DEF MissedRoundsArrived, MissedRoundsInEpoch
<1> HIDE DEF list
<1>2. /\ runs'[r].todo = list \ knownMissedRounds
      /\ \A q \in Runs : q # r => runs'[q] = runs[q]
  BY <1>1, RoundsLeftStep
<1>3. runs[r].todo = {}
  BY <1>1 DEF RoundsInv, TodoOnlyInRounds
<1>4. roundLog'.recorded = roundLog.recorded /\ roundLog'.failed = roundLog.failed
  BY DEF MissedRoundsArrived, Asked, TypeOK
<1>5. \A b : Accounted(b) => Accounted(b)'
  BY <1>2, <1>3, <1>4 DEF Accounted
<1>6. \A b \in list : Accounted(b)'
  <2>1. \A b \in list \ knownMissedRounds : Accounted(b)'
    BY <1>2 DEF Accounted
  <2>2. \A b \in knownMissedRounds : Accounted(b)
    BY DEF RoundsInv, KnownRoundsAccounted, Accounted
  <2>3. QED
    BY <1>5, <2>1, <2>2
<1>7. KnownRoundsAccounted'
  BY <1>1, <1>6 DEF KnownRoundsAccounted, Accounted
<1>8. TodoOnlyInRounds'
  BY <1>1, TodoLeft DEF RoundsInv
<1>9. QED
  BY <1>7, <1>8 DEF RoundsInv

LEMMA RoundAccounted ==
  ASSUME TypeOK, RoundsInv, NEW r \in Runs, NEW b \in Missed,
         ProcessMissedRound(r, b) \/ MissedRoundDropped(r, b)
  PROVE  RoundsInv'
<1>1. /\ RoundsLeft(r, runs[r].todo \ {b}) /\ runs[r].todo \ {b} \subseteq Missed
      /\ knownMissedRounds' = knownMissedRounds
  BY DEF ProcessMissedRound, MissedRoundDropped, TypeOK, RunType
<1>2. /\ runs'[r].todo = runs[r].todo \ {b}
      /\ \A q \in Runs : q # r => runs'[q] = runs[q]
  BY <1>1, RoundsLeftStep
<1>3. roundLog.recorded \in [Missed -> Nat]
  BY DEF TypeOK
<1>4. /\ \A c \in Missed : roundLog.recorded[c] > 0 => roundLog'.recorded[c] > 0
      /\ roundLog.failed \subseteq roundLog'.failed
      /\ roundLog'.recorded[b] > 0 \/ b \in roundLog'.failed
  <2>1. CASE ProcessMissedRound(r, b)
    <3>1. /\ roundLog'.recorded = [roundLog.recorded EXCEPT ![b] = @ + 1]
          /\ roundLog'.failed = roundLog.failed
      BY <2>1 DEF ProcessMissedRound, TypeOK
    <3>2. QED
      BY <1>3, <3>1
  <2>2. CASE MissedRoundDropped(r, b)
    <3>1. roundLog'.recorded = roundLog.recorded /\ roundLog'.failed = roundLog.failed \cup {b}
      BY <2>2 DEF MissedRoundDropped, TypeOK
    <3>2. QED
      BY <3>1
  <2>3. QED
    BY <2>1, <2>2
<1>5. \A c \in Missed : Accounted(c) => Accounted(c)'
  <2> SUFFICES ASSUME NEW c \in Missed, Accounted(c) PROVE Accounted(c)'
    OBVIOUS
  <2>1. CASE c = b
    BY <1>4, <2>1 DEF Accounted
  <2>2. CASE c # b
    BY <1>2, <1>4, <2>2 DEF Accounted
  <2>3. QED
    BY <2>1, <2>2
<1>6. KnownRoundsAccounted'
  BY <1>1, <1>5 DEF RoundsInv, KnownRoundsAccounted, Accounted, TypeOK
<1>7. TodoOnlyInRounds'
  BY <1>1, TodoLeft DEF RoundsInv
<1>8. QED
  BY <1>6, <1>7 DEF RoundsInv

LEMMA RoundsStep == TypeOK /\ RoundsInv /\ [Next]_vars => RoundsInv'
<1> SUFFICES ASSUME TypeOK, RoundsInv, [Next]_vars PROVE RoundsInv'
  OBVIOUS
<1>0. runs \in [Runs -> RunType] /\ \A r \in Runs : runs[r].at # "rounds" => runs[r].todo = {}
  BY DEF TypeOK, RoundsInv, TodoOnlyInRounds
<1>1. CASE NextBlock \/ ValidatorDataLoaded \/ UNCHANGED vars
  BY <1>1, AccountedKept DEF NextBlock, ValidatorDataLoaded, vars, chainState
<1>2. ASSUME NEW r \in Runs, MonitorMiners(r) PROVE RoundsInv'
  <2> DEFINE run == [Ended EXCEPT !.at = "latest", !.latest = head]
  <2>1. runs' = [runs EXCEPT ![r] = run] /\ runs[r].todo = {}
    BY <1>0, <1>2 DEF MonitorMiners
  <2>2. run.at = "latest" /\ run.todo = {}
    BY DEF Ended
  <2> HIDE DEF run
  <2>3. runs'[r].at = "latest" /\ runs'[r].todo = {} /\ \A q \in Runs : q # r => runs'[q] = runs[q]
    BY <1>0, <2>1, <2>2
  <2>4. QED
    BY <1>2, <2>1, <2>3, AccountedKept DEF MonitorMiners, chainState
<1>3. ASSUME NEW r \in Runs, LatestArrived(r) PROVE RoundsInv'
  <2> DEFINE run == runs[r]
             asked == [run EXCEPT !.at = "missed", !.asked = head]
             next == IF run.latest <= lastCheckedBlock THEN Ended
                     ELSE IF MissedRoundsDue(run.latest) THEN asked ELSE FetchBlocks(run)
  <2>1. runs' = [runs EXCEPT ![r] = next] /\ run \in RunType /\ run.todo = {}
    BY <1>0, <1>3 DEF LatestArrived
  <2>2. asked.at = "missed" /\ asked.todo = run.todo
    BY <2>1 DEF RunType
  <2>3. lastCheckedBlock \in Nat
    BY DEF TypeOK
  <2>4. next.at # "rounds" /\ next.todo = {}
    BY <2>1, <2>2, <2>3, EndedTyped, FetchBlocksTyped
  <2> HIDE DEF next
  <2>5. runs'[r] = next /\ \A q \in Runs : q # r => runs'[q] = runs[q]
    BY <1>0, <2>1
  <2>6. QED
    BY <1>3, <2>1, <2>4, <2>5, AccountedKept DEF LatestArrived, chainState
<1>4. ASSUME NEW r \in Runs, NEW got, LatestFailed(r) \/ BlocksArrived(r, got)
      PROVE  RoundsInv'
  <2>1. runs' = [runs EXCEPT ![r] = Ended] /\ runs[r].todo = {}
    BY <1>0, <1>4 DEF LatestFailed, BlocksArrived
  <2>2. runs'[r] = Ended /\ \A q \in Runs : q # r => runs'[q] = runs[q]
    BY <1>0, <2>1
  <2>3. knownMissedRounds' = knownMissedRounds /\ roundLog' = roundLog
    BY <1>4 DEF LatestFailed, BlocksArrived, chainState
  <2>4. QED
    BY <2>1, <2>2, <2>3, EndedTyped, AccountedKept
<1>5. ASSUME NEW r \in Runs, MissedRoundsFailed(r) PROVE RoundsInv'
  <2>1. RoundsLeft(r, {}) /\ runs[r].todo = {}
    BY <1>0, <1>5 DEF MissedRoundsFailed
  <2>2. runs'[r].todo = {} /\ \A q \in Runs : q # r => runs'[q] = runs[q]
    BY <2>1, RoundsLeftStep
  <2>3. \A b : Accounted(b) => Accounted(b)'
    BY <1>5, <2>1, <2>2 DEF Accounted, MissedRoundsFailed
  <2>4. KnownRoundsAccounted'
    BY <1>5, <2>3 DEF RoundsInv, KnownRoundsAccounted, Accounted, MissedRoundsFailed
  <2>5. TodoOnlyInRounds'
    BY <2>1, TodoLeft DEF RoundsInv
  <2>6. QED
    BY <2>4, <2>5 DEF RoundsInv
<1>6. ASSUME NEW r \in Runs, MissedRoundsArrived(r) PROVE RoundsInv'
  BY <1>6, ListAccounted
<1>7. ASSUME NEW r \in Runs, NEW b \in Missed,
             ProcessMissedRound(r, b) \/ MissedRoundDropped(r, b)
      PROVE  RoundsInv'
  BY <1>7, RoundAccounted
<1>8. ASSUME NEW r \in Runs, LatestFailed(r) PROVE RoundsInv'
  BY <1>4, <1>8
<1>9. QED
  BY <1>1, <1>2, <1>3, <1>4, <1>5, <1>6, <1>7, <1>8 DEF Next

\* No known missed round is forgotten: it was recorded, it was dropped because
\* a block around it did not arrive, or a run in flight will look into it.
THEOREM KnownRoundsNeverForgotten == Spec => []KnownRoundsAccounted
<1>1. Init => RoundsInv
  BY EndedTyped DEF Init, RoundsInv, KnownRoundsAccounted, TodoOnlyInRounds
<1>2. TypeOK /\ RoundsInv /\ [Next]_vars => RoundsInv'
  BY RoundsStep
<1>3. RoundsInv => KnownRoundsAccounted
  BY DEF RoundsInv
<1>4. QED
  BY <1>1, <1>2, <1>3, MinerTypeCorrect, PTL DEF Spec

-----------------------------------------------------------------------------
(* Missed miners. *)

\* Every violation carries the missed miners of its round.
ViolationsMeasured ==
  \A i \in DOMAIN recentViolations :
    recentViolations[i].missed = MissedMiners(recentViolations[i].round)

LEMMA MeasuredLeadsToActual == ViolationsMeasured => MissedMinersLeadToActual
<1> SUFFICES ASSUME ViolationsMeasured, NEW i \in DOMAIN recentViolations,
                    Listed(ExpectedOf(recentViolations[i].round)),
                    Listed(MinerOf(recentViolations[i].round))
             PROVE  LET v == recentViolations[i]
                    IN  /\ v.missed \in 1 .. Len(Masternodes)
                        /\ TurnAfter(ExpectedOf(v.round), v.missed) = MinerOf(v.round)
  BY DEF MissedMinersLeadToActual
<1> DEFINE b == recentViolations[i].round
           n == Len(Masternodes)
<1>1. recentViolations[i].missed = MissedMiners(b)
  BY DEF ViolationsMeasured
<1>2. MissedMiners(b) \in 1 .. n
      /\ (Index(ExpectedOf(b)) - 1 + MissedMiners(b)) % n = Index(MinerOf(b)) - 1
  BY MissedMinersRing
<1>3. Index(MinerOf(b)) \in 1 .. n /\ n \in Nat /\ Masternodes[Index(MinerOf(b))] = MinerOf(b)
  BY IndexListed
<1>4. Index(MinerOf(b)) - 1 + 1 = Index(MinerOf(b))
  BY <1>3
<1>5. QED
  BY <1>1, <1>2, <1>3, <1>4 DEF TurnAfter

\* The missed miners of every recorded violation lead around the masternode
\* list from the miner expected to the one that mined, wraparound included.
THEOREM MissedMinersExact == Spec => []MissedMinersLeadToActual
<1>1. Init => ViolationsMeasured
  <2> SUFFICES ASSUME Init PROVE ViolationsMeasured
    OBVIOUS
  <2>1. recentViolations = << >>
    BY DEF Init
  <2>2. QED
    BY <2>1 DEF ViolationsMeasured
<1>2. TypeOK /\ ViolationsMeasured /\ [Next]_vars => ViolationsMeasured'
  <2> SUFFICES ASSUME TypeOK, ViolationsMeasured, [Next]_vars PROVE ViolationsMeasured'
    OBVIOUS
  <2>1. ASSUME NEW r \in Runs, NEW b \in Missed, ProcessMissedRound(r, b)
        PROVE  ViolationsMeasured'
    <3>1. recentViolations \in Seq(Violation) /\ Len(recentViolations) <= MAX_RECENT_VIOLATIONS
      BY DEF TypeOK, Violation
    <3>2. \A i \in DOMAIN recentViolations' :
            \/ recentViolations'[i] = [round |-> b, missed |-> MissedMiners(b)]
            \/ \E j \in DOMAIN recentViolations : recentViolations'[i] = recentViolations[j]
      BY <2>1, <3>1, RecordViolationStep DEF ProcessMissedRound
    <3> SUFFICES ASSUME NEW i \in DOMAIN recentViolations'
                 PROVE  recentViolations'[i].missed = MissedMiners(recentViolations'[i].round)
      BY DEF ViolationsMeasured
    <3>3. QED
      BY <3>2 DEF ViolationsMeasured
  <2>2. CASE UNCHANGED recentViolations
    BY <2>2 DEF ViolationsMeasured
  <2>3. \/ \E r \in Runs, b \in Missed : ProcessMissedRound(r, b)
        \/ UNCHANGED recentViolations
    BY DEF Next, NextBlock, ValidatorDataLoaded, MonitorMiners, LatestArrived, LatestFailed,
           MissedRoundsArrived, MissedRoundsFailed, MissedRoundDropped, BlocksArrived,
           chainState, vars
  <2>4. QED
    BY <2>1, <2>2, <2>3
<1>3. QED
  BY <1>1, <1>2, MeasuredLeadsToActual, MinerTypeCorrect, PTL DEF Spec

-----------------------------------------------------------------------------
(* Runs that never overlap.                                                *)

\* While no two runs ever overlapped, at most one is in flight, and it goes on
\* from where the one before it ended.
Alone ==
  /\ \A p, q \in Runs : runs[p].at # "ended" /\ runs[q].at # "ended" => p = q
  /\ \A b \in Blocks : /\ blockLog.counted[b] <= 1
                       /\ b > lastCheckedBlock => blockLog.counted[b] = 0
  /\ \A r \in Runs : runs[r].at \in {"missed", "rounds", "blocks"}
                       => lastCheckedBlock < runs[r].latest
  /\ \A r \in Runs : runs[r].at = "blocks" => runs[r].from = lastCheckedBlock + 1

AloneInv == blockLog.overlapped \/ Alone

\* Steps of one run that is in flight, or that ends.
LEMMA AloneKept ==
  ASSUME Alone, NEW r \in Runs, UNCHANGED <<lastCheckedBlock, blockLog>>,
         \A q \in Runs : q # r => runs'[q] = runs[q],
         \/ runs'[r].at = "ended"
         \/ /\ runs[r].at # "ended"
            /\ runs'[r].at \in {"missed", "rounds", "blocks"} => lastCheckedBlock < runs'[r].latest
            /\ runs'[r].at = "blocks" => runs'[r].from = lastCheckedBlock + 1
  PROVE  Alone'
BY DEF Alone

LEMMA RoundsLeftAt ==
  ASSUME TypeOK, NEW r \in Runs, NEW todo, todo \subseteq Missed, RoundsLeft(r, todo)
  PROVE  runs'[r].at \in {"rounds", "blocks"}
<1> DEFINE run == [runs[r] EXCEPT !.todo = todo]
           waiting == [run EXCEPT !.at = "rounds"]
<1>1. /\ runs \in [Runs -> RunType] /\ lastCheckedBlock \in Nat
      /\ runs' = [runs EXCEPT ![r] = IF todo = {} THEN FetchBlocks(run) ELSE waiting]
  BY DEF RoundsLeft, TypeOK
<1>2. run \in RunType
  BY <1>1 DEF RunType
<1> HIDE DEF run
<1>3. waiting.at = "rounds"
  BY <1>2 DEF RunType
<1> HIDE DEF waiting
<1>4. FetchBlocks(run).at = "blocks"
  BY <1>1, <1>2, FetchBlocksTyped
<1>5. QED
  BY <1>1, <1>3, <1>4

\* A step of updateMissedRounds is one of the run in flight.
LEMMA RoundsLeftAlone ==
  ASSUME TypeOK, Alone, NEW r \in Runs, NEW todo, todo \subseteq Missed, RoundsLeft(r, todo),
         runs[r].at \in {"missed", "rounds"}, UNCHANGED <<lastCheckedBlock, blockLog>>
  PROVE  Alone'
<1>1. /\ runs'[r].latest = runs[r].latest
      /\ \A q \in Runs : q # r => runs'[q] = runs[q]
      /\ runs'[r].at = "blocks" => runs'[r].from = lastCheckedBlock + 1
  BY RoundsLeftStep
<1>2. lastCheckedBlock < runs[r].latest
  BY DEF Alone
<1>3. QED
  BY <1>1, <1>2, AloneKept

\* What LatestArrived() makes of its run.
LEMMA LatestArrivedRun ==
  ASSUME TypeOK, NEW r \in Runs, LatestArrived(r)
  PROVE  /\ \A q \in Runs : q # r => runs'[q] = runs[q]
         /\ runs[r].at = "latest" /\ runs'[r].todo \in {{}, runs[r].todo}
         /\ runs'[r].at \in {"ended", "missed", "blocks"}
         /\ runs'[r].at = "missed" => runs'[r].asked = head
         /\ runs'[r].at # "ended" => lastCheckedBlock < runs'[r].latest
         /\ runs'[r].at = "blocks" => runs'[r].from = lastCheckedBlock + 1
<1> DEFINE run == runs[r]
           asking == [run EXCEPT !.at = "missed"]
           asked == [asking EXCEPT !.asked = head]
           next == IF run.latest <= lastCheckedBlock THEN Ended
                   ELSE IF MissedRoundsDue(run.latest) THEN asked ELSE FetchBlocks(run)
<1>1. /\ head \in Nat /\ lastCheckedBlock \in Nat /\ runs \in [Runs -> RunType]
      /\ run \in RunType /\ run.latest \in Nat
  BY DEF TypeOK, RunType
<1>2. runs' = [runs EXCEPT ![r] = next] /\ runs[r].at = "latest"
  BY DEF LatestArrived
<1> HIDE DEF run
<1>3. asking \in RunType /\ asking.latest = run.latest /\ asking.todo = run.todo
      /\ asking.at = "missed"
  BY <1>1 DEF RunType
<1> HIDE DEF asking
<1>4. asked.latest = run.latest /\ asked.asked = head /\ asked.todo = run.todo
      /\ asked.at = "missed"
  BY <1>1, <1>3 DEF RunType
<1> HIDE DEF asked
<1>5. /\ next.at \in {"ended", "missed", "blocks"} /\ next.todo \in {{}, run.todo}
      /\ next.at = "missed" => next.asked = head
      /\ next.at # "ended" => lastCheckedBlock < next.latest
      /\ next.at = "blocks" => next.from = lastCheckedBlock + 1
  <2>1. CASE run.latest <= lastCheckedBlock
    BY <2>1, EndedTyped
  <2>2. CASE ~(run.latest <= lastCheckedBlock) /\ MissedRoundsDue(run.latest)
    BY <1>1, <1>4, <2>2
  <2>3. CASE ~(run.latest <= lastCheckedBlock) /\ ~MissedRoundsDue(run.latest)
    BY <1>1, <2>3, FetchBlocksTyped
  <2>4. QED
    BY <2>1, <2>2, <2>3
<1> HIDE DEF next
<1>6. QED
  BY <1>1, <1>2, <1>5 DEF run

LEMMA BlocksArrivedAlone ==
  ASSUME TypeOK, Alone, NEW r \in Runs, NEW got, BlocksArrived(r, got)
  PROVE  Alone'
<1>1. /\ runs[r].at = "blocks" /\ got \subseteq runs[r].from .. runs[r].latest
      /\ runs' = [runs EXCEPT ![r] = Ended] /\ lastCheckedBlock' = runs[r].latest
  BY DEF BlocksArrived
<1>2. /\ runs \in [Runs -> RunType] /\ lastCheckedBlock \in Nat
      /\ runs[r].latest \in Nat /\ blockLog.counted \in [Blocks -> Nat]
  BY DEF TypeOK, RunType
<1>3. runs[r].from = lastCheckedBlock + 1 /\ lastCheckedBlock < runs[r].latest
      /\ \A q \in Runs : q # r => runs[q].at = "ended"
  BY <1>1 DEF Alone
<1>4. \A q \in Runs : runs'[q].at = "ended"
  BY <1>1, <1>2, <1>3, EndedTyped
<1>5. blockLog'.counted = [b \in Blocks |-> IF b \in got THEN blockLog.counted[b] + 1
                                            ELSE blockLog.counted[b]]
  BY DEF BlocksArrived, TypeOK
<1>6. ASSUME NEW b \in Blocks
      PROVE  blockLog'.counted[b] <= 1 /\ (b > runs[r].latest => blockLog'.counted[b] = 0)
  <2>1. /\ blockLog.counted[b] <= 1 /\ b \in Nat /\ blockLog.counted[b] \in Nat
        /\ b > lastCheckedBlock => blockLog.counted[b] = 0
    BY <1>2, MinerAssumption DEF Alone, Blocks, MinerAssumption
  <2>2. CASE b \in got
    BY <1>1, <1>2, <1>3, <1>5, <2>1, <2>2
  <2>3. CASE b \notin got
    BY <1>2, <1>3, <1>5, <2>1, <2>3
  <2>4. QED
    BY <2>2, <2>3
<1>7. QED
  BY <1>1, <1>4, <1>6 DEF Alone

LEMMA AloneStep == TypeOK /\ AloneInv /\ [Next]_vars => AloneInv'
<1> SUFFICES ASSUME TypeOK, AloneInv, [Next]_vars, ~blockLog'.overlapped PROVE Alone'
  BY DEF AloneInv
<1>0. Alone
  <2>1. blockLog.overlapped => blockLog'.overlapped
    BY DEF Next, NextBlock, ValidatorDataLoaded, MonitorMiners, LatestArrived, LatestFailed,
           MissedRoundsArrived, MissedRoundsFailed, ProcessMissedRound, MissedRoundDropped,
           BlocksArrived, vars, TypeOK
  <2>2. QED
    BY <2>1 DEF AloneInv
<1>1. runs \in [Runs -> RunType]
  BY DEF TypeOK
<1>2. CASE NextBlock \/ ValidatorDataLoaded \/ UNCHANGED vars
  BY <1>0, <1>2 DEF NextBlock, ValidatorDataLoaded, vars, chainState, Alone
<1>3. ASSUME NEW r \in Runs, MonitorMiners(r) PROVE Alone'
  <2> DEFINE run == [Ended EXCEPT !.at = "latest", !.latest = head]
  <2>1. /\ runs' = [runs EXCEPT ![r] = run] /\ lastCheckedBlock' = lastCheckedBlock
        /\ blockLog' = [blockLog EXCEPT !.overlapped = @ \/ \E q \in Runs : runs[q].at # "ended"]
    BY <1>3 DEF MonitorMiners, chainState
  <2>2. run.at = "latest"
    BY DEF Ended
  <2> HIDE DEF run
  <2>3. blockLog'.counted = blockLog.counted /\ \A q \in Runs : runs[q].at = "ended"
    BY <2>1 DEF TypeOK
  <2>4. runs'[r].at = "latest" /\ \A q \in Runs : q # r => runs'[q].at = "ended"
    BY <1>1, <2>1, <2>2, <2>3
  <2>5. QED
    BY <1>0, <2>1, <2>3, <2>4 DEF Alone
<1>4. ASSUME NEW r \in Runs, LatestArrived(r) PROVE Alone'
  <2>1. UNCHANGED <<lastCheckedBlock, blockLog>>
    BY <1>4 DEF LatestArrived, chainState
  <2>2. QED
    BY <1>0, <1>4, <2>1, LatestArrivedRun, AloneKept
<1>5. ASSUME NEW r \in Runs, LatestFailed(r) PROVE Alone'
  <2>1. UNCHANGED <<lastCheckedBlock, blockLog>> /\ runs' = [runs EXCEPT ![r] = Ended]
    BY <1>5 DEF LatestFailed, chainState
  <2>2. runs'[r].at = "ended" /\ \A q \in Runs : q # r => runs'[q] = runs[q]
    BY <1>1, <2>1, EndedTyped
  <2>3. QED
    BY <1>0, <2>1, <2>2, AloneKept
<1>6. ASSUME NEW r \in Runs, MissedRoundsArrived(r) \/ MissedRoundsFailed(r) PROVE Alone'
  <2>1. \E todo : todo \subseteq Missed /\ RoundsLeft(r, todo)
    <3>1. MissedRoundsInEpoch(runs[r].asked) \ knownMissedRounds \subseteq Missed
      BY DEF MissedRoundsInEpoch
    <3>2. QED
      BY <1>6, <3>1 DEF MissedRoundsArrived, MissedRoundsFailed
  <2>2. UNCHANGED <<lastCheckedBlock, blockLog>> /\ runs[r].at = "missed"
    BY <1>6 DEF MissedRoundsArrived, MissedRoundsFailed
  <2>3. QED
    BY <1>0, <2>1, <2>2, RoundsLeftAlone
<1>7. ASSUME NEW r \in Runs, NEW b \in Missed,
             ProcessMissedRound(r, b) \/ MissedRoundDropped(r, b)
      PROVE  Alone'
  <2>1. /\ runs[r].todo \ {b} \subseteq Missed /\ RoundsLeft(r, runs[r].todo \ {b})
        /\ UNCHANGED <<lastCheckedBlock, blockLog>> /\ runs[r].at = "rounds"
    BY <1>1, <1>7 DEF ProcessMissedRound, MissedRoundDropped, RunType
  <2>2. QED
    BY <1>0, <2>1, RoundsLeftAlone
<1>8. ASSUME NEW r \in Runs, NEW got, BlocksArrived(r, got) PROVE Alone'
  BY <1>0, <1>8, BlocksArrivedAlone
<1>9. QED
  BY <1>2, <1>3, <1>4, <1>5, <1>6, <1>7, <1>8 DEF Next

LEMMA AloneInit == Init => AloneInv
<1> SUFFICES ASSUME Init PROVE Alone
  BY DEF AloneInv
<1>1. \A b \in Blocks : blockLog.counted[b] = 0
  BY DEF Init
<1>2. \A r \in Runs : runs[r].at = "ended"
  BY EndedTyped DEF Init
<1>3. QED
  BY <1>1, <1>2 DEF Alone

\* A block counts twice for its miner only after two runs overlapped: one run
\* at a time, however it ends, never counts a block the one before counted.
THEOREM BlocksCountedOnce == Spec => []CountedOnceWithoutOverlap
<1>1. AloneInv => CountedOnceWithoutOverlap
  BY DEF AloneInv, Alone, CountedOnceWithoutOverlap
<1>2. QED
  BY <1>1, AloneInit, AloneStep, MinerTypeCorrect, PTL DEF Spec

-----------------------------------------------------------------------------
(* Missed rounds, when runs never overlap.                                 *)

\* The list known is that of the last answer, and every round recorded is in
\* it, or of an epoch before it.
RoundsAlone ==
  /\ roundLog.upTo <= head /\ knownMissedRounds = MissedRoundsInEpoch(roundLog.upTo)
  /\ \A b \in Missed : /\ roundLog.recorded[b] <= 1
                       /\ roundLog.recorded[b] > 0
                            => b \in knownMissedRounds \/ b < EpochStart(roundLog.upTo)
  /\ \A r \in Runs : runs[r].at = "missed" => roundLog.upTo <= runs[r].asked
  /\ \A r \in Runs : \A b \in runs[r].todo :
       b \in knownMissedRounds /\ roundLog.recorded[b] = 0

RoundsAloneInv == blockLog.overlapped \/ RoundsAlone

LEMMA QuotientMonotone ==
  ASSUME NEW a \in Nat, NEW b \in Nat, NEW d \in Nat \ {0}, a <= b
  PROVE  a \div d <= b \div d /\ a \div d \in Nat /\ b \div d \in Nat
OBVIOUS

LEMMA ProductMonotone ==
  ASSUME NEW a \in Nat, NEW b \in Nat, NEW c \in Nat, a <= b
  PROVE  c * a <= c * b /\ c * a \in Nat /\ c * b \in Nat
OBVIOUS

\* Epochs follow one another.
LEMMA EpochStartMonotone ==
  ASSUME NEW a \in Nat, NEW b \in Nat, a <= b
  PROVE  EpochStart(a) <= EpochStart(b) /\ EpochStart(a) \in Nat /\ EpochStart(b) \in Nat
<1>1. EPOCH \in Nat \ {0}
  BY MinerAssumption DEF MinerAssumption
<1>2. a \div EPOCH <= b \div EPOCH /\ a \div EPOCH \in Nat /\ b \div EPOCH \in Nat
  BY <1>1, QuotientMonotone
<1>3. QED
  BY <1>1, <1>2, ProductMonotone DEF EpochStart

\* Steps that record nothing and ask nothing.
LEMMA RoundsAloneKept ==
  ASSUME RoundsAlone, TypeOK, UNCHANGED <<knownMissedRounds, roundLog>>,
         head' \in Nat, head <= head',
         \A q \in Runs : /\ runs'[q].todo \subseteq runs[q].todo
                         /\ runs'[q].at = "missed" => roundLog.upTo <= runs'[q].asked
  PROVE  RoundsAlone'
<1>1. roundLog.upTo \in Nat /\ head \in Nat
  BY DEF TypeOK
<1>2. roundLog'.upTo <= head'
  BY <1>1 DEF RoundsAlone
<1>3. QED
  BY <1>2 DEF RoundsAlone, MissedRoundsInEpoch

\* The only run in flight has an answer newer than the known list: what it has
\* not seen there was never recorded.
LEMMA ListAlone ==
  ASSUME TypeOK, RoundsInv, Alone, RoundsAlone, NEW r \in Runs, MissedRoundsArrived(r)
  PROVE  RoundsAlone'
<1> DEFINE asked == runs[r].asked
           list == MissedRoundsInEpoch(asked)
<1>1. /\ runs[r].at = "missed" /\ knownMissedRounds' = list /\ head' = head
      /\ RoundsLeft(r, list \ knownMissedRounds) /\ list \subseteq Missed
  BY DEF MissedRoundsArrived, MissedRoundsInEpoch
<1>2. /\ asked \in Nat /\ asked <= head /\ roundLog.upTo \in Nat /\ roundLog.upTo <= asked
      /\ roundLog.recorded \in [Missed -> Nat] /\ head \in Nat
  BY <1>1 DEF TypeOK, RunType, RoundsAlone
<1>3. roundLog'.upTo = asked /\ roundLog'.recorded = roundLog.recorded
  <2> DEFINE since == IF roundLog.upTo = 0 THEN EpochStart(asked) ELSE roundLog.since
             upTo == IF asked > roundLog.upTo THEN asked ELSE roundLog.upTo
  <2>1. roundLog' = [roundLog EXCEPT !.since = since, !.upTo = upTo]
    BY DEF MissedRoundsArrived, Asked
  <2>2. upTo = asked
    BY <1>2
  <2> HIDE DEF since, upTo
  <2>3. roundLog'.upTo = upTo /\ roundLog'.recorded = roundLog.recorded
    BY <2>1 DEF TypeOK
  <2>4. QED
    BY <2>2, <2>3
<1>4. EpochStart(roundLog.upTo) <= EpochStart(asked)
      /\ EpochStart(roundLog.upTo) \in Nat /\ EpochStart(asked) \in Nat
  BY <1>2, EpochStartMonotone
<1>5. Missed \subseteq Nat
  BY MinerAssumption DEF MinerAssumption, Blocks
<1>6. \A b \in list : EpochStart(asked) <= b
  BY DEF MissedRoundsInEpoch
<1>7. ASSUME NEW b \in Missed, roundLog.recorded[b] > 0
      PROVE  b \in list \/ b < EpochStart(asked)
  <2>1. b \in knownMissedRounds \/ b < EpochStart(roundLog.upTo)
    BY <1>7 DEF RoundsAlone
  <2>2. CASE b \in knownMissedRounds
    <3>1. b <= roundLog.upTo /\ b \in Nat
      BY <1>5, <2>2 DEF RoundsAlone, MissedRoundsInEpoch
    <3>2. b <= asked
      BY <1>2, <3>1
    <3>3. CASE EpochStart(asked) <= b
      BY <3>2, <3>3 DEF MissedRoundsInEpoch
    <3>4. CASE ~(EpochStart(asked) <= b)
      BY <1>4, <3>1, <3>4
    <3>5. QED
      BY <3>3, <3>4
  <2>3. CASE b < EpochStart(roundLog.upTo)
    BY <1>4, <1>5, <2>3
  <2>4. QED
    BY <2>1, <2>2, <2>3
<1>8. ASSUME NEW b \in list \ knownMissedRounds
      PROVE  roundLog.recorded[b] = 0
  <2>1. b \in Missed /\ b \in Nat /\ EpochStart(asked) <= b /\ roundLog.recorded[b] \in Nat
    BY <1>1, <1>2, <1>5, <1>6
  <2>2. ~(b < EpochStart(roundLog.upTo))
    BY <1>4, <2>1
  <2>3. ~(roundLog.recorded[b] > 0)
    BY <2>1, <2>2 DEF RoundsAlone
  <2>4. QED
    BY <2>1, <2>3
<1>9. /\ runs'[r].todo = list \ knownMissedRounds
      /\ runs'[r].at # "missed"
      /\ \A q \in Runs : q # r => runs'[q] = runs[q]
  <2>1. list \ knownMissedRounds \subseteq Missed
    BY <1>1
  <2>2. QED
    BY <1>1, <2>1, RoundsLeftStep, RoundsLeftAt
<1>10. \A q \in Runs : q # r => runs[q].at = "ended" /\ runs[q].todo = {}
  BY <1>1 DEF Alone, RoundsInv, TodoOnlyInRounds
<1> HIDE DEF list, asked
<1>11. \A q \in Runs : \A b \in runs'[q].todo :
         b \in knownMissedRounds' /\ roundLog'.recorded[b] = 0
  <2> SUFFICES ASSUME NEW q \in Runs, NEW b \in runs'[q].todo
               PROVE  b \in knownMissedRounds' /\ roundLog'.recorded[b] = 0
    OBVIOUS
  <2>1. q = r
    BY <1>9, <1>10
  <2>2. QED
    BY <1>1, <1>3, <1>8, <1>9, <2>1
<1>12. \A q \in Runs : runs'[q].at # "missed"
  BY <1>9, <1>10
<1>13. \A b \in Missed : roundLog.recorded[b] <= 1
  BY DEF RoundsAlone
<1>14. knownMissedRounds' = MissedRoundsInEpoch(roundLog'.upTo) /\ roundLog'.upTo <= head'
  BY <1>1, <1>2, <1>3 DEF list
<1>15. \A b \in Missed : roundLog'.recorded[b] > 0
                           => b \in knownMissedRounds' \/ b < EpochStart(roundLog'.upTo)
  BY <1>1, <1>3, <1>7
<1>16. QED
  BY <1>3, <1>11, <1>12, <1>13, <1>14, <1>15 DEF RoundsAlone, MissedRoundsInEpoch

\* A round looked into was never recorded before.
LEMMA RoundAlone ==
  ASSUME TypeOK, RoundsInv, Alone, RoundsAlone, NEW r \in Runs, NEW b \in Missed,
         ProcessMissedRound(r, b) \/ MissedRoundDropped(r, b)
  PROVE  RoundsAlone'
<1>1. /\ runs[r].at = "rounds" /\ b \in runs[r].todo
      /\ RoundsLeft(r, runs[r].todo \ {b}) /\ runs[r].todo \ {b} \subseteq Missed
      /\ knownMissedRounds' = knownMissedRounds /\ head' = head
  BY DEF ProcessMissedRound, MissedRoundDropped, TypeOK, RunType
<1>2. /\ runs'[r].todo = runs[r].todo \ {b} /\ runs'[r].at # "missed"
      /\ \A q \in Runs : q # r => runs'[q] = runs[q]
  BY <1>1, RoundsLeftStep, RoundsLeftAt
<1>3. \A q \in Runs : q # r => runs[q].at = "ended" /\ runs[q].todo = {}
  BY <1>1 DEF Alone, RoundsInv, TodoOnlyInRounds
<1>4. roundLog.recorded[b] = 0 /\ b \in knownMissedRounds
  BY <1>1 DEF RoundsAlone
<1>5. /\ roundLog'.upTo = roundLog.upTo
      /\ \A c \in Missed : c # b => roundLog'.recorded[c] = roundLog.recorded[c]
      /\ roundLog'.recorded[b] <= 1
  <2>1. CASE ProcessMissedRound(r, b)
    <3>1. /\ roundLog'.recorded = [roundLog.recorded EXCEPT ![b] = @ + 1]
          /\ roundLog'.upTo = roundLog.upTo /\ roundLog.recorded \in [Missed -> Nat]
      BY <2>1 DEF ProcessMissedRound, TypeOK
    <3>2. QED
      BY <1>4, <3>1
  <2>2. CASE MissedRoundDropped(r, b)
    BY <1>4, <2>2 DEF MissedRoundDropped, TypeOK
  <2>3. QED
    BY <2>1, <2>2
<1>6. \A q \in Runs : \A c \in runs'[q].todo : c # b /\ c \in runs[q].todo /\ c \in Missed
  BY <1>1, <1>2, <1>3
<1>7. \A q \in Runs : runs'[q].at # "missed"
  BY <1>2, <1>3
<1>8. \A q \in Runs : \A c \in runs'[q].todo :
        c \in knownMissedRounds' /\ roundLog'.recorded[c] = 0
  BY <1>1, <1>5, <1>6 DEF RoundsAlone
<1>9. \A c \in Missed :
        /\ roundLog'.recorded[c] <= 1
        /\ roundLog'.recorded[c] > 0
             => c \in knownMissedRounds' \/ c < EpochStart(roundLog'.upTo)
  BY <1>1, <1>4, <1>5 DEF RoundsAlone
<1>10. QED
  BY <1>1, <1>5, <1>7, <1>8, <1>9 DEF RoundsAlone, MissedRoundsInEpoch

LEMMA RoundsAloneStep ==
  TypeOK /\ RoundsInv /\ AloneInv /\ RoundsAloneInv /\ [Next]_vars => RoundsAloneInv'
<1> SUFFICES ASSUME TypeOK, RoundsInv, AloneInv, RoundsAloneInv, [Next]_vars,
                    ~blockLog'.overlapped
             PROVE  RoundsAlone'
  BY DEF RoundsAloneInv
<1>0. Alone /\ RoundsAlone
  <2>1. blockLog.overlapped => blockLog'.overlapped
    BY DEF Next, NextBlock, ValidatorDataLoaded, MonitorMiners, LatestArrived, LatestFailed,
           MissedRoundsArrived, MissedRoundsFailed, ProcessMissedRound, MissedRoundDropped,
           BlocksArrived, vars, TypeOK
  <2>2. QED
    BY <2>1 DEF AloneInv, RoundsAloneInv
<1>1. runs \in [Runs -> RunType] /\ head \in Nat
      /\ \A q \in Runs : runs[q].at = "missed" => roundLog.upTo <= runs[q].asked
  BY <1>0 DEF TypeOK, RoundsAlone
<1>2. CASE NextBlock \/ ValidatorDataLoaded \/ UNCHANGED vars
  <2>1. UNCHANGED <<knownMissedRounds, roundLog, runs>> /\ (head' = head + 1 \/ head' = head)
    BY <1>2 DEF NextBlock, ValidatorDataLoaded, vars, chainState
  <2>2. QED
    BY <1>0, <1>1, <2>1, RoundsAloneKept
<1>3. ASSUME NEW r \in Runs, NEW run, runs' = [runs EXCEPT ![r] = run], run.todo = {},
             run.at # "missed", UNCHANGED <<head, knownMissedRounds, roundLog>>
      PROVE  RoundsAlone'
  BY <1>0, <1>1, <1>3, RoundsAloneKept
<1>4. ASSUME NEW r \in Runs, MonitorMiners(r) PROVE RoundsAlone'
  <2> DEFINE run == [Ended EXCEPT !.at = "latest", !.latest = head]
  <2>1. /\ runs' = [runs EXCEPT ![r] = run]
        /\ UNCHANGED <<head, knownMissedRounds, roundLog>>
    BY <1>4 DEF MonitorMiners, chainState
  <2>2. run.at = "latest" /\ run.todo = {}
    BY DEF Ended
  <2> HIDE DEF run
  <2>3. QED
    BY <1>3, <2>1, <2>2
<1>5. ASSUME NEW r \in Runs, LatestArrived(r) PROVE RoundsAlone'
  <2>1. UNCHANGED <<head, knownMissedRounds, roundLog>>
    BY <1>5 DEF LatestArrived, chainState
  <2>2. /\ \A q \in Runs : q # r => runs'[q] = runs[q]
        /\ runs'[r].todo \subseteq runs[r].todo
        /\ runs'[r].at = "missed" => runs'[r].asked = head
    BY <1>5, LatestArrivedRun
  <2>3. roundLog.upTo <= head
    BY <1>0 DEF RoundsAlone
  <2>4. QED
    BY <1>0, <1>1, <2>1, <2>2, <2>3, RoundsAloneKept
<1>6. ASSUME NEW r \in Runs, NEW got, LatestFailed(r) \/ BlocksArrived(r, got)
      PROVE  RoundsAlone'
  <2>1. /\ runs' = [runs EXCEPT ![r] = Ended]
        /\ UNCHANGED <<head, knownMissedRounds, roundLog>>
    BY <1>6 DEF LatestFailed, BlocksArrived, chainState
  <2>2. QED
    BY <1>3, <2>1, EndedTyped
<1>7. ASSUME NEW r \in Runs, MissedRoundsFailed(r) PROVE RoundsAlone'
  <2>1. RoundsLeft(r, {}) /\ UNCHANGED <<head, knownMissedRounds, roundLog>>
    BY <1>7 DEF MissedRoundsFailed
  <2>2. /\ runs'[r].todo = {} /\ runs'[r].at # "missed"
        /\ \A q \in Runs : q # r => runs'[q] = runs[q]
    BY <2>1, RoundsLeftStep, RoundsLeftAt
  <2>3. QED
    BY <1>0, <1>1, <2>1, <2>2, RoundsAloneKept
<1>8. ASSUME NEW r \in Runs, MissedRoundsArrived(r) PROVE RoundsAlone'
  BY <1>0, <1>8, ListAlone
<1>9. ASSUME NEW r \in Runs, NEW b \in Missed,
             ProcessMissedRound(r, b) \/ MissedRoundDropped(r, b)
      PROVE  RoundsAlone'
  BY <1>0, <1>9, RoundAlone
<1>10. ASSUME NEW r \in Runs, LatestFailed(r) PROVE RoundsAlone'
  BY <1>6, <1>10
<1>11. QED
  BY <1>2, <1>4, <1>5, <1>6, <1>7, <1>8, <1>9, <1>10 DEF Next

\* A missed round is held against its miner twice only after two runs
\* overlapped: across epochs and whatever calls fail, one run at a time never
\* takes a round of the node's list for new again.
THEOREM RoundsRecordedOnce == Spec => []RecordedOnceWithoutOverlap
<1>1. Init => RoundsInv /\ RoundsAloneInv
  <2> SUFFICES ASSUME Init PROVE RoundsInv /\ RoundsAlone
    BY DEF RoundsAloneInv
  <2>1. RoundsInv
    BY EndedTyped DEF Init, RoundsInv, KnownRoundsAccounted, TodoOnlyInRounds
  <2>2. /\ roundLog.upTo = 0 /\ \A b \in Missed : roundLog.recorded[b] = 0
        /\ knownMissedRounds = {} /\ \A r \in Runs : runs[r] = Ended
    BY DEF Init
  <2>3. MissedRoundsInEpoch(0) = {}
    <3>1. \A b \in Missed : b \in Nat /\ ~(b <= 0)
      BY MinerAssumption DEF MinerAssumption, Blocks
    <3>2. QED
      BY <3>1 DEF MissedRoundsInEpoch
  <2>4. 0 <= head
    BY TypeInit DEF TypeOK
  <2>5. QED
    BY <2>1, <2>2, <2>3, <2>4, EndedTyped DEF RoundsAlone
<1>2. RoundsAloneInv => RecordedOnceWithoutOverlap
  BY DEF RoundsAloneInv, RoundsAlone, RecordedOnceWithoutOverlap
<1>3. QED
  BY <1>1, <1>2, AloneInit, AloneStep, RoundsStep, RoundsAloneStep, MinerTypeCorrect, PTL DEF Spec
=============================================================================
