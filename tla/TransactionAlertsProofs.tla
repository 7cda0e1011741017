----------------------- MODULE TransactionAlertsProofs -----------------------
(***************************************************************************)
(* Proofs about TransactionAlerts, for every list of channels, every set   *)
(* of endpoints and any number of overlapping runs.                        *)
(***************************************************************************)
EXTENDS TransactionAlerts, FiniteSetTheorems, WellFoundedInduction, TLAPS

-----------------------------------------------------------------------------
(***************************************************************************)
(* Sendings.                                                               *)
(***************************************************************************)
Sending ==
  [text : Text, channel : 1 .. Len(Channels) + 1, request : 1 .. 6, readable : 0 .. 6,
   arrived : SUBSET {TopicId, General}]

\* What a sending has met by its request at Telegram: the third and the fourth
\* are readable whatever the text.
MetBy(s) ==
  \A i \in DOMAIN Channels : Channels[i] = "telegram" =>
    /\ s.channel < i => s.readable = 0
    /\ s.channel = i => /\ s.readable < s.request
                        /\ s.request >= 4 => s.readable >= 1
                        /\ s.request >= 5 => s.readable >= 2
    /\ s.channel > i => s.arrived # {} \/ s.readable >= 2

\* Requests are counted at Telegram only.
FirstElsewhere(s) ==
  (s.channel <= Len(Channels) /\ Channels[s.channel] = "telegram") \/ s.request = 1

SendingsOK ==
  /\ sendings \in Seq(Sending)
  /\ \A a \in DOMAIN sendings : MetBy(sendings[a]) /\ FirstElsewhere(sendings[a])

\* There are six requests, and the two plain retries carry any text.
LEMMA SixRequests ==
  /\ Len(TelegramRequests) = 6
  /\ \A r \in 1 .. 6 : TelegramRequests[r].topic \in {TopicId, General}
  /\ \A text \in Text : Readable(text, 3) /\ Readable(text, 4)
  BY DEF TelegramRequests, Readable, Text

LEMMA ChannelList ==
  /\ Len(Channels) \in Nat /\ DOMAIN Channels = 1 .. Len(Channels)
  /\ \A i, j \in DOMAIN Channels : Channels[i] = Channels[j] => i = j
  /\ \E i \in DOMAIN Channels : Channels[i] = "telegram"
  BY DeliveryAssumption

\* A new sending has met nothing.
LEMMA NewSendingOK ==
  ASSUME NEW text \in Text
  PROVE  NewSending(text) \in Sending /\ MetBy(NewSending(text)) /\ FirstElsewhere(NewSending(text))
  BY ChannelList DEF NewSending, Sending, MetBy, FirstElsewhere

\* A request elsewhere leaves what Telegram's have met.
LEMMA SendOnceOK ==
  ASSUME SendingsOK, NEW a \in DOMAIN sendings, SendOnce(a)
  PROVE  SendingsOK'
  <1> DEFINE s == sendings[a]
             t == [s EXCEPT !.channel = s.channel + 1, !.request = 1]
  <1>1. s \in Sending /\ MetBy(s) /\ FirstElsewhere(s)
    BY DEF SendingsOK
  <1>2. /\ s.channel <= Len(Channels) /\ Channels[s.channel] # "telegram"
        /\ sendings' = [sendings EXCEPT ![a] = t]
    <2>1. ~Sent(a) /\ Channels[s.channel] # "telegram" /\ NextChannel(a)
      BY DEF SendOnce
    <2>2. s.channel <= Len(Channels)
      BY <2>1, <1>1, ChannelList DEF Sent, Sending
    <2> QED
      BY <2>1, <2>2 DEF NextChannel
  <1>3. /\ t \in Sending /\ t.channel = s.channel + 1 /\ t.request = 1
        /\ t.readable = s.readable /\ t.arrived = s.arrived
    <2>1. s.channel + 1 \in 1 .. Len(Channels) + 1
      BY <1>1, <1>2, ChannelList DEF Sending
    <2>2. PICK c \in 1 .. Len(Channels) + 1 : c = s.channel + 1
      BY <2>1
    <2>3. t = [s EXCEPT !.channel = c, !.request = 1]
      BY <2>2
    <2> HIDE DEF s, t
    <2>4. t \in Sending
      <3>1. 1 \in 1 .. 6
        OBVIOUS
      <3>2. [s EXCEPT !.channel = c] \in Sending
        BY <1>1 DEF Sending
      <3>3. t = [[s EXCEPT !.channel = c] EXCEPT !.request = 1]
        BY <1>1, <2>3 DEF Sending
      <3> QED
        BY <3>1, <3>2, <3>3 DEF Sending
    <2>5. t.channel = c /\ t.request = 1 /\ t.readable = s.readable /\ t.arrived = s.arrived
      BY <1>1, <2>3 DEF Sending
    <2> QED
      BY <2>2, <2>4, <2>5
  <1> HIDE DEF t
  <1>4. MetBy(t)
    BY <1>1, <1>2, <1>3, ChannelList DEF MetBy, Sending
  <1>5. FirstElsewhere(t)
    BY <1>3 DEF FirstElsewhere
  <1> QED
    BY <1>2, <1>3, <1>4, <1>5 DEF SendingsOK

\* A request to Telegram ends: the next one, or the next channel.
LEMMA SendTelegramOK ==
  ASSUME SendingsOK, NEW a \in DOMAIN sendings, NEW arrives \in BOOLEAN, NEW answered \in BOOLEAN,
         SendTelegram(a, arrives, answered)
  PROVE  SendingsOK'
  <1> DEFINE s == sendings[a]
             readable == Readable(s.text, s.request)
             over == answered \/ s.request = Len(TelegramRequests)
             channel == IF over THEN s.channel + 1 ELSE s.channel
             request == IF over THEN 1 ELSE s.request + 1
             count == IF readable THEN s.readable + 1 ELSE s.readable
             arrived == IF arrives THEN s.arrived \cup {TelegramRequests[s.request].topic}
                        ELSE s.arrived
             t == [s EXCEPT !.channel = channel, !.request = request, !.readable = count,
                            !.arrived = arrived]
  <1>1. s \in Sending /\ MetBy(s) /\ FirstElsewhere(s)
    BY DEF SendingsOK
  <1>2. /\ s.channel \in DOMAIN Channels /\ Channels[s.channel] = "telegram"
        /\ answered => arrives
        /\ sendings' = [sendings EXCEPT ![a] = t]
    <2>1. /\ ~Sent(a)
          /\ Channels[s.channel] = "telegram"
          /\ answered => arrives
          /\ sendings' = [sendings EXCEPT ![a] =
               [s EXCEPT !.channel = IF over THEN @ + 1 ELSE @,
                         !.request = IF over THEN 1 ELSE @ + 1,
                         !.readable = IF readable THEN @ + 1 ELSE @,
                         !.arrived = IF arrives THEN @ \cup {TelegramRequests[s.request].topic}
                                     ELSE @]]
      BY DEF SendTelegram
    <2>2. s.channel \in DOMAIN Channels
      <3>1. s.channel \in 1 .. Len(Channels) + 1 /\ Len(Channels) \in Nat
        BY <1>1, ChannelList DEF Sending
      <3>2. ~(s.channel > Len(Channels))
        BY <2>1 DEF Sent
      <3> QED
        BY <3>1, <3>2, ChannelList
    <2> QED
      BY <2>1, <2>2
  <1>3. /\ s.readable < s.request
        /\ s.request >= 4 => s.readable >= 1
        /\ s.request >= 5 => s.readable >= 2
    BY <1>1, <1>2 DEF MetBy
  <1>4. s.request \in {3, 4} => readable
    BY <1>1, SixRequests DEF Sending
  <1>5. over <=> (answered \/ s.request = 6)
    BY SixRequests
  <1> HIDE DEF over, readable
  <1>6. channel \in 1 .. Len(Channels) + 1 /\ request \in 1 .. 6 /\ count \in 0 .. 6
    <2>1. /\ s.channel \in 1 .. Len(Channels) /\ Len(Channels) \in Nat
          /\ s.request \in 1 .. 6 /\ s.readable \in 0 .. 6
      BY <1>1, <1>2, ChannelList DEF Sending
    <2>2. channel \in 1 .. Len(Channels) + 1
      BY <2>1
    <2>3. request \in 1 .. 6
      <3>1. CASE over
        BY <3>1
      <3>2. CASE ~over
        <4>1. s.request + 1 \in 1 .. 6
          BY <2>1, <3>2, <1>5
        <4> QED BY <3>2, <4>1
      <3> QED BY <3>1, <3>2
    <2>4. s.readable + 1 \in 0 .. 6
      BY <2>1, <1>3
    <2> QED
      BY <2>1, <2>2, <2>3, <2>4
  <1>7. arrived \in SUBSET {TopicId, General} /\ (arrives => arrived # {})
    BY <1>1, SixRequests DEF Sending
  <1> HIDE DEF channel, request, count, arrived
  <1>8. /\ t \in Sending /\ t.channel = channel /\ t.request = request
        /\ t.readable = count /\ t.arrived = arrived
    <2> HIDE DEF s
    <2> QED
      BY <1>1, <1>6, <1>7 DEF Sending
  <1> HIDE DEF t
  <1>9. MetBy(t)
    <2> SUFFICES ASSUME NEW i \in DOMAIN Channels, Channels[i] = "telegram"
                 PROVE  /\ t.channel < i => t.readable = 0
                        /\ t.channel = i => /\ t.readable < t.request
                                            /\ t.request >= 4 => t.readable >= 1
                                            /\ t.request >= 5 => t.readable >= 2
                        /\ t.channel > i => t.arrived # {} \/ t.readable >= 2
      BY DEF MetBy
    <2>1. s.channel = i /\ i \in Nat
      BY <1>2, ChannelList
    <2>2. CASE over
      <3>1. t.channel = i + 1 /\ ~(t.channel < i) /\ t.channel # i
        BY <2>1, <2>2, <1>8 DEF channel
      <3>2. t.arrived # {} \/ t.readable >= 2
        BY <2>2, <1>1, <1>2, <1>3, <1>5, <1>7, <1>8 DEF Sending, count
      <3> QED BY <3>1, <3>2
    <2>3. CASE ~over
      BY <2>1, <2>3, <1>1, <1>3, <1>4, <1>8 DEF Sending, channel, request, count
    <2> QED BY <2>2, <2>3
  <1>10. FirstElsewhere(t)
    BY <1>2, <1>8, ChannelList DEF FirstElsewhere, channel, request
  <1> QED
    BY <1>2, <1>8, <1>9, <1>10 DEF SendingsOK

\* The sendings of every step.
LEMMA SendingsKept ==
  ASSUME SendingsOK, [Next]_vars
  PROVE  SendingsOK'
  <1>1. CASE UNCHANGED sendings
    BY <1>1 DEF SendingsOK
  <1>2. CASE \E text \in Text : sendings' = Append(sendings, NewSending(text))
    <2>1. PICK text \in Text : sendings' = Append(sendings, NewSending(text))
      BY <1>2
    <2>2. PICK t \in Sending : t = NewSending(text) /\ MetBy(t) /\ FirstElsewhere(t)
      BY NewSendingOK
    <2>3. sendings' \in Seq(Sending)
      BY <2>1, <2>2 DEF SendingsOK
    <2>4. \A a \in DOMAIN sendings' :
            sendings'[a] = t \/ (a \in DOMAIN sendings /\ sendings'[a] = sendings[a])
      BY <2>1, <2>2 DEF SendingsOK
    <2> QED
      BY <2>2, <2>3, <2>4 DEF SendingsOK
  <1>3. CASE DeliveryNext
    BY <1>3, SendOnceOK, SendTelegramOK DEF DeliveryNext
  <1> QED
    BY <1>1, <1>2, <1>3 DEF Next, RunEnds, AllOver, vars

\* Whatever its text breaks, an alert that was sent and did not arrive met at
\* least two requests Telegram could have accepted (alert-manager.ts:263-548),
\* for every configuration that has Telegram.
THEOREM AlertsLostOnlyByTheNetwork == Spec => []LostOnlyByTheNetwork
  <1>1. Init => SendingsOK
    BY DEF Init, DeliveryInit, SendingsOK
  <1>2. SendingsOK /\ [Next]_vars => SendingsOK'
    BY SendingsKept
  <1>3. SendingsOK => LostOnlyByTheNetwork
    <2> SUFFICES ASSUME SendingsOK, NEW a \in DOMAIN sendings, Sent(a), sendings[a].arrived = {}
                 PROVE  sendings[a].readable >= 2
      BY DEF LostOnlyByTheNetwork
    <2>1. sendings[a] \in Sending /\ MetBy(sendings[a])
      BY DEF SendingsOK
    <2>2. PICK i \in DOMAIN Channels : Channels[i] = "telegram"
      BY ChannelList
    <2>3. sendings[a].channel > i
      BY <2>1, ChannelList DEF Sent, Sending
    <2> QED
      BY <2>1, <2>2, <2>3 DEF MetBy
  <1> QED
    BY <1>1, <1>2, <1>3, PTL DEF Spec
-----------------------------------------------------------------------------
(***************************************************************************)
(* Test runs.                                                              *)
(***************************************************************************)
Phase == {"balance", "checked", "next", "sent", "poll", "asked", "over"}
Run ==
  [phase : Phase, queue : SUBSET DOMAIN TestProviders, total : Nat, contract : BOOLEAN,
   attempt : Nat, failedCount : Nat, failures : [BOOLEAN -> Nat], tries : Nat]

\* Twice the tries of a series of polls of which k attempts are left.
Triangle(k) == k * (k + 1)

\* The tries made and those that are left, in this attempt and in the ones to
\* come, are the most tries; and every failure counted so far was a try.
TriesAt(phase, attempt, failedCount, tries) ==
  LET due == MAX_FAILURES - failedCount
      rest == Triangle(MAX_FAILURES - attempt - 1)
      all == Triangle(MAX_FAILURES)
  IN  /\ attempt <= failedCount /\ failedCount < MAX_FAILURES
      /\ phase \notin {"poll", "asked"} => attempt = 0 /\ failedCount = 0 /\ tries = 0
      /\ phase = "poll" => failedCount <= tries /\ 2 * tries + 2 * due + rest <= all
      /\ phase = "asked" => failedCount + 1 <= tries /\ 2 * tries + 2 * (due - 1) + rest <= all

TriesOK(run) == TriesAt(run.phase, run.attempt, run.failedCount, run.tries)

\* Failures counted and tests to come are no more than the run's tests.
CountsOK(run) ==
  /\ run.failures[TRUE] + Cardinality(run.queue) <= run.total
  /\ ~run.contract => run.failures[FALSE] + Cardinality(run.queue) <= run.total
  /\ run.contract => run.failures[FALSE] + Cardinality(run.queue) <= run.total + 1

PhaseOK(run) ==
  /\ run.phase \in {"balance", "checked"} => run.queue = {} /\ run.failures = NoFailures
  /\ run.phase \in {"sent", "poll", "asked"} => run.queue # {}
  /\ run.contract => run.queue # {}

RunOK(run) == PhaseOK(run) /\ TriesOK(run) /\ CountsOK(run)

\* A run that has endpoints to test found a balance: if there is none any more,
\* another run's check cleared it.
FundedBy(run, r, balance, cleared) ==
  run.queue # {} /\ ~balance => cleared # 0 /\ cleared # r

TestsInv ==
  /\ hasBalance \in BOOLEAN /\ nextCron \in Nat /\ nextCron >= StartTime
  /\ testRuns \in Seq(Run)
  /\ \A r \in DOMAIN testRuns :
       RunOK(testRuns[r]) /\ FundedBy(testRuns[r], r, hasBalance, clearedBy)

-----------------------------------------------------------------------------
\* What a try takes from the tries that are left.
LEMMA TriangleSteps ==
  /\ \A k \in Nat : Triangle(k) \in Nat /\ Triangle(k) >= 2 * k
  /\ \A k \in Nat \ {0} : Triangle(k) = 2 * k + Triangle(k - 1)
  <1>1. ASSUME NEW k \in Nat PROVE k * (k + 1) \in Nat /\ k * (k + 1) >= 2 * k
    <2>1. CASE k = 0
      BY <2>1
    <2>2. CASE k >= 1
      <3>1. k * (k + 1) = k * k + k /\ k * k >= k
        BY <2>2
      <3> QED BY <3>1
    <2> QED BY <2>1, <2>2
  <1>2. ASSUME NEW k \in Nat \ {0} PROVE k * (k + 1) = 2 * k + (k - 1) * ((k - 1) + 1)
    OBVIOUS
  <1> QED BY <1>1, <1>2 DEF Triangle

LEMMA MaxTriesIs ==
  /\ MAX_FAILURES \in Nat /\ MAX_FAILURES >= 1
  /\ MaxTries \in Nat /\ MAX_FAILURES <= MaxTries
  /\ \A n \in Nat : 2 * n <= Triangle(MAX_FAILURES) => n <= MaxTries
  <1> DEFINE all == Triangle(MAX_FAILURES)
  <1>1. MAX_FAILURES \in Nat /\ MAX_FAILURES >= 1
    BY TestsAssumption
  <1>2. all \in Nat /\ all >= 2 * MAX_FAILURES /\ MaxTries = all \div 2
    BY <1>1, TriangleSteps DEF MaxTries, Triangle
  <1> HIDE DEF all
  <1>3. MaxTries \in Nat /\ \A n \in Nat : 2 * n <= all => n <= MaxTries
    BY <1>2
  <1> QED BY <1>1, <1>2, <1>3 DEF all

\* The bounds the module states, from what the runs keep.
LEMMA RunBounds ==
  ASSUME NEW run \in Run, RunOK(run)
  PROVE  /\ \A c \in BOOLEAN : run.failures[c] <= run.total
         /\ run.tries <= MaxTries
         /\ run.phase \in {"poll", "asked"} => 2 * run.tries <= Triangle(MAX_FAILURES)
  <1> DEFINE size == Cardinality(run.queue)
             contracts == run.failures[TRUE]
             transactions == run.failures[FALSE]
  <1>1. run.queue \in SUBSET (1 .. Len(TestProviders)) /\ Len(TestProviders) \in Nat
    BY TestsAssumption DEF Run
  <1>2. IsFiniteSet(run.queue) /\ size \in Nat
    <2>1. IsFiniteSet(1 .. Len(TestProviders))
      BY <1>1, FS_Interval
    <2>2. IsFiniteSet(run.queue)
      BY <1>1, <2>1, FS_Subset
    <2> QED BY <2>2, FS_CardinalityType
  <1>3. run.queue # {} => size >= 1
    BY <1>2, FS_EmptySet
  <1>4. /\ run.total \in Nat /\ contracts \in Nat /\ transactions \in Nat
        /\ run.tries \in Nat /\ run.attempt \in Nat /\ run.failedCount \in Nat
    BY DEF Run
  <1>5. /\ contracts + size <= run.total
        /\ run.contract => transactions + size <= run.total + 1
        /\ ~run.contract => transactions + size <= run.total
        /\ run.contract => run.queue # {}
    BY DEF RunOK, CountsOK, PhaseOK
  <1> HIDE DEF size, contracts, transactions
  <1>6. contracts <= run.total /\ transactions <= run.total
    <2>1. CASE run.contract
      BY <2>1, <1>2, <1>3, <1>4, <1>5
    <2>2. CASE ~run.contract
      BY <2>2, <1>2, <1>3, <1>4, <1>5
    <2> QED BY <2>1, <2>2
  <1>7. run.phase \in {"poll", "asked"} => 2 * run.tries <= Triangle(MAX_FAILURES)
    <2> DEFINE due == MAX_FAILURES - run.failedCount
               left == MAX_FAILURES - run.attempt - 1
               rest == Triangle(left)
               all == Triangle(MAX_FAILURES)
    <2>1. due \in Nat /\ due >= 1 /\ left \in Nat
      BY <1>4, MaxTriesIs DEF RunOK, TriesOK, TriesAt
    <2>2. rest \in Nat /\ all \in Nat
      BY <2>1, MaxTriesIs, TriangleSteps
    <2>3. /\ run.phase = "poll" => 2 * run.tries + 2 * due + rest <= all
          /\ run.phase = "asked" => 2 * run.tries + 2 * (due - 1) + rest <= all
      BY DEF RunOK, TriesOK, TriesAt
    <2> HIDE DEF due, rest, all
    <2>4. run.phase \in {"poll", "asked"} => 2 * run.tries <= all
      BY <1>4, <2>1, <2>2, <2>3
    <2> QED BY <2>4 DEF all
  <1>8. run.tries <= MaxTries
    BY <1>4, <1>7, MaxTriesIs DEF RunOK, TriesOK, TriesAt
  <1> QED BY <1>6, <1>7, <1>8 DEF contracts, transactions
-----------------------------------------------------------------------------
\* One run changes; whether the others are funded is for the step to say.
LEMMA RunReplaced ==
  ASSUME TestsInv, NEW r \in DOMAIN testRuns, NEW t \in Run, RunOK(t),
         testRuns' = [testRuns EXCEPT ![r] = t],
         hasBalance' \in BOOLEAN, nextCron' = nextCron,
         FundedBy(t, r, hasBalance', clearedBy'),
         \A q \in DOMAIN testRuns : q # r => FundedBy(testRuns[q], q, hasBalance', clearedBy')
  PROVE  TestsInv'
  <1>1. testRuns' \in Seq(Run) /\ DOMAIN testRuns' = DOMAIN testRuns
    BY DEF TestsInv
  <1>2. testRuns'[r] = t /\ \A q \in DOMAIN testRuns : q # r => testRuns'[q] = testRuns[q]
    BY DEF TestsInv
  <1>3. \A q \in DOMAIN testRuns :
          RunOK(testRuns'[q]) /\ FundedBy(testRuns'[q], q, hasBalance', clearedBy')
    BY <1>2 DEF TestsInv
  <1> QED BY <1>1, <1>3 DEF TestsInv

\* A run changes and the wallet does not: no run becomes unfunded unless it
\* takes endpoints without a balance.
LEMMA RunMoves ==
  ASSUME TestsInv, NEW r \in DOMAIN testRuns, NEW t \in Run, RunOK(t),
         t.queue # {} => testRuns[r].queue # {} \/ hasBalance,
         testRuns' = [testRuns EXCEPT ![r] = t],
         UNCHANGED <<hasBalance, nextCron, clearedBy>>
  PROVE  TestsInv'
  <1>1. \A q \in DOMAIN testRuns : FundedBy(testRuns[q], q, hasBalance', clearedBy')
    BY DEF TestsInv, FundedBy
  <1>2. FundedBy(t, r, hasBalance', clearedBy')
    BY <1>1 DEF FundedBy
  <1> QED BY <1>1, <1>2, RunReplaced DEF TestsInv

\* A run with another phase and other counts of its polls.
Moved(run, phase, attempt, failedCount, tries) ==
  [run EXCEPT !.phase = phase, !.attempt = attempt, !.failedCount = failedCount, !.tries = tries]

LEMMA MovedIs ==
  ASSUME NEW run \in Run, NEW p \in Phase, NEW a \in Nat, NEW f \in Nat, NEW n \in Nat,
         NEW t, t = Moved(run, p, a, f, n)
  PROVE  /\ t \in Run
         /\ t.phase = p /\ t.attempt = a /\ t.failedCount = f /\ t.tries = n
         /\ t.queue = run.queue /\ t.total = run.total /\ t.contract = run.contract
         /\ t.failures = run.failures
  BY DEF Moved, Run

LEMMA PollMoves ==
  ASSUME TestsInv, NEW r \in DOMAIN testRuns,
         NEW p \in Phase, NEW a \in Nat, NEW f \in Nat, NEW n \in Nat, NEW t,
         t = Moved(testRuns[r], p, a, f, n),
         p \notin {"balance", "checked"}, testRuns[r].queue # {}, TriesAt(p, a, f, n),
         testRuns' = [testRuns EXCEPT ![r] = t],
         UNCHANGED <<hasBalance, nextCron, clearedBy>>
  PROVE  TestsInv'
  <1> DEFINE s == testRuns[r]
  <1>1. s \in Run /\ RunOK(s)
    BY DEF TestsInv
  <1>2. /\ t \in Run
        /\ t.phase = p /\ t.attempt = a /\ t.failedCount = f /\ t.tries = n
        /\ t.queue = s.queue /\ t.total = s.total /\ t.contract = s.contract
        /\ t.failures = s.failures
    BY <1>1, MovedIs
  <1>3. CountsOK(t)
    BY <1>1, <1>2 DEF RunOK, CountsOK
  <1>4. PhaseOK(t)
    BY <1>2 DEF PhaseOK
  <1>5. RunOK(t)
    BY <1>2, <1>3, <1>4 DEF RunOK, TriesOK
  <1> QED BY <1>2, <1>5, RunMoves

-----------------------------------------------------------------------------
\* A non-empty set of natural numbers has a least element.
LEMMA LeastExists ==
  ASSUME NEW S, S \subseteq Nat, S # {}
  PROVE  \E x \in S : \A y \in S : x <= y
  <1>1. PICK x \in S : \A y \in S : ~(<<y, x>> \in OpToRel(<, Nat))
    BY WFMin, NatLessThanWellFounded
  <1>2. \A y \in S : ~(y < x)
    BY <1>1 DEF OpToRel
  <1> QED BY <1>2

\* The endpoint in turn is one of the queue.
LEMMA HeadOfQueue ==
  ASSUME NEW run \in Run, run.queue # {}
  PROVE  /\ Min(run.queue) \in run.queue
         /\ IsFiniteSet(run.queue) /\ Cardinality(run.queue) \in Nat
         /\ Cardinality(run.queue \ {Min(run.queue)}) = Cardinality(run.queue) - 1
         /\ run.queue \ {Min(run.queue)} \in SUBSET DOMAIN TestProviders
  <1>1. run.queue \in SUBSET (1 .. Len(TestProviders)) /\ Len(TestProviders) \in Nat
    BY TestsAssumption DEF Run
  <1>2. run.queue \subseteq Nat
    BY <1>1
  <1>3. \E x \in run.queue : \A y \in run.queue : x <= y
    BY <1>2, LeastExists
  <1>4. Min(run.queue) \in run.queue
    BY <1>3 DEF Min
  <1>5. IsFiniteSet(run.queue)
    <2>1. IsFiniteSet(1 .. Len(TestProviders))
      BY <1>1, FS_Interval
    <2> QED BY <1>1, <2>1, FS_Subset
  <1>6. Cardinality(run.queue) \in Nat
    BY <1>5, FS_CardinalityType
  <1>7. Cardinality(run.queue \ {Min(run.queue)}) = Cardinality(run.queue) - 1
    BY <1>4, <1>5, FS_RemoveElement
  <1> QED BY <1>4, <1>5, <1>6, <1>7 DEF Run

\* A test is over, failed or not.
LEMMA TestOverOK ==
  ASSUME TestsInv, NEW r \in DOMAIN testRuns, testRuns[r].phase \notin {"balance", "checked"},
         testRuns[r].queue # {}, NEW failed \in BOOLEAN, testRuns' = TestOver(r, failed),
         UNCHANGED <<hasBalance, nextCron, clearedBy>>
  PROVE  TestsInv'
  <1> DEFINE s == testRuns[r]
             c == s.contract
             count == s.failures[c]
             failures == [s.failures EXCEPT ![c] = IF failed THEN count + 1 ELSE count]
             queue == IF c THEN s.queue \ {Min(s.queue)} ELSE s.queue
             phase == "next"
             zero == 0
             other == ~c
             t == [s EXCEPT !.phase = phase, !.queue = queue, !.contract = other,
                            !.attempt = zero, !.failedCount = zero, !.tries = zero,
                            !.failures = failures]
  <1>1. s \in Run /\ RunOK(s) /\ s.queue # {}
    BY DEF TestsInv
  <1>2. /\ c \in BOOLEAN /\ s.failures \in [BOOLEAN -> Nat] /\ s.total \in Nat
        /\ s.queue \in SUBSET DOMAIN TestProviders
    BY <1>1 DEF Run
  <1>3. testRuns' = [testRuns EXCEPT ![r] = t]
    BY DEF TestOver
  <1>4. /\ phase \in Phase /\ zero \in Nat /\ other \in BOOLEAN
        /\ failures \in [BOOLEAN -> Nat] /\ queue \in SUBSET DOMAIN TestProviders
    <2>1. queue \in SUBSET DOMAIN TestProviders
      BY <1>1, <1>2, HeadOfQueue
    <2>2. failures \in [BOOLEAN -> Nat]
      BY <1>2
    <2> QED BY <1>2, <2>1, <2>2 DEF Phase
  <1>5. /\ failures[c] = (IF failed THEN count + 1 ELSE count)
        /\ \A d \in BOOLEAN : d # c => failures[d] = s.failures[d]
    BY <1>2
  <1>6. /\ c => queue = s.queue \ {Min(s.queue)}
        /\ ~c => queue = s.queue
    OBVIOUS
  <1>7. (c => ~other) /\ (~c => other)
    OBVIOUS
  <1> HIDE DEF s, failures, queue, phase, zero, other, c, count
  <1>8. /\ t \in Run
        /\ t.phase = phase /\ t.queue = queue /\ t.contract = other
        /\ t.attempt = zero /\ t.failedCount = zero /\ t.tries = zero
        /\ t.failures = failures /\ t.total = s.total
    BY <1>1, <1>4 DEF Run
  <1> HIDE DEF t
  <1>9. TriesOK(t)
    BY <1>8, MaxTriesIs DEF TriesOK, TriesAt, phase, zero
  <1>10. PhaseOK(t)
    <2>1. t.contract => t.queue # {}
      BY <1>1, <1>6, <1>7, <1>8
    <2> QED BY <1>8, <2>1 DEF PhaseOK, phase
  <1>11. CountsOK(t)
    <2> DEFINE yes == TRUE
               no == FALSE
               size == Cardinality(s.queue)
               left == Cardinality(queue)
    <2>1. yes \in BOOLEAN /\ no \in BOOLEAN /\ yes # no /\ (c <=> c = yes) /\ (~c <=> c = no)
      BY <1>2
    <2>2. /\ s.failures[yes] + size <= s.total
          /\ ~c => s.failures[no] + size <= s.total
          /\ c => s.failures[no] + size <= s.total + 1
      BY <1>1 DEF RunOK, CountsOK, c
    <2>3. size \in Nat /\ (c => left = size - 1) /\ (~c => left = size)
      BY <1>1, <1>6, HeadOfQueue
    <2> HIDE DEF yes, no, size, left
    <2>4. /\ s.failures[yes] \in Nat /\ s.failures[no] \in Nat /\ s.total \in Nat
          /\ failures[yes] \in Nat /\ failures[no] \in Nat
      BY <1>2, <1>4, <2>1
    <2>5. CASE c
      <3>1. failures[no] = s.failures[no] /\ failures[yes] <= s.failures[yes] + 1
        <4>1. no # c /\ c = yes
          BY <2>1, <2>5
        <4>2. failures[no] = s.failures[no]
          BY <1>5, <2>1, <4>1
        <4>3. failures[yes] = IF failed THEN s.failures[yes] + 1 ELSE s.failures[yes]
          BY <1>5, <4>1 DEF count
        <4> QED BY <2>4, <4>2, <4>3
      <3>2. failures[yes] + left <= s.total /\ failures[no] + left <= s.total
        BY <2>2, <2>3, <2>4, <2>5, <3>1
      <3> QED BY <1>7, <1>8, <2>5, <3>2 DEF CountsOK, yes, no, left
    <2>6. CASE ~c
      <3>1. failures[yes] = s.failures[yes] /\ failures[no] <= s.failures[no] + 1
        BY <1>5, <2>1, <2>4, <2>6 DEF count
      <3>2. failures[yes] + left <= s.total /\ failures[no] + left <= s.total + 1
        BY <2>2, <2>3, <2>4, <2>6, <3>1
      <3> QED BY <1>7, <1>8, <2>6, <3>2 DEF CountsOK, yes, no, left
    <2> QED BY <2>5, <2>6
  <1>12. t.queue # {} => testRuns[r].queue # {}
    BY <1>1 DEF s
  <1> QED BY <1>3, <1>8, <1>9, <1>10, <1>11, <1>12, RunMoves DEF RunOK
-----------------------------------------------------------------------------
\* What a run gives that is at its polls.
LEMMA RunIs ==
  ASSUME TestsInv, NEW r \in DOMAIN testRuns, NEW s, s = testRuns[r]
  PROVE  /\ s \in Run /\ RunOK(s)
         /\ s.attempt \in Nat /\ s.failedCount \in Nat /\ s.tries \in Nat
         /\ s.attempt <= s.failedCount /\ s.failedCount < MAX_FAILURES
         /\ s.phase \in {"sent", "poll", "asked"} => s.queue # {}
         /\ testRuns \in Seq(Run)
  <1>1. testRuns \in Seq(Run) /\ s \in Run /\ RunOK(s)
    BY DEF TestsInv
  <1>2. s.attempt \in Nat /\ s.failedCount \in Nat /\ s.tries \in Nat
    BY <1>1 DEF Run
  <1>3. /\ s.attempt <= s.failedCount /\ s.failedCount < MAX_FAILURES
        /\ s.phase \in {"sent", "poll", "asked"} => s.queue # {}
    BY <1>1 DEF RunOK, TriesOK, TriesAt, PhaseOK
  <1> QED BY <1>1, <1>2, <1>3

\* Sending begins, or the wallet is empty.
LEMMA RunTransactionTestOK ==
  ASSUME TestsInv, NEW r \in DOMAIN testRuns, RunTransactionTest(r)
  PROVE  TestsInv'
  <1> DEFINE s == testRuns[r]
  <1>1. s.phase = "next" /\ s.queue # {} /\ UNCHANGED <<hasBalance, nextCron, clearedBy>>
    BY DEF RunTransactionTest
  <1>2. CASE ~hasBalance
    <2>1. testRuns' = TestOver(r, TRUE)
      BY <1>2 DEF RunTransactionTest, TestFails
    <2> QED BY <1>1, <2>1, TestOverOK
  <1>3. CASE hasBalance
    <2> DEFINE p == "sent"
               t == Moved(s, p, s.attempt, s.failedCount, s.tries)
    <2>1. testRuns' = [testRuns EXCEPT ![r].phase = p]
      BY <1>3 DEF RunTransactionTest
    <2>2. p \in Phase /\ p \notin {"balance", "checked"}
      BY DEF Phase
    <2>3. s \in Run /\ s.attempt \in Nat /\ s.failedCount \in Nat /\ s.tries \in Nat /\ TriesOK(s)
      BY RunIs DEF RunOK
    <2>4. t = [s EXCEPT !.phase = p]
      BY <2>3 DEF Moved, Run
    <2>5. testRuns' = [testRuns EXCEPT ![r] = t]
      BY <2>1, <2>4
    <2>6. TriesAt(p, s.attempt, s.failedCount, s.tries)
      BY <1>1, <2>3 DEF TriesOK, TriesAt
    <2> HIDE DEF t, p
    <2> QED BY <1>1, <2>2, <2>3, <2>5, <2>6, PollMoves DEF t
  <1> QED BY <1>2, <1>3

\* The transaction was refused, or is mined and will be polled for.
LEMMA SendEndsOK ==
  ASSUME TestsInv, NEW r \in DOMAIN testRuns, NEW mined \in BOOLEAN, SendEnds(r, mined)
  PROVE  TestsInv'
  <1> DEFINE s == testRuns[r]
  <1>1. s.phase = "sent" /\ s.queue # {} /\ UNCHANGED <<hasBalance, nextCron, clearedBy>>
    BY RunIs DEF SendEnds
  <1>2. CASE ~mined
    <2>1. testRuns' = TestOver(r, TRUE)
      BY <1>2 DEF SendEnds, TestFails
    <2> QED BY <1>1, <2>1, TestOverOK
  <1>3. CASE mined
    <2> DEFINE p == "poll"
               t == Moved(s, p, s.attempt, s.failedCount, s.tries)
    <2>1. testRuns' = [testRuns EXCEPT ![r].phase = p]
      BY <1>3 DEF SendEnds
    <2>2. p \in Phase /\ p \notin {"balance", "checked"}
      BY DEF Phase
    <2>3. s \in Run /\ s.attempt \in Nat /\ s.failedCount \in Nat /\ s.tries \in Nat /\ TriesOK(s)
      BY RunIs DEF RunOK
    <2>4. t = [s EXCEPT !.phase = p]
      BY <2>3 DEF Moved, Run
    <2>5. testRuns' = [testRuns EXCEPT ![r] = t]
      BY <2>1, <2>4
    <2>6. TriesAt(p, s.attempt, s.failedCount, s.tries)
      <3>1. s.attempt = 0 /\ s.failedCount = 0 /\ s.tries = 0
        BY <1>1, <2>3 DEF TriesOK, TriesAt
      <3>2. /\ Triangle(MAX_FAILURES) = 2 * MAX_FAILURES + Triangle(MAX_FAILURES - 1)
            /\ Triangle(MAX_FAILURES) \in Nat /\ Triangle(MAX_FAILURES - 1) \in Nat
        BY TriangleSteps, MaxTriesIs
      <3> QED BY <3>1, <3>2, MaxTriesIs DEF TriesAt
    <2> HIDE DEF t, p
    <2> QED BY <1>1, <2>2, <2>3, <2>5, <2>6, PollMoves DEF t
  <1> QED BY <1>2, <1>3

\* A try is made.
LEMMA AskForTransactionOK ==
  ASSUME TestsInv, NEW r \in DOMAIN testRuns, AskForTransaction(r)
  PROVE  TestsInv'
  <1> DEFINE s == testRuns[r]
             p == "asked"
             n == s.tries + 1
             t == Moved(s, p, s.attempt, s.failedCount, n)
  <1>1. /\ s.phase = "poll" /\ s.queue # {} /\ UNCHANGED <<hasBalance, nextCron, clearedBy>>
        /\ testRuns' = [testRuns EXCEPT ![r].phase = p,
                                        ![r].tries = IF s.tries > MaxTries THEN s.tries ELSE n]
    BY RunIs DEF AskForTransaction
  <1>2. p \in Phase /\ p \notin {"balance", "checked"}
    BY DEF Phase
  <1>3. /\ s \in Run /\ RunOK(s) /\ TriesOK(s)
        /\ s.attempt \in Nat /\ s.failedCount \in Nat /\ s.tries \in Nat /\ n \in Nat
    BY RunIs DEF RunOK
  <1>4. s.tries <= MaxTries
    BY <1>3, RunBounds
  <1>5. testRuns' = [testRuns EXCEPT ![r].phase = p, ![r].tries = n]
    <2>1. (IF s.tries > MaxTries THEN s.tries ELSE n) = n
      BY <1>3, <1>4, MaxTriesIs
    <2> QED BY <1>1, <2>1
  <1>6. t = [s EXCEPT !.phase = p, !.tries = n]
    <2> HIDE DEF p, n, s
    <2> QED BY <1>3 DEF Moved, Run
  <1>7. testRuns' = [testRuns EXCEPT ![r] = t]
    <2> HIDE DEF t
    <2> QED BY <1>3, <1>5, <1>6, RunIs
  <1>8. TriesAt(p, s.attempt, s.failedCount, n)
    <2> DEFINE due == MAX_FAILURES - s.failedCount
               rest == Triangle(MAX_FAILURES - s.attempt - 1)
               all == Triangle(MAX_FAILURES)
    <2>1. s.failedCount <= s.tries /\ 2 * s.tries + 2 * due + rest <= all
      BY <1>1, <1>3 DEF TriesOK, TriesAt
    <2>2. s.attempt <= s.failedCount /\ s.failedCount < MAX_FAILURES
      BY <1>3 DEF TriesOK, TriesAt
    <2>3. MAX_FAILURES \in Nat /\ MAX_FAILURES - s.attempt - 1 \in Nat
      BY <1>3, <2>2, MaxTriesIs
    <2>4. rest \in Nat /\ all \in Nat
      BY <2>3, TriangleSteps
    <2> HIDE DEF rest, all
    <2>5. s.failedCount + 1 <= n /\ 2 * n + 2 * (due - 1) + rest <= all
      BY <1>3, <2>1, <2>2, <2>3, <2>4
    <2> QED BY <2>2, <2>5 DEF TriesAt, rest, all
  <1> HIDE DEF t, p, n
  <1> QED BY <1>1, <1>2, <1>3, <1>7, <1>8, PollMoves DEF t

\* The attempt ends without a verdict.  The series of polls was full when it was
\* the last one.
LEMMA NextAttemptOK ==
  ASSUME TestsInv, NEW r \in DOMAIN testRuns, testRuns[r].phase = "asked", NextAttempt(r),
         UNCHANGED <<hasBalance, nextCron, clearedBy>>
  PROVE  /\ TestsInv'
         /\ failedTest' = None \/ failedTest'.cause # "unseen"
              \/ failedTest'.tries \in MAX_FAILURES .. MaxTries
  <1> DEFINE s == testRuns[r]
             p == "poll"
             a == s.attempt + 1
             t == Moved(s, p, a, a, s.tries)
  <1>1. s.queue # {} /\ s.phase = "asked"
    BY RunIs
  <1>2. /\ s \in Run /\ RunOK(s) /\ TriesOK(s)
        /\ s.attempt \in Nat /\ s.failedCount \in Nat /\ s.tries \in Nat /\ a \in Nat
    BY RunIs DEF RunOK
  <1>3. /\ s.attempt <= s.failedCount /\ s.failedCount < MAX_FAILURES
        /\ s.failedCount + 1 <= s.tries
        /\ 2 * s.tries + 2 * ((MAX_FAILURES - s.failedCount) - 1)
             + Triangle(MAX_FAILURES - s.attempt - 1) <= Triangle(MAX_FAILURES)
    BY <1>1, <1>2 DEF TriesOK, TriesAt
  <1>4. CASE a >= MAX_FAILURES
    <2>1. TestFails(r, "unseen")
      BY <1>4, <1>2, MaxTriesIs DEF NextAttempt
    <2>2. testRuns' = TestOver(r, TRUE) /\ failedTest'.tries = s.tries
      BY <2>1 DEF TestFails
    <2>3. s.tries \in MAX_FAILURES .. MaxTries
      <3>1. s.tries <= MaxTries
        BY <1>2, RunBounds
      <3> QED BY <1>2, <1>3, <1>4, <3>1, MaxTriesIs
    <2>4. TestsInv'
      BY <1>1, <2>2, TestOverOK
    <2> QED BY <2>2, <2>3, <2>4
  <1>5. CASE ~(a >= MAX_FAILURES)
    <2>1. /\ testRuns' = [testRuns EXCEPT ![r].phase = p, ![r].attempt = a, ![r].failedCount = a]
          /\ failedTest' = None
      BY <1>5, <1>2, MaxTriesIs DEF NextAttempt, NoTestFails
    <2>2. p \in Phase /\ p \notin {"balance", "checked"}
      BY DEF Phase
    <2>3. t = [s EXCEPT !.phase = p, !.attempt = a, !.failedCount = a]
      <3> HIDE DEF p, a, s
      <3> QED BY <1>2 DEF Moved, Run
    <2>4. testRuns' = [testRuns EXCEPT ![r] = t]
      <3> HIDE DEF t
      <3> QED BY <1>2, <2>1, <2>3, RunIs
    <2>5. TriesAt(p, a, a, s.tries)
      <3> DEFINE k == MAX_FAILURES - s.attempt - 1
                 due == MAX_FAILURES - s.failedCount
                 all == Triangle(MAX_FAILURES)
                 rest == Triangle(k)
                 less == Triangle(k - 1)
      <3>1. k \in Nat \ {0} /\ MAX_FAILURES \in Nat /\ due \in Nat /\ due >= 1
        BY <1>2, <1>3, <1>5, MaxTriesIs
      <3>2. rest = 2 * k + less /\ less \in Nat /\ all \in Nat
        <4> HIDE DEF k
        <4>1. k - 1 \in Nat
          BY <3>1
        <4> QED BY <3>1, <4>1, TriangleSteps
      <3>3. 2 * s.tries + 2 * (due - 1) + rest <= all
        BY <1>3
      <3>4. k - 1 = MAX_FAILURES - a - 1 /\ MAX_FAILURES - a = k
        BY <1>2, <3>1
      <3> HIDE DEF due, all, rest, less
      <3>5. 2 * s.tries + 2 * k + less <= all
        <4> HIDE DEF k
        <4> QED BY <1>2, <3>1, <3>2, <3>3
      <3>6. a <= s.tries /\ a < MAX_FAILURES
        BY <1>2, <1>3, <1>5, MaxTriesIs
      <3>7. 2 * s.tries + 2 * (MAX_FAILURES - a) + Triangle(MAX_FAILURES - a - 1) <= all
        <4> HIDE DEF k, a
        <4> QED BY <3>4, <3>5 DEF less
      <3> HIDE DEF a
      <3> QED BY <1>2, <3>6, <3>7 DEF TriesAt, all, p
    <2>6. TestsInv'
      <3> HIDE DEF t, p, a
      <3> QED BY <1>1, <1>2, <2>2, <2>4, <2>5, PollMoves DEF t
    <2> QED BY <2>1, <2>6
  <1> QED BY <1>4, <1>5
\* A connection error: the same attempt once more, or the next one.
LEMMA RetryElsewhereOK ==
  ASSUME TestsInv, NEW r \in DOMAIN testRuns, testRuns[r].phase = "asked", RetryElsewhere(r),
         UNCHANGED <<hasBalance, nextCron, clearedBy>>
  PROVE  /\ TestsInv'
         /\ failedTest' = None \/ failedTest'.cause # "unseen"
              \/ failedTest'.tries \in MAX_FAILURES .. MaxTries
  <1> DEFINE s == testRuns[r]
             p == "poll"
             f == s.failedCount + 1
             t == Moved(s, p, s.attempt, f, s.tries)
  <1>1. s.queue # {} /\ s.phase = "asked"
    BY RunIs
  <1>2. /\ s \in Run /\ TriesOK(s)
        /\ s.attempt \in Nat /\ s.failedCount \in Nat /\ s.tries \in Nat /\ f \in Nat
    BY RunIs DEF RunOK
  <1>3. CASE f >= MAX_FAILURES
    <2>1. NextAttempt(r)
      BY <1>3 DEF RetryElsewhere
    <2> QED BY <2>1, NextAttemptOK
  <1>4. CASE ~(f >= MAX_FAILURES)
    <2>1. /\ testRuns' = [testRuns EXCEPT ![r].phase = p, ![r].failedCount = f]
          /\ failedTest' = None
      BY <1>4 DEF RetryElsewhere, NoTestFails
    <2>2. p \in Phase /\ p \notin {"balance", "checked"}
      BY DEF Phase
    <2>3. t = [s EXCEPT !.phase = p, !.failedCount = f]
      <3> HIDE DEF p, f, s
      <3> QED BY <1>2 DEF Moved, Run
    <2>4. testRuns' = [testRuns EXCEPT ![r] = t]
      <3> HIDE DEF t
      <3> QED BY <1>2, <2>1, <2>3, RunIs
    <2>5. TriesAt(p, s.attempt, f, s.tries)
      <3> DEFINE due == MAX_FAILURES - s.failedCount
                 rest == Triangle(MAX_FAILURES - s.attempt - 1)
                 all == Triangle(MAX_FAILURES)
      <3>1. /\ f <= s.tries /\ 2 * s.tries + 2 * (due - 1) + rest <= all
            /\ s.attempt <= s.failedCount
        BY <1>1, <1>2 DEF TriesOK, TriesAt
      <3>2. MAX_FAILURES - f = due - 1 /\ s.attempt <= f /\ f < MAX_FAILURES
        BY <1>2, <1>4, <3>1, MaxTriesIs
      <3> HIDE DEF rest, all, f, due
      <3> QED BY <3>1, <3>2 DEF TriesAt, rest, all, p
    <2>6. TestsInv'
      <3> HIDE DEF t, p, f
      <3> QED BY <1>1, <1>2, <2>2, <2>4, <2>5, PollMoves DEF t
    <2> QED BY <2>1, <2>6
  <1> QED BY <1>3, <1>4

LEMMA PollEndsOK ==
  ASSUME TestsInv, NEW r \in DOMAIN testRuns, NEW answer \in Answer, PollEnds(r, answer)
  PROVE  /\ TestsInv'
         /\ failedTest' = None \/ failedTest'.cause = "reverted"
              \/ (failedTest'.cause = "unseen" /\ failedTest'.tries \in MAX_FAILURES .. MaxTries)
  <1>1. /\ testRuns[r].phase = "asked" /\ testRuns[r].queue # {}
        /\ UNCHANGED <<hasBalance, nextCron, clearedBy>>
    BY RunIs DEF PollEnds
  <1>2. CASE answer = "confirmed"
    <2>1. testRuns' = TestOver(r, FALSE) /\ failedTest' = None
      BY <1>2 DEF PollEnds, NoTestFails
    <2> QED BY <1>1, <2>1, TestOverOK
  <1>3. CASE answer = "reverted"
    <2>1. TestFails(r, "reverted")
      BY <1>3 DEF PollEnds
    <2>2. testRuns' = TestOver(r, TRUE) /\ failedTest'.cause = "reverted"
      BY <2>1 DEF TestFails
    <2> QED BY <1>1, <2>2, TestOverOK
  <1>4. CASE answer = "unseen"
    <2>1. NextAttempt(r)
      BY <1>4 DEF PollEnds
    <2>2. failedTest' = None \/ failedTest'.cause = "unseen"
      <3>1. NoTestFails \/ TestFails(r, "unseen")
        BY <2>1 DEF NextAttempt
      <3>2. NoTestFails => failedTest' = None
        BY DEF NoTestFails
      <3>3. TestFails(r, "unseen") => failedTest'.cause = "unseen"
        BY DEF TestFails
      <3> QED BY <3>1, <3>2, <3>3
    <2> QED BY <1>1, <2>1, <2>2, NextAttemptOK
  <1>5. CASE answer = "connection error"
    <2>1. RetryElsewhere(r)
      BY <1>5 DEF PollEnds
    <2>2. failedTest' = None \/ failedTest'.cause = "unseen"
      <3>1. NoTestFails \/ TestFails(r, "unseen")
        BY <2>1 DEF RetryElsewhere, NextAttempt
      <3>2. NoTestFails => failedTest' = None
        BY DEF NoTestFails
      <3>3. TestFails(r, "unseen") => failedTest'.cause = "unseen"
        BY DEF TestFails
      <3> QED BY <3>1, <3>2, <3>3
    <2> QED BY <1>1, <2>1, <2>2, RetryElsewhereOK
  <1> QED BY <1>2, <1>3, <1>4, <1>5 DEF Answer

-----------------------------------------------------------------------------
\* The check of a run settles the wallet for all.
LEMMA CheckWalletBalanceOK ==
  ASSUME TestsInv, NEW r \in DOMAIN testRuns, NEW enough \in BOOLEAN,
         CheckWalletBalance(r, enough)
  PROVE  TestsInv'
  <1> DEFINE s == testRuns[r]
             p == "checked"
             t == [s EXCEPT !.phase = p]
  <1>1. /\ s.phase = "balance" /\ hasBalance' = enough /\ nextCron' = nextCron
        /\ testRuns' = [testRuns EXCEPT ![r].phase = p]
        /\ ~enough => clearedBy' = r
    BY DEF CheckWalletBalance
  <1>2. s \in Run /\ RunOK(s) /\ testRuns \in Seq(Run) /\ s.queue = {}
    BY <1>1, RunIs DEF RunOK, PhaseOK
  <1>3. p \in Phase
    BY DEF Phase
  <1>4. testRuns' = [testRuns EXCEPT ![r] = t]
    BY <1>1
  <1> HIDE DEF s
  <1>5. /\ t \in Run /\ t.phase = p
        /\ t.queue = s.queue /\ t.total = s.total /\ t.contract = s.contract
        /\ t.attempt = s.attempt /\ t.failedCount = s.failedCount /\ t.tries = s.tries
        /\ t.failures = s.failures
    <2> HIDE DEF p
    <2> QED BY <1>2, <1>3 DEF Run
  <1> HIDE DEF t
  <1>6. RunOK(t)
    <2>1. PhaseOK(t)
      BY <1>1, <1>2, <1>5 DEF RunOK, PhaseOK
    <2>2. TriesOK(t)
      BY <1>1, <1>2, <1>5 DEF RunOK, TriesOK, TriesAt
    <2>3. CountsOK(t)
      BY <1>2, <1>5 DEF RunOK, CountsOK
    <2> QED BY <2>1, <2>2, <2>3 DEF RunOK
  <1>7. FundedBy(t, r, hasBalance', clearedBy')
    BY <1>2, <1>5 DEF FundedBy
  <1>8. \A q \in DOMAIN testRuns : q # r => FundedBy(testRuns[q], q, hasBalance', clearedBy')
    <2>1. r # 0
      BY <1>2
    <2> QED BY <1>1, <2>1 DEF FundedBy
  <1>9. hasBalance' \in BOOLEAN
    BY <1>1
  <1> QED BY <1>1, <1>4, <1>5, <1>6, <1>7, <1>8, <1>9, RunReplaced

\* A run begins to test, with a balance, or is left with nothing to do.
LEMMA StartTestsOK ==
  ASSUME TestsInv, NEW r \in DOMAIN testRuns, NEW up \in SUBSET DOMAIN TestProviders,
         StartTests(r, up)
  PROVE  TestsInv'
  <1> DEFINE s == testRuns[r]
             p == "next"
             enabled == FilterEnabledProviders(up)
             queue == IF hasBalance THEN enabled ELSE s.queue
             total == IF hasBalance THEN Cardinality(enabled) ELSE s.total
             t == [s EXCEPT !.phase = p, !.queue = queue, !.total = total]
  <1>1. /\ s.phase = "checked" /\ UNCHANGED <<hasBalance, nextCron, clearedBy>>
        /\ hasBalance => testRuns' = [testRuns EXCEPT ![r].phase = p, ![r].queue = enabled,
                                                      ![r].total = Cardinality(enabled)]
        /\ ~hasBalance => testRuns' = [testRuns EXCEPT ![r].phase = p]
    BY DEF StartTests
  <1>2. /\ s \in Run /\ RunOK(s) /\ testRuns \in Seq(Run)
        /\ s.queue = {} /\ s.failures = NoFailures /\ ~s.contract
    BY <1>1, RunIs DEF RunOK, PhaseOK
  <1>3. p \in Phase
    BY DEF Phase
  <1>4. /\ enabled \in SUBSET DOMAIN TestProviders
        /\ IsFiniteSet(enabled) /\ Cardinality(enabled) \in Nat
    <2>1. enabled \subseteq 1 .. Len(TestProviders) /\ Len(TestProviders) \in Nat
      BY TestsAssumption DEF FilterEnabledProviders
    <2>2. IsFiniteSet(1 .. Len(TestProviders))
      BY <2>1, FS_Interval
    <2>3. IsFiniteSet(enabled)
      BY <2>1, <2>2, FS_Subset
    <2> HIDE DEF enabled
    <2> QED BY <2>1, <2>3, FS_CardinalityType, TestsAssumption
  <1>5. queue \in SUBSET DOMAIN TestProviders /\ total \in Nat
    BY <1>2, <1>4 DEF Run
  <1>6. testRuns' = [testRuns EXCEPT ![r] = t]
    <2>1. CASE hasBalance
      BY <1>1, <2>1
    <2>2. CASE ~hasBalance
      <3>1. t = [s EXCEPT !.phase = p]
        <4>1. t = [s EXCEPT !.phase = p, !.queue = s.queue, !.total = s.total]
          BY <2>2
        <4> HIDE DEF s, p, t
        <4> QED BY <1>2, <4>1 DEF Run
      <3> QED BY <1>1, <2>2, <3>1
    <2> QED BY <2>1, <2>2
  <1>7. Cardinality(queue) <= total
    <2>1. CASE hasBalance
      <3>1. Cardinality(enabled) <= Cardinality(enabled)
        <4> HIDE DEF enabled
        <4> QED BY <1>4
      <3> HIDE DEF enabled
      <3> QED BY <2>1, <3>1
    <2>2. CASE ~hasBalance
      <3>1. queue = {} /\ total = s.total
        BY <1>2, <2>2
      <3>2. s.total \in Nat /\ Cardinality({}) = 0
        BY <1>2, FS_EmptySet DEF Run
      <3> HIDE DEF queue, total, s
      <3> QED BY <3>1, <3>2
    <2> QED BY <2>1, <2>2
  <1>8. queue # {} => hasBalance
    BY <1>2
  <1> HIDE DEF s, queue, total
  <1>9. /\ t \in Run /\ t.phase = p
        /\ t.queue = queue /\ t.total = total /\ t.contract = s.contract
        /\ t.attempt = s.attempt /\ t.failedCount = s.failedCount /\ t.tries = s.tries
        /\ t.failures = s.failures
    <2> HIDE DEF p
    <2> QED BY <1>2, <1>3, <1>5 DEF Run
  <1> HIDE DEF t
  <1>10. RunOK(t)
    <2>1. PhaseOK(t)
      BY <1>2, <1>9 DEF PhaseOK
    <2>2. TriesOK(t)
      BY <1>1, <1>2, <1>9 DEF RunOK, TriesOK, TriesAt
    <2>3. CountsOK(t)
      <3> DEFINE yes == TRUE
                 no == FALSE
                 size == Cardinality(queue)
      <3>1. yes \in BOOLEAN /\ no \in BOOLEAN
        OBVIOUS
      <3>2. size \in Nat
        <4>1. IsFiniteSet(queue)
          BY <1>2, <1>4, FS_EmptySet DEF queue
        <4> QED BY <4>1, FS_CardinalityType
      <3> HIDE DEF yes, no, size
      <3>3. t.failures[yes] = 0 /\ t.failures[no] = 0
        BY <1>2, <1>9, <3>1 DEF NoFailures
      <3>4. t.failures[yes] + size <= t.total /\ t.failures[no] + size <= t.total
        BY <1>5, <1>7, <1>9, <3>2, <3>3 DEF size
      <3> QED BY <1>2, <1>9, <3>4 DEF CountsOK, yes, no, size
    <2> QED BY <2>1, <2>2, <2>3 DEF RunOK
  <1>11. t.queue # {} => hasBalance
    BY <1>8, <1>9
  <1> QED BY <1>1, <1>6, <1>9, <1>10, <1>11, RunMoves

\* A run with nothing left to test ends.
LEMMA RunOverOK ==
  ASSUME TestsInv, NEW r \in DOMAIN testRuns, CheckFailureRatesAndAlert(r)
  PROVE  TestsInv'
  <1> DEFINE s == testRuns[r]
             p == "over"
             none == NoFailures
             zero == 0
             t == [s EXCEPT !.phase = p, !.failures = none, !.total = zero]
  <1>1. /\ s.phase = "next" /\ s.queue = {} /\ UNCHANGED <<hasBalance, nextCron, clearedBy>>
        /\ testRuns' = [testRuns EXCEPT ![r].phase = p, ![r].failures = none, ![r].total = zero]
    BY DEF CheckFailureRatesAndAlert
  <1>2. s \in Run /\ RunOK(s) /\ testRuns \in Seq(Run) /\ ~s.contract
    BY <1>1, RunIs DEF RunOK, PhaseOK
  <1>3. p \in Phase /\ none \in [BOOLEAN -> Nat] /\ zero \in Nat
    BY DEF Phase, NoFailures
  <1>4. testRuns' = [testRuns EXCEPT ![r] = t]
    BY <1>1
  <1> HIDE DEF s
  <1>5. /\ t \in Run /\ t.phase = p
        /\ t.queue = s.queue /\ t.total = zero /\ t.contract = s.contract
        /\ t.attempt = s.attempt /\ t.failedCount = s.failedCount /\ t.tries = s.tries
        /\ t.failures = none
    <2> HIDE DEF p, none, zero
    <2> QED BY <1>2, <1>3 DEF Run
  <1> HIDE DEF t
  <1>6. RunOK(t)
    <2>1. PhaseOK(t)
      BY <1>1, <1>2, <1>5 DEF PhaseOK
    <2>2. TriesOK(t)
      BY <1>1, <1>2, <1>5 DEF RunOK, TriesOK, TriesAt
    <2>3. CountsOK(t)
      <3>1. Cardinality(t.queue) = 0
        BY <1>1, <1>5, FS_EmptySet DEF s
      <3> DEFINE yes == TRUE
                 no == FALSE
                 size == Cardinality(t.queue)
      <3>2. yes \in BOOLEAN /\ no \in BOOLEAN /\ size = 0
        BY <3>1
      <3> HIDE DEF yes, no, size
      <3>3. t.failures[yes] = 0 /\ t.failures[no] = 0
        BY <1>5, <3>2 DEF NoFailures
      <3>4. t.failures[yes] + size <= t.total /\ t.failures[no] + size <= t.total
        BY <1>5, <3>2, <3>3
      <3> QED BY <1>2, <1>5, <3>4 DEF CountsOK, yes, no, size
    <2> QED BY <2>1, <2>2, <2>3 DEF RunOK
  <1>7. t.queue = {}
    BY <1>1, <1>5 DEF s
  <1> QED BY <1>1, <1>4, <1>5, <1>6, <1>7, RunMoves

\* A run begins.
LEMMA ExecuteTransactionTestsOK ==
  ASSUME TestsInv, ExecuteTransactionTests
  PROVE  TestsInv'
  <1> DEFINE t == [phase |-> "balance", queue |-> {}, total |-> 0, contract |-> FALSE,
                   attempt |-> 0, failedCount |-> 0, failures |-> NoFailures, tries |-> 0]
  <1>1. /\ testRuns' = Append(testRuns, t) /\ nextCron' = nextCron + CRON_INTERVAL
        /\ UNCHANGED <<hasBalance, clearedBy>>
    BY DEF ExecuteTransactionTests
  <1>2. t \in Run
    BY DEF Run, Phase, NoFailures
  <1>3. RunOK(t)
    <2>1. PhaseOK(t)
      BY DEF PhaseOK
    <2>2. TriesOK(t)
      BY MaxTriesIs DEF TriesOK, TriesAt
    <2>3. CountsOK(t)
      BY FS_EmptySet DEF CountsOK, NoFailures
    <2> QED BY <2>1, <2>2, <2>3 DEF RunOK
  <1>4. t.queue = {}
    OBVIOUS
  <1> HIDE DEF t
  <1>5. testRuns' \in Seq(Run)
    BY <1>1, <1>2 DEF TestsInv
  <1>6. \A r \in DOMAIN testRuns' :
          testRuns'[r] = t \/ (r \in DOMAIN testRuns /\ testRuns'[r] = testRuns[r])
    BY <1>1, <1>2 DEF TestsInv
  <1>7. \A r \in DOMAIN testRuns' :
          RunOK(testRuns'[r]) /\ FundedBy(testRuns'[r], r, hasBalance', clearedBy')
    BY <1>1, <1>3, <1>4, <1>6 DEF TestsInv, FundedBy
  <1>8. nextCron' \in Nat /\ nextCron' >= StartTime
    BY <1>1, TestsAssumption, GateAssumption DEF TestsInv
  <1> QED BY <1>1, <1>5, <1>7, <1>8 DEF TestsInv
-----------------------------------------------------------------------------
\* The runs' part of every step.
LEMMA RunsKept ==
  ASSUME TestsInv, [Next]_vars
  PROVE  TestsInv'
  <1>1. ASSUME NEW r \in DOMAIN testRuns,
               \/ \E enough \in BOOLEAN : CheckWalletBalance(r, enough)
               \/ \E up \in SUBSET DOMAIN TestProviders : StartTests(r, up)
               \/ RunTransactionTest(r)
               \/ \E mined \in BOOLEAN : SendEnds(r, mined)
               \/ PollStep(r)
               \/ RunEnds(r)
        PROVE  TestsInv'
    BY <1>1, CheckWalletBalanceOK, StartTestsOK, RunTransactionTestOK, SendEndsOK,
       AskForTransactionOK, PollEndsOK, RunOverOK DEF PollStep, RunEnds
  <1>2. CASE ExecuteTransactionTests
    BY <1>2, ExecuteTransactionTestsOK
  <1>3. CASE UNCHANGED <<hasBalance, nextCron, testRuns, clearedBy>>
    BY <1>3 DEF TestsInv
  <1>4. TestsTick \/ AllOver \/ UNCHANGED testsVars \/ UNCHANGED vars
          => UNCHANGED <<hasBalance, nextCron, testRuns, clearedBy>>
    BY DEF TestsTick, AllOver, vars, testsVars
  <1> QED
    BY <1>1, <1>2, <1>3, <1>4 DEF Next

\* The verdict of every step.
LEMMA VerdictsKept ==
  ASSUME TestsInv, BlamedForCause, [Next]_vars
  PROVE  BlamedForCause'
  <1>1. failedTest' = None => BlamedForCause'
    <2>1. None.cause = "none"
      BY DEF None
    <2> SUFFICES ASSUME failedTest' = None PROVE BlamedForCause'
      OBVIOUS
    <2>2. failedTest'.cause = "none"
      BY <2>1
    <2> QED BY <2>2 DEF BlamedForCause
  <1>2. UNCHANGED failedTest => BlamedForCause'
    BY DEF BlamedForCause
  <1>3. ASSUME NEW r \in DOMAIN testRuns, RunTransactionTest(r)
        PROVE  BlamedForCause'
    <2>1. CASE hasBalance
      BY <1>1, <1>3, <2>1 DEF RunTransactionTest, NoTestFails
    <2>2. CASE ~hasBalance
      <3>1. TestFails(r, "no balance") /\ testRuns[r].queue # {}
        BY <1>3, <2>2 DEF RunTransactionTest
      <3>2. /\ failedTest'.cause = "no balance"
            /\ failedTest'.clearedBy = clearedBy /\ failedTest'.run = r
        BY <3>1 DEF TestFails
      <3>3. clearedBy # 0 /\ clearedBy # r
        BY <2>2, <3>1 DEF TestsInv, FundedBy
      <3> QED BY <3>2, <3>3 DEF BlamedForCause
    <2> QED BY <2>1, <2>2
  <1>4. ASSUME NEW r \in DOMAIN testRuns, NEW mined \in BOOLEAN, SendEnds(r, mined)
        PROVE  BlamedForCause'
    <2>1. CASE mined
      BY <1>1, <1>4, <2>1 DEF SendEnds, NoTestFails
    <2>2. CASE ~mined
      <3>1. TestFails(r, "refused")
        BY <1>4, <2>2 DEF SendEnds
      <3>2. failedTest'.cause = "refused"
        BY <3>1 DEF TestFails
      <3> QED BY <3>2 DEF BlamedForCause
    <2> QED BY <2>1, <2>2
  <1>5. ASSUME NEW r \in DOMAIN testRuns, NEW answer \in Answer, PollEnds(r, answer)
        PROVE  BlamedForCause'
    <2>1. CASE failedTest' = None
      BY <1>1, <2>1
    <2>2. CASE failedTest'.cause = "reverted"
      BY <2>2 DEF BlamedForCause
    <2>3. CASE failedTest'.cause = "unseen" /\ failedTest'.tries \in MAX_FAILURES .. MaxTries
      BY <2>3 DEF BlamedForCause, MaxTries
    <2> QED BY <1>5, <2>1, <2>2, <2>3, PollEndsOK
  <1>6. ASSUME NEW r \in DOMAIN testRuns,
               \/ \E enough \in BOOLEAN : CheckWalletBalance(r, enough)
               \/ \E up \in SUBSET DOMAIN TestProviders : StartTests(r, up)
               \/ AskForTransaction(r)
               \/ RunEnds(r)
        PROVE  failedTest' = None
    BY <1>6 DEF CheckWalletBalance, StartTests, AskForTransaction, RunEnds,
       CheckFailureRatesAndAlert, NoTestFails
  <1>7. ExecuteTransactionTests \/ TestsTick => failedTest' = None
    BY DEF ExecuteTransactionTests, TestsTick, NoTestFails
  <1>8. AllOver \/ UNCHANGED testsVars \/ UNCHANGED vars => UNCHANGED failedTest
    BY DEF AllOver, vars, testsVars
  <1> QED
    BY <1>1, <1>2, <1>3, <1>4, <1>5, <1>6, <1>7, <1>8 DEF Next, PollStep

LEMMA InitTests == Init => TestsInv /\ BlamedForCause
  <1> SUFFICES ASSUME Init PROVE TestsInv /\ BlamedForCause
    OBVIOUS
  <1>1. /\ hasBalance \in BOOLEAN /\ nextCron = StartTime
        /\ testRuns = <<>> /\ failedTest = None
    BY Zenon DEF Init, TestsInit
  <1>2. TestsInv
    BY <1>1, GateAssumption DEF TestsInv
  <1>3. BlamedForCause
    BY <1>1 DEF BlamedForCause, None
  <1> QED BY <1>2, <1>3

\* An endpoint is counted as failing for a cause, for every limit of tries and
\* attempts and however many runs share the wallet: the node's, a full series of
\* polls, or another run's check (transaction.monitor.ts:356-460).
THEOREM EndpointsBlamedForCause == Spec => []BlamedForCause
  <1>1. Init => TestsInv /\ BlamedForCause
    BY InitTests
  <1>2. TestsInv /\ BlamedForCause /\ [Next]_vars => TestsInv' /\ BlamedForCause'
    BY RunsKept, VerdictsKept
  <1> QED
    BY <1>1, <1>2, PTL DEF Spec

-----------------------------------------------------------------------------
(***************************************************************************)
(* Types.                                                                  *)
(***************************************************************************)
\* What a report leaves in the throttle.
LEMMA ReportedType ==
  ASSUME GateTypeOK, NEW throttling \in [AlertType -> 0 .. now], NEW t \in AlertType, NEW n
  PROVE  Reported(throttling, t, n) \in [AlertType -> 0 .. now]
  <1>1. now \in 0 .. now
    BY DEF GateTypeOK
  <1> QED BY <1>1 DEF Reported

LEMMA ThrottleKept ==
  ASSUME GateTypeOK, [Next]_vars
  PROVE  GateTypeOK'
  <1>1. ASSUME NEW r \in DOMAIN testRuns, NEW up, StartTests(r, up)
        PROVE  GateTypeOK'
    <2>1. Reported(alertThrottling, "insufficient_wallet_balance", 1) \in [AlertType -> 0 .. now]
      BY ReportedType DEF GateTypeOK, AlertType
    <2>2. alertThrottling' \in [AlertType -> 0 .. now] /\ now' = now
      BY <1>1, <2>1 DEF StartTests, GateTypeOK
    <2> QED BY <2>2 DEF GateTypeOK
  <1>2. ASSUME NEW r \in DOMAIN testRuns, RunEnds(r)
        PROVE  GateTypeOK'
    <2> DEFINE t == "transaction_failure_rate_high"
               first == IF HighFailureRate(r, FALSE) THEN Reported(alertThrottling, t, 1)
                        ELSE alertThrottling
               second == IF HighFailureRate(r, TRUE) THEN Reported(first, t, 1) ELSE first
    <2>1. t \in AlertType
      BY DEF AlertType
    <2>2. first \in [AlertType -> 0 .. now]
      <3>1. Reported(alertThrottling, t, 1) \in [AlertType -> 0 .. now]
        BY <2>1, ReportedType DEF GateTypeOK
      <3> QED BY <3>1 DEF GateTypeOK
    <2>3. second \in [AlertType -> 0 .. now]
      <3> HIDE DEF first
      <3>1. Reported(first, t, 1) \in [AlertType -> 0 .. now]
        BY <2>1, <2>2, ReportedType
      <3> QED BY <2>2, <3>1
    <2>4. alertThrottling' = second /\ now' = now
      BY <1>2 DEF RunEnds, CheckFailureRatesAndAlert, RatesReported
    <2> QED BY <2>3, <2>4 DEF GateTypeOK
  <1>3. CASE TestsTick
    <2>1. /\ now \in Nat /\ now >= StartTime /\ now' = now + 1
          /\ alertThrottling' = alertThrottling
      BY <1>3 DEF TestsTick, GateTypeOK
    <2>2. now' \in Nat /\ now' >= StartTime
      BY <2>1, GateAssumption
    <2>3. 0 .. now \subseteq 0 .. now'
      BY <2>1
    <2>4. alertThrottling' \in [AlertType -> 0 .. now']
      BY <2>1, <2>3 DEF GateTypeOK
    <2> QED BY <2>2, <2>4 DEF GateTypeOK
  <1>4. CASE UNCHANGED <<now, alertThrottling>>
    BY <1>4 DEF GateTypeOK
  <1>5. ASSUME NEW r \in DOMAIN testRuns,
               \/ \E enough \in BOOLEAN : CheckWalletBalance(r, enough)
               \/ RunTransactionTest(r)
               \/ \E mined \in BOOLEAN : SendEnds(r, mined)
               \/ PollStep(r)
        PROVE  UNCHANGED <<now, alertThrottling>>
    BY <1>5 DEF CheckWalletBalance, RunTransactionTest, SendEnds, PollStep, AskForTransaction,
       PollEnds
  <1>6. ExecuteTransactionTests \/ AllOver \/ UNCHANGED vars => UNCHANGED <<now, alertThrottling>>
    BY DEF ExecuteTransactionTests, AllOver, vars
  <1> QED
    BY <1>1, <1>2, <1>3, <1>4, <1>5, <1>6 DEF Next

\* Runs keep their counts and sendings their order, for every number of
\* endpoints, tries, attempts, runs and channels (transaction.monitor.ts,
\* alert-manager.ts).
THEOREM TypeCorrect == Spec => []TypeOK
  <1> DEFINE Inv == GateTypeOK /\ TestsInv /\ SendingsOK
  <1>1. Init => Inv
    <2> SUFFICES ASSUME Init PROVE Inv
      OBVIOUS
    <2>1. now = StartTime /\ alertThrottling = [t \in AlertType |-> 0] /\ sendings = <<>>
      BY Zenon DEF Init, GateInit, DeliveryInit
    <2>2. GateTypeOK
      BY <2>1, GateAssumption DEF GateTypeOK
    <2>3. SendingsOK
      BY <2>1 DEF SendingsOK
    <2> QED BY <2>2, <2>3, InitTests
  <1>2. Inv /\ [Next]_vars => Inv'
    BY ThrottleKept, RunsKept, SendingsKept
  <1>3. Inv => TypeOK
    <2> SUFFICES ASSUME Inv PROVE TypeOK
      OBVIOUS
    <2>1. ASSUME NEW r \in DOMAIN testRuns
          PROVE  LET run == testRuns[r]
                 IN  /\ run.phase \in Phase
                     /\ run.phase \in {"sent", "poll", "asked"} => run.queue # {}
                     /\ \A c \in BOOLEAN : run.failures[c] <= run.total
                     /\ run.attempt <= run.failedCount /\ run.failedCount < MAX_FAILURES
                     /\ run.tries <= MaxTries
      <3>1. testRuns[r] \in Run /\ RunOK(testRuns[r])
        BY RunIs
      <3>2. /\ \A c \in BOOLEAN : testRuns[r].failures[c] <= testRuns[r].total
            /\ testRuns[r].tries <= MaxTries
        BY <3>1, RunBounds
      <3>3. testRuns[r].phase \in Phase
        BY <3>1 DEF Run
      <3> QED BY <3>2, <3>3, RunIs
    <2>2. TestsTypeOK
      BY <2>1 DEF TestsInv, TestsTypeOK, Phase
    <2>3. DeliveryTypeOK
      <3> SUFFICES ASSUME NEW a \in DOMAIN sendings
                   PROVE  LET s == sendings[a]
                          IN  /\ s.text \in Text /\ s.channel \in 1 .. Len(Channels) + 1
                              /\ s.request \in 1 .. 6 /\ s.readable \in 0 .. 6
                              /\ s.arrived \subseteq {TopicId, General}
        BY SixRequests DEF DeliveryTypeOK
      <3>1. sendings[a] \in Sending
        BY DEF SendingsOK
      <3> QED BY <3>1 DEF Sending
    <2> QED BY <2>2, <2>3 DEF TypeOK
  <1> QED
    BY <1>1, <1>2, <1>3, PTL DEF Spec
=============================================================================
