------------------------- MODULE RpcSelectorProofs -------------------------
(***************************************************************************)
(* Proofs about RpcSelector for any set of endpoints, latencies, distances *)
(* and intervals.                                                          *)
(***************************************************************************)
EXTENDS RpcSelector, TLAPS, WellFoundedInduction

-----------------------------------------------------------------------------
(* Arithmetic of the success rate and the score. *)

LEMMA ProductMonotone ==
  ASSUME NEW a \in Nat, NEW b \in Nat, NEW c \in Nat, a <= b
  PROVE  a * c <= b * c /\ a * c \in Nat
OBVIOUS

\* A share of at most `whole` of `part`, in integer division, stays in range.
LEMMA QuotientBounded ==
  ASSUME NEW x \in Nat, NEW d \in Nat \ {0}, x <= 100 * d
  PROVE  x \div d \in 0 .. 100
OBVIOUS

\* The exponentially weighted success rate stays a percentage.
LEMMA SuccessRateBounded ==
  ASSUME NEW h, h.successRate \in 0 .. 100, h.lastChecked \in Nat,
         now \in Nat, h.lastChecked <= now, NEW isUp
  PROVE  SuccessRate(h, isUp) \in 0 .. 100
<1> DEFINE weight == 9 * Smaller(DAY, now - h.lastChecked)
           share == IF isUp THEN 100 * weight ELSE 0
           rest == 10 * DAY - weight
<1>1. DAY \in Nat \ {0}
  BY SelectorAssumption DEF SelectorAssumption
<1>2. weight \in Nat /\ rest \in Nat /\ weight + rest = 10 * DAY
  BY <1>1 DEF Smaller
<1>3. h.successRate * rest \in Nat /\ h.successRate * rest <= 100 * rest
  BY <1>2, ProductMonotone
<1>4. share \in Nat /\ share <= 100 * weight
  BY <1>2
<1>5. h.successRate * rest + share \in Nat
      /\ h.successRate * rest + share <= 100 * (10 * DAY)
  <2> HIDE DEF rest, share, weight
  <2>1. h.successRate * rest + share <= 100 * rest + 100 * weight
    BY <1>2, <1>3, <1>4
  <2>2. QED
    BY <1>1, <1>2, <1>3, <1>4, <2>1
<1>6. (h.successRate * rest + share) \div (10 * DAY) \in 0 .. 100
  <2> DEFINE x == h.successRate * rest + share
             d == 10 * DAY
  <2>1. x \in Nat /\ d \in Nat \ {0} /\ x <= 100 * d
    BY <1>1, <1>5
  <2> HIDE DEF x, d
  <2>2. x \div d \in 0 .. 100
    BY <2>1, QuotientBounded
  <2>3. QED
    BY <2>2 DEF x, d
<1>7. QED
  BY <1>6 DEF SuccessRate

MaxScore == 2100 * (SLOW_LATENCY * MAX_BLOCKS_BEHIND)

LEMMA ScoreBounded ==
  ASSUME NEW h \in Health
  PROVE  Score(h) \in 0 .. MaxScore
<1> DEFINE L == SLOW_LATENCY
           B == MAX_BLOCKS_BEHIND
           P == L * B
           x == AtLeastZero(L - h.latency)
           y == AtLeastZero(B - h.behind)
<1>1. L \in Nat /\ B \in Nat /\ P \in Nat
  BY SelectorAssumption, ProductMonotone DEF SelectorAssumption
<1>2. /\ h.latency \in Nat /\ h.behind \in Nat
      /\ h.successRate \in 0 .. 100 /\ h.tier \in 0 .. 3
  BY DEF Health, HIGH
<1>3. x \in 0 .. L /\ y \in 0 .. B
  BY <1>1, <1>2 DEF AtLeastZero
<1> HIDE DEF x, y
<1>4. B * x \in 0 .. P
  BY <1>1, <1>3
<1>5. L * y \in 0 .. P
  BY <1>1, <1>3
<1>6. h.successRate * P \in 0 .. 100 * P
  <2> HIDE DEF P
  <2>1. QED
    BY <1>1, <1>2
<1>7. h.tier * P \in 0 .. 3 * P
  <2> HIDE DEF P
  <2>1. QED
    BY <1>1, <1>2
<1>8. Score(h) = 800 * (B * x) + 6 * (h.successRate * P) + 400 * (L * y) + 100 * (h.tier * P)
  BY <1>1, <1>2, <1>3 DEF Score, x, y
<1> HIDE DEF P
<1>9. Score(h) \in 0 .. 2100 * P
  <2> DEFINE a == B * x
             b == h.successRate * P
             c == L * y
             d == h.tier * P
  <2>1. a \in 0 .. P /\ b \in 0 .. 100 * P /\ c \in 0 .. P /\ d \in 0 .. 3 * P
        /\ Score(h) = 800 * a + 6 * b + 400 * c + 100 * d
    BY <1>4, <1>5, <1>6, <1>7, <1>8
  <2> HIDE DEF a, b, c, d
  <2>2. QED
    BY <1>1, <2>1
<1>10. QED
  BY <1>9 DEF P, MaxScore

-----------------------------------------------------------------------------
(* findBestEndpoint() finds one. *)

\* A non-empty set of natural numbers has a least element.
LEMMA LeastExists ==
  ASSUME NEW T, T \subseteq Nat, T # {}
  PROVE  \E x \in T : \A y \in T : x <= y
<1>1. PICK x \in T : \A y \in T : ~(<<y, x>> \in OpToRel(<, Nat))
  BY WFMin, NatLessThanWellFounded
<1>2. \A y \in T : ~(y < x)
  BY <1>1 DEF OpToRel
<1>3. QED
  BY <1>2

LEMMA TopExists ==
  ASSUME NEW health \in [Urls -> Health], UsableUrls(health) # {}
  PROVE  TopUrls(health) # {}
<1> DEFINE T == {MaxScore - Score(health[u]) : u \in UsableUrls(health)}
<1>1. \A u \in UsableUrls(health) : Score(health[u]) \in 0 .. MaxScore
  BY ScoreBounded DEF UsableUrls
<1>2. MaxScore \in Nat
  BY SelectorAssumption, ProductMonotone DEF SelectorAssumption, MaxScore
<1> HIDE DEF MaxScore
<1>3. T \subseteq Nat /\ T # {}
  BY <1>1, <1>2
<1>4. PICK x \in T : \A y \in T : x <= y
  BY <1>3, LeastExists
<1>5. PICK u \in UsableUrls(health) : x = MaxScore - Score(health[u])
  BY <1>4
<1>6. \A v \in UsableUrls(health) : MaxScore - Score(health[u]) <= MaxScore - Score(health[v])
  BY <1>4, <1>5
<1>7. \A v \in UsableUrls(health) : Score(health[u]) >= Score(health[v])
  BY <1>1, <1>2, <1>6
<1>8. QED
  BY <1>5, <1>7 DEF TopUrls

\* Among them the first in insertion order is unambiguous.
LEMMA FirstTopExists ==
  ASSUME NEW health \in [Urls -> Health], NEW order \in Seq(Urls),
         \A u \in Urls : Known(health[u]) => u \in Inserted(order),
         UsableUrls(health) # {}
  PROVE  \E u \in TopUrls(health) : \A v \in TopUrls(health) : Place(order, u) <= Place(order, v)
<1> DEFINE T == {Place(order, u) : u \in TopUrls(health)}
<1>1. \A u \in TopUrls(health) : u \in Inserted(order)
  BY DEF TopUrls, UsableUrls, Usable
<1>2. ASSUME NEW u \in TopUrls(health) PROVE Place(order, u) \in Nat
  <2>1. \E i \in DOMAIN order : order[i] = u
    BY <1>1 DEF Inserted
  <2>2. Place(order, u) \in DOMAIN order
    BY <2>1 DEF Place
  <2>3. QED
    BY <2>2
<1>3. T \subseteq Nat /\ T # {}
  BY <1>2, TopExists
<1>4. PICK x \in T : \A y \in T : x <= y
  BY <1>3, LeastExists
<1>5. QED
  BY <1>4

\* The chosen endpoint is usable unless none is.
LEMMA BestUsable ==
  ASSUME NEW s, s.health \in [Urls -> Health], s.order \in Seq(Urls),
         \A u \in Urls : Known(s.health[u]) => u \in Inserted(s.order)
  PROVE  /\ FindBestEndpoint(s) \in Urls
         /\ UsableUrls(s.health) # {} => FindBestEndpoint(s) \in UsableUrls(s.health)
<1>1. CASE UsableUrls(s.health) = {}
  BY <1>1, SelectorAssumption DEF FindBestEndpoint, SelectorAssumption
<1>2. CASE UsableUrls(s.health) # {}
  <2>1. FindBestEndpoint(s) \in TopUrls(s.health)
    BY <1>2, FirstTopExists DEF FindBestEndpoint
  <2>2. QED
    BY <1>2, <2>1 DEF TopUrls, UsableUrls
<1>3. QED
  BY <1>1, <1>2

-----------------------------------------------------------------------------
(* What a report does to the service. *)

\* The fields a report changes, before the primary is reconsidered.
Recorded(s, u, isUp, latency, synced, behind) ==
  [s EXCEPT !.health[u] = Measured(@, isUp, latency, synced, behind),
            !.order = IF Known(s.health[u]) THEN @ ELSE Append(@, u)]

SyncRecorded(s, u, synced, behind) ==
  [s EXCEPT !.health[u].synced = synced, !.health[u].behind = behind]

State == [health : [Urls -> Health], order : Seq(Urls), primary : Urls, lastSwitch : Nat]

\* The part of SelectorTypeOK about a state s of the service.
StateOK(s) ==
  /\ s \in State
  /\ s.lastSwitch <= now
  /\ \A u \in Urls : s.health[u].lastChecked <= now
  /\ \A u \in Urls : Known(s.health[u]) <=> u \in Inserted(s.order)

LEMMA MeasuredType ==
  ASSUME NEW h \in Health, h.lastChecked <= now, now \in Nat \ {0},
         NEW isUp \in BOOLEAN, NEW latency \in Nat, NEW synced \in BOOLEAN, NEW behind \in Nat
  PROVE  /\ Measured(h, isUp, latency, synced, behind) \in Health
         /\ Measured(h, isUp, latency, synced, behind).lastChecked = now
<1> DEFINE failures == IF isUp THEN 0 ELSE h.failureCount + 1
           rate == SuccessRate(h, isUp)
           good == isUp /\ latency < GOOD_LATENCY_THRESHOLD /\ synced
           tier == Tier(h, failures, rate, good)
<1>1. h.failureCount \in Nat /\ h.tier \in 0 .. HIGH
      /\ h.successRate \in 0 .. 100 /\ h.lastChecked \in Nat
  BY DEF Health
<1>2. failures \in Nat
  BY <1>1
<1>3. rate \in 0 .. 100
  BY <1>1, SuccessRateBounded
<1>4. tier \in 0 .. HIGH
  BY <1>1 DEF Tier, LOW, MEDIUM, HIGH
<1> HIDE DEF failures, rate, tier
<1>5. Measured(h, isUp, latency, synced, behind) =
        [isUp |-> isUp, latency |-> latency, lastChecked |-> now, successRate |-> rate,
         failureCount |-> failures, tier |-> tier, synced |-> synced, behind |-> behind]
  BY DEF Measured, failures, rate, tier
<1>6. QED
  BY <1>2, <1>3, <1>4, <1>5 DEF Health

LEMMA RecordedOK ==
  ASSUME NEW s, StateOK(s), now \in Nat \ {0}, NEW u \in Urls,
         NEW isUp \in BOOLEAN, NEW latency \in Nat, NEW synced \in BOOLEAN, NEW behind \in Nat
  PROVE  LET t == Recorded(s, u, isUp, latency, synced, behind)
         IN  StateOK(t) /\ t.primary = s.primary /\ t.lastSwitch = s.lastSwitch
<1> DEFINE m == Measured(s.health[u], isUp, latency, synced, behind)
           order == IF Known(s.health[u]) THEN s.order ELSE Append(s.order, u)
           health == [s.health EXCEPT ![u] = m]
           t == Recorded(s, u, isUp, latency, synced, behind)
<1>1. m \in Health /\ m.lastChecked = now
  BY MeasuredType DEF StateOK, State
<1> HIDE DEF m
<1>2. health \in [Urls -> Health]
  BY <1>1 DEF StateOK, State
<1>3. order \in Seq(Urls)
  BY DEF StateOK, State
<1>4. Inserted(order) = Inserted(s.order) \cup {u}
  <2>1. CASE Known(s.health[u])
    BY <2>1 DEF StateOK
  <2>2. CASE ~Known(s.health[u])
    <3>1. s.order \in Seq(Urls)
      BY DEF StateOK, State
    <3>2. order = Append(s.order, u)
      BY <2>2
    <3>3. /\ DOMAIN order = 1 .. (Len(s.order) + 1)
          /\ \A i \in 1 .. Len(s.order) : order[i] = s.order[i]
          /\ order[Len(s.order) + 1] = u
          /\ DOMAIN s.order = 1 .. Len(s.order) /\ Len(s.order) \in Nat
      BY <3>1, <3>2
    <3> HIDE DEF order
    <3>4. QED
      BY <3>3 DEF Inserted
  <2>3. QED
    BY <2>1, <2>2
<1>5. t = [s EXCEPT !.health = health, !.order = order]
  BY DEF Recorded, m, StateOK, State
<1>6. /\ t.health = health /\ t.order = order
      /\ t.primary = s.primary /\ t.lastSwitch = s.lastSwitch
      /\ t \in State
  BY <1>2, <1>3, <1>5 DEF StateOK, State
<1> HIDE DEF order, t
<1>7. \A v \in Urls : health[v] = IF v = u THEN m ELSE s.health[v]
  BY DEF StateOK, State
<1> HIDE DEF health
<1>8. ASSUME NEW v \in Urls PROVE health[v].lastChecked <= now
  <2>1. CASE v = u
    <3>1. health[v] = m
      BY <2>1, <1>7
    <3>2. QED
      BY <3>1, <1>1
  <2>2. CASE v # u
    <3>1. health[v] = s.health[v]
      BY <2>2, <1>7
    <3>2. QED
      BY <3>1 DEF StateOK
  <2>3. QED
    BY <2>1, <2>2
<1>9. \A v \in Urls : Known(health[v]) <=> v \in Inserted(order)
  BY <1>1, <1>4, <1>7 DEF StateOK, Known
<1>10. QED
  BY <1>6, <1>8, <1>9 DEF StateOK, t

LEMMA SyncRecordedOK ==
  ASSUME NEW s, StateOK(s), NEW u \in Urls, NEW synced \in BOOLEAN, NEW behind \in Nat
  PROVE  LET t == SyncRecorded(s, u, synced, behind)
         IN  StateOK(t) /\ t.primary = s.primary /\ t.lastSwitch = s.lastSwitch
<1> DEFINE m == [s.health[u] EXCEPT !.synced = synced, !.behind = behind]
           health == [s.health EXCEPT ![u] = m]
           t == SyncRecorded(s, u, synced, behind)
<1>0. s.health[u] \in Health
  BY DEF StateOK, State
<1>1. m \in Health /\ m.lastChecked = s.health[u].lastChecked
  <2> DEFINE h == s.health[u]
  <2> HIDE DEF h
  <2>1. h \in Health
    BY <1>0 DEF h
  <2>2. [h EXCEPT !.synced = synced, !.behind = behind] \in Health
        /\ [h EXCEPT !.synced = synced, !.behind = behind].lastChecked = h.lastChecked
    BY <2>1 DEF Health
  <2>3. QED
    BY <2>2 DEF h
<1>2. t = [s EXCEPT !.health = health]
  BY DEF SyncRecorded, StateOK, State, Health
<1> HIDE DEF m
<1>3. health \in [Urls -> Health]
  BY <1>1 DEF StateOK, State
<1>4. /\ t.health = health /\ t.order = s.order
      /\ t.primary = s.primary /\ t.lastSwitch = s.lastSwitch
      /\ t \in State
  BY <1>2, <1>3 DEF StateOK, State
<1>5. \A v \in Urls : health[v] = IF v = u THEN m ELSE s.health[v]
  BY DEF StateOK, State
<1> HIDE DEF health, t
<1>6. \A v \in Urls : health[v].lastChecked = s.health[v].lastChecked
  BY <1>1, <1>5
<1>7. QED
  BY <1>4, <1>6 DEF StateOK, Known, t

\* checkAndUpdatePrimary() either keeps both the primary and the instant of
\* the last switch, or changes both, after the minimum interval.
LEMMA SwitchOrKeep ==
  ASSUME NEW s
  PROVE  LET t == CheckAndUpdatePrimary(s)
         IN  \/ t = s
             \/ /\ t = [s EXCEPT !.primary = FindBestEndpoint(s), !.lastSwitch = now]
                /\ ~(now - s.lastSwitch < MIN_SWITCH_INTERVAL)
BY DEF CheckAndUpdatePrimary

LEMMA CheckedOK ==
  ASSUME NEW s, StateOK(s), now \in Nat
  PROVE  /\ StateOK(CheckAndUpdatePrimary(s))
         /\ CheckAndUpdatePrimary(s).health = s.health
<1> DEFINE t == CheckAndUpdatePrimary(s)
<1>1. CASE t = s
  BY <1>1
<1>2. CASE t = [s EXCEPT !.primary = FindBestEndpoint(s), !.lastSwitch = now]
  <2>1. FindBestEndpoint(s) \in Urls
    BY BestUsable DEF StateOK, State
  <2>2. t \in State /\ t.health = s.health /\ t.order = s.order /\ t.lastSwitch = now
    BY <1>2, <2>1 DEF StateOK, State
  <2> HIDE DEF t
  <2>3. QED
    BY <2>2 DEF StateOK, t
<1>3. QED
  BY <1>1, <1>2, SwitchOrKeep

\* After the interval, whatever is left in place is usable if anything is.
LEMMA CheckedUsable ==
  ASSUME NEW s, StateOK(s), now - s.lastSwitch >= MIN_SWITCH_INTERVAL, now \in Nat
  PROVE  LET t == CheckAndUpdatePrimary(s)
         IN  Usable(t.health[t.primary]) \/ UsableUrls(t.health) = {}
<1> DEFINE t == CheckAndUpdatePrimary(s)
<1>1. t.health = s.health
  BY CheckedOK
<1>2. CASE Usable(s.health[s.primary]) /\ (t = s)
  BY <1>2
<1>3. CASE t.primary = FindBestEndpoint(s)
  BY <1>1, <1>3, BestUsable DEF StateOK, State, UsableUrls
<1>4. (Usable(s.health[s.primary]) /\ t = s) \/ t.primary = FindBestEndpoint(s)
  <2>1. ~(now - s.lastSwitch < MIN_SWITCH_INTERVAL)
    BY SelectorAssumption DEF SelectorAssumption, StateOK, State
  <2>2. QED
    BY <2>1 DEF CheckAndUpdatePrimary, HasIssues, StateOK, State
<1>5. QED
  BY <1>2, <1>3, <1>4

-----------------------------------------------------------------------------
(* Every step of the service. *)

\* A step is a tick, a stutter, or the primary reconsidered on a state t that
\* the report recorded.
ReportStep(t) ==
  /\ StateOK(t)
  /\ t.primary = selector.primary /\ t.lastSwitch = selector.lastSwitch
  /\ BecomesSelector(CheckAndUpdatePrimary(t))
  /\ now' = now

LEMMA TypeIsStateOK ==
  SelectorTypeOK <=> now \in Nat /\ now >= StartTime /\ StateOK(selector)
BY DEF SelectorTypeOK, StateOK, State

LEMMA StepKinds ==
  ASSUME SelectorTypeOK, [SelectorNext]_<<now, selectorVars>>
  PROVE  (\E t : ReportStep(t)) \/ SelectorTick \/ UNCHANGED <<now, selectorVars>>
<1>1. StateOK(selector) /\ now \in Nat \ {0}
  BY TypeIsStateOK, SelectorAssumption DEF SelectorAssumption
<1>2. ASSUME NEW u \in Urls, NEW isUp \in BOOLEAN, NEW latency \in Latencies,
             NEW synced \in BOOLEAN, NEW behind \in Behinds,
             Report(u, isUp, latency, synced, behind)
      PROVE  \E t : ReportStep(t)
  <2> DEFINE t == Recorded(selector, u, isUp, latency, synced, behind)
  <2>1. latency \in Nat /\ behind \in Nat
    BY SelectorAssumption DEF SelectorAssumption
  <2>2. StateOK(t) /\ t.primary = selector.primary /\ t.lastSwitch = selector.lastSwitch
    BY <1>1, <2>1, RecordedOK
  <2>3. BecomesSelector(CheckAndUpdatePrimary(t)) /\ now' = now
    BY <1>2 DEF Report, UpdateEndpointHealth, Reported, Recorded
  <2> HIDE DEF t
  <2>4. QED
    BY <2>2, <2>3 DEF ReportStep
<1>3. ASSUME NEW u \in Urls, NEW synced \in BOOLEAN, NEW behind \in Behinds,
             ReportSync(u, synced, behind)
      PROVE  \E t : ReportStep(t)
  <2> DEFINE t == SyncRecorded(selector, u, synced, behind)
  <2>1. behind \in Nat
    BY SelectorAssumption DEF SelectorAssumption
  <2>2. StateOK(t) /\ t.primary = selector.primary /\ t.lastSwitch = selector.lastSwitch
    BY <1>1, <2>1, SyncRecordedOK
  <2>3. BecomesSelector(CheckAndUpdatePrimary(t)) /\ now' = now
    BY <1>3 DEF ReportSync, UpdateEndpointSyncStatus, SyncRecorded
  <2> HIDE DEF t
  <2>4. QED
    BY <2>2, <2>3 DEF ReportStep
<1>4. QED
  BY <1>2, <1>3 DEF SelectorNext

LEMMA TypeStep ==
  ASSUME SelectorTypeOK, [SelectorNext]_<<now, selectorVars>>
  PROVE  SelectorTypeOK'
<1>1. ASSUME NEW t, ReportStep(t) PROVE SelectorTypeOK'
  <2>1. StateOK(CheckAndUpdatePrimary(t))
    BY <1>1, CheckedOK, TypeIsStateOK DEF ReportStep
  <2>2. selector' = CheckAndUpdatePrimary(t) /\ now' = now
    BY <1>1 DEF ReportStep, BecomesSelector
  <2>3. QED
    BY <2>1, <2>2 DEF SelectorTypeOK, StateOK, State
<1>2. CASE SelectorTick
  <2>1. now \in Nat /\ now >= StartTime /\ StartTime \in Nat /\ now' = now + 1 /\ selector' = selector
    BY <1>2, SelectorAssumption DEF SelectorTick, selectorVars, SelectorTypeOK, SelectorAssumption
  <2>2. \A u \in Urls : selector.health[u].lastChecked \in Nat
    BY DEF SelectorTypeOK, Health
  <2>3. selector.lastSwitch \in Nat
    BY DEF SelectorTypeOK
  <2>4. /\ now' \in Nat /\ now' >= StartTime
        /\ selector'.lastSwitch <= now'
        /\ \A u \in Urls : selector'.health[u].lastChecked <= now'
    BY <2>1, <2>2, <2>3 DEF SelectorTypeOK
  <2>5. QED
    BY <2>1, <2>4 DEF SelectorTypeOK, Known
<1>3. CASE UNCHANGED <<now, selectorVars>>
  BY <1>3 DEF selectorVars, SelectorTypeOK
<1>4. QED
  BY <1>1, <1>2, <1>3, StepKinds

LEMMA TypeInit ==
  ASSUME now = StartTime, SelectorInit
  PROVE  SelectorTypeOK
<1>1. StartTime \in Nat \ {0} /\ PRIMARY_RPC_URL \in Urls
  BY SelectorAssumption DEF SelectorAssumption
<1>2. NewHealth \in Health /\ ~Known(NewHealth) /\ NewHealth.lastChecked = 0
  BY DEF NewHealth, Health, Known, HIGH
<1>3. [u \in Urls |-> NewHealth] \in [Urls -> Health]
  BY <1>2
<1>4. << >> \in Seq(Urls) /\ Inserted(<< >>) = {}
  BY DEF Inserted
<1>5. selector \in State /\ selector.lastSwitch = 0 /\ selector.order = << >>
      /\ \A u \in Urls : selector.health[u] = NewHealth
  <2> DEFINE all == [u \in Urls |-> NewHealth]
  <2>1. \A u \in Urls : all[u] = NewHealth
    OBVIOUS
  <2>2. all \in [Urls -> Health]
    BY <1>3
  <2>3. selector = [health |-> all, order |-> << >>, primary |-> PRIMARY_RPC_URL, lastSwitch |-> 0]
    BY DEF SelectorInit
  <2> HIDE DEF all
  <2>4. QED
    BY <1>1, <1>4, <2>1, <2>2, <2>3 DEF State
<1>6. QED
  BY <1>1, <1>2, <1>4, <1>5 DEF SelectorTypeOK, State

\* The selector never holds a time of the future, an out-of-range rate or a
\* primary that is not one of the chain's endpoints.
THEOREM SelectorTypeCorrect == SelectorSpec => []SelectorTypeOK
<1>1. now = StartTime /\ SelectorInit => SelectorTypeOK
  BY TypeInit
<1>2. SelectorTypeOK /\ [SelectorNext]_<<now, selectorVars>> => SelectorTypeOK'
  BY TypeStep
<1>3. QED
  BY <1>1, <1>2, PTL DEF SelectorSpec, SelectorStart

\* What makes SwitchesSpaced inductive: the service remembers the latest switch.
SwitchesKnown == \A a \in switches : a.at \in Nat /\ a.at <= selector.lastSwitch

LEMMA SpacingStep ==
  ASSUME SelectorTypeOK, SwitchesKnown, SwitchesSpaced,
         [SelectorNext]_<<now, selectorVars>>
  PROVE  SwitchesKnown' /\ SwitchesSpaced'
<1>1. ASSUME NEW s, ReportStep(s) PROVE SwitchesKnown' /\ SwitchesSpaced'
  <2> DEFINE t == CheckAndUpdatePrimary(s)
             new == [at |-> now, from |-> selector.primary, to |-> t.primary]
  <2>1. selector' = t /\ (switches' = switches \/ switches' = switches \cup {new})
    BY <1>1 DEF ReportStep, BecomesSelector
  <2>2. CASE t = s
    <3>1. switches' = switches /\ selector'.lastSwitch = selector.lastSwitch
      BY <1>1, <2>2 DEF ReportStep, BecomesSelector
    <3>2. QED
      BY <3>1 DEF SwitchesKnown, SwitchesSpaced
  <2>3. CASE /\ t = [s EXCEPT !.primary = FindBestEndpoint(s), !.lastSwitch = now]
             /\ ~(now - s.lastSwitch < MIN_SWITCH_INTERVAL)
    <3>1. t.lastSwitch = now
      BY <1>1, <2>3 DEF ReportStep, StateOK, State
    <3>2. now \in Nat /\ selector.lastSwitch \in Nat /\ MIN_SWITCH_INTERVAL \in Nat \ {0}
      BY SelectorAssumption DEF SelectorTypeOK, SelectorAssumption
    <3>3. now - selector.lastSwitch >= MIN_SWITCH_INTERVAL
      BY <1>1, <2>3, <3>2 DEF ReportStep
    <3>4. \A a \in switches' : a \in switches \/ a = new
      BY <2>1
    <3>5. \A a \in switches : a.at \in Nat /\ now - a.at >= MIN_SWITCH_INTERVAL
      BY <3>2, <3>3 DEF SwitchesKnown
    <3>6. new.at = now
      OBVIOUS
    <3> HIDE DEF t, new
    <3>7. SwitchesKnown'
      BY <2>1, <3>1, <3>2, <3>4, <3>5, <3>6 DEF SwitchesKnown
    <3>8. SwitchesSpaced'
      BY <3>4, <3>5, <3>6 DEF SwitchesSpaced
    <3>9. QED
      BY <3>7, <3>8
  <2>4. QED
    BY <2>2, <2>3, SwitchOrKeep
<1>2. CASE SelectorTick \/ UNCHANGED <<now, selectorVars>>
  BY <1>2 DEF SelectorTick, selectorVars, SwitchesKnown, SwitchesSpaced
<1>3. QED
  BY <1>1, <1>2, StepKinds

\* README.md's minimum switch interval: no two switches are closer, whatever
\* reports arrive in whatever order.
THEOREM PrimarySwitchesSpaced == SelectorSpec => []SwitchesSpaced
<1>1. now = StartTime /\ SelectorInit => SwitchesKnown /\ SwitchesSpaced
  BY DEF SelectorInit, SwitchesKnown, SwitchesSpaced
<1>2. SelectorTypeOK /\ SwitchesKnown /\ SwitchesSpaced /\ [SelectorNext]_<<now, selectorVars>>
        => SwitchesKnown' /\ SwitchesSpaced'
  BY SpacingStep
<1>3. QED
  BY <1>1, <1>2, SelectorTypeCorrect, PTL DEF SelectorSpec, SelectorStart

\* Failover: once the interval has passed, a report never leaves an unusable
\* primary in place while some endpoint is usable.
THEOREM FailoverHappens == SelectorSpec => UnusablePrimaryReplaced
<1> DEFINE Replaced ==
      selector'.health # selector.health /\ now - selector.lastSwitch >= MIN_SWITCH_INTERVAL
        => \/ Usable(selector'.health[selector'.primary])
           \/ UsableUrls(selector'.health) = {}
<1>1. SelectorTypeOK /\ [SelectorNext]_<<now, selectorVars>> => [Replaced]_<<now, selectorVars>>
  <2> SUFFICES ASSUME SelectorTypeOK, [SelectorNext]_<<now, selectorVars>>
               PROVE  [Replaced]_<<now, selectorVars>>
    OBVIOUS
  <2>1. ASSUME NEW s, ReportStep(s) PROVE Replaced
    <3>1. selector' = CheckAndUpdatePrimary(s)
      BY <2>1 DEF ReportStep, BecomesSelector
    <3>2. now \in Nat
      BY DEF SelectorTypeOK
    <3>3. QED
      BY <2>1, <3>1, <3>2, CheckedUsable DEF ReportStep
  <2>2. CASE SelectorTick
    BY <2>2 DEF SelectorTick, selectorVars
  <2>3. QED
    BY <2>1, <2>2, StepKinds
<1>2. QED
  BY <1>1, SelectorTypeCorrect, PTL DEF SelectorSpec, SelectorStart, UnusablePrimaryReplaced

-----------------------------------------------------------------------------
(* The service implements PrimaryChoice. *)

\* Reconsidering the primary keeps it, or changes it to what PrimaryChoice allows.
LEMMA CheckedChooses ==
  ASSUME NEW s, StateOK(s), now \in Nat
  PROVE  LET t == CheckAndUpdatePrimary(s)
             U == UsableUrls(t.health)
         IN  \/ /\ t.primary = s.primary /\ t.lastSwitch = s.lastSwitch
                /\ now - s.lastSwitch >= MIN_SWITCH_INTERVAL => t.primary \in U \/ U = {}
             \/ /\ now - s.lastSwitch >= MIN_SWITCH_INTERVAL
                /\ t.primary # s.primary /\ t.lastSwitch = now
                /\ IF U = {} THEN t.primary = PRIMARY_RPC_URL ELSE t.primary \in U
<1> DEFINE t == CheckAndUpdatePrimary(s)
           U == UsableUrls(t.health)
<1>1. t.health = s.health /\ t.primary \in Urls
  BY CheckedOK DEF StateOK, State
<1>2. CASE t = s
  <2>1. now - s.lastSwitch >= MIN_SWITCH_INTERVAL => Usable(t.health[t.primary]) \/ U = {}
    BY CheckedUsable
  <2>2. QED
    BY <1>1, <1>2, <2>1 DEF UsableUrls
<1>3. CASE t # s
  <2>1. t = [s EXCEPT !.primary = FindBestEndpoint(s), !.lastSwitch = now]
    BY <1>3, SwitchOrKeep
  <2>2. /\ ~(now - s.lastSwitch < MIN_SWITCH_INTERVAL)
        /\ FindBestEndpoint(s) # s.primary
    BY <1>3 DEF CheckAndUpdatePrimary
  <2>3. now - s.lastSwitch >= MIN_SWITCH_INTERVAL
    BY <2>2, SelectorAssumption DEF SelectorAssumption, StateOK, State
  <2>4. t.primary = FindBestEndpoint(s) /\ t.lastSwitch = now
    BY <2>1 DEF StateOK, State
  <2>5. IF U = {} THEN t.primary = PRIMARY_RPC_URL ELSE t.primary \in U
    <3>1. CASE U = {}
      BY <1>1, <2>4, <3>1 DEF FindBestEndpoint
    <3>2. CASE U # {}
      BY <1>1, <2>4, <3>2, BestUsable DEF StateOK, State
    <3>3. QED
      BY <3>1, <3>2
  <2>6. QED
    BY <2>2, <2>3, <2>4, <2>5
<1>4. QED
  BY <1>2, <1>3

LEMMA ChoiceStep ==
  ASSUME SelectorTypeOK, [SelectorNext]_<<now, selectorVars>>
  PROVE  [Choice!Next]_Choice!vars
<1>1. ASSUME NEW s, ReportStep(s) PROVE Choice!Report
  <2> DEFINE t == CheckAndUpdatePrimary(s)
             U == UsableUrls(t.health)
  <2>1. /\ selector' = t /\ now' = now /\ StateOK(s)
        /\ s.primary = selector.primary /\ s.lastSwitch = selector.lastSwitch
    BY <1>1 DEF ReportStep, BecomesSelector
  <2>2. now \in Nat
    BY DEF SelectorTypeOK
  <2>3. UsableUrls(selector.health)' = U
    BY <2>1 DEF UsableUrls, Usable, Known
  <2>4. U \in SUBSET Urls
    BY DEF UsableUrls
  <2>5. \/ /\ t.primary = s.primary /\ t.lastSwitch = s.lastSwitch
           /\ now - s.lastSwitch >= MIN_SWITCH_INTERVAL => t.primary \in U \/ U = {}
        \/ /\ now - s.lastSwitch >= MIN_SWITCH_INTERVAL
           /\ t.primary # s.primary /\ t.lastSwitch = now
           /\ IF U = {} THEN t.primary = PRIMARY_RPC_URL ELSE t.primary \in U
    BY <2>1, <2>2, CheckedChooses
  <2> HIDE DEF t, U
  <2>6. Choice!Keep \/ Choice!Change
    BY <2>1, <2>3, <2>5 DEF Choice!Keep, Choice!Change, Choice!MaySwitch
  <2>7. QED
    BY <2>1, <2>3, <2>4, <2>6 DEF Choice!Report
<1>2. CASE SelectorTick
  BY <1>2 DEF SelectorTick, selectorVars, Choice!Next, Choice!Advance
<1>3. CASE UNCHANGED <<now, selectorVars>>
  BY <1>3 DEF selectorVars, Choice!vars
<1>4. QED
  BY <1>1, <1>2, <1>3, StepKinds DEF Choice!Next

\* Whatever the endpoints, and however health and sync reports interleave, the
\* service does what PrimaryChoice promises and nothing else.
THEOREM SelectorImplementsChoice == SelectorSpec => ImplementsPrimaryChoice
<1>1. now = StartTime /\ SelectorInit => Choice!Init
  <2> SUFFICES ASSUME now = StartTime, SelectorInit PROVE Choice!Init
    OBVIOUS
  <2>1. selector.health = [u \in Urls |-> NewHealth] /\ selector.primary = PRIMARY_RPC_URL
        /\ selector.lastSwitch = 0
    BY DEF SelectorInit
  <2>2. ~Usable(NewHealth)
    BY DEF Usable, Known, NewHealth
  <2>3. UsableUrls(selector.health) = {}
    BY <2>1, <2>2 DEF UsableUrls
  <2>4. QED
    BY <2>1, <2>3 DEF Choice!Init
<1>2. SelectorTypeOK /\ [SelectorNext]_<<now, selectorVars>> => [Choice!Next]_Choice!vars
  BY ChoiceStep
<1>3. QED
  BY <1>1, <1>2, SelectorTypeCorrect, PTL DEF SelectorSpec, SelectorStart, ImplementsPrimaryChoice, Choice!Spec
=============================================================================
