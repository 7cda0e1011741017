---------------------- MODULE ConsensusMonitorProofs ----------------------
(***************************************************************************)
(* Proofs about ConsensusMonitor for any chains, window size, penalty      *)
(* lists and bounds, on the assumption that no epoch number belongs to two *)
(* chains.                                                                 *)
(***************************************************************************)
EXTENDS ConsensusMonitor, TLAPS, FiniteSetTheorems, WellFoundedInduction

-----------------------------------------------------------------------------
(* The newest members of a finite set of numbers. *)

LEMMA LargestExists ==
  ASSUME NEW K \in Nat, NEW S \in SUBSET (0 .. K), S # {}
  PROVE  \E m \in S : \A x \in S : x <= m
<1> DEFINE R == {K - x : x \in S}
<1>1. R \subseteq Nat /\ R # {}
  <2>1. \A x \in S : x \in Nat /\ x <= K
    OBVIOUS
  <2>2. \A x \in S : K - x \in Nat
    BY <2>1
  <2>3. QED
    BY <2>2
<1>3. PICK r \in R : \A s \in R : ~(<<s, r>> \in OpToRel(<, Nat))
  <2> HIDE DEF R
  <2>1. QED
    BY <1>1, WFMin, NatLessThanWellFounded
<1>4. \A s \in R : ~(s < r)
  BY <1>1, <1>3 DEF OpToRel
<1>5. PICK m \in S : r = K - m
  BY <1>3
<1>6. \A x \in S : x <= m
  <2> TAKE x \in S
  <2>1. K - x \in R
    OBVIOUS
  <2>2. ~(K - x < K - m)
    BY <2>1, <1>4, <1>5
  <2> HIDE DEF R
  <2>3. QED
    BY <2>2
<1>7. QED
  BY <1>6

LEMMA AboveFinite ==
  ASSUME NEW K \in Nat, NEW S \in SUBSET (0 .. K), NEW T \in SUBSET S
  PROVE  /\ IsFiniteSet(S) /\ IsFiniteSet(T)
         /\ Cardinality(S) \in Nat /\ Cardinality(T) \in Nat
         /\ Cardinality(T) <= Cardinality(S)
<1>1. IsFiniteSet(0 .. K)
  BY FS_Interval
<1>2. IsFiniteSet(S)
  BY <1>1, FS_Subset
<1>3. IsFiniteSet(T) /\ Cardinality(T) <= Cardinality(S)
  BY <1>2, FS_Subset
<1>4. QED
  BY <1>2, <1>3, FS_CardinalityType

\* A member left out of the newest n lies below n newer ones, all of them kept.
LEMMA LeftOutIsOld ==
  ASSUME NEW K \in Nat, NEW S \in SUBSET (0 .. K), NEW n \in Nat,
         NEW f \in S, f \notin Newest(S, n)
  PROVE  /\ \A t \in Newest(S, n) : t > f
         /\ Cardinality(Newest(S, n)) >= n
<1> DEFINE T == Newest(S, n)
           Above(x) == {g \in S : g > x}
<1>1. T \subseteq S /\ \A x \in S : x \in Nat
  BY DEF Newest
<1>2. \A x \in S : x \in T <=> Cardinality(Above(x)) < n
  BY DEF Newest
<1>3. \A x \in S : Cardinality(Above(x)) \in Nat
  BY AboveFinite
<1>4. ASSUME NEW t \in T PROVE t > f
  <2>1. CASE t <= f
    <3>1. Above(f) \subseteq Above(t)
      <4>1. t \in Nat /\ f \in Nat
        BY <1>1
      <4>2. \A g \in S : g \in Nat /\ g > f => g > t
        BY <2>1, <4>1
      <4>3. QED
        BY <1>1, <4>2
    <3>2. Cardinality(Above(f)) <= Cardinality(Above(t))
      <4>1. Above(t) \in SUBSET (0 .. K)
        OBVIOUS
      <4>2. QED
        BY <3>1, <4>1, AboveFinite
    <3>3. Cardinality(Above(t)) < n /\ ~(Cardinality(Above(f)) < n)
      BY <1>1, <1>2
    <3> HIDE DEF Above, T
    <3>4. QED
      BY <3>2, <3>3, <1>3, <1>1
  <2> HIDE DEF T
  <2>2. QED
    BY <2>1, <1>1
<1>5. Cardinality(T) >= n
  <2> DEFINE M == S \ T
  <2>1. M \in SUBSET (0 .. K) /\ M # {}
    OBVIOUS
  <2>2. PICK m \in M : \A x \in M : x <= m
    BY <2>1, LargestExists
  <2>3. Above(m) \subseteq T
    <3>1. m \in Nat /\ \A g \in S : g \in Nat
      BY <1>1
    <3>2. \A g \in M : ~(g > m)
      BY <2>2, <3>1
    <3>3. QED
      BY <3>2, <1>1
  <2>4. Cardinality(Above(m)) <= Cardinality(T) /\ Cardinality(T) \in Nat
    <3>1. T \in SUBSET (0 .. K)
      BY <1>1
    <3>2. QED
      BY <2>3, <3>1, AboveFinite
  <2>5. ~(Cardinality(Above(m)) < n) /\ Cardinality(Above(m)) \in Nat
    BY <1>2, <1>3
  <2> HIDE DEF Above, T
  <2>6. QED
    BY <2>4, <2>5
<1>6. QED
  BY <1>4, <1>5

\* Adding to the newest and trimming again gives the newest of the larger set.
LEMMA NewestInsert ==
  ASSUME NEW K \in Nat, NEW S \in SUBSET (0 .. K), NEW e \in 0 .. K, NEW n \in Nat
  PROVE  Newest(Newest(S, n) \cup {e}, n) = Newest(S \cup {e}, n)
<1> DEFINE T == Newest(S, n)
           A == T \cup {e}
           B == S \cup {e}
           OfA(x) == {f \in A : f > x}
           OfB(x) == {f \in B : f > x}
           OfS(x) == {f \in S : f > x}
<1>1. /\ T \subseteq S /\ A \subseteq B /\ B \in SUBSET (0 .. K)
      /\ \A x \in B : x \in Nat
  BY DEF Newest
<1>2. \A x \in 0 .. K : /\ Cardinality(OfA(x)) \in Nat /\ Cardinality(OfB(x)) \in Nat
                        /\ Cardinality(OfS(x)) \in Nat
                        /\ Cardinality(OfA(x)) <= Cardinality(OfB(x))
                        /\ Cardinality(OfS(x)) <= Cardinality(OfB(x))
  <2> TAKE x \in 0 .. K
  <2>1. /\ OfB(x) \in SUBSET (0 .. K) /\ OfA(x) \in SUBSET OfB(x)
        /\ OfS(x) \in SUBSET OfB(x)
    BY <1>1
  <2> HIDE DEF OfA, OfB, OfS
  <2>2. QED
    BY <2>1, AboveFinite
<1>3. ASSUME NEW x \in B, Cardinality(OfB(x)) < n
      PROVE  x \in A /\ Cardinality(OfA(x)) < n
  <2>1. Cardinality(OfS(x)) < n /\ Cardinality(OfA(x)) < n
    <3> HIDE DEF OfA, OfB, OfS
    <3>1. QED
      BY <1>1, <1>2, <1>3
  <2>2. x \in S => x \in T
    BY <2>1 DEF Newest
  <2>3. QED
    BY <2>1, <2>2
<1>4. ASSUME NEW x \in A, Cardinality(OfA(x)) < n
      PROVE  Cardinality(OfB(x)) < n
  <2>1. OfB(x) \subseteq OfA(x)
    <3> SUFFICES ASSUME NEW f \in OfB(x), f \notin A PROVE FALSE
      OBVIOUS
    <3>1. f \in S /\ f \notin T /\ f > x /\ x \in 0 .. K /\ f \in 0 .. K
      BY <1>1
    <3>2. (\A t \in T : t > f) /\ Cardinality(T) >= n
      <4> HIDE DEF OfA, OfB, OfS, A, B
      <4>1. QED
        BY <3>1, LeftOutIsOld
    <3>3. T \subseteq OfA(x)
      <4> HIDE DEF T
      <4>1. QED
        BY <3>1, <3>2, <1>1
    <3>4. Cardinality(T) <= Cardinality(OfA(x)) /\ Cardinality(T) \in Nat
      <4>1. OfA(x) \in SUBSET (0 .. K)
        BY <1>1
      <4> HIDE DEF OfA, T
      <4>2. QED
        BY <3>3, <4>1, AboveFinite
    <3> HIDE DEF OfA, OfB, OfS, T
    <3>5. QED
      BY <3>1, <3>2, <3>4, <1>2, <1>4
  <2>2. OfB(x) = OfA(x)
    BY <2>1, <1>1
  <2> HIDE DEF OfA, OfB
  <2>3. QED
    BY <2>2, <1>4
<1>5. Newest(A, n) = {x \in A : Cardinality(OfA(x)) < n}
  BY DEF Newest
<1>6. Newest(B, n) = {x \in B : Cardinality(OfB(x)) < n}
  BY DEF Newest
<1> HIDE DEF OfA, OfB, A, B
<1>7. Newest(A, n) = Newest(B, n)
  BY <1>1, <1>3, <1>4, <1>5, <1>6
<1>8. QED
  BY <1>7 DEF A, B
-----------------------------------------------------------------------------
(* The epochs of a chain. *)

Bound(c) == SwitchEpoch[c] + MaxRound[c]

LEMMA QuotientSmaller ==
  ASSUME NEW r \in Nat, NEW d \in Nat \ {0}
  PROVE  r \div d \in 0 .. r
OBVIOUS

LEMMA EpochsBounded ==
  ASSUME NEW c \in Chains
  PROVE  /\ Bound(c) \in Nat /\ EpochsOf(c) \subseteq 0 .. Bound(c)
         /\ 0 \notin EpochsOf(c)
<1>1. /\ SwitchEpoch[c] \in Nat \ {0} /\ MaxRound[c] \in Nat
      /\ EPOCH_LENGTH \in Nat \ {0}
  BY ConsensusAssumption DEF ConsensusAssumption
<1>2. \A r \in 0 .. MaxRound[c] :
        CalculateEpochNumber(r, c) \in 1 .. Bound(c)
  <2> TAKE r \in 0 .. MaxRound[c]
  <2>1. r \in Nat /\ r <= MaxRound[c]
    BY <1>1
  <2>2. r \div EPOCH_LENGTH \in 0 .. r
    BY <1>1, <2>1, QuotientSmaller
  <2> DEFINE q == r \div EPOCH_LENGTH
  <2> HIDE DEF q
  <2>3. q \in 0 .. r
    BY <2>2 DEF q
  <2>4. SwitchEpoch[c] + q \in 1 .. Bound(c)
    BY <1>1, <2>1, <2>3 DEF Bound
  <2>5. QED
    BY <2>4 DEF CalculateEpochNumber, q
<1>3. QED
  BY <1>1, <1>2 DEF EpochsOf, Bound

-----------------------------------------------------------------------------
(* The inductive invariant. *)

\* The epoch checked last is some chain's, and was checked for that chain.
LastIsChecked ==
  lastEpochChecked # 0 =>
    \E c \in Chains : /\ lastEpochChecked \in EpochsOf(c)
                      /\ <<c, lastEpochChecked, 1>> \in checks

IInv == TypeOK /\ WindowIsNewest /\ VerdictsExact /\ LastIsChecked

\* What one call of updatePenaltyData() does to the windows.
LEMMA UpdateKeepsNewest ==
  ASSUME TypeOK, WindowIsNewest, NEW c \in Chains, NEW e \in EpochsOf(c),
         UpdatePenaltyData(c, e)
  PROVE  /\ WindowIsNewest'
         /\ seen' \in [Chains -> SUBSET Nat] /\ processedEpochs' \in [Chains -> SUBSET Nat]
         /\ penaltyHistory' = [d \in Chains |-> penaltyHistory'[d]]
         /\ \A d \in Chains : seen'[d] \subseteq EpochsOf(d)
<1> DEFINE w == [processed |-> processedEpochs[c], history |-> penaltyHistory[c]]
           u == UpdatedWindow(c, w, e)
           added == processedEpochs[c] \cup {e}
<1>1. /\ seen[c] \in SUBSET (0 .. Bound(c)) /\ e \in 0 .. Bound(c) /\ Bound(c) \in Nat
      /\ e \in Nat /\ SLIDING_WINDOW_SIZE \in Nat
  BY EpochsBounded, EpochAssumption DEF TypeOK, EpochAssumption
<1>2. /\ processedEpochs[c] = Window(seen[c])
      /\ DOMAIN penaltyHistory[c] = processedEpochs[c]
      /\ \A f \in processedEpochs[c] : penaltyHistory[c][f] = Penalty(c, f)
  BY DEF WindowIsNewest
<1>3. /\ u.processed = Window(seen[c] \cup {e})
      /\ DOMAIN u.history = u.processed
      /\ \A f \in u.processed : u.history[f] = Penalty(c, f)
  <2>1. CASE e \in processedEpochs[c]
    <3>1. u = w
      BY <2>1 DEF UpdatedWindow
    <3>2. seen[c] \cup {e} = seen[c]
      BY <2>1, <1>2 DEF Window, Newest
    <3>3. QED
      BY <3>1, <3>2, <1>2
  <2>2. CASE e \notin processedEpochs[c]
    <3>1. /\ u.processed = Window(added)
          /\ u.history = [f \in (DOMAIN penaltyHistory[c] \cup {e}) \ (added \ Window(added)) |->
                            IF f = e THEN Penalty(c, e) ELSE penaltyHistory[c][f]]
      BY <2>2 DEF UpdatedWindow
    <3>2. Window(added) \subseteq added
      BY DEF Window, Newest
    <3>3. (DOMAIN penaltyHistory[c] \cup {e}) \ (added \ Window(added)) = Window(added)
      BY <3>2, <1>2
    <3>4. Window(added) = Window(seen[c] \cup {e})
      BY <1>1, <1>2, NewestInsert DEF Window
    <3>5. \A f \in Window(added) : f # e => f \in processedEpochs[c]
      BY <3>2
    <3> HIDE DEF u, added
    <3>6. QED
      BY <3>1, <3>3, <3>4, <3>5, <1>2
  <2>3. QED
    BY <2>1, <2>2
<1>4. /\ penaltyHistory' = [penaltyHistory EXCEPT ![c] = u.history]
      /\ processedEpochs' = [processedEpochs EXCEPT ![c] = u.processed]
      /\ seen' = [seen EXCEPT ![c] = seen[c] \cup {e}]
  BY DEF UpdatePenaltyData
<1> HIDE DEF u, w, added
<1>5. /\ penaltyHistory = [d \in Chains |-> penaltyHistory[d]]
      /\ processedEpochs \in [Chains -> SUBSET Nat] /\ seen \in [Chains -> SUBSET Nat]
      /\ \A d \in Chains : seen[d] \subseteq EpochsOf(d)
  BY DEF TypeOK
<1>6. /\ penaltyHistory'[c] = u.history /\ processedEpochs'[c] = u.processed
      /\ seen'[c] = seen[c] \cup {e}
      /\ \A d \in Chains : d # c => /\ penaltyHistory'[d] = penaltyHistory[d]
                                    /\ processedEpochs'[d] = processedEpochs[d]
                                    /\ seen'[d] = seen[d]
  BY <1>4, <1>5
<1>7. WindowIsNewest'
  <2> SUFFICES ASSUME NEW d \in Chains
               PROVE /\ processedEpochs'[d] = Window(seen'[d])
                     /\ DOMAIN penaltyHistory'[d] = processedEpochs'[d]
                     /\ \A f \in processedEpochs'[d] : penaltyHistory'[d][f] = Penalty(d, f)
    BY DEF WindowIsNewest, Window, Newest
  <2>1. CASE d = c
    BY <2>1, <1>3, <1>6
  <2>2. CASE d # c
    BY <2>2, <1>6 DEF WindowIsNewest
  <2>3. QED
    BY <2>1, <2>2
<1>8. u.processed \in SUBSET Nat
  BY <1>1, <1>3 DEF Window, Newest
<1>9. /\ seen' \in [Chains -> SUBSET Nat] /\ processedEpochs' \in [Chains -> SUBSET Nat]
      /\ \A d \in Chains : seen'[d] \subseteq EpochsOf(d)
  BY <1>1, <1>4, <1>5, <1>6, <1>8
<1>10. penaltyHistory' = [d \in Chains |-> penaltyHistory'[d]]
  BY <1>4, <1>5
<1>11. QED
  BY <1>7, <1>9, <1>10
\* What a check concludes is what the windows of that moment say.
LEMMA VerdictIsExact ==
  ASSUME TypeOK, VerdictsExact, WindowIsNewest', NEW c \in Chains, NEW e \in EpochsOf(c),
         seen'[c] \subseteq EpochsOf(c),
         verdict' = [verdict EXCEPT ![c] = Verdict(c, e)]
  PROVE  VerdictsExact' /\ verdict' = [d \in Chains |-> verdict'[d]]
<1>1. verdict = [d \in Chains |-> verdict[d]]
  BY DEF TypeOK
<1>2. /\ verdict'[c] = Verdict(c, e) /\ \A d \in Chains : d # c => verdict'[d] = verdict[d]
      /\ verdict' = [d \in Chains |-> verdict'[d]]
  BY <1>1
<1> DEFINE epochs == Window(seen'[c])
           Kept(n) == {f \in epochs : n \in penaltyHistory'[c][f]}
           Listed(n) == {f \in epochs : n \in Penalty(c, f)}
<1>3. processedEpochs'[c] = epochs /\ \A f \in epochs : penaltyHistory'[c][f] = Penalty(c, f)
  BY DEF WindowIsNewest, Window, Newest
<1>4. \A n : Kept(n) = Listed(n)
  BY <1>3
<1>5. FrequentNodes(penaltyHistory'[c], processedEpochs'[c]) =
        {n \in Nodes :
           /\ Cardinality(epochs) >= MIN_EPOCHS
           /\ 100 * Cardinality(Listed(n)) >= PENALTY_THRESHOLD_PERCENTAGE * Cardinality(epochs)}
  <2>1. FrequentNodes(penaltyHistory'[c], epochs) =
          IF Cardinality(epochs) < MIN_EPOCHS THEN {}
          ELSE {n \in Nodes : 100 * Cardinality(Kept(n))
                                >= PENALTY_THRESHOLD_PERCENTAGE * Cardinality(epochs)}
    BY DEF FrequentNodes
  <2>2. Cardinality(epochs) \in Nat /\ MIN_EPOCHS \in Nat
    <3>1. /\ Bound(c) \in Nat /\ seen'[c] \in SUBSET (0 .. Bound(c))
          /\ epochs \in SUBSET seen'[c]
      BY EpochsBounded DEF Window, Newest
    <3> HIDE DEF epochs
    <3>2. QED
      BY <3>1, AboveFinite, EpochAssumption DEF EpochAssumption
  <2> HIDE DEF epochs, Kept, Listed
  <2>3. QED
    BY <2>1, <2>2, <1>3, <1>4
<1>6. /\ Verdict(c, e).of = seen'[c] /\ Verdict(c, e).epoch = e
      /\ Verdict(c, e).oversized = (Cardinality(Penalty(c, e)) >= MAX_PENALTY_LIST_SIZE)
      /\ Verdict(c, e).frequent = FrequentNodes(penaltyHistory'[c], processedEpochs'[c])
  BY DEF Verdict, Oversized
<1>7. VerdictsExact'
  <2> SUFFICES ASSUME NEW d \in Chains PROVE
        LET v == verdict'[d]
            known == Window(v.of)
            share(n) == Cardinality({f \in known : n \in Penalty(d, f)})
        IN  v.epoch # 0 =>
              /\ v.frequent = {n \in Nodes :
                   /\ Cardinality(known) >= MIN_EPOCHS
                   /\ 100 * share(n) >= PENALTY_THRESHOLD_PERCENTAGE * Cardinality(known)}
              /\ v.oversized <=> Cardinality(Penalty(d, v.epoch)) >= MAX_PENALTY_LIST_SIZE
    BY DEF VerdictsExact, Window, Newest
  <2>1. CASE d = c
    <3> DEFINE v == verdict'[c]
    <3>1. /\ v.of = seen'[c] /\ v.epoch = e
          /\ v.oversized = (Cardinality(Penalty(c, e)) >= MAX_PENALTY_LIST_SIZE)
          /\ v.frequent = {n \in Nodes :
               /\ Cardinality(epochs) >= MIN_EPOCHS
               /\ 100 * Cardinality(Listed(n)) >= PENALTY_THRESHOLD_PERCENTAGE * Cardinality(epochs)}
      BY <1>2, <1>5, <1>6
    <3>2. Window(v.of) = epochs
      BY <3>1
    <3>3. \A n : {f \in Window(v.of) : n \in Penalty(c, f)} = Listed(n)
      BY <3>2
    <3> HIDE DEF v, epochs, Listed
    <3>4. v.frequent = {n \in Nodes :
            /\ Cardinality(Window(v.of)) >= MIN_EPOCHS
            /\ 100 * Cardinality({f \in Window(v.of) : n \in Penalty(c, f)})
                 >= PENALTY_THRESHOLD_PERCENTAGE * Cardinality(Window(v.of))}
      BY <3>1, <3>2, <3>3
    <3>5. v.oversized <=> Cardinality(Penalty(c, v.epoch)) >= MAX_PENALTY_LIST_SIZE
      BY <3>1
    <3> USE DEF v
    <3>6. QED
      BY <2>1, <3>4, <3>5
  <2>2. CASE d # c
    BY <2>2, <1>2 DEF VerdictsExact
  <2>3. QED
    BY <2>1, <2>2
<1>8. QED
  BY <1>2, <1>7

-----------------------------------------------------------------------------
(* Every step keeps the invariant. *)

LEMMA WindowOfFew ==
  ASSUME NEW c \in Chains, NEW loaded
  PROVE  /\ Window(FirstEpochs(c, loaded)) = FirstEpochs(c, loaded)
         /\ FirstEpochs(c, loaded) \subseteq EpochsOf(c)
<1>1. FirstEpochs(c, loaded) \subseteq {CalculateEpochNumber(0, c)}
  BY DEF FirstEpochs
<1>2. CalculateEpochNumber(0, c) \in EpochsOf(c)
  BY ConsensusAssumption DEF ConsensusAssumption, EpochsOf
<1>3. CalculateEpochNumber(0, c) \in Nat
  BY <1>2, EpochsBounded
<1>4. \A e \in FirstEpochs(c, loaded) : {f \in FirstEpochs(c, loaded) : f > e} = {}
  BY <1>1, <1>3
<1>5. Cardinality({}) < SLIDING_WINDOW_SIZE
  BY FS_EmptySet, EpochAssumption DEF EpochAssumption
<1>6. QED
  BY <1>1, <1>2, <1>4, <1>5 DEF Window, Newest

LEMMA InitInvariant == Init => IInv
<1> SUFFICES ASSUME Init PROVE IInv
  OBVIOUS
<1>1. PICK loaded \in SUBSET Chains :
        /\ round = [c \in Chains |-> 0]
        /\ chainValidatorData = [c \in Chains |->
             IF c \in loaded THEN [epoch |-> CalculateEpochNumber(0, c), loaded |-> TRUE]
             ELSE [epoch |-> 0, loaded |-> FALSE]]
        /\ inflight = [c \in Chains |-> {}]
        /\ lastEpochChecked = 0
        /\ seen = [c \in Chains |-> FirstEpochs(c, loaded)]
        /\ processedEpochs = seen
        /\ penaltyHistory = [c \in Chains |-> [e \in FirstEpochs(c, loaded) |-> Penalty(c, e)]]
        /\ checks = {}
        /\ verdict = [c \in Chains |-> [of |-> {}, frequent |-> {}, epoch |-> 0, oversized |-> FALSE]]
  BY DEF Init
<1>2. /\ MaxRound \in [Chains -> Nat]
      /\ \A c \in Chains : /\ FirstEpochs(c, loaded) \subseteq EpochsOf(c)
                           /\ EpochsOf(c) \subseteq Nat
                           /\ CalculateEpochNumber(0, c) \in EpochsOf(c)
  BY WindowOfFew, EpochsBounded, ConsensusAssumption DEF ConsensusAssumption, EpochsOf
<1>3. TypeOK
  <2>1. chainValidatorData \in [Chains -> [epoch : Nat, loaded : BOOLEAN]]
    BY <1>1, <1>2
  <2>2. \A c \in Chains : chainValidatorData[c].loaded => chainValidatorData[c].epoch \in EpochsOf(c)
    BY <1>1, <1>2
  <2>3. /\ round \in [Chains -> Nat] /\ \A c \in Chains : round[c] \in 0 .. MaxRound[c]
        /\ inflight \in [Chains -> SUBSET Nat] /\ lastEpochChecked \in Nat
        /\ seen \in [Chains -> SUBSET Nat] /\ processedEpochs \in [Chains -> SUBSET Nat]
        /\ \A c \in Chains : inflight[c] \subseteq EpochsOf(c) /\ seen[c] \subseteq EpochsOf(c)
    BY <1>1, <1>2
  <2>4. /\ penaltyHistory = [c \in Chains |-> penaltyHistory[c]]
        /\ verdict = [c \in Chains |-> verdict[c]]
    BY <1>1
  <2>5. QED
    BY <2>1, <2>2, <2>3, <2>4 DEF TypeOK
<1>4. WindowIsNewest
  BY <1>1, WindowOfFew DEF WindowIsNewest
<1>5. VerdictsExact
  BY <1>1 DEF VerdictsExact
<1>6. LastIsChecked
  BY <1>1 DEF LastIsChecked
<1>7. QED
  BY <1>3, <1>4, <1>5, <1>6 DEF IInv

\* The last check of one chain is a check of every chain's cached epoch of
\* that number, since no other chain has it.
LEMMA InvariantSkipsNone == IInv => NoEpochSkipped
<1> SUFFICES ASSUME IInv, NEW c \in Chains, chainValidatorData[c].loaded,
                    chainValidatorData[c].epoch = lastEpochChecked
             PROVE  <<c, lastEpochChecked, 1>> \in checks
  BY DEF NoEpochSkipped
<1>1. lastEpochChecked \in EpochsOf(c)
  BY DEF IInv, TypeOK
<1>2. lastEpochChecked # 0
  BY <1>1, EpochsBounded
<1>3. PICK d \in Chains : lastEpochChecked \in EpochsOf(d) /\ <<d, lastEpochChecked, 1>> \in checks
  BY <1>2 DEF IInv, LastIsChecked
<1>4. d = c
  BY <1>1, <1>3, ConsensusAssumption DEF ConsensusAssumption
<1>5. QED
  BY <1>3, <1>4
LEMMA VerdictsUnchanged ==
  ASSUME VerdictsExact, verdict' = verdict
  PROVE  VerdictsExact'
<1>1. ASSUME NEW d \in Chains, verdict'[d].epoch # 0,
             NEW known, known = Window(verdict'[d].of)
      PROVE  /\ verdict'[d].frequent = {n \in Nodes :
                  /\ Cardinality(known) >= MIN_EPOCHS
                  /\ 100 * Cardinality({e \in known : n \in Penalty(d, e)})
                       >= PENALTY_THRESHOLD_PERCENTAGE * Cardinality(known)}
             /\ verdict'[d].oversized
                  <=> Cardinality(Penalty(d, verdict'[d].epoch)) >= MAX_PENALTY_LIST_SIZE
  BY <1>1 DEF VerdictsExact
<1>2. QED
  BY <1>1 DEF VerdictsExact, Window, Newest

LEMMA RefreshAnswerInvariant ==
  ASSUME IInv, NEW c \in Chains, NEW e \in inflight[c], RefreshAnswer(c, e)
  PROVE  IInv'
<1>1. /\ TypeOK /\ WindowIsNewest /\ VerdictsExact /\ LastIsChecked
  BY DEF IInv
<1>2. e \in EpochsOf(c) /\ e \in Nat
  BY <1>1 DEF TypeOK
<1>3. /\ WindowIsNewest'
      /\ seen' \in [Chains -> SUBSET Nat] /\ processedEpochs' \in [Chains -> SUBSET Nat]
      /\ penaltyHistory' = [d \in Chains |-> penaltyHistory'[d]]
      /\ \A d \in Chains : seen'[d] \subseteq EpochsOf(d)
  <2>1. CASE e > chainValidatorData[c].epoch
    BY <2>1, <1>1, <1>2, UpdateKeepsNewest DEF RefreshAnswer
  <2>2. CASE ~(e > chainValidatorData[c].epoch)
    <3>1. UNCHANGED windowVars
      BY <2>2 DEF RefreshAnswer
    <3>2. QED
      BY <3>1, <1>1 DEF TypeOK, WindowIsNewest, Window, Newest, windowVars
  <2>3. QED
    BY <2>1, <2>2
<1>4. /\ round' = round /\ lastEpochChecked' = lastEpochChecked
      /\ checks' = checks /\ verdict' = verdict
      /\ inflight' = [inflight EXCEPT ![c] = inflight[c] \ {e}]
      /\ chainValidatorData' = [chainValidatorData EXCEPT ![c] = [epoch |-> e, loaded |-> TRUE]]
  BY DEF RefreshAnswer
<1>5. /\ inflight' \in [Chains -> SUBSET Nat]
      /\ \A d \in Chains : inflight'[d] \subseteq EpochsOf(d)
  BY <1>1, <1>4 DEF TypeOK
<1>6. /\ chainValidatorData' \in [Chains -> [epoch : Nat, loaded : BOOLEAN]]
      /\ \A d \in Chains : chainValidatorData'[d].loaded => chainValidatorData'[d].epoch \in EpochsOf(d)
  BY <1>1, <1>2, <1>4 DEF TypeOK
<1>7. TypeOK'
  BY <1>1, <1>3, <1>4, <1>5, <1>6 DEF TypeOK, EpochsOf, CalculateEpochNumber
<1>8. VerdictsExact'
  BY <1>1, <1>4, VerdictsUnchanged
<1>9. LastIsChecked'
  BY <1>1, <1>4 DEF LastIsChecked, EpochsOf, CalculateEpochNumber
<1>10. QED
  BY <1>3, <1>7, <1>8, <1>9 DEF IInv

LEMMA MonitorInvariant ==
  ASSUME IInv, NEW c \in Chains, MonitorEpochPenalties(c)
  PROVE  IInv'
<1> DEFINE e == chainValidatorData[c].epoch
<1>1. /\ TypeOK /\ WindowIsNewest /\ VerdictsExact /\ LastIsChecked
  BY DEF IInv
<1>2. e \in EpochsOf(c) /\ e \in Nat
  BY <1>1 DEF TypeOK, MonitorEpochPenalties
<1>3. /\ UpdatePenaltyData(c, e) /\ verdict' = [verdict EXCEPT ![c] = Verdict(c, e)]
      /\ checks' = Counted(c, e) /\ lastEpochChecked' = e
      /\ round' = round /\ chainValidatorData' = chainValidatorData /\ inflight' = inflight
  BY DEF MonitorEpochPenalties, CheckPenalties
<1> HIDE DEF e
<1>4. /\ WindowIsNewest'
      /\ seen' \in [Chains -> SUBSET Nat] /\ processedEpochs' \in [Chains -> SUBSET Nat]
      /\ penaltyHistory' = [d \in Chains |-> penaltyHistory'[d]]
      /\ \A d \in Chains : seen'[d] \subseteq EpochsOf(d)
  BY <1>1, <1>2, <1>3, UpdateKeepsNewest
<1>5. VerdictsExact' /\ verdict' = [d \in Chains |-> verdict'[d]]
  BY <1>1, <1>2, <1>3, <1>4, VerdictIsExact
<1>6. TypeOK'
  BY <1>1, <1>2, <1>3, <1>4, <1>5 DEF TypeOK, EpochsOf, CalculateEpochNumber
<1>7. LastIsChecked'
  <2>1. <<c, e, 1>> \in checks'
    BY <1>3 DEF Counted
  <2>2. QED
    BY <2>1, <1>2, <1>3 DEF LastIsChecked, EpochsOf, CalculateEpochNumber
<1>8. QED
  BY <1>4, <1>5, <1>6, <1>7 DEF IInv

\* Steps that touch only rounds and requests.
LEMMA RequestInvariant ==
  ASSUME IInv, UNCHANGED <<chainValidatorData, epochVars>>,
         round' \in [Chains -> Nat], \A d \in Chains : round'[d] \in 0 .. MaxRound[d],
         inflight' \in [Chains -> SUBSET Nat],
         \A d \in Chains : inflight'[d] \subseteq EpochsOf(d)
  PROVE  IInv'
<1>1. TypeOK'
  BY DEF IInv, TypeOK, epochVars, windowVars, EpochsOf, CalculateEpochNumber
<1>2. WindowIsNewest'
  BY DEF IInv, WindowIsNewest, Window, Newest, epochVars, windowVars
<1>3. VerdictsExact'
  BY VerdictsUnchanged DEF IInv, epochVars
<1>4. LastIsChecked'
  BY DEF IInv, LastIsChecked, epochVars, windowVars, EpochsOf, CalculateEpochNumber
<1>5. QED
  BY <1>1, <1>2, <1>3, <1>4 DEF IInv

LEMMA StepInvariant == IInv /\ [Next]_vars => IInv'
<1> SUFFICES ASSUME IInv, [Next]_vars PROVE IInv'
  OBVIOUS
<1>1. /\ round \in [Chains -> Nat] /\ \A d \in Chains : round[d] \in 0 .. MaxRound[d]
      /\ inflight \in [Chains -> SUBSET Nat]
      /\ \A d \in Chains : inflight[d] \subseteq EpochsOf(d) /\ EpochsOf(d) \subseteq Nat
  BY EpochsBounded DEF IInv, TypeOK
<1>2. EPOCH_LENGTH \in Nat \ {0} /\ MaxRound \in [Chains -> Nat]
  BY ConsensusAssumption DEF ConsensusAssumption
<1>3. ASSUME NEW c \in Chains, NextEpoch(c) PROVE IInv'
  <2>1. /\ round' = [round EXCEPT ![c] = round[c] + EPOCH_LENGTH]
        /\ round[c] + EPOCH_LENGTH <= MaxRound[c]
        /\ inflight' = inflight /\ UNCHANGED <<chainValidatorData, epochVars>>
    BY <1>3 DEF NextEpoch
  <2>2. round' \in [Chains -> Nat] /\ \A d \in Chains : round'[d] \in 0 .. MaxRound[d]
    BY <2>1, <1>1, <1>2
  <2>3. QED
    BY <2>1, <2>2, <1>1, RequestInvariant
<1>4. ASSUME NEW c \in Chains, RefreshStart(c) PROVE IInv'
  <2>1. /\ inflight' = [inflight EXCEPT ![c] = inflight[c] \cup {CalculateEpochNumber(round[c], c)}]
        /\ round' = round /\ UNCHANGED <<chainValidatorData, epochVars>>
    BY <1>4 DEF RefreshStart
  <2>2. CalculateEpochNumber(round[c], c) \in EpochsOf(c)
    BY <1>1 DEF EpochsOf
  <2>3. /\ inflight' \in [Chains -> SUBSET Nat]
        /\ \A d \in Chains : inflight'[d] \subseteq EpochsOf(d)
    BY <2>1, <2>2, <1>1
  <2>4. QED
    BY <2>1, <2>3, <1>1, RequestInvariant
<1>5. ASSUME NEW c \in Chains, NEW e \in inflight[c], RefreshFailed(c, e) PROVE IInv'
  <2>1. /\ inflight' = [inflight EXCEPT ![c] = inflight[c] \ {e}]
        /\ round' = round /\ UNCHANGED <<chainValidatorData, epochVars>>
    BY <1>5 DEF RefreshFailed
  <2>2. /\ inflight' \in [Chains -> SUBSET Nat]
        /\ \A d \in Chains : inflight'[d] \subseteq EpochsOf(d)
    BY <2>1, <1>1
  <2>3. QED
    BY <2>1, <2>2, <1>1, RequestInvariant
<1>6. CASE UNCHANGED vars
  BY <1>6, <1>1, RequestInvariant DEF vars
<1>7. QED
  BY <1>3, <1>4, <1>5, <1>6, RefreshAnswerInvariant, MonitorInvariant DEF Next

-----------------------------------------------------------------------------
(* The results. *)

LEMMA AlwaysInvariant == Spec => []IInv
  BY InitInvariant, StepInvariant, PTL DEF Spec

\* Every epoch cached, asked for or windowed is one of its own chain.
THEOREM TypeCorrect == Spec => []TypeOK
<1>1. IInv => TypeOK
  BY DEF IInv
<1>2. QED
  BY <1>1, AlwaysInvariant, PTL

\* The window of each chain is the newest of all epochs it was told of, in
\* whatever order refreshes answer and checks run.
THEOREM WindowAlwaysNewest == Spec => []WindowIsNewest
<1>1. IInv => WindowIsNewest
  BY DEF IInv
<1>2. QED
  BY <1>1, AlwaysInvariant, PTL

\* A check names exactly the nodes penalized often enough in that window.
THEOREM VerdictsAlwaysExact == Spec => []VerdictsExact
<1>1. IInv => VerdictsExact
  BY DEF IInv
<1>2. QED
  BY <1>1, AlwaysInvariant, PTL

\* Sharing lastEpochChecked between chains makes no chain skip an epoch.
THEOREM NoEpochEverSkipped == Spec => []NoEpochSkipped
  BY InvariantSkipsNone, AlwaysInvariant, PTL
=============================================================================
