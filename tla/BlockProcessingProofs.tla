------------------------ MODULE BlockProcessingProofs ------------------------
(***************************************************************************)
(* Proofs about the blocks of BlocksMonitorService and their time windows, *)
(* for every set of sizes, every window and every limit: that the rate     *)
(* covers its window, and with it the types of EndpointMonitors.           *)
(***************************************************************************)
EXTENDS EndpointMonitorsProofs

-----------------------------------------------------------------------------
(***************************************************************************)
(* Sums over finite sets.  MapThenSumSet() is a recursion over the subsets *)
(* that takes out an element of its choice; a sum is shown not to depend   *)
(* on it.                                                                  *)
(***************************************************************************)
Any(s) == CHOOSE x \in s : TRUE

\* The recursion, for the weights w, over all subsets and over the small ones.
Sums(iter, S, w) ==
  iter = [s \in SUBSET S |-> IF s = {} THEN 0 ELSE w[Any(s)] + iter[s \ {Any(s)}]]

UpTo(S, n) == {s \in SUBSET S : Cardinality(s) <= n}
SumsUpTo(iter, S, w, n) ==
  iter = [s \in UpTo(S, n) |-> IF s = {} THEN 0 ELSE w[Any(s)] + iter[s \ {Any(s)}]]

\* CHOOSE takes one of the elements.
LEMMA AnyIn == ASSUME NEW s, s # {} PROVE Any(s) \in s
  BY DEF Any

\* A subset of a finite set, and the same without one element.
LEMMA SubsetCount ==
  ASSUME NEW S, IsFiniteSet(S), NEW s \in SUBSET S
  PROVE  /\ IsFiniteSet(s) /\ Cardinality(s) \in Nat /\ Cardinality(s) <= Cardinality(S)
         /\ Cardinality(s) = 0 <=> s = {}
         /\ \A x \in s : /\ s \ {x} \in SUBSET S
                         /\ Cardinality(s \ {x}) \in Nat
                         /\ Cardinality(s \ {x}) = Cardinality(s) - 1
  <1>1. IsFiniteSet(s) /\ Cardinality(s) <= Cardinality(S)
    BY FS_Subset
  <1>2. Cardinality(s) \in Nat /\ (Cardinality(s) = 0 <=> s = {})
    BY <1>1, FS_CardinalityType, FS_EmptySet
  <1>3. ASSUME NEW x \in s
        PROVE  /\ s \ {x} \in SUBSET S /\ Cardinality(s \ {x}) = Cardinality(s) - 1
               /\ Cardinality(s \ {x}) \in Nat
    <2>1. IsFiniteSet(s \ {x}) /\ Cardinality(s \ {x}) = Cardinality(s) - 1
      BY <1>1, FS_RemoveElement
    <2> QED
      BY <2>1, FS_CardinalityType
  <1> QED BY <1>1, <1>2, <1>3

\* Among subsets of a finite set there is a smallest one.
LEMMA SmallestSet ==
  ASSUME NEW S, IsFiniteSet(S), NEW bad \in SUBSET (SUBSET S), bad # {}
  PROVE  \E s \in bad : \A t \in SUBSET S : Cardinality(t) < Cardinality(s) => t \notin bad
  <1> DEFINE sizes == {Cardinality(s) : s \in bad}
  <1>1. sizes \subseteq Nat /\ sizes # {}
    BY SubsetCount
  <1>2. PICK n \in sizes : \A m \in sizes : n <= m
    <2> HIDE DEF sizes
    <2> QED BY <1>1, LeastExists
  <1>3. PICK s \in bad : n = Cardinality(s)
    BY <1>2
  <1>4. ASSUME NEW t \in SUBSET S, Cardinality(t) < Cardinality(s), t \in bad
        PROVE  FALSE
    <2>1. Cardinality(t) \in Nat /\ n \in Nat /\ n <= Cardinality(t)
      BY <1>1, <1>2, <1>4
    <2> QED
      BY <1>3, <1>4, <2>1
  <1> QED BY <1>4

\* One more size of subsets.
LEMMA SumExtended ==
  ASSUME NEW S, IsFiniteSet(S), NEW w, NEW n \in Nat, NEW g, SumsUpTo(g, S, w, n)
  PROVE  \E h : SumsUpTo(h, S, w, n + 1)
  <1> DEFINE h == [s \in UpTo(S, n + 1) |->
                     IF s \in UpTo(S, n) THEN g[s] ELSE w[Any(s)] + g[s \ {Any(s)}]]
  <1>1. \A s \in UpTo(S, n + 1) : s # {} => s \ {Any(s)} \in UpTo(S, n)
    <2> SUFFICES ASSUME NEW s \in UpTo(S, n + 1), s # {}
                 PROVE  s \ {Any(s)} \in UpTo(S, n)
      OBVIOUS
    <2>1. s \in SUBSET S /\ Cardinality(s) <= n + 1 /\ Any(s) \in s
      BY AnyIn DEF UpTo
    <2>2. /\ s \ {Any(s)} \in SUBSET S /\ Cardinality(s) \in Nat
          /\ Cardinality(s \ {Any(s)}) = Cardinality(s) - 1
      BY <2>1, SubsetCount
    <2> QED
      BY <2>1, <2>2 DEF UpTo
  <1>2. {} \in UpTo(S, n) /\ UpTo(S, n) \subseteq UpTo(S, n + 1)
    <2>1. {} \in UpTo(S, n)
      BY FS_EmptySet DEF UpTo
    <2>2. \A s \in UpTo(S, n) : s \in SUBSET S /\ Cardinality(s) \in Nat /\ Cardinality(s) <= n
      BY SubsetCount DEF UpTo
    <2> QED
      BY <2>1, <2>2 DEF UpTo
  <1>3. \A s \in UpTo(S, n) : g[s] = IF s = {} THEN 0 ELSE w[Any(s)] + g[s \ {Any(s)}]
    BY DEF SumsUpTo
  <1>4. \A s \in UpTo(S, n + 1) : h[s] = IF s = {} THEN 0 ELSE w[Any(s)] + h[s \ {Any(s)}]
    BY <1>1, <1>2, <1>3
  <1>5. h = [s \in UpTo(S, n + 1) |-> h[s]]
    OBVIOUS
  <1> HIDE DEF h
  <1>6. h = [s \in UpTo(S, n + 1) |-> IF s = {} THEN 0 ELSE w[Any(s)] + h[s \ {Any(s)}]]
    BY <1>4, <1>5
  <1> QED BY <1>6 DEF SumsUpTo

\* The recursion is well defined.
LEMMA SumExists ==
  ASSUME NEW S, IsFiniteSet(S), NEW w
  PROVE  \E iter : Sums(iter, S, w)
  <1> DEFINE bad == {n \in Nat : ~ \E iter : SumsUpTo(iter, S, w, n)}
  <1>1. bad = {}
    <2> SUFFICES ASSUME bad # {} PROVE FALSE
      OBVIOUS
    <2>1. PICK n \in bad : \A m \in bad : n <= m
      <3>1. bad \subseteq Nat
        OBVIOUS
      <3> HIDE DEF bad
      <3> QED BY <3>1, LeastExists
    <2>2. CASE n = 0
      <3> DEFINE g == [s \in UpTo(S, 0) |-> 0]
      <3>1. \A s \in UpTo(S, 0) : s = {}
        BY SubsetCount DEF UpTo
      <3>2. g = [s \in UpTo(S, 0) |-> IF s = {} THEN 0 ELSE w[Any(s)] + g[s \ {Any(s)}]]
        BY <3>1
      <3>3. SumsUpTo(g, S, w, 0)
        BY <3>2 DEF SumsUpTo
      <3> QED
        BY <2>1, <2>2, <3>3
    <2>3. CASE n # 0
      <3> DEFINE k == n - 1
      <3>1. k \in Nat /\ k \notin bad /\ n = k + 1
        BY <2>1, <2>3
      <3>2. PICK g : SumsUpTo(g, S, w, k)
        BY <3>1
      <3> HIDE DEF k
      <3>3. \E h : SumsUpTo(h, S, w, k + 1)
        BY <3>1, <3>2, SumExtended
      <3> QED
        BY <2>1, <3>1, <3>3
    <2> QED BY <2>2, <2>3
  <1>2. Cardinality(S) \in Nat /\ UpTo(S, Cardinality(S)) = SUBSET S
    BY FS_CardinalityType, SubsetCount DEF UpTo
  <1>3. PICK iter : SumsUpTo(iter, S, w, Cardinality(S))
    BY <1>1, <1>2
  <1>4. Sums(iter, S, w)
    BY <1>2, <1>3 DEF Sums, SumsUpTo
  <1> QED BY <1>4

\* Two sums over sets one of which contains the other agree where both are.
LEMMA SumsAgree ==
  ASSUME NEW S, NEW T, IsFiniteSet(T), S \subseteq T, NEW w, NEW g, NEW h,
         Sums(g, S, w), Sums(h, T, w)
  PROVE  \A s \in SUBSET S : g[s] = h[s]
  <1> DEFINE bad == {s \in SUBSET S : g[s] # h[s]}
  <1> SUFFICES ASSUME bad # {} PROVE FALSE
    OBVIOUS
  <1>1. IsFiniteSet(S)
    BY FS_Subset
  <1>2. PICK s \in bad : \A t \in SUBSET S : Cardinality(t) < Cardinality(s) => t \notin bad
    <2>1. bad \in SUBSET (SUBSET S)
      OBVIOUS
    <2> HIDE DEF bad
    <2> QED BY <1>1, <2>1, SmallestSet
  <1>3. /\ g[s] = IF s = {} THEN 0 ELSE w[Any(s)] + g[s \ {Any(s)}]
        /\ h[s] = IF s = {} THEN 0 ELSE w[Any(s)] + h[s \ {Any(s)}]
    BY <1>2 DEF Sums
  <1>4. CASE s # {}
    <2>1. s \ {Any(s)} \in SUBSET S /\ Cardinality(s \ {Any(s)}) < Cardinality(s)
      <3>1. s \in SUBSET S /\ Any(s) \in s
        BY <1>2, <1>4, AnyIn
      <3>2. /\ s \ {Any(s)} \in SUBSET S /\ Cardinality(s) \in Nat
            /\ Cardinality(s \ {Any(s)}) = Cardinality(s) - 1
        BY <1>1, <3>1, SubsetCount
      <3> QED BY <3>2
    <2>2. g[s \ {Any(s)}] = h[s \ {Any(s)}]
      BY <1>2, <2>1
    <2> QED
      BY <1>2, <1>3, <1>4, <2>2
  <1>5. CASE s = {}
    BY <1>2, <1>3, <1>5
  <1> QED BY <1>4, <1>5

\* Sums of natural numbers are such.
LEMMA SumsTyped ==
  ASSUME NEW S, IsFiniteSet(S), NEW w, \A x \in S : w[x] \in Nat, NEW g, Sums(g, S, w)
  PROVE  \A s \in SUBSET S : g[s] \in Nat
  <1> DEFINE bad == {s \in SUBSET S : g[s] \notin Nat}
  <1> SUFFICES ASSUME bad # {} PROVE FALSE
    OBVIOUS
  <1>1. PICK s \in bad : \A t \in SUBSET S : Cardinality(t) < Cardinality(s) => t \notin bad
    <2>1. bad \in SUBSET (SUBSET S)
      OBVIOUS
    <2> HIDE DEF bad
    <2> QED BY <2>1, SmallestSet
  <1>2. g[s] = IF s = {} THEN 0 ELSE w[Any(s)] + g[s \ {Any(s)}]
    BY <1>1 DEF Sums
  <1>3. CASE s # {}
    <2>1. s \in SUBSET S /\ Any(s) \in s
      BY <1>1, <1>3, AnyIn
    <2>2. s \ {Any(s)} \in SUBSET S /\ Cardinality(s \ {Any(s)}) < Cardinality(s)
      <3>1. /\ s \ {Any(s)} \in SUBSET S /\ Cardinality(s) \in Nat
            /\ Cardinality(s \ {Any(s)}) = Cardinality(s) - 1
        BY <2>1, SubsetCount
      <3> QED BY <3>1
    <2>3. g[s \ {Any(s)}] \in Nat /\ w[Any(s)] \in Nat
      BY <1>1, <2>1, <2>2
    <2> QED
      BY <1>1, <1>2, <1>3, <2>3
  <1>4. CASE s = {}
    BY <1>1, <1>2, <1>4
  <1> QED BY <1>3, <1>4

\* Any element may be taken out first, not only the one CHOOSE takes.
LEMMA SumsTakeOut ==
  ASSUME NEW S, IsFiniteSet(S), NEW w, \A x \in S : w[x] \in Nat, NEW g, Sums(g, S, w)
  PROVE  \A s \in SUBSET S : \A x \in s : g[s] = w[x] + g[s \ {x}]
  <1> DEFINE bad == {s \in SUBSET S : \E x \in s : g[s] # w[x] + g[s \ {x}]}
  <1> SUFFICES ASSUME bad # {} PROVE FALSE
    OBVIOUS
  <1>1. PICK s \in bad : \A t \in SUBSET S : Cardinality(t) < Cardinality(s) => t \notin bad
    <2>1. bad \in SUBSET (SUBSET S)
      OBVIOUS
    <2> HIDE DEF bad
    <2> QED BY <2>1, SmallestSet
  <1>2. PICK x \in s : g[s] # w[x] + g[s \ {x}]
    BY <1>1
  <1> DEFINE y == Any(s)
  <1>3. s \in SUBSET S /\ y \in s /\ g[s] = w[y] + g[s \ {y}]
    BY <1>1, <1>2, AnyIn DEF Sums
  <1> HIDE DEF y
  <1>4. x # y
    BY <1>2, <1>3
  <1>5. /\ s \ {x} \in SUBSET S /\ Cardinality(s \ {x}) < Cardinality(s)
        /\ s \ {y} \in SUBSET S /\ Cardinality(s \ {y}) < Cardinality(s)
    <2>1. /\ s \ {x} \in SUBSET S /\ Cardinality(s) \in Nat
          /\ Cardinality(s \ {x}) = Cardinality(s) - 1
      BY <1>3, SubsetCount
    <2>2. s \ {y} \in SUBSET S /\ Cardinality(s \ {y}) = Cardinality(s) - 1
      BY <1>3, SubsetCount
    <2> QED BY <2>1, <2>2
  <1> DEFINE both == (s \ {x}) \ {y}
  <1>6. g[s \ {x}] = w[y] + g[both]
    BY <1>1, <1>3, <1>4, <1>5
  <1>7. g[s \ {y}] = w[x] + g[both]
    <2>1. (s \ {y}) \ {x} = both
      OBVIOUS
    <2>2. g[s \ {y}] = w[x] + g[(s \ {y}) \ {x}]
      BY <1>1, <1>2, <1>4, <1>5
    <2> QED BY <2>1, <2>2
  <1>8. w[x] \in Nat /\ w[y] \in Nat /\ g[both] \in Nat
    <2>1. both \in SUBSET S
      BY <1>3
    <2> QED
      BY <1>2, <1>3, <2>1, SumsTyped
  <1> HIDE DEF both
  <1> QED
    BY <1>2, <1>3, <1>6, <1>7, <1>8

\* The sum of the weights of S.
Total(w, S) == (CHOOSE iter : Sums(iter, S, w))[S]

\* Every function that sums does so to the same number.
LEMMA TotalOf ==
  ASSUME NEW S, IsFiniteSet(S), NEW w, NEW g, Sums(g, S, w)
  PROVE  Total(w, S) = g[S]
  <1> DEFINE h == CHOOSE iter : Sums(iter, S, w)
  <1>1. Sums(h, S, w)
    BY SumExists
  <1> HIDE DEF h
  <1>2. g[S] = h[S]
    BY <1>1, SumsAgree
  <1> QED BY <1>2 DEF Total, h

\* Nothing sums to nothing.
LEMMA TotalEmpty == ASSUME NEW w PROVE Total(w, {}) = 0
  <1>1. PICK g : Sums(g, {}, w)
    BY FS_EmptySet, SumExists
  <1>2. g[{}] = 0
    BY <1>1 DEF Sums
  <1> QED BY <1>1, <1>2, FS_EmptySet, TotalOf

\* A set with one more element.
LEMMA TotalGrows ==
  ASSUME NEW S, IsFiniteSet(S), NEW x, x \notin S, NEW w, \A y \in S \cup {x} : w[y] \in Nat
  PROVE  /\ Total(w, S) \in Nat
         /\ Total(w, S \cup {x}) = Total(w, S) + w[x]
  <1> DEFINE T == S \cup {x}
  <1>1. IsFiniteSet(T) /\ S \subseteq T
    BY FS_AddElement
  <1>2. PICK g : Sums(g, S, w)
    BY SumExists
  <1>3. PICK h : Sums(h, T, w)
    BY <1>1, SumExists
  <1>4. g[S] = h[S]
    BY <1>1, <1>2, <1>3, SumsAgree
  <1>5. T \in SUBSET T /\ x \in T /\ T \ {x} = S
    OBVIOUS
  <1>6. \A y \in T : w[y] \in Nat
    OBVIOUS
  <1> HIDE DEF T
  <1>7. h[T] = w[x] + h[S]
    BY <1>1, <1>3, <1>5, <1>6, SumsTakeOut
  <1>8. g[S] \in Nat /\ w[x] \in Nat
    BY <1>2, <1>5, <1>6, <1>1, SumsTyped
  <1>9. Total(w, S) = g[S] /\ Total(w, T) = h[T]
    BY <1>1, <1>2, <1>3, TotalOf
  <1> QED
    BY <1>4, <1>7, <1>8, <1>9 DEF T

-----------------------------------------------------------------------------
(***************************************************************************)
(* The two sums of the model: of the points of a window and of the blocks  *)
(* it stands for.                                                          *)
(***************************************************************************)
Values(S) == MapThenSumSet(LAMBDA p : p.value, S)
Totals(S) == MapThenSumSet(LAMBDA b : b.total, S)

ValueSums(iter, S) ==
  iter = [s \in SUBSET S |-> IF s = {} THEN 0 ELSE Any(s).value + iter[s \ {Any(s)}]]
TotalSums(iter, S) ==
  iter = [s \in SUBSET S |-> IF s = {} THEN 0 ELSE Any(s).total + iter[s \ {Any(s)}]]

\* The sum getSum() takes is the sum of the weights p.value, ...
LEMMA ValuesAre ==
  ASSUME NEW D, NEW S \in SUBSET D, IsFiniteSet(S)
  PROVE  Values(S) = Total([p \in D |-> p.value], S)
  <1> DEFINE w == [p \in D |-> p.value]
  <1>1. ASSUME NEW iter PROVE ValueSums(iter, S) <=> Sums(iter, S, w)
    <2>1. \A s \in SUBSET S : s # {} => w[Any(s)] = Any(s).value
      BY AnyIn
    <2> HIDE DEF w
    <2>2. [s \in SUBSET S |-> IF s = {} THEN 0 ELSE Any(s).value + iter[s \ {Any(s)}]]
            = [s \in SUBSET S |-> IF s = {} THEN 0 ELSE w[Any(s)] + iter[s \ {Any(s)}]]
      BY <2>1
    <2> QED BY <2>2 DEF ValueSums, Sums
  <1> HIDE DEF w
  <1> DEFINE h == CHOOSE iter : ValueSums(iter, S)
  <1>2. \E iter : ValueSums(iter, S)
    BY <1>1, SumExists
  <1>3. ValueSums(h, S)
    BY <1>2
  <1>4. Values(S) = h[S]
    BY DEF Values, MapThenSumSet, MapThenFoldSet, ValueSums, Any
  <1> HIDE DEF h
  <1>5. Total(w, S) = h[S]
    BY <1>1, <1>3, TotalOf
  <1> QED BY <1>4, <1>5 DEF w

\* ... and the one over the history that of the weights b.total.
LEMMA TotalsAre ==
  ASSUME NEW D, NEW S \in SUBSET D, IsFiniteSet(S)
  PROVE  Totals(S) = Total([b \in D |-> b.total], S)
  <1> DEFINE w == [b \in D |-> b.total]
  <1>1. ASSUME NEW iter PROVE TotalSums(iter, S) <=> Sums(iter, S, w)
    <2>1. \A s \in SUBSET S : s # {} => w[Any(s)] = Any(s).total
      BY AnyIn
    <2> HIDE DEF w
    <2>2. [s \in SUBSET S |-> IF s = {} THEN 0 ELSE Any(s).total + iter[s \ {Any(s)}]]
            = [s \in SUBSET S |-> IF s = {} THEN 0 ELSE w[Any(s)] + iter[s \ {Any(s)}]]
      BY <2>1
    <2> QED BY <2>2 DEF TotalSums, Sums
  <1> HIDE DEF w
  <1> DEFINE h == CHOOSE iter : TotalSums(iter, S)
  <1>2. \E iter : TotalSums(iter, S)
    BY <1>1, SumExists
  <1>3. TotalSums(h, S)
    BY <1>2
  <1>4. Totals(S) = h[S]
    BY DEF Totals, MapThenSumSet, MapThenFoldSet, TotalSums, Any
  <1> HIDE DEF h
  <1>5. Total(w, S) = h[S]
    BY <1>1, <1>3, TotalOf
  <1> QED BY <1>4, <1>5 DEF w

\* One point more adds its value, ...
LEMMA ValuesGrow ==
  ASSUME NEW S, IsFiniteSet(S), NEW x, x \notin S, \A y \in S \cup {x} : y.value \in Nat
  PROVE  Values(S) \in Nat /\ Values(S \cup {x}) = Values(S) + x.value
  <1> DEFINE D == S \cup {x}
             w == [p \in D |-> p.value]
  <1>1. IsFiniteSet(D) /\ S \in SUBSET D /\ D \in SUBSET D
    BY FS_AddElement
  <1>2. (\A y \in D : w[y] \in Nat) /\ w[x] = x.value
    OBVIOUS
  <1>3. Values(S) = Total(w, S) /\ Values(D) = Total(w, D)
    <2> HIDE DEF D
    <2> QED BY <1>1, ValuesAre
  <1> HIDE DEF w
  <1>4. Total(w, S) \in Nat /\ Total(w, S \cup {x}) = Total(w, S) + w[x]
    BY <1>2, TotalGrows
  <1> QED BY <1>2, <1>3, <1>4

\* ... one block more its transactions.
LEMMA TotalsGrow ==
  ASSUME NEW S, IsFiniteSet(S), NEW x, x \notin S, \A y \in S \cup {x} : y.total \in Nat
  PROVE  Totals(S) \in Nat /\ Totals(S \cup {x}) = Totals(S) + x.total
  <1> DEFINE D == S \cup {x}
             w == [b \in D |-> b.total]
  <1>1. IsFiniteSet(D) /\ S \in SUBSET D /\ D \in SUBSET D
    BY FS_AddElement
  <1>2. (\A y \in D : w[y] \in Nat) /\ w[x] = x.total
    OBVIOUS
  <1>3. Totals(S) = Total(w, S) /\ Totals(D) = Total(w, D)
    <2> HIDE DEF D
    <2> QED BY <1>1, TotalsAre
  <1> HIDE DEF w
  <1>4. Total(w, S) \in Nat /\ Total(w, S \cup {x}) = Total(w, S) + w[x]
    BY <1>2, TotalGrows
  <1> QED BY <1>2, <1>3, <1>4

\* Neither sum counts anything in an empty window.
LEMMA NothingSums == Values({}) = 0 /\ Totals({}) = 0
  BY FS_EmptySet, ValuesAre, TotalsAre, TotalEmpty

-----------------------------------------------------------------------------
(***************************************************************************)
(* What addDataPoint() does to a window.                                   *)
(***************************************************************************)
Since(S, t) == {p \in S : p.at >= t}

\* Finitely many points, numbered in the order they came.
WindowOK(data) ==
  /\ IsFiniteSet(data)
  /\ \E n \in Nat : \A p \in data : p.nr \in 1 .. n
  /\ \A p, q \in data : p.nr = q.nr => p = q

\* The new point comes after every other one.
NewPoint(data, value, at) ==
  [nr |-> 1 + Max({0} \cup {p.nr : p \in data}), at |-> at, value |-> value]

\* It is another one, and the points stay numbered.
LEMMA NewPointOK ==
  ASSUME NEW data, WindowOK(data), NEW value, NEW at
  PROVE  LET p == NewPoint(data, value, at)
         IN  /\ p \notin data /\ p.at = at /\ p.value = value
             /\ Pushed(data, value, at) = data \cup {p}
             /\ WindowOK(data \cup {p})
  <1> DEFINE nrs == {0} \cup {q.nr : q \in data}
             m == Max(nrs)
             p == NewPoint(data, value, at)
  <1>1. PICK n \in Nat : \A q \in data : q.nr \in 1 .. n
    BY DEF WindowOK
  <1>2. m \in 0 .. n /\ \A q \in data : q.nr <= m
    <2>1. nrs \in SUBSET (0 .. n) /\ nrs # {} /\ \A q \in data : q.nr \in nrs
      BY <1>1
    <2> HIDE DEF nrs
    <2>2. m \in nrs /\ \A y \in nrs : m >= y
      BY <2>1, MaxExists
    <2> HIDE DEF m
    <2>3. \A q \in data : m >= q.nr
      BY <2>1, <2>2
    <2> QED BY <1>1, <2>1, <2>2, <2>3
  <1>3. p = [nr |-> 1 + m, at |-> at, value |-> value]
    BY DEF NewPoint
  <1>4. Pushed(data, value, at) = data \cup {p}
    BY DEF Pushed, NewPoint
  <1> HIDE DEF m, p
  <1>5. p.nr = 1 + m /\ p.at = at /\ p.value = value
    BY <1>3
  <1>6. \A q \in data : q.nr # p.nr
    BY <1>1, <1>2, <1>5
  <1>7. \A q \in data \cup {p} : q.nr \in 1 .. n + 1
    BY <1>1, <1>2, <1>5
  <1>8. IsFiniteSet(data \cup {p})
    BY FS_AddElement DEF WindowOK
  <1>9. \A q, r \in data \cup {p} : q.nr = r.nr => q = r
    BY <1>6 DEF WindowOK
  <1>10. WindowOK(data \cup {p})
    BY <1>7, <1>8, <1>9 DEF WindowOK
  <1> QED BY <1>4, <1>5, <1>6, <1>10 DEF p

\* What is left out does not disturb the numbers.
LEMMA WindowSubset ==
  ASSUME NEW data, WindowOK(data), NEW d \in SUBSET data
  PROVE  WindowOK(d)
  BY FS_Subset DEF WindowOK

\* slice() leaves no more than it says, ...
LEMMA NewestAreFew ==
  ASSUME NEW data, WindowOK(data), NEW max \in Nat
  PROVE  Cardinality(NewestPoints(data, max)) <= max
  <1> DEFINE kept == NewestPoints(data, max)
  <1> SUFFICES ASSUME Cardinality(kept) > max PROVE FALSE
    <2>1. kept \in SUBSET data
      BY DEF NewestPoints
    <2>2. Cardinality(kept) \in Nat
      BY <2>1, FS_Subset, FS_CardinalityType DEF WindowOK
    <2> QED BY <2>2
  <1>1. kept \in SUBSET data /\ IsFiniteSet(data)
    BY DEF NewestPoints, WindowOK
  <1>2. IsFiniteSet(kept) /\ Cardinality(kept) \in Nat
    BY <1>1, FS_Subset, FS_CardinalityType
  <1>3. kept # {}
    BY FS_EmptySet
  <1>4. PICK n \in Nat : \A q \in data : q.nr \in 1 .. n
    BY DEF WindowOK
  <1> DEFINE nrs == {q.nr : q \in kept}
  <1>5. PICK k \in nrs : \A i \in nrs : k <= i
    <2>1. nrs \subseteq Nat /\ nrs # {}
      BY <1>1, <1>3, <1>4
    <2> HIDE DEF nrs
    <2> QED BY <2>1, LeastExists
  <1>6. PICK p \in kept : p.nr = k
    BY <1>5
  <1> DEFINE later == {q \in data : q.nr > p.nr}
  <1>7. kept \ {p} \in SUBSET later
    <2> SUFFICES ASSUME NEW q \in kept, q # p PROVE q \in later
      OBVIOUS
    <2>1. q \in data /\ p \in data /\ q.nr # p.nr
      BY <1>1, <1>6 DEF WindowOK
    <2>2. p.nr <= q.nr /\ p.nr \in Nat /\ q.nr \in Nat
      BY <1>4, <1>5, <1>6, <2>1
    <2> QED BY <2>1, <2>2
  <1>8. Cardinality(later) < max
    BY <1>6 DEF NewestPoints
  <1>9. later \in SUBSET data
    OBVIOUS
  <1> HIDE DEF later, kept
  <1>10. IsFiniteSet(later) /\ Cardinality(later) \in Nat
    BY <1>1, <1>9, FS_Subset, FS_CardinalityType
  <1>11. Cardinality(kept \ {p}) = Cardinality(kept) - 1
    BY <1>2, <1>6, FS_RemoveElement
  <1>12. Cardinality(kept \ {p}) <= Cardinality(later)
    BY <1>7, <1>10, FS_Subset
  <1> QED BY <1>2, <1>8, <1>10, <1>11, <1>12

\* ... and nothing out if it need not.
LEMMA NewestAreAll ==
  ASSUME NEW data, WindowOK(data), NEW max \in Nat, Cardinality(data) <= max
  PROVE  NewestPoints(data, max) = data
  <1> SUFFICES ASSUME NEW p \in data
               PROVE  Cardinality({q \in data : q.nr > p.nr}) < max
    BY DEF NewestPoints
  <1> DEFINE later == {q \in data : q.nr > p.nr}
  <1>1. PICK n \in Nat : \A q \in data : q.nr \in 1 .. n
    BY DEF WindowOK
  <1>2. later \in SUBSET (data \ {p})
    BY <1>1
  <1>3. /\ IsFiniteSet(data \ {p}) /\ Cardinality(data \ {p}) = Cardinality(data) - 1
        /\ Cardinality(data) \in Nat
    BY FS_RemoveElement, FS_CardinalityType DEF WindowOK
  <1> HIDE DEF later
  <1>4. /\ IsFiniteSet(later) /\ Cardinality(later) <= Cardinality(data \ {p})
        /\ Cardinality(later) \in Nat
    <2>1. IsFiniteSet(later) /\ Cardinality(later) <= Cardinality(data \ {p})
      BY <1>2, <1>3, FS_Subset
    <2> QED BY <2>1, FS_CardinalityType
  <1> QED BY <1>3, <1>4 DEF later

\* A point added: the window stays within its limit and its span.
LEMMA AddDataPointOK ==
  ASSUME NEW data, WindowOK(data), NEW value, NEW at, NEW window, NEW max \in Nat
  PROVE  LET added == AddDataPoint(data, value, at, window, max)
         IN  /\ WindowOK(added) /\ Cardinality(added) <= max
             /\ added \subseteq data \cup {NewPoint(data, value, at)}
             /\ Cardinality(Since(data \cup {NewPoint(data, value, at)}, at - window)) <= max
                  => added = Since(data \cup {NewPoint(data, value, at)}, at - window)
  <1> DEFINE pushed == data \cup {NewPoint(data, value, at)}
             seen == Since(pushed, at - window)
             added == AddDataPoint(data, value, at, window, max)
  <1>1. WindowOK(pushed) /\ Pushed(data, value, at) = pushed
    BY NewPointOK
  <1>2. added = NewestPoints(seen, max)
    BY <1>1 DEF AddDataPoint, InWindow, Since
  <1>3. seen \in SUBSET pushed
    BY DEF Since
  <1> HIDE DEF seen, pushed, added
  <1>4. WindowOK(seen)
    BY <1>1, <1>3, WindowSubset
  <1>5. added \in SUBSET seen
    BY <1>2 DEF NewestPoints
  <1>6. WindowOK(added) /\ Cardinality(added) <= max
    BY <1>2, <1>4, <1>5, WindowSubset, NewestAreFew
  <1>7. Cardinality(seen) <= max => added = seen
    BY <1>2, <1>4, NewestAreAll
  <1> QED BY <1>3, <1>5, <1>6, <1>7 DEF seen, pushed, added

-----------------------------------------------------------------------------
(***************************************************************************)
(* The jobs and the blocks processed: every block has a number of its own  *)
(* and is in the works or processed, once.                                 *)
(***************************************************************************)
Job == [id : Nat, total : Nat \cup {Fetching}, left : Nat, confirmed : Nat, failed : Nat]

JobOK(j) ==
  /\ j \in Job
  /\ j.total = Fetching => j.confirmed = 0 /\ j.failed = 0
  /\ j.total # Fetching => j.left \in 1 .. j.total /\ j.confirmed + j.failed <= j.total - j.left

JobsOK(jobs, last, at) ==
  /\ last.id \in Nat /\ last.since \in 0 .. at
  /\ IsFiniteSet(jobs) /\ Cardinality(jobs) <= MAX_BLOCK_JOBS
  /\ \A j \in jobs : JobOK(j) /\ j.id \in 1 .. last.id
  /\ \A i, j \in jobs : i.id = j.id => i = j

ProcessedOK(blocks, jobs, last, at) ==
  /\ IsFiniteSet(blocks)
  /\ \A b \in blocks : b.id \in 1 .. last.id /\ b.at \in StartTime .. at /\ b.total \in Nat
  /\ \A b, c \in blocks : b.id = c.id => b = c
  /\ \A b \in blocks, j \in jobs : b.id # j.id

\* The blocks that were in the works at t or begun since.
IdsSince(jobs, blocks, t) == {j.id : j \in jobs} \cup {b.id : b \in Since(blocks, t)}

\* At every instant the blocks begun before were few, and one was begun each
\* instant since: m is the newest block of those before.
FewOK(jobs, blocks, last, at) ==
  \A t \in StartTime .. at : \E m \in 0 .. last.id :
    /\ m = last.id \/ last.id - m <= last.since - t + 1
    /\ Cardinality(IdsSince(jobs, blocks, t) \cap (1 .. m)) <= MAX_BLOCK_JOBS

\* The blocks up to one are finitely many.
LEMMA SomeIds ==
  ASSUME NEW jobs, NEW blocks, NEW t, NEW m \in Nat
  PROVE  LET ids == IdsSince(jobs, blocks, t) \cap (1 .. m)
         IN  IsFiniteSet(ids) /\ Cardinality(ids) \in Nat
  <1> DEFINE ids == IdsSince(jobs, blocks, t) \cap (1 .. m)
  <1>1. ids \in SUBSET (1 .. m)
    OBVIOUS
  <1>2. IsFiniteSet(1 .. m)
    BY FS_Interval
  <1> HIDE DEF ids
  <1>3. IsFiniteSet(ids)
    BY <1>1, <1>2, FS_Subset
  <1>4. Cardinality(ids) \in Nat
    BY <1>3, FS_CardinalityType
  <1> QED BY <1>3, <1>4 DEF ids

\* A step that leaves no number where there was none.
LEMMA FewKept ==
  ASSUME NEW jobs, NEW blocks, NEW last, NEW at, FewOK(jobs, blocks, last, at), last.id \in Nat,
         NEW J, NEW B,
         \A t \in StartTime .. at : IdsSince(J, B, t) \subseteq IdsSince(jobs, blocks, t)
  PROVE  FewOK(J, B, last, at)
  <1> SUFFICES ASSUME NEW t \in StartTime .. at
               PROVE  \E m \in 0 .. last.id :
                        /\ m = last.id \/ last.id - m <= last.since - t + 1
                        /\ Cardinality(IdsSince(J, B, t) \cap (1 .. m)) <= MAX_BLOCK_JOBS
    BY DEF FewOK
  <1>1. PICK m \in 0 .. last.id :
           /\ m = last.id \/ last.id - m <= last.since - t + 1
           /\ Cardinality(IdsSince(jobs, blocks, t) \cap (1 .. m)) <= MAX_BLOCK_JOBS
    BY DEF FewOK
  <1> DEFINE before == IdsSince(jobs, blocks, t) \cap (1 .. m)
             after == IdsSince(J, B, t) \cap (1 .. m)
  <1>2. after \in SUBSET before
    OBVIOUS
  <1>3. m \in Nat
    OBVIOUS
  <1>4. IsFiniteSet(before) /\ Cardinality(before) \in Nat /\ Cardinality(after) \in Nat
    BY <1>3, SomeIds
  <1> HIDE DEF before, after
  <1>5. Cardinality(after) <= Cardinality(before)
    BY <1>2, <1>4, FS_Subset
  <1>6. Cardinality(after) <= MAX_BLOCK_JOBS
    BY <1>1, <1>4, <1>5, BlocksAssumption DEF before
  <1> QED BY <1>1, <1>6 DEF after

\* A block is begun, the first one of its instant.
LEMMA FewBegun ==
  ASSUME NEW jobs, NEW blocks, NEW last, NEW at \in Nat, FewOK(jobs, blocks, last, at),
         last.id \in Nat, last.since \in 0 .. at, last.since < at,
         NEW j, NEW next, next.id = last.id + 1, next.since = at, j.id = next.id
  PROVE  FewOK(jobs \cup {j}, blocks, next, at)
  <1> SUFFICES ASSUME NEW t \in StartTime .. at
               PROVE  \E m \in 0 .. next.id :
                        /\ m = next.id \/ next.id - m <= next.since - t + 1
                        /\ Cardinality(IdsSince(jobs \cup {j}, blocks, t) \cap (1 .. m))
                             <= MAX_BLOCK_JOBS
    BY DEF FewOK
  <1>1. PICK m \in 0 .. last.id :
           /\ m = last.id \/ last.id - m <= last.since - t + 1
           /\ Cardinality(IdsSince(jobs, blocks, t) \cap (1 .. m)) <= MAX_BLOCK_JOBS
    BY DEF FewOK
  <1>2. StartTime \in Nat /\ t \in Nat /\ t <= at
    BY GateAssumption
  <1>3. m \in 0 .. next.id /\ next.id - m <= next.since - t + 1
    BY <1>1, <1>2
  <1>4. IdsSince(jobs \cup {j}, blocks, t) = IdsSince(jobs, blocks, t) \cup {next.id}
    BY DEF IdsSince
  <1>5. next.id \notin 1 .. m
    BY <1>1
  <1>6. IdsSince(jobs \cup {j}, blocks, t) \cap (1 .. m) = IdsSince(jobs, blocks, t) \cap (1 .. m)
    BY <1>4, <1>5
  <1> QED BY <1>1, <1>3, <1>6

\* The clock advances: those in the works then are few.
LEMMA FewTicked ==
  ASSUME NEW jobs, NEW blocks, NEW last, NEW at \in Nat, FewOK(jobs, blocks, last, at),
         JobsOK(jobs, last, at), ProcessedOK(blocks, jobs, last, at)
  PROVE  FewOK(jobs, blocks, last, at + 1)
  <1>1. /\ last.id \in Nat /\ StartTime \in Nat
        /\ IsFiniteSet(jobs) /\ Cardinality(jobs) <= MAX_BLOCK_JOBS
        /\ \A i, j \in jobs : i.id = j.id => i = j
        /\ \A b \in blocks : b.at \in StartTime .. at
    BY GateAssumption DEF JobsOK, ProcessedOK
  <1> DEFINE ids == IdsSince(jobs, blocks, at + 1)
             some == ids \cap (1 .. last.id)
             job == [k \in some |-> CHOOSE j \in jobs : j.id = k]
  <1>2. Since(blocks, at + 1) = {}
    <2>1. \A b \in blocks : b.at < at + 1
      BY <1>1
    <2> QED BY <1>1, <2>1 DEF Since
  <1>3. \A k \in some : job[k] \in jobs /\ job[k].id = k
    BY <1>2 DEF IdsSince
  <1>4. job \in Injection(some, jobs)
    <2>1. job \in [some -> jobs]
      BY <1>3
    <2> HIDE DEF job
    <2>2. \A k, l \in some : job[k] = job[l] => k = l
      BY <1>3
    <2> QED BY <2>1, <2>2 DEF Injection, IsInjective
  <1> HIDE DEF job, some
  <1>5. Cardinality(some) <= Cardinality(jobs) /\ IsFiniteSet(some)
    BY <1>1, <1>4, FS_Injection
  <1>6. Cardinality(some) \in Nat /\ Cardinality(jobs) \in Nat
    BY <1>1, <1>5, FS_CardinalityType
  <1>7. Cardinality(some) <= MAX_BLOCK_JOBS
    BY <1>1, <1>5, <1>6, BlocksAssumption
  <1>8. \E m \in 0 .. last.id :
          /\ m = last.id \/ last.id - m <= last.since - (at + 1) + 1
          /\ Cardinality(IdsSince(jobs, blocks, at + 1) \cap (1 .. m)) <= MAX_BLOCK_JOBS
    <2>1. last.id \in 0 .. last.id
      BY <1>1
    <2>2. Cardinality(IdsSince(jobs, blocks, at + 1) \cap (1 .. last.id)) <= MAX_BLOCK_JOBS
      BY <1>7 DEF some
    <2> QED BY <2>1, <2>2
  <1>9. StartTime .. at + 1 \subseteq (StartTime .. at) \cup {at + 1}
    BY <1>1
  <1> QED BY <1>8, <1>9 DEF FewOK

\* The blocks processed in the window are fewer than its sample.
LEMMA WindowFits ==
  ASSUME NEW jobs, NEW blocks, NEW last, NEW at \in Nat, at >= StartTime,
         FewOK(jobs, blocks, last, at), JobsOK(jobs, last, at), ProcessedOK(blocks, jobs, last, at)
  PROVE  /\ IsFiniteSet(Since(blocks, at - TX_WINDOW))
         /\ Cardinality(Since(blocks, at - TX_WINDOW)) <= SAMPLE_SIZE
  <1> DEFINE seen == Since(blocks, at - TX_WINDOW)
             t == IF at - TX_WINDOW >= StartTime THEN at - TX_WINDOW ELSE StartTime
  <1>1. /\ last.id \in Nat /\ last.since \in 0 .. at /\ StartTime \in Nat /\ TX_WINDOW \in Nat
        /\ SAMPLE_SIZE \in Nat /\ SAMPLE_SIZE > TX_WINDOW + MAX_BLOCK_JOBS /\ MAX_BLOCK_JOBS \in Nat
    BY GateAssumption, BlocksAssumption DEF JobsOK
  <1>2. t \in StartTime .. at /\ at - t <= TX_WINDOW /\ t \in Nat
    BY <1>1
  <1>3. seen \in SUBSET Since(blocks, t)
    <2>1. \A b \in blocks : b.at \in Nat /\ b.at >= StartTime
      BY <1>1 DEF ProcessedOK
    <2> QED BY <1>1, <2>1 DEF Since
  <1> HIDE DEF t
  <1>4. PICK m \in 0 .. last.id :
           /\ m = last.id \/ last.id - m <= last.since - t + 1
           /\ Cardinality(IdsSince(jobs, blocks, t) \cap (1 .. m)) <= MAX_BLOCK_JOBS
    BY <1>2 DEF FewOK
  <1> DEFINE old == IdsSince(jobs, blocks, t) \cap (1 .. m)
             ids == old \cup (m + 1 .. last.id)
             number == [b \in seen |-> b.id]
  <1>5. number \in Injection(seen, ids)
    <2>1. \A b \in seen : /\ b \in blocks /\ b.id \in IdsSince(jobs, blocks, t)
                          /\ b.id \in 1 .. last.id
      BY <1>3 DEF Since, IdsSince, ProcessedOK
    <2>2. \A b \in seen : b.id \in ids
      BY <1>1, <1>4, <2>1
    <2>3. \A b, c \in seen : b.id = c.id => b = c
      BY <2>1 DEF ProcessedOK
    <2> HIDE DEF seen, ids
    <2> QED BY <2>2, <2>3 DEF Injection, IsInjective
  <1>6. /\ m \in Nat /\ IsFiniteSet(old)
        /\ Cardinality(old) \in Nat /\ Cardinality(old) <= MAX_BLOCK_JOBS
    BY <1>4, SomeIds
  <1>7. /\ IsFiniteSet(m + 1 .. last.id) /\ Cardinality(m + 1 .. last.id) \in Nat
        /\ Cardinality(m + 1 .. last.id) <= TX_WINDOW + 1
    <2> DEFINE k == m + 1
               n == last.id
    <2>1. k \in Int /\ n \in Int
      BY <1>1, <1>6
    <2> HIDE DEF k, n
    <2>2. IsFiniteSet(k .. n) /\ Cardinality(k .. n) = IF k > n THEN 0 ELSE n - k + 1
      BY <2>1, FS_Interval
    <2>3. /\ IsFiniteSet(m + 1 .. last.id)
          /\ Cardinality(m + 1 .. last.id) = IF m + 1 > last.id THEN 0 ELSE last.id - (m + 1) + 1
      BY <2>2 DEF k, n
    <2>4. CASE m = last.id
      BY <1>1, <2>3, <2>4
    <2>5. CASE m # last.id
      <3>1. last.id - m <= TX_WINDOW + 1
        BY <1>1, <1>2, <1>4, <2>5
      <3> QED BY <1>1, <1>4, <2>3, <2>5, <3>1
    <2> QED BY <2>4, <2>5
  <1> HIDE DEF old, number, seen
  <1> DEFINE new == m + 1 .. last.id
  <1> HIDE DEF new
  <1>8. /\ IsFiniteSet(old \cup new) /\ Cardinality(old \cup new) \in Nat
        /\ Cardinality(old \cup new) <= SAMPLE_SIZE
    <2>1. /\ IsFiniteSet(old \cup new)
          /\ Cardinality(old \cup new)
               = Cardinality(old) + Cardinality(new) - Cardinality(old \cap new)
      BY <1>6, <1>7, FS_Union DEF new
    <2>2. IsFiniteSet(old \cap new)
      BY <1>6, FS_Intersection
    <2>3. Cardinality(old \cap new) \in Nat /\ Cardinality(old \cup new) \in Nat
      BY <2>1, <2>2, FS_CardinalityType
    <2>4. Cardinality(new) <= TX_WINDOW + 1 /\ Cardinality(new) \in Nat
      BY <1>7 DEF new
    <2> QED BY <1>1, <1>6, <2>1, <2>3, <2>4
  <1>9. number \in Injection(seen, old \cup new)
    BY <1>5 DEF new
  <1>10. IsFiniteSet(seen) /\ Cardinality(seen) <= Cardinality(old \cup new)
    BY <1>8, <1>9, FS_Injection
  <1>11. Cardinality(seen) \in Nat
    BY <1>10, FS_CardinalityType
  <1> QED BY <1>1, <1>8, <1>10, <1>11 DEF seen

-----------------------------------------------------------------------------
(***************************************************************************)
(* The rate: from any instant of the window on, the points kept and the    *)
(* blocks processed are as many and have the same sum.                     *)
(***************************************************************************)
PointsOK(data, at) ==
  WindowOK(data) /\ Cardinality(data) <= SAMPLE_SIZE /\ \A p \in data : p.at \in StartTime .. at

SameSince(data, blocks, t) ==
  /\ Cardinality(Since(data, t)) = Cardinality(Since(blocks, t))
  /\ Values(Since(data, t)) = Totals(Since(blocks, t))

RateOK(data, blocks, at) == \A t \in (at - TX_WINDOW) .. at : SameSince(data, blocks, t)

RateCovers(rate, blocks) ==
  LET written == Max({0} \cup {b.at : b \in blocks})
  IN  rate = Totals(Since(blocks, written - TX_WINDOW))

\* A block is processed and its point added.
LEMMA SameGrows ==
  ASSUME NEW data, NEW blocks, IsFiniteSet(data), IsFiniteSet(blocks), NEW t \in Int,
         SameSince(data, blocks, t),
         NEW p, p \notin data, \A q \in data \cup {p} : q.value \in Nat,
         NEW b, b \notin blocks, \A c \in blocks \cup {b} : c.total \in Nat,
         p.value = b.total, p.at = b.at, p.at >= t
  PROVE  SameSince(data \cup {p}, blocks \cup {b}, t)
  <1> DEFINE points == Since(data, t)
             counted == Since(blocks, t)
  <1>1. Since(data \cup {p}, t) = points \cup {p} /\ Since(blocks \cup {b}, t) = counted \cup {b}
    BY DEF Since
  <1>2. points \in SUBSET data /\ counted \in SUBSET blocks
    BY DEF Since
  <1> HIDE DEF points, counted
  <1>3. IsFiniteSet(points) /\ IsFiniteSet(counted)
    BY <1>2, FS_Subset
  <1>4. p \notin points /\ b \notin counted
    BY <1>2
  <1>5. Cardinality(points \cup {p}) = Cardinality(points) + 1
    BY <1>3, <1>4, FS_AddElement
  <1>6. Cardinality(counted \cup {b}) = Cardinality(counted) + 1
    BY <1>3, <1>4, FS_AddElement
  <1>7. Values(points \cup {p}) = Values(points) + p.value
    BY <1>2, <1>3, <1>4, ValuesGrow
  <1>8. Totals(counted \cup {b}) = Totals(counted) + b.total
    BY <1>2, <1>3, <1>4, TotalsGrow
  <1>9. Cardinality(points) = Cardinality(counted) /\ Values(points) = Totals(counted)
    BY DEF SameSince, points, counted
  <1> QED BY <1>1, <1>5, <1>6, <1>7, <1>8, <1>9 DEF SameSince

\* The point of a block fits, so that the window holds what it held within its
\* span and the new point.
LEMMA RateGrows ==
  ASSUME NEW at \in Nat, at >= StartTime,
         NEW data, PointsOK(data, at), \A q \in data : q.value \in Nat,
         NEW blocks, RateOK(data, blocks, at), IsFiniteSet(blocks),
         \A c \in blocks : c.total \in Nat,
         NEW b, b \notin blocks, b.total \in Nat, b.at = at,
         Cardinality(Since(blocks \cup {b}, at - TX_WINDOW)) <= SAMPLE_SIZE
  PROVE  LET added == AddDataPoint(data, b.total, at, TX_WINDOW, SAMPLE_SIZE)
         IN  /\ PointsOK(added, at) /\ (\A q \in added : q.value \in Nat)
             /\ RateOK(added, blocks \cup {b}, at)
             /\ GetSum(added, at, TX_WINDOW) = Totals(Since(blocks \cup {b}, at - TX_WINDOW))
  <1> DEFINE p == NewPoint(data, b.total, at)
             start == at - TX_WINDOW
             pushed == data \cup {p}
             all == blocks \cup {b}
             added == AddDataPoint(data, b.total, at, TX_WINDOW, SAMPLE_SIZE)
  <1>1. /\ start \in Int /\ start <= at /\ start \in start .. at /\ SAMPLE_SIZE \in Nat
        /\ StartTime \in Nat
    BY GateAssumption, BlocksAssumption
  <1>2. WindowOK(data) /\ IsFiniteSet(data) /\ \A q \in data : q.at \in StartTime .. at
    BY DEF PointsOK, WindowOK
  <1>3. p \notin data /\ p.at = at /\ p.value = b.total /\ WindowOK(pushed)
    BY <1>2, NewPointOK
  <1>4. /\ WindowOK(added) /\ Cardinality(added) <= SAMPLE_SIZE /\ added \subseteq pushed
        /\ Cardinality(Since(pushed, start)) <= SAMPLE_SIZE => added = Since(pushed, start)
    BY <1>1, <1>2, AddDataPointOK
  <1> HIDE DEF p, added
  <1>5. \A q \in pushed : q.at \in StartTime .. at /\ q.value \in Nat
    BY <1>1, <1>2, <1>3
  <1>6. \A t \in start .. at : SameSince(pushed, all, t)
    BY <1>1, <1>2, <1>3, SameGrows DEF RateOK
  <1> HIDE DEF pushed, all
  <1>7. added = Since(pushed, start)
    BY <1>1, <1>4, <1>6 DEF SameSince, all
  <1>8. \A t \in start .. at : Since(added, t) = Since(pushed, t)
    BY <1>1, <1>5, <1>7 DEF Since
  <1>9. RateOK(added, all, at)
    BY <1>6, <1>8 DEF RateOK, SameSince
  <1>10. GetSum(added, at, TX_WINDOW) = Values(Since(added, start))
    BY DEF GetSum, InWindow, Values, Since
  <1>11. Values(Since(added, start)) = Totals(Since(all, start))
    BY <1>1, <1>9 DEF RateOK, SameSince
  <1>12. PointsOK(added, at) /\ \A q \in added : q.value \in Nat
    BY <1>4, <1>5 DEF PointsOK
  <1> QED BY <1>9, <1>10, <1>11, <1>12 DEF added, all

\* Time passes: nothing is of the future, so nothing is counted there.
LEMMA RateTicked ==
  ASSUME NEW at \in Nat, NEW data, NEW blocks, RateOK(data, blocks, at),
         \A p \in data : p.at \in StartTime .. at, \A b \in blocks : b.at \in StartTime .. at
  PROVE  RateOK(data, blocks, at + 1)
  <1>1. TX_WINDOW \in Nat /\ StartTime \in Nat
    BY GateAssumption, BlocksAssumption
  <1>2. Since(data, at + 1) = {} /\ Since(blocks, at + 1) = {}
    <2>1. (\A p \in data : ~(p.at >= at + 1)) /\ (\A b \in blocks : ~(b.at >= at + 1))
      BY <1>1
    <2> QED BY <2>1 DEF Since
  <1>3. SameSince(data, blocks, at + 1)
    BY <1>2, NothingSums DEF SameSince
  <1> SUFFICES ASSUME NEW t \in ((at + 1) - TX_WINDOW) .. (at + 1)
               PROVE  SameSince(data, blocks, t)
    BY DEF RateOK
  <1>4. t \in (at - TX_WINDOW) .. at \/ t = at + 1
    BY <1>1
  <1> QED BY <1>3, <1>4 DEF RateOK

\* The rate is of the block just processed.
LEMMA RateWritten ==
  ASSUME NEW at \in Nat, NEW blocks, \A b \in blocks : b.at \in 0 .. at,
         NEW b \in blocks, b.at = at
  PROVE  RateCovers(Totals(Since(blocks, at - TX_WINDOW)), blocks)
  <1> DEFINE times == {0} \cup {c.at : c \in blocks}
  <1>1. times \in SUBSET Int /\ at \in times /\ \A y \in times : at >= y
    OBVIOUS
  <1> HIDE DEF times
  <1>2. Max(times) = at
    BY <1>1, MaxIs
  <1> QED BY <1>2 DEF RateCovers, times

\* Any other window: it keeps its limit, and its points are of the past.
LEMMA PointsGrow ==
  ASSUME NEW at \in Nat, at >= StartTime, NEW data, PointsOK(data, at), NEW value, NEW window
  PROVE  PointsOK(AddDataPoint(data, value, at, window, SAMPLE_SIZE), at)
  <1> DEFINE p == NewPoint(data, value, at)
             added == AddDataPoint(data, value, at, window, SAMPLE_SIZE)
  <1>1. WindowOK(data) /\ SAMPLE_SIZE \in Nat /\ StartTime \in Nat
    BY GateAssumption, BlocksAssumption DEF PointsOK
  <1>2. p.at = at
    BY DEF NewPoint
  <1>3. WindowOK(added) /\ Cardinality(added) <= SAMPLE_SIZE /\ added \subseteq data \cup {p}
    BY <1>1, AddDataPointOK
  <1> HIDE DEF p, added
  <1>4. \A q \in data \cup {p} : q.at \in StartTime .. at
    BY <1>1, <1>2 DEF PointsOK
  <1> QED BY <1>3, <1>4 DEF PointsOK, added

\* As it ages, a window stays as it is.
LEMMA PointsTicked ==
  ASSUME NEW at \in Nat, NEW data, PointsOK(data, at)
  PROVE  PointsOK(data, at + 1)
  BY GateAssumption DEF PointsOK

-----------------------------------------------------------------------------
(***************************************************************************)
(* The steps of the jobs.                                                  *)
(***************************************************************************)
\* A job comes to nothing.
LEMMA JobDropped ==
  ASSUME NEW jobs, NEW blocks, NEW last, NEW at, JobsOK(jobs, last, at),
         ProcessedOK(blocks, jobs, last, at), FewOK(jobs, blocks, last, at), NEW j \in jobs
  PROVE  /\ JobsOK(jobs \ {j}, last, at) /\ ProcessedOK(blocks, jobs \ {j}, last, at)
         /\ FewOK(jobs \ {j}, blocks, last, at)
  <1> DEFINE rest == jobs \ {j}
  <1>1. rest \in SUBSET jobs /\ IsFiniteSet(jobs) /\ Cardinality(jobs) <= MAX_BLOCK_JOBS
    BY DEF JobsOK
  <1>2. ProcessedOK(blocks, rest, last, at)
    BY DEF ProcessedOK
  <1>3. \A t : IdsSince(rest, blocks, t) \subseteq IdsSince(jobs, blocks, t)
    BY DEF IdsSince
  <1> HIDE DEF rest
  <1>4. IsFiniteSet(rest) /\ Cardinality(rest) <= Cardinality(jobs)
    BY <1>1, FS_Subset
  <1>5. Cardinality(rest) \in Nat /\ Cardinality(jobs) \in Nat
    BY <1>1, <1>4, FS_CardinalityType
  <1>6. Cardinality(rest) <= MAX_BLOCK_JOBS
    BY <1>1, <1>4, <1>5, BlocksAssumption
  <1>7. JobsOK(rest, last, at)
    BY <1>1, <1>4, <1>6 DEF JobsOK
  <1>8. last.id \in Nat
    BY DEF JobsOK
  <1>9. FewOK(rest, blocks, last, at)
    BY <1>3, <1>8, FewKept
  <1> QED BY <1>2, <1>7, <1>9 DEF rest

\* A job goes on to its next batch.
LEMMA JobReplaced ==
  ASSUME NEW jobs, NEW blocks, NEW last, NEW at, JobsOK(jobs, last, at),
         ProcessedOK(blocks, jobs, last, at), FewOK(jobs, blocks, last, at), NEW j \in jobs,
         NEW job, JobOK(job), job.id = j.id
  PROVE  LET next == (jobs \ {j}) \cup {job}
         IN  /\ JobsOK(next, last, at) /\ ProcessedOK(blocks, next, last, at)
             /\ FewOK(next, blocks, last, at)
  <1> DEFINE rest == jobs \ {j}
             next == rest \cup {job}
  <1>1. /\ IsFiniteSet(jobs) /\ Cardinality(jobs) <= MAX_BLOCK_JOBS /\ last.id \in Nat
        /\ j.id \in 1 .. last.id
        /\ \A i, k \in jobs : i.id = k.id => i = k
    BY DEF JobsOK
  <1>2. ProcessedOK(blocks, next, last, at)
    BY DEF ProcessedOK
  <1>3. \A t : IdsSince(next, blocks, t) \subseteq IdsSince(jobs, blocks, t)
    BY DEF IdsSince
  <1>4. \A i, k \in next : i.id = k.id => i = k
    BY <1>1
  <1>5. \A i \in next : JobOK(i) /\ i.id \in 1 .. last.id
    BY <1>1 DEF JobsOK
  <1>6. IsFiniteSet(rest) /\ Cardinality(rest) = Cardinality(jobs) - 1
    BY <1>1, FS_RemoveElement
  <1>7. Cardinality(rest) \in Nat /\ Cardinality(jobs) \in Nat
    BY <1>1, <1>6, FS_CardinalityType
  <1> HIDE DEF rest
  <1>8. /\ IsFiniteSet(next)
        /\ Cardinality(next) = IF job \in rest THEN Cardinality(rest) ELSE Cardinality(rest) + 1
    BY <1>6, FS_AddElement
  <1>9. Cardinality(next) <= Cardinality(jobs)
    BY <1>6, <1>7, <1>8
  <1>10. Cardinality(next) \in Nat
    BY <1>8, FS_CardinalityType
  <1>11. Cardinality(next) <= MAX_BLOCK_JOBS
    BY <1>1, <1>7, <1>9, <1>10, BlocksAssumption
  <1> HIDE DEF next
  <1>12. JobsOK(next, last, at)
    BY <1>4, <1>5, <1>8, <1>11 DEF JobsOK
  <1>13. FewOK(next, blocks, last, at)
    BY <1>1, <1>3, FewKept
  <1> QED BY <1>2, <1>12, <1>13 DEF next, rest

\* A job becomes a block processed.
LEMMA JobProcessed ==
  ASSUME NEW jobs, NEW blocks, NEW last, NEW at \in Nat, at >= StartTime, JobsOK(jobs, last, at),
         ProcessedOK(blocks, jobs, last, at), FewOK(jobs, blocks, last, at), NEW j \in jobs,
         NEW b, b.id = j.id, b.at = at, b.total \in Nat
  PROVE  /\ JobsOK(jobs \ {j}, last, at)
         /\ ProcessedOK(blocks \cup {b}, jobs \ {j}, last, at)
         /\ FewOK(jobs \ {j}, blocks \cup {b}, last, at)
         /\ b \notin blocks
  <1> DEFINE rest == jobs \ {j}
             all == blocks \cup {b}
  <1>1. JobsOK(rest, last, at) /\ ProcessedOK(blocks, rest, last, at)
    BY JobDropped
  <1>2. /\ last.id \in Nat /\ j.id \in 1 .. last.id /\ \A i \in rest : i.id # j.id
        /\ StartTime \in Nat
    BY GateAssumption DEF JobsOK
  <1>3. \A c \in blocks : c.id # b.id
    BY DEF ProcessedOK
  <1>4. ProcessedOK(all, rest, last, at)
    <2>1. IsFiniteSet(all)
      BY FS_AddElement DEF ProcessedOK
    <2>2. \A c \in all : c.id \in 1 .. last.id /\ c.at \in StartTime .. at /\ c.total \in Nat
      BY <1>2 DEF ProcessedOK
    <2>3. \A c, d \in all : c.id = d.id => c = d
      BY <1>3 DEF ProcessedOK
    <2>4. \A c \in all, i \in rest : c.id # i.id
      BY <1>2 DEF ProcessedOK
    <2> HIDE DEF all, rest
    <2> QED BY <2>1, <2>2, <2>3, <2>4 DEF ProcessedOK
  <1>5. \A t : IdsSince(rest, all, t) \subseteq IdsSince(jobs, blocks, t)
    BY DEF IdsSince, Since
  <1> HIDE DEF rest, all
  <1>6. FewOK(rest, all, last, at)
    BY <1>2, <1>5, FewKept
  <1> QED BY <1>1, <1>3, <1>4, <1>6 DEF rest, all

-----------------------------------------------------------------------------
(***************************************************************************)
(* The inductive invariant of the blocks.                                  *)
(***************************************************************************)
CountsOK ==
  /\ PointsOK(transactionCounts, now) /\ \A p \in transactionCounts : p.value \in Nat
  /\ RateOK(transactionCounts, processedBlocks, now)
  /\ RateCovers(transactionsPerMinute, processedBlocks)

OthersOK ==
  /\ PointsOK(recentBlockTimes, now) /\ PointsOK(failedTransactions, now)
  /\ transactionsPerBlock.confirmed + transactionsPerBlock.failed <= transactionsPerBlock.total

BlocksInv ==
  /\ JobsOK(blockJobs, lastBlockJob, now)
  /\ ProcessedOK(processedBlocks, blockJobs, lastBlockJob, now)
  /\ FewOK(blockJobs, processedBlocks, lastBlockJob, now)
  /\ CountsOK /\ OthersOK

\* No block was begun yet, whatever the clock says.
LEMMA BlocksInitOK == GateTypeOK /\ BlocksInit => BlocksInv
  <1> SUFFICES ASSUME GateTypeOK, BlocksInit PROVE BlocksInv
    OBVIOUS
  <1>1. /\ blockJobs = {} /\ lastBlockJob = [id |-> 0, since |-> 0]
        /\ recentBlockTimes = {} /\ transactionCounts = {} /\ failedTransactions = {}
        /\ transactionsPerBlock = [total |-> 0, confirmed |-> 0, failed |-> 0]
        /\ transactionsPerMinute = 0 /\ processedBlocks = {}
    BY DEF BlocksInit
  <1>2. /\ now \in Nat /\ SAMPLE_SIZE \in Nat /\ MAX_BLOCK_JOBS \in Nat /\ TX_WINDOW \in Nat
        /\ IsFiniteSet({}) /\ Cardinality({}) = 0
    BY BlocksAssumption, FS_EmptySet DEF GateTypeOK
  <1>3. JobsOK({}, lastBlockJob, now) /\ ProcessedOK({}, {}, lastBlockJob, now)
    BY <1>1, <1>2 DEF JobsOK, ProcessedOK
  <1>4. FewOK({}, {}, lastBlockJob, now)
    <2>1. \A t : IdsSince({}, {}, t) \cap (1 .. 0) = {}
      OBVIOUS
    <2>2. 0 \in 0 .. lastBlockJob.id /\ lastBlockJob.id = 0
      BY <1>1
    <2> QED BY <1>2, <2>1, <2>2 DEF FewOK
  <1>5. PointsOK({}, now)
    <2>1. 0 \in Nat
      OBVIOUS
    <2> QED BY <1>2, <2>1 DEF PointsOK, WindowOK
  <1>6. \A t : Since({}, t) = {}
    BY DEF Since
  <1>7. RateOK({}, {}, now)
    BY <1>6, NothingSums DEF RateOK, SameSince
  <1>8. RateCovers(0, {})
    BY <1>6, NothingSums DEF RateCovers
  <1>9. transactionsPerBlock.confirmed + transactionsPerBlock.failed <= transactionsPerBlock.total
    BY <1>1
  <1> QED BY <1>1, <1>3, <1>4, <1>5, <1>7, <1>8, <1>9 DEF BlocksInv, CountsOK, OthersOK

\* A block is processed: the end of its job, whichever step it is.
LEMMA BlockProcessedOK ==
  ASSUME GateTypeOK, BlocksInv, NEW j \in blockJobs,
         NEW job, NEW confirmed, NEW failed,
         job.id = j.id, job.total \in Nat, confirmed + failed <= job.total,
         blockJobs' = blockJobs \ {j}, UpdateTransactionMetrics(job, confirmed, failed),
         now' = now, lastBlockJob' = lastBlockJob, PointsOK(recentBlockTimes', now)
  PROVE  BlocksInv'
  <1> DEFINE b == [id |-> job.id, at |-> now, total |-> job.total]
             all == processedBlocks \cup {b}
             rest == blockJobs \ {j}
  <1>1. now \in Nat /\ now >= StartTime /\ StartTime \in Nat
    BY GateAssumption DEF GateTypeOK
  <1>2. /\ JobsOK(blockJobs, lastBlockJob, now)
        /\ ProcessedOK(processedBlocks, blockJobs, lastBlockJob, now)
        /\ FewOK(blockJobs, processedBlocks, lastBlockJob, now)
        /\ PointsOK(transactionCounts, now) /\ \A p \in transactionCounts : p.value \in Nat
        /\ RateOK(transactionCounts, processedBlocks, now)
        /\ PointsOK(failedTransactions, now)
    BY DEF BlocksInv, CountsOK, OthersOK
  <1>3. b.id = j.id /\ b.at = now /\ b.total = job.total /\ b.total \in Nat
    OBVIOUS
  <1>4. /\ transactionsPerBlock' = [total |-> job.total, confirmed |-> confirmed, failed |-> failed]
        /\ transactionCounts' =
             AddDataPoint(transactionCounts, b.total, now, TX_WINDOW, SAMPLE_SIZE)
        /\ failedTransactions' =
             IF failed > 0
             THEN AddDataPoint(failedTransactions, failed, now, TX_WINDOW, SAMPLE_SIZE)
             ELSE failedTransactions
        /\ transactionsPerMinute' = GetSum(transactionCounts', now, TX_WINDOW)
        /\ processedBlocks' = all
    BY <1>3 DEF UpdateTransactionMetrics
  <1> HIDE DEF b
  <1>5. /\ JobsOK(rest, lastBlockJob, now) /\ ProcessedOK(all, rest, lastBlockJob, now)
        /\ FewOK(rest, all, lastBlockJob, now) /\ b \notin processedBlocks
    BY <1>1, <1>2, <1>3, JobProcessed
  <1> HIDE DEF all, rest
  <1>6. Cardinality(Since(all, now - TX_WINDOW)) <= SAMPLE_SIZE
    BY <1>1, <1>5, WindowFits
  <1>7. IsFiniteSet(processedBlocks) /\ \A c \in processedBlocks : c.total \in Nat
    BY <1>2 DEF ProcessedOK
  <1>8. /\ PointsOK(transactionCounts', now) /\ \A p \in transactionCounts' : p.value \in Nat
        /\ RateOK(transactionCounts', all, now)
        /\ transactionsPerMinute' = Totals(Since(all, now - TX_WINDOW))
    <2>1. Cardinality(Since(processedBlocks \cup {b}, now - TX_WINDOW)) <= SAMPLE_SIZE
      BY <1>6 DEF all
    <2>2. LET added == AddDataPoint(transactionCounts, b.total, now, TX_WINDOW, SAMPLE_SIZE)
          IN  /\ PointsOK(added, now) /\ \A q \in added : q.value \in Nat
              /\ RateOK(added, processedBlocks \cup {b}, now)
              /\ GetSum(added, now, TX_WINDOW)
                   = Totals(Since(processedBlocks \cup {b}, now - TX_WINDOW))
      BY <1>1, <1>2, <1>3, <1>5, <1>7, <2>1, RateGrows
    <2> QED BY <1>4, <2>2 DEF all
  <1>9. RateCovers(transactionsPerMinute', all)
    <2>1. b \in all /\ \A c \in all : c.at \in 0 .. now
      BY <1>1, <1>5 DEF all, ProcessedOK
    <2> QED BY <1>1, <1>3, <1>8, <2>1, RateWritten
  <1>10. PointsOK(failedTransactions', now)
    <2>1. PointsOK(AddDataPoint(failedTransactions, failed, now, TX_WINDOW, SAMPLE_SIZE), now)
      BY <1>1, <1>2, PointsGrow
    <2> QED BY <1>2, <1>4, <2>1
  <1>11. transactionsPerBlock'.confirmed + transactionsPerBlock'.failed
           <= transactionsPerBlock'.total
    BY <1>4
  <1>12. blockJobs' = rest
    BY DEF rest
  <1>13. CountsOK' /\ OthersOK'
    BY <1>4, <1>8, <1>9, <1>10, <1>11 DEF CountsOK, OthersOK
  <1> QED BY <1>4, <1>5, <1>12, <1>13 DEF BlocksInv

\* A step of a job that processes no block.
LEMMA BlocksKept ==
  ASSUME GateTypeOK, BlocksInv, now' = now,
         JobsOK(blockJobs', lastBlockJob', now),
         ProcessedOK(processedBlocks, blockJobs', lastBlockJob', now),
         FewOK(blockJobs', processedBlocks, lastBlockJob', now),
         PointsOK(recentBlockTimes', now),
         UNCHANGED <<transactionCounts, failedTransactions, transactionsPerBlock,
                     transactionsPerMinute, processedBlocks>>
  PROVE  BlocksInv'
  BY DEF BlocksInv, CountsOK, OthersOK

\* A block is begun: its number is new, and it is the first of its instant.
LEMMA ProcessLatestBlockDataOK ==
  ASSUME GateTypeOK, BlocksInv, ProcessLatestBlockData
  PROVE  BlocksInv'
  <1> DEFINE k == lastBlockJob.id + 1
             j == [id |-> k, total |-> Fetching, left |-> 0, confirmed |-> 0, failed |-> 0]
             next == [id |-> k, since |-> now]
             jobs == blockJobs \cup {j}
  <1>1. /\ Cardinality(blockJobs) < MAX_BLOCK_JOBS /\ now > lastBlockJob.since
        /\ lastBlockJob' = next /\ blockJobs' = jobs /\ now' = now
        /\ UNCHANGED <<recentBlockTimes, transactionCounts, failedTransactions,
                       transactionsPerBlock, transactionsPerMinute, processedBlocks>>
    BY DEF ProcessLatestBlockData
  <1>2. /\ JobsOK(blockJobs, lastBlockJob, now)
        /\ ProcessedOK(processedBlocks, blockJobs, lastBlockJob, now)
        /\ FewOK(blockJobs, processedBlocks, lastBlockJob, now)
        /\ PointsOK(recentBlockTimes, now)
    BY DEF BlocksInv, OthersOK
  <1>3. /\ now \in Nat /\ lastBlockJob.id \in Nat /\ lastBlockJob.since \in 0 .. now
        /\ IsFiniteSet(blockJobs)
        /\ \A i \in blockJobs : JobOK(i) /\ i.id \in 1 .. lastBlockJob.id
        /\ \A i, l \in blockJobs : i.id = l.id => i = l
    BY <1>2 DEF JobsOK, GateTypeOK
  <1>4. /\ k \in Nat /\ k = lastBlockJob.id + 1
        /\ 1 .. lastBlockJob.id \subseteq 1 .. k /\ k \in 1 .. k
    BY <1>3
  <1> HIDE DEF k
  <1>5. JobOK(j)
    BY <1>4 DEF JobOK, Job, Fetching
  <1>6. j.id = k /\ next.id = k /\ next.since = now
    OBVIOUS
  <1> HIDE DEF j, next
  <1>7. \A i \in blockJobs : i.id # k
    BY <1>3, <1>4
  <1>8. IsFiniteSet(jobs) /\ Cardinality(jobs) <= MAX_BLOCK_JOBS
    <2>1. j \notin blockJobs
      BY <1>6, <1>7
    <2>2. IsFiniteSet(jobs) /\ Cardinality(jobs) = Cardinality(blockJobs) + 1
      BY <1>3, <2>1, FS_AddElement
    <2> QED BY <1>1, <1>3, <2>2, FS_CardinalityType, BlocksAssumption
  <1>9. JobsOK(jobs, next, now)
    BY <1>3, <1>4, <1>5, <1>6, <1>7, <1>8 DEF JobsOK
  <1>10. ProcessedOK(processedBlocks, jobs, next, now)
    <2>1. \A b \in processedBlocks : b.id # k
      BY <1>2, <1>3, <1>4 DEF ProcessedOK
    <2> QED BY <1>2, <1>4, <1>6, <2>1 DEF ProcessedOK
  <1>11. FewOK(jobs, processedBlocks, next, now)
    BY <1>1, <1>2, <1>3, <1>4, <1>6, FewBegun
  <1> QED BY <1>1, <1>2, <1>9, <1>10, <1>11, BlocksKept

\* The block and its predecessor arrived: its job goes on, or is over at once.
LEMMA BlocksFetchedOK ==
  ASSUME GateTypeOK, BlocksInv, NEW j \in blockJobs, NEW total \in BlockSizes, NEW blockTime,
         BlocksFetched(j, total, blockTime)
  PROVE  BlocksInv'
  <1> DEFINE job == [j EXCEPT !.total = total, !.left = total]
  <1>1. /\ j.total = Fetching /\ now' = now /\ lastBlockJob' = lastBlockJob
        /\ recentBlockTimes' =
             IF blockTime > 0
             THEN AddDataPoint(recentBlockTimes, blockTime, now, BLOCK_TIME_WINDOW, SAMPLE_SIZE)
             ELSE recentBlockTimes
        /\ total = 0 => blockJobs' = blockJobs \ {j} /\ UpdateTransactionMetrics(job, 0, 0)
        /\ total # 0 => /\ blockJobs' = (blockJobs \ {j}) \cup {job}
                        /\ UNCHANGED <<transactionCounts, failedTransactions, transactionsPerBlock,
                                       transactionsPerMinute, processedBlocks>>
    BY DEF BlocksFetched
  <1>2. /\ JobsOK(blockJobs, lastBlockJob, now)
        /\ ProcessedOK(processedBlocks, blockJobs, lastBlockJob, now)
        /\ FewOK(blockJobs, processedBlocks, lastBlockJob, now)
        /\ PointsOK(recentBlockTimes, now)
    BY DEF BlocksInv, OthersOK
  <1>3. total \in Nat
    BY BlocksAssumption
  <1>4. /\ j \in Job
        /\ j.confirmed = 0 /\ j.failed = 0
    BY <1>1, <1>2 DEF JobsOK, JobOK
  <1>5. /\ job \in Job
        /\ job.id = j.id /\ job.total = total /\ job.left = total
        /\ job.confirmed = 0 /\ job.failed = 0
    BY <1>3, <1>4 DEF Job
  <1>6. PointsOK(recentBlockTimes', now)
    <2> DEFINE added ==
                 AddDataPoint(recentBlockTimes, blockTime, now, BLOCK_TIME_WINDOW, SAMPLE_SIZE)
    <2>1. PointsOK(added, now)
      BY <1>2, PointsGrow DEF GateTypeOK
    <2> QED BY <1>1, <1>2, <2>1
  <1> HIDE DEF job
  <1>7. CASE total = 0
    <2>1. blockJobs' = blockJobs \ {j} /\ UpdateTransactionMetrics(job, 0, 0)
      BY <1>1, <1>7
    <2>2. 0 + 0 <= job.total
      BY <1>5, <1>7
    <2> QED BY <1>1, <1>3, <1>5, <1>6, <2>1, <2>2, BlockProcessedOK
  <1>8. CASE total # 0
    <2>1. JobOK(job)
      BY <1>3, <1>5, <1>8 DEF JobOK, Fetching
    <2>2. LET next == (blockJobs \ {j}) \cup {job}
          IN  /\ JobsOK(next, lastBlockJob, now)
              /\ ProcessedOK(processedBlocks, next, lastBlockJob, now)
              /\ FewOK(next, processedBlocks, lastBlockJob, now)
      BY <1>2, <1>5, <2>1, JobReplaced
    <2> QED BY <1>1, <1>6, <1>8, <2>2, BlocksKept
  <1> QED BY <1>7, <1>8

\* Either did not: the job is over and nothing was counted.
LEMMA BlocksNotFetchedOK ==
  ASSUME GateTypeOK, BlocksInv, NEW j \in blockJobs, BlocksNotFetched(j)
  PROVE  BlocksInv'
  <1>1. /\ blockJobs' = blockJobs \ {j} /\ now' = now /\ lastBlockJob' = lastBlockJob
        /\ UNCHANGED <<recentBlockTimes, transactionCounts, failedTransactions,
                       transactionsPerBlock, transactionsPerMinute, processedBlocks>>
    BY DEF BlocksNotFetched
  <1>2. /\ JobsOK(blockJobs, lastBlockJob, now)
        /\ ProcessedOK(processedBlocks, blockJobs, lastBlockJob, now)
        /\ FewOK(blockJobs, processedBlocks, lastBlockJob, now)
        /\ PointsOK(recentBlockTimes, now)
    BY DEF BlocksInv, OthersOK
  <1>3. /\ JobsOK(blockJobs \ {j}, lastBlockJob, now)
        /\ ProcessedOK(processedBlocks, blockJobs \ {j}, lastBlockJob, now)
        /\ FewOK(blockJobs \ {j}, processedBlocks, lastBlockJob, now)
    BY <1>2, JobDropped
  <1> QED BY <1>1, <1>2, <1>3, BlocksKept

\* A batch settles: the next one, or the block is processed.
LEMMA BatchSettledOK ==
  ASSUME GateTypeOK, BlocksInv, NEW j \in blockJobs,
         NEW confirmed \in 0 .. BatchOf(j), NEW failed \in 0 .. BatchOf(j),
         BatchSettled(j, confirmed, failed)
  PROVE  BlocksInv'
  <1> DEFINE size == BatchOf(j)
             left == j.left - size
             c == j.confirmed + confirmed
             f == j.failed + failed
             job == [j EXCEPT !.left = left, !.confirmed = c, !.failed = f]
  <1>1. /\ j.total # Fetching /\ confirmed + failed <= size
        /\ now' = now /\ lastBlockJob' = lastBlockJob /\ recentBlockTimes' = recentBlockTimes
        /\ job.left = 0 => /\ blockJobs' = blockJobs \ {j}
                           /\ UpdateTransactionMetrics(job, job.confirmed, job.failed)
        /\ job.left # 0 => /\ blockJobs' = (blockJobs \ {j}) \cup {job}
                           /\ UNCHANGED <<transactionCounts, failedTransactions,
                                          transactionsPerBlock, transactionsPerMinute,
                                          processedBlocks>>
    BY DEF BatchSettled
  <1>2. /\ JobsOK(blockJobs, lastBlockJob, now)
        /\ ProcessedOK(processedBlocks, blockJobs, lastBlockJob, now)
        /\ FewOK(blockJobs, processedBlocks, lastBlockJob, now)
        /\ PointsOK(recentBlockTimes, now)
    BY DEF BlocksInv, OthersOK
  <1>3. /\ j \in Job
        /\ j.left \in 1 .. j.total /\ j.confirmed + j.failed <= j.total - j.left
    BY <1>1, <1>2 DEF JobsOK, JobOK
  <1>4. j.total \in Nat /\ j.left \in Nat /\ j.confirmed \in Nat /\ j.failed \in Nat
    BY <1>1, <1>3 DEF Job
  <1>5. size \in Nat /\ size <= j.left
    BY <1>4, BlocksAssumption DEF BatchOf
  <1> HIDE DEF size
  <1>6. left \in Nat /\ left <= j.total /\ c \in Nat /\ f \in Nat /\ c + f <= j.total - left
    BY <1>1, <1>3, <1>4, <1>5 DEF size
  <1> HIDE DEF left, c, f
  <1>7. /\ job \in Job
        /\ job.id = j.id /\ job.total = j.total /\ job.left = left
        /\ job.confirmed = c /\ job.failed = f
    BY <1>3, <1>6 DEF Job
  <1> HIDE DEF job
  <1>8. CASE left = 0
    <2>1. blockJobs' = blockJobs \ {j} /\ UpdateTransactionMetrics(job, c, f)
      BY <1>1, <1>7, <1>8
    <2>2. c + f <= job.total /\ job.total \in Nat
      BY <1>4, <1>6, <1>7, <1>8
    <2> QED BY <1>1, <1>2, <1>7, <2>1, <2>2, BlockProcessedOK
  <1>9. CASE left # 0
    <2>1. JobOK(job)
      BY <1>1, <1>4, <1>6, <1>7, <1>9 DEF JobOK
    <2>2. LET next == (blockJobs \ {j}) \cup {job}
          IN  /\ JobsOK(next, lastBlockJob, now)
              /\ ProcessedOK(processedBlocks, next, lastBlockJob, now)
              /\ FewOK(next, processedBlocks, lastBlockJob, now)
      BY <1>2, <1>7, <2>1, JobReplaced
    <2> QED BY <1>1, <1>2, <1>7, <1>9, <2>2, BlocksKept
  <1> QED BY <1>8, <1>9

\* Time passes: the windows move on.
LEMMA BlocksTickOK ==
  ASSUME GateTypeOK, BlocksInv, BlocksTick
  PROVE  BlocksInv'
  <1>1. /\ now' = now + 1 /\ now \in Nat
        /\ UNCHANGED <<blockJobs, lastBlockJob, recentBlockTimes, transactionCounts,
                       failedTransactions, transactionsPerBlock, transactionsPerMinute,
                       processedBlocks>>
    BY DEF BlocksTick, blocksVars, GateTypeOK
  <1>2. /\ JobsOK(blockJobs, lastBlockJob, now)
        /\ ProcessedOK(processedBlocks, blockJobs, lastBlockJob, now)
        /\ FewOK(blockJobs, processedBlocks, lastBlockJob, now)
        /\ PointsOK(transactionCounts, now) /\ PointsOK(recentBlockTimes, now)
        /\ PointsOK(failedTransactions, now)
        /\ RateOK(transactionCounts, processedBlocks, now)
    BY DEF BlocksInv, CountsOK, OthersOK
  <1>3. JobsOK(blockJobs, lastBlockJob, now + 1)
    BY <1>1, <1>2 DEF JobsOK
  <1>4. ProcessedOK(processedBlocks, blockJobs, lastBlockJob, now + 1)
    <2>1. StartTime .. now \subseteq StartTime .. now + 1
      BY <1>1, GateAssumption
    <2> QED BY <1>2, <2>1 DEF ProcessedOK
  <1>5. FewOK(blockJobs, processedBlocks, lastBlockJob, now + 1)
    BY <1>1, <1>2, FewTicked
  <1>6. /\ PointsOK(transactionCounts, now + 1) /\ PointsOK(recentBlockTimes, now + 1)
        /\ PointsOK(failedTransactions, now + 1)
    BY <1>1, <1>2, PointsTicked
  <1>7. RateOK(transactionCounts, processedBlocks, now + 1)
    <2>1. /\ \A p \in transactionCounts : p.at \in StartTime .. now
          /\ \A b \in processedBlocks : b.at \in StartTime .. now
      BY <1>2 DEF PointsOK, ProcessedOK
    <2> QED BY <1>1, <1>2, <2>1, RateTicked
  <1>8. CountsOK' /\ OthersOK'
    BY <1>1, <1>6, <1>7 DEF BlocksInv, CountsOK, OthersOK
  <1> QED BY <1>1, <1>3, <1>4, <1>5, <1>8 DEF BlocksInv

\* Every step of the blocks.
LEMMA BlocksNextOK == GateTypeOK /\ BlocksInv /\ BlocksNext => BlocksInv'
  BY ProcessLatestBlockDataOK, BlocksFetchedOK, BlocksNotFetchedOK, BatchSettledOK, BlocksTickOK
     DEF BlocksNext

-----------------------------------------------------------------------------
\* Where another monitor is followed no block is ever begun.
PartInv == BlocksInv /\ (part # "blocks" => BlocksInit)

LEMMA BlocksInvariant == Spec => []PartInv
  <1>1. Init => PartInv
    BY BlocksInitOK, HeightsInitOK DEF Init, PartInv, HeightsInv
  <1>2. HeightsInv /\ HeightsInv' /\ PartInv /\ [Next]_vars => PartInv'
    <2> SUFFICES ASSUME HeightsInv, HeightsInv', PartInv, [Next]_vars PROVE PartInv'
      OBVIOUS
    <2>1. GateTypeOK /\ GateTypeOK' /\ BlocksInv
      BY DEF HeightsInv, PartInv
    <2>2. CASE part = "blocks" /\ BlocksNext /\ UNCHANGED <<heightsVars, peersVars, part>>
      <3>1. BlocksInv'
        BY <2>1, <2>2, BlocksNextOK
      <3> QED BY <2>2, <3>1 DEF PartInv
    <2>3. CASE part # "blocks" /\ UNCHANGED <<blocksVars, part>>
      <3>1. BlocksInit'
        BY <2>3 DEF PartInv, BlocksInit, blocksVars
      <3>2. GateTypeOK' /\ BlocksInit' => BlocksInv'
        BY BlocksInitOK, PTL
      <3> QED BY <2>1, <2>3, <3>1, <3>2 DEF PartInv
    <2>4. CASE UNCHANGED vars
      <3>1. UNCHANGED <<now, blocksVars, part>>
        BY <2>4 DEF vars
      <3>2. UNCHANGED <<now, part, blockJobs, lastBlockJob, recentBlockTimes, transactionCounts,
                        failedTransactions, transactionsPerBlock, transactionsPerMinute,
                        processedBlocks>>
        BY <3>1 DEF blocksVars
      <3>3. BlocksInv'
        BY <2>1, <3>2 DEF BlocksInv, CountsOK, OthersOK
      <3> QED BY <3>2, <3>3 DEF PartInv, BlocksInit
    <2> QED BY <2>2, <2>3, <2>4 DEF Next, AtHorizon
  <1> QED BY <1>1, <1>2, HeightsInvariant, PTL DEF Spec

\* The inductive invariants of the three monitors together.
LEMMA SpecParts == Spec => [](HeightsInv /\ PeersInv /\ PartInv)
  BY HeightsInvariant, PeersInvariant, BlocksInvariant, PTL

\* The two properties of the blocks are parts of the invariant.
LEMMA RateIsCovered == BlocksInv => RateCoversWindow
  BY DEF BlocksInv, CountsOK, RateCovers, RateCoversWindow, Totals, Since

LEMMA BlocksTyped == BlocksInv => BlocksTypeOK
  <1> SUFFICES ASSUME BlocksInv PROVE BlocksTypeOK
    OBVIOUS
  <1>1. \A j \in blockJobs :
          /\ j.id \in 1 .. lastBlockJob.id
          /\ j.total = Fetching \/ j.left \in 1 .. j.total
          /\ j.total # Fetching => j.confirmed + j.failed <= j.total - j.left
    BY DEF BlocksInv, JobsOK, JobOK
  <1>2. \A data \in {recentBlockTimes, transactionCounts, failedTransactions} :
          Cardinality(data) <= SAMPLE_SIZE /\ \A p \in data : p.at \in StartTime .. now
    BY DEF BlocksInv, CountsOK, OthersOK, PointsOK
  <1> QED BY <1>1, <1>2 DEF BlocksTypeOK, BlocksInv, OthersOK

\* When the rate was written it counted every block processed in the window
\* before, whole and once, in whatever order the blocks came in and however
\* many jobs overlapped: neither the pruning nor the limit of the window lost
\* one (blocks.monitor.ts:655-681, time-window-data.ts:67-83).
THEOREM RateAlwaysCoversWindow == Spec => []RateCoversWindow
  <1>1. PartInv => RateCoversWindow
    BY RateIsCovered DEF PartInv
  <1> QED BY <1>1, BlocksInvariant, PTL

\* The three monitors keep their shapes and their limits, whatever nodes
\* answer and in whatever order (blocks.monitor.ts, peer-count.monitor.ts).
THEOREM TypeCorrect == Spec => []TypeOK
  <1>1. HeightsInv /\ PeersInv /\ PartInv => TypeOK
    BY BlocksTyped DEF HeightsInv, PeersInv, PartInv, TypeOK
  <1> QED BY <1>1, SpecParts, PTL

-----------------------------------------------------------------------------
(***************************************************************************)
(* The three monitors at once.                                             *)
(***************************************************************************)
LEMMA BlocksTogether ==
  ASSUME GateTypeOK, BlocksInv, [TogetherNext]_vars
  PROVE  BlocksInv'
  <1>1. CASE BlocksNext
    BY <1>1, BlocksNextOK
  <1>2. CASE UNCHANGED <<now, blocksVars>>
    <2>1. UNCHANGED <<now, blockJobs, lastBlockJob, recentBlockTimes, transactionCounts,
                      failedTransactions, transactionsPerBlock, transactionsPerMinute,
                      processedBlocks>>
      BY <1>2 DEF blocksVars
    <2> QED BY <2>1 DEF BlocksInv, CountsOK, OthersOK
  <1>3. BlocksTick => BlocksNext
    BY DEF BlocksNext
  <1> QED BY <1>1, <1>2, <1>3 DEF TogetherNext, vars

LEMMA TogetherInvariant == Together => [](HeightsInv /\ PeersInv /\ BlocksInv)
  <1>1. HeightsInv => GateTypeOK
    BY DEF HeightsInv
  <1>2. Init => HeightsInv /\ PeersInv /\ BlocksInv
    BY <1>1, HeightsInitOK, PeersInitOK, BlocksInitOK DEF Init
  <1>3. /\ HeightsInv /\ PeersInv /\ BlocksInv
        /\ [TogetherNext]_vars
        => (HeightsInv /\ PeersInv /\ BlocksInv)'
    BY <1>1, TogetherIsOne, HeightsStep, PeersStep, BlocksTogether
  <1> QED BY <1>2, <1>3, PTL DEF Together

\* The three monitors do not disturb one another: run at once on one clock and
\* through one throttle, in every interleaving, they keep everything that each
\* keeps by itself (monitoring.module.ts:16-30, alert.service.ts:813-832).
THEOREM MonitorsKeepApart ==
  Together => [](TypeOK /\ LagNeverSilent /\ DownAlertsTrue /\ RateCoversWindow
                        /\ PeerOutageNeverSilent)
  <1>1. HeightsInv /\ PeersInv /\ BlocksInv => TypeOK
    BY BlocksTyped DEF HeightsInv, PeersInv, TypeOK
  <1>2. HeightsInv => LagNeverSilent /\ DownAlertsTrue
    BY DEF HeightsInv, LagInv, DownInv
  <1>3. BlocksInv => RateCoversWindow
    BY RateIsCovered
  <1>4. PeersInv => PeerOutageNeverSilent
    BY DEF PeersInv
  <1> QED BY <1>1, <1>2, <1>3, <1>4, TogetherInvariant, PTL

\* Nor do they slow the cycles of heights down: with a timeout shorter than the
\* scan interval the heights compared are of one cycle, whatever the others do
\* meanwhile (blocks.monitor.ts:379-412).
THEOREM CyclesKeepApart ==
  ASSUME CHECK_TIMEOUT < SCAN_INTERVAL
  PROVE  Together => []HeightsOfOneCycle
  <1>1. HeightsInv /\ CycleInv /\ [TogetherNext]_vars => CycleInv'
    <2> SUFFICES ASSUME HeightsInv, CycleInv, [TogetherNext]_vars PROVE CycleInv'
      OBVIOUS
    <2>1. CASE HeightsNext
      BY <2>1, CycleStep
    <2>2. CASE UNCHANGED heightsVars /\ now' = now
      BY <2>2, CycleKept
    <2>3. HeightsTick => HeightsNext
      BY DEF HeightsNext
    <2> QED BY <2>1, <2>2, <2>3 DEF TogetherNext, vars
  <1>2. HeightsInv /\ PeersInv /\ BlocksInv => HeightsInv
    OBVIOUS
  <1>3. CycleInv => HeightsOfOneCycle
    BY DEF CycleInv
  <1> QED BY <1>1, <1>2, <1>3, CycleInitOK, TogetherInvariant, PTL DEF Together
=============================================================================
