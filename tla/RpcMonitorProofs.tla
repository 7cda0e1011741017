-------------------------- MODULE RpcMonitorProofs --------------------------
(***************************************************************************)
(* The RPC monitor, for every set of endpoints and every order of          *)
(* configuration: the provider table and its fallback loop, the statuses   *)
(* and the downtime alerts raised from them under every interleaving of    *)
(* checks, port tests, copy and provider events, and the selector as the   *)
(* monitor drives it.                                                      *)
(***************************************************************************)
EXTENDS RpcMonitor, RpcSelectorProofs

-----------------------------------------------------------------------------
(* The fallback of the active provider. *)

\* The part of ProvidersTypeOK the fallback works on.
HttpTypeOK ==
  /\ providers \in [Urls -> ProviderEntry]
  /\ activeProvider \in Urls
  /\ trying \in {0} \cup DOMAIN ProviderOrder

\* The inductive invariant: the typed table, and the loop running only while
\* the active provider is down.
FallbackInv == HttpTypeOK /\ OneFallback

\* The loop stops, or awaits the provider at a position of the configuration.
LEMMA NextTryPosition ==
  ASSUME NEW table, NEW i
  PROVE  NextTry(table, i) \in {0} \cup DOMAIN ProviderOrder
<1> DEFINE candidates == {j \in DOMAIN ProviderOrder :
                            /\ j > i /\ ProviderOrder[j] # activeProvider
                            /\ table[ProviderOrder[j]].made /\ table[ProviderOrder[j]].up}
<1>1. CASE candidates = {}
  BY <1>1 DEF NextTry
<1>2. CASE candidates # {}
  <2>1. ProviderOrder \in Seq(Urls)
    BY ProviderAssumption DEF ProviderAssumption
  <2>2. candidates \subseteq Nat
    BY <2>1
  <2>3. \E j \in candidates : \A k \in candidates : j <= k
    BY <1>2, <2>2, LeastExists
  <2>4. NextTry(table, i) = CHOOSE j \in candidates : \A k \in candidates : j <= k
    BY <1>2 DEF NextTry
  <2>5. NextTry(table, i) \in candidates
    BY <2>3, <2>4
  <2>6. QED
    BY <2>5
<1>3. QED
  BY <1>1, <1>2

\* Marking a provider down keeps the table typed and turns no provider up.
LEMMA MarkedDown ==
  ASSUME providers \in [Urls -> ProviderEntry], NEW u \in Urls
  PROVE  LET table == [providers EXCEPT ![u].up = FALSE]
         IN  /\ table \in [Urls -> ProviderEntry]
             /\ ~table[u].up
             /\ \A v \in Urls : ~providers[v].up => ~table[v].up
<1> DEFINE p == [providers[u] EXCEPT !.up = FALSE]
           table == [providers EXCEPT ![u] = p]
<1>1. providers[u] \in [made : BOOLEAN, up : BOOLEAN]
  BY DEF ProviderEntry
<1>2. p \in [made : BOOLEAN, up : BOOLEAN] /\ p.up = FALSE
  BY <1>1
<1>3. p \in ProviderEntry
  BY <1>2 DEF ProviderEntry
<1> HIDE DEF p
<1>4. table \in [Urls -> ProviderEntry]
  BY <1>3
<1>5. table[u] = p /\ \A v \in Urls : v # u => table[v] = providers[v]
  OBVIOUS
<1>6. ~table[u].up /\ \A v \in Urls : ~providers[v].up => ~table[v].up
  BY <1>2, <1>5
<1>7. table = [providers EXCEPT ![u].up = FALSE]
  BY DEF p
<1>8. QED
  BY <1>4, <1>6, <1>7

LEMMA ErrorKeepsFallback ==
  ASSUME FallbackInv, NEW u \in Urls, ProviderError(u)
  PROVE  FallbackInv'
<1> DEFINE table == [providers EXCEPT ![u].up = FALSE]
<1>1. /\ providers' = table /\ activeProvider' = activeProvider
      /\ trying' = NextTry(providers', 0) \/ trying' = trying
      /\ trying' # trying => activeProvider = u
  BY DEF ProviderError, UpdateProviderStatus
<1>2. /\ table \in [Urls -> ProviderEntry]
      /\ ~table[u].up
      /\ \A v \in Urls : ~providers[v].up => ~table[v].up
  BY MarkedDown DEF FallbackInv, HttpTypeOK
<1> HIDE DEF table
<1>3. HttpTypeOK'
  BY <1>1, <1>2, NextTryPosition DEF FallbackInv, HttpTypeOK
<1>4. OneFallback'
  <2>1. CASE trying' = trying
    BY <1>1, <1>2, <2>1 DEF FallbackInv, HttpTypeOK, OneFallback
  <2>2. CASE trying' # trying
    BY <1>1, <1>2, <2>2 DEF OneFallback
  <2>3. QED
    BY <2>1, <2>2
<1>5. QED
  BY <1>3, <1>4 DEF FallbackInv

LEMMA AnswerKeepsFallback ==
  ASSUME FallbackInv, NEW ok \in BOOLEAN, FallbackAnswer(ok)
  PROVE  FallbackInv'
<1> DEFINE u == ProviderOrder[trying]
           table == [providers EXCEPT ![u].up = FALSE]
<1>1. u \in Urls
  BY ProviderAssumption DEF ProviderAssumption, FallbackInv, HttpTypeOK, FallbackAnswer
<1>2. CASE ok
  <2>1. activeProvider' = u /\ trying' = 0 /\ providers' = providers
    BY <1>2 DEF FallbackAnswer
  <2>2. QED
    BY <1>1, <2>1 DEF FallbackInv, HttpTypeOK, OneFallback
<1>3. CASE ~ok
  <2>1. /\ trying # 0
        /\ providers' = table /\ trying' = NextTry(providers', trying)
        /\ activeProvider' = activeProvider
    BY <1>3 DEF FallbackAnswer
  <2>2. /\ table \in [Urls -> ProviderEntry]
        /\ \A v \in Urls : ~providers[v].up => ~table[v].up
    BY <1>1, MarkedDown DEF FallbackInv, HttpTypeOK
  <2> HIDE DEF table
  <2>3. HttpTypeOK'
    BY <2>1, <2>2, NextTryPosition DEF FallbackInv, HttpTypeOK
  <2>4. OneFallback'
    BY <2>1, <2>2 DEF FallbackInv, HttpTypeOK, OneFallback
  <2>5. QED
    BY <2>3, <2>4 DEF FallbackInv
<1>4. QED
  BY <1>2, <1>3

\* Nothing but the provider events touches the table the fallback works on.
LEMMA FallbackStep ==
  ASSUME FallbackInv, [Next]_vars
  PROVE  FallbackInv'
<1>1. CASE ProviderEvent
  <2>1. ASSUME NEW u \in Urls, ProviderError(u) PROVE FallbackInv'
    BY <2>1, ErrorKeepsFallback
  <2>2. ASSUME NEW ok \in BOOLEAN, FallbackAnswer(ok) PROVE FallbackInv'
    BY <2>2, AnswerKeepsFallback
  <2>3. CASE UNCHANGED httpVars
    BY <2>3 DEF httpVars, FallbackInv, HttpTypeOK, OneFallback
  <2>4. QED
    BY <1>1, <2>1, <2>2, <2>3 DEF ProviderEvent, WsOpened, WsRefused, WsSocketLost
<1>2. CASE UNCHANGED httpVars
  BY <1>2 DEF httpVars, FallbackInv, HttpTypeOK, OneFallback
<1>3. ProviderEvent \/ UNCHANGED httpVars
  <2>1. UNCHANGED vars => UNCHANGED httpVars
    BY DEF vars, providerVars
  <2>2. Next => ProviderEvent \/ UNCHANGED httpVars
    BY DEF Next, StartMonitoring, MonitorRpcEndpoint, MonitorWsProvider, MonitorWsProbe,
           MonitorWsAnswer, MonitorWsPort, SyncWithBlockchainService, Tick,
           UpdateWsProviderStatus, providerVars
  <2>3. QED
    BY <2>1, <2>2
<1>4. QED
  BY <1>1, <1>2, <1>3

\* However provider errors and the answers of a running loop interleave with
\* the monitor's checks, the loop runs only while the active provider is down,
\* so two loops never compete for activeProvider.
THEOREM OneFallbackAlways == Spec => []OneFallback
<1>1. Init => FallbackInv
  <2> SUFFICES ASSUME Init PROVE FallbackInv
    OBVIOUS
  <2>1. PRIMARY_RPC_URL \in Urls
    BY SelectorAssumption DEF SelectorAssumption
  <2>2. QED
    BY <2>1 DEF Init, ProvidersInit, FallbackInv, HttpTypeOK, OneFallback
<1>2. FallbackInv /\ [Next]_vars => FallbackInv'
  BY FallbackStep
<1>3. FallbackInv => OneFallback
  BY DEF FallbackInv
<1>4. QED
  BY <1>1, <1>2, <1>3, PTL DEF Spec

-----------------------------------------------------------------------------
(* syncWithBlockchainService(): what holds before it and after each of its *)
(* turns holds after it.                                                   *)

LEMMA GreatestIs ==
  ASSUME NEW S \in SUBSET Int, NEW m \in S, \A y \in S : m >= y
  PROVE  Max(S) = m
<1>1. \A x \in S : (\A y \in S : x >= y) => x = m
  OBVIOUS
<1>2. QED
  BY <1>1 DEF Max

\* The recursion of the fold, over the first k endpoints.
Folds(iter, m, seq, k) ==
  iter = [S \in SUBSET (1 .. k) |->
            IF S = {} THEN m ELSE Synced(iter[S \ {Max(S)}], seq[Max(S)])]

LEMMA FoldExtended ==
  ASSUME NEW m, NEW seq, NEW k \in Nat \ {0}, NEW g, Folds(g, m, seq, k - 1)
  PROVE  \E h : Folds(h, m, seq, k)
<1> DEFINE T == SUBSET (1 .. k)
           h == [S \in T |-> IF k \in S THEN Synced(g[S \ {k}], seq[k]) ELSE g[S]]
<1>1. ASSUME NEW S \in T, k \in S
      PROVE  h[S] = Synced(h[S \ {Max(S)}], seq[Max(S)])
  <2>1. Max(S) = k
    BY <1>1, GreatestIs
  <2>2. S \ {k} \in T /\ k \notin S \ {k}
    OBVIOUS
  <2>3. h[S \ {k}] = g[S \ {k}]
    BY <2>2
  <2>4. QED
    BY <1>1, <2>1, <2>3
<1>2. ASSUME NEW S \in T, k \notin S
      PROVE  h[S] = IF S = {} THEN m ELSE Synced(h[S \ {Max(S)}], seq[Max(S)])
  <2>1. S \in SUBSET (1 .. (k - 1))
    BY <1>2
  <2>2. g[S] = IF S = {} THEN m ELSE Synced(g[S \ {Max(S)}], seq[Max(S)])
    BY <2>1 DEF Folds
  <2>3. h[S] = g[S] /\ h[S \ {Max(S)}] = g[S \ {Max(S)}]
    BY <1>2
  <2>4. QED
    BY <2>2, <2>3
<1>3. h = [S \in T |-> IF S = {} THEN m ELSE Synced(h[S \ {Max(S)}], seq[Max(S)])]
  <2>1. \A S \in T : h[S] = IF S = {} THEN m ELSE Synced(h[S \ {Max(S)}], seq[Max(S)])
    BY <1>1, <1>2
  <2>2. h = [S \in T |-> h[S]]
    OBVIOUS
  <2> HIDE DEF h
  <2>3. QED
    BY <2>1, <2>2
<1> HIDE DEF h
<1>4. QED
  BY <1>3 DEF Folds

LEMMA FoldExists ==
  ASSUME NEW m, NEW seq, NEW n \in Nat
  PROVE  \E iter : Folds(iter, m, seq, n)
<1> DEFINE bad == {k \in Nat : ~ \E iter : Folds(iter, m, seq, k)}
<1>1. SUFFICES ASSUME bad # {} PROVE FALSE
  OBVIOUS
<1>2. PICK k \in bad : \A j \in bad : k <= j
  <2>1. bad \subseteq Nat
    OBVIOUS
  <2> HIDE DEF bad
  <2>2. QED
    BY <1>1, <2>1, LeastExists
<1>3. CASE k = 0
  <2> DEFINE g == [S \in SUBSET (1 .. 0) |-> m]
  <2>1. \A S \in SUBSET (1 .. 0) : S = {}
    OBVIOUS
  <2>2. g = [S \in SUBSET (1 .. 0) |->
               IF S = {} THEN m ELSE Synced(g[S \ {Max(S)}], seq[Max(S)])]
    BY <2>1
  <2>3. Folds(g, m, seq, 0)
    BY <2>2 DEF Folds
  <2>4. QED
    BY <1>2, <1>3, <2>3
<1>4. CASE k # 0
  <2>1. k - 1 \in Nat /\ k - 1 \notin bad /\ k \in Nat \ {0}
    BY <1>2, <1>4
  <2>2. PICK g : Folds(g, m, seq, k - 1)
    BY <2>1
  <2>3. \E h : Folds(h, m, seq, k)
    BY <2>1, <2>2, FoldExtended
  <2>4. QED
    BY <1>2, <2>3
<1>5. QED
  BY <1>3, <1>4

\* The whole fold, from m over the endpoints of seq.
Copied(m, seq) == FoldLeft(Synced, m, seq)

\* f holds the states the fold goes through.
Turns(f, m, n, seq) ==
  f[0] = m /\ f[n] = Copied(m, seq) /\ \A k \in 1 .. n : f[k] = Synced(f[k - 1], seq[k])

LEMMA FoldSteps ==
  ASSUME NEW m, NEW n \in Nat, NEW seq, DOMAIN seq = 1 .. n
  PROVE  \E f : Turns(f, m, n, seq)
<1> DEFINE iter == CHOOSE g : Folds(g, m, seq, n)
           f == [k \in 0 .. n |-> iter[1 .. k]]
<1>1. Folds(iter, m, seq, n)
  BY FoldExists
<1>2. Copied(m, seq) = iter[1 .. n]
  BY DEF Copied, FoldLeft, MapThenFoldSet, Folds
<1> HIDE DEF iter
<1>3. \A S \in SUBSET (1 .. n) :
        iter[S] = IF S = {} THEN m ELSE Synced(iter[S \ {Max(S)}], seq[Max(S)])
  BY <1>1 DEF Folds
<1>4. f[0] = m
  <2>1. 1 .. 0 = {} /\ {} \in SUBSET (1 .. n) /\ 0 \in 0 .. n
    OBVIOUS
  <2>2. iter[{}] = m
    BY <1>3, <2>1
  <2>3. f[0] = iter[1 .. 0]
    BY <2>1
  <2>4. QED
    BY <2>1, <2>2, <2>3
<1>5. ASSUME NEW k \in 1 .. n
      PROVE  f[k] = Synced(f[k - 1], seq[k])
  <2>1. /\ 1 .. k \in SUBSET (1 .. n) /\ 1 .. k # {} /\ k \in 1 .. k
        /\ (1 .. k) \ {k} = 1 .. (k - 1)
        /\ k - 1 \in 0 .. n /\ k \in 0 .. n
    <3>1. k \in Nat /\ k >= 1 /\ k <= n
      OBVIOUS
    <3>2. 1 .. k \in SUBSET (1 .. n) /\ k \in 1 .. k
      BY <3>1
    <3>3. \A i : i \in (1 .. k) \ {k} <=> i \in 1 .. (k - 1)
      BY <3>1
    <3>4. QED
      BY <3>1, <3>2, <3>3
  <2>2. Max(1 .. k) = k
    <3>1. 1 .. k \in SUBSET Int /\ \A y \in 1 .. k : k >= y
      OBVIOUS
    <3>2. QED
      BY <2>1, <3>1, GreatestIs
  <2>3. iter[1 .. k] = Synced(iter[1 .. (k - 1)], seq[k])
    BY <1>3, <2>1, <2>2
  <2>4. QED
    BY <2>1, <2>3
<1>6. f[n] = Copied(m, seq)
  BY <1>2
<1> HIDE DEF f
<1>7. QED
  BY <1>4, <1>5, <1>6 DEF Turns

-----------------------------------------------------------------------------
(* The statuses of the monitor and the downtime alerts raised from them.   *)

StatusEntry == [status : {"unknown", "up", "down"}, downSince : Nat, alerted : BOOLEAN]
ReportEntry == [url : Endpoints, at : Nat, since : Nat, sent : BOOLEAN, lastUp : Nat]
MonitorState ==
  [status : [Endpoints -> StatusEntry], lastAlert : Nat, reports : Seq(ReportEntry)]

\* An HTTP endpoint whose provider was not made when the process started.
NeverMade(e) == e \in Urls /\ ~providers[e].made

\* An entry and what the checks saw of its endpoint.
EntryOK(e, s, up, failing) ==
  /\ s.downSince <= now
  /\ s.downSince # 0 <=> s.status = "down"
  /\ s.alerted => s.status = "down"
  /\ s.downSince # 0 => up <= s.downSince
  /\ NeverMade(e) /\ failing # 0 => s.downSince # 0 /\ s.downSince <= failing

\* An alert is about an outage that lasted the threshold, and the entry it is
\* about remembers it for as long as the outage lasts.
ReportsOK(m) ==
  /\ \A i \in DOMAIN m.reports :
       LET r == m.reports[i]
       IN  /\ r.since # 0 /\ r.lastUp <= r.since /\ r.at <= now
           /\ r.at - r.since >= DOWNTIME_NOTIFICATION_THRESHOLD
           /\ m.status[r.url].downSince = r.since => m.status[r.url].alerted
  /\ \A i, j \in DOMAIN m.reports :
       m.reports[i].url = m.reports[j].url /\ m.reports[i].since = m.reports[j].since => i = j

MonitorOK(m, up, failing) ==
  /\ m \in MonitorState
  /\ \A e \in Endpoints : EntryOK(e, m.status[e], up[e], failing[e])
  /\ ReportsOK(m)

LEMMA StatusReplaced ==
  ASSUME NEW m \in MonitorState, NEW e \in Endpoints, NEW s \in StatusEntry
  PROVE  LET n == [m EXCEPT !.status[e] = s]
         IN  /\ n \in MonitorState
             /\ n.status = [m.status EXCEPT ![e] = s]
             /\ n.status[e] = s /\ \A d \in Endpoints : d # e => n.status[d] = m.status[d]
             /\ n.lastAlert = m.lastAlert /\ n.reports = m.reports
<1> DEFINE status == [m.status EXCEPT ![e] = s]
           n == [m EXCEPT !.status = status]
<1>1. /\ status \in [Endpoints -> StatusEntry]
      /\ status[e] = s /\ \A d \in Endpoints : d # e => status[d] = m.status[d]
  BY DEF MonitorState
<1> HIDE DEF status
<1>2. /\ n \in MonitorState /\ n.status = status
      /\ n.lastAlert = m.lastAlert /\ n.reports = m.reports
  BY <1>1 DEF MonitorState
<1>3. n = [m EXCEPT !.status[e] = s]
  BY DEF MonitorState, status
<1>4. QED
  BY <1>1, <1>2, <1>3 DEF status

\* updateStatus() on an entry.
LEMMA UpdateStatusOK ==
  ASSUME now \in Nat \ {0}, NEW s \in StatusEntry, NEW isUp \in BOOLEAN,
         s.downSince # 0 <=> s.status = "down",
         s.alerted => s.status = "down"
  PROVE  LET t == UpdateStatus(s, isUp)
         IN  /\ t \in StatusEntry
             /\ isUp => t.status = "up" /\ t.downSince = 0 /\ ~t.alerted
             /\ ~isUp /\ s.downSince # 0 => t = s
             /\ ~isUp /\ s.downSince = 0 => t = Down
<1>1. Up \in StatusEntry /\ Down \in StatusEntry
  BY DEF Up, Down, StatusEntry
<1>2. CASE ~isUp /\ s.status # "down"
  BY <1>1, <1>2 DEF UpdateStatus
<1>3. CASE isUp /\ s.status = "down"
  BY <1>1, <1>3 DEF UpdateStatus, Up
<1>4. CASE ~isUp /\ s.status = "down"
  <2>1. UpdateStatus(s, isUp) = [s EXCEPT !.status = "down"]
    BY <1>4 DEF UpdateStatus
  <2>2. [s EXCEPT !.status = "down"] = s
    BY <1>4 DEF StatusEntry
  <2>3. QED
    BY <1>4, <2>1, <2>2
<1>5. CASE isUp /\ s.status # "down"
  <2>1. UpdateStatus(s, isUp) = [s EXCEPT !.status = "up"]
    BY <1>5 DEF UpdateStatus
  <2>2. QED
    BY <1>5, <2>1 DEF StatusEntry
<1>6. QED
  BY <1>2, <1>3, <1>4, <1>5

\* What an observation of an endpoint leaves of the history about it.
Follows(e, isUp, up, failing, up1, failing1) ==
  /\ \A d \in Endpoints : d # e => up1[d] = up[d] /\ failing1[d] = failing[d]
  /\ isUp /\ NeverMade(e) => failing1[e] = 0
  /\ ~isUp => up1[e] = up[e] /\ up[e] \in 0 .. now
  /\ ~isUp => failing1[e] = failing[e] \/ (failing[e] = 0 /\ failing1[e] = now)

LEMMA SetStatusOK ==
  ASSUME now \in Nat \ {0}, NEW m, NEW up, NEW failing, NEW up1, NEW failing1,
         NEW e \in Endpoints, NEW isUp \in BOOLEAN,
         MonitorOK(m, up, failing), Follows(e, isUp, up, failing, up1, failing1)
  PROVE  LET n == SetStatus(m, e, isUp)
         IN  /\ MonitorOK(n, up1, failing1)
             /\ \A d \in Endpoints : d # e => n.status[d] = m.status[d]
             /\ ~isUp => n.status[e].downSince # 0
             /\ n.status[e].status # "unknown"
             /\ ~isUp /\ m.status[e].downSince # 0 => n.status[e] = m.status[e]
<1> DEFINE s == m.status[e]
           t == UpdateStatus(s, isUp)
           n == SetStatus(m, e, isUp)
<1>1. m \in MonitorState /\ s \in StatusEntry /\ EntryOK(e, s, up[e], failing[e]) /\ ReportsOK(m)
  BY DEF MonitorOK, MonitorState
<1>2. /\ t \in StatusEntry
      /\ isUp => t.status = "up" /\ t.downSince = 0 /\ ~t.alerted
      /\ ~isUp /\ s.downSince # 0 => t = s
      /\ ~isUp /\ s.downSince = 0 => t = Down
  <2>1. (s.downSince # 0 <=> s.status = "down") /\ (s.alerted => s.status = "down")
    BY <1>1 DEF EntryOK
  <2> HIDE DEF s
  <2>2. QED
    BY <1>1, <2>1, UpdateStatusOK
<1>3. n = [m EXCEPT !.status[e] = t]
  BY <1>1 DEF SetStatus, MonitorState
<1> HIDE DEF t
<1>4. /\ n \in MonitorState
      /\ n.status[e] = t /\ \A d \in Endpoints : d # e => n.status[d] = m.status[d]
      /\ n.reports = m.reports
  BY <1>1, <1>2, <1>3, StatusReplaced
<1> HIDE DEF n, s
<1>5. s.downSince \in Nat /\ s.downSince <= now
  BY <1>1 DEF EntryOK, StatusEntry
<1>6. EntryOK(e, t, up1[e], failing1[e])
  <2>1. CASE isUp
    BY <1>2, <2>1 DEF EntryOK, Follows
  <2>2. CASE ~isUp /\ s.downSince # 0
    BY <1>1, <1>2, <1>5, <2>2 DEF EntryOK, Follows
  <2>3. CASE ~isUp /\ s.downSince = 0
    BY <1>1, <1>2, <2>3 DEF EntryOK, Follows, Down
  <2>4. QED
    BY <2>1, <2>2, <2>3
<1>7. \A d \in Endpoints : EntryOK(d, n.status[d], up1[d], failing1[d])
  BY <1>4, <1>6 DEF MonitorOK, Follows
<1>8. ReportsOK(n)
  <2>1. ASSUME NEW i \in DOMAIN m.reports,
               n.status[m.reports[i].url].downSince = m.reports[i].since
        PROVE  n.status[m.reports[i].url].alerted
    <3> DEFINE r == m.reports[i]
    <3>1. r \in ReportEntry
      BY <1>1 DEF MonitorState
    <3>2. /\ r.since # 0 /\ r.at <= now /\ r.url \in Endpoints /\ r.at \in Nat /\ r.since \in Nat
          /\ r.at - r.since >= DOWNTIME_NOTIFICATION_THRESHOLD
          /\ m.status[r.url].downSince = r.since => m.status[r.url].alerted
      BY <1>1, <3>1 DEF ReportsOK, ReportEntry
    <3>3. r.since < now
      <4> HIDE DEF r
      <4>1. QED
        BY <3>2, MonitorAssumption DEF MonitorAssumption
    <3>4. CASE r.url # e
      BY <1>4, <2>1, <3>2, <3>4
    <3>5. CASE r.url = e
      BY <1>2, <1>4, <2>1, <3>2, <3>3, <3>5 DEF Down, s
    <3>6. QED
      BY <3>4, <3>5
  <2>2. QED
    BY <1>1, <1>4, <2>1 DEF ReportsOK
<1>9. ~isUp => t.downSince # 0
  BY <1>2 DEF Down
<1>10. t.status # "unknown"
  BY <1>1, <1>2 DEF Down, EntryOK
<1>11. QED
  BY <1>2, <1>4, <1>7, <1>8, <1>9, <1>10 DEF MonitorOK, n, s

LEMMA CheckDowntimeOK ==
  ASSUME now \in Nat \ {0}, lastUp \in [Endpoints -> Nat], NEW m, NEW failing,
         NEW e \in Endpoints, MonitorOK(m, lastUp, failing)
  PROVE  LET n == CheckDowntimeNotification(m, e)
         IN  /\ MonitorOK(n, lastUp, failing)
             /\ \A d \in Endpoints : d # e => n.status[d] = m.status[d]
             /\ n.status[e].status = m.status[e].status
             /\ n.status[e].downSince = m.status[e].downSince
             /\ m.status[e].alerted => n.status[e].alerted
             /\ m.status[e].downSince # 0
                  /\ now - m.status[e].downSince >= DOWNTIME_NOTIFICATION_THRESHOLD
                => n.status[e].alerted
<1> DEFINE s == m.status[e]
           n == CheckDowntimeNotification(m, e)
           due0 == /\ s.downSince # 0 /\ ~s.alerted
                   /\ ~(now - s.downSince < DOWNTIME_NOTIFICATION_THRESHOLD)
           sent == m.lastAlert = 0 \/ now - m.lastAlert >= THROTTLE
           last == IF sent THEN now ELSE m.lastAlert
           r == [url |-> e, at |-> now, since |-> s.downSince, sent |-> sent, lastUp |-> lastUp[e]]
<1>1. /\ m \in MonitorState /\ s \in StatusEntry /\ ReportsOK(m)
      /\ EntryOK(e, s, lastUp[e], failing[e])
      /\ DOWNTIME_NOTIFICATION_THRESHOLD \in Nat \ {0}
  BY MonitorAssumption DEF MonitorOK, MonitorState
<1>2. CASE ~due0
  <2>1. n = m
    BY <1>2 DEF CheckDowntimeNotification
  <2>2. s.downSince \in Nat
    BY <1>1 DEF StatusEntry
  <2> HIDE DEF n
  <2>3. QED
    BY <1>1, <1>2, <2>1, <2>2 DEF n
<1>3. CASE due0
  <2>1. s.downSince \in Nat /\ s.downSince <= now /\ lastUp[e] <= s.downSince /\ s.status = "down"
    BY <1>1, <1>3 DEF EntryOK, StatusEntry
  <2>2. last \in Nat /\ r \in ReportEntry
    BY <1>1, <2>1 DEF MonitorState, ReportEntry
  <2>3. n = [m EXCEPT !.status[e].alerted = TRUE, !.lastAlert = last, !.reports = Append(@, r)]
    BY <1>1, <1>3 DEF CheckDowntimeNotification, MonitorState
  <2>9. /\ r.url = e /\ r.since = s.downSince /\ r.at = now /\ r.lastUp = lastUp[e]
        /\ now - s.downSince >= DOWNTIME_NOTIFICATION_THRESHOLD
    BY <1>1, <1>3, <2>1
  <2> HIDE DEF n, last, r
  <2>4. /\ n \in MonitorState
        /\ n.status[e] = [s EXCEPT !.alerted = TRUE]
        /\ \A d \in Endpoints : d # e => n.status[d] = m.status[d]
        /\ n.reports = Append(m.reports, r)
    <3> DEFINE t == [s EXCEPT !.alerted = TRUE]
               status == [m.status EXCEPT ![e] = t]
               reports == Append(m.reports, r)
    <3>1. t \in StatusEntry
      BY <1>1 DEF StatusEntry
    <3>2. n = [m EXCEPT !.status = status, !.lastAlert = last, !.reports = reports]
      BY <1>1, <2>3 DEF MonitorState
    <3> HIDE DEF t
    <3>3. /\ status \in [Endpoints -> StatusEntry]
          /\ status[e] = t /\ \A d \in Endpoints : d # e => status[d] = m.status[d]
      BY <1>1, <3>1 DEF MonitorState
    <3>4. reports \in Seq(ReportEntry)
      BY <1>1, <2>2 DEF MonitorState
    <3> HIDE DEF status, reports
    <3>5. n \in MonitorState /\ n.status = status /\ n.reports = reports
      BY <1>1, <2>2, <3>2, <3>3, <3>4 DEF MonitorState
    <3>6. QED
      BY <3>3, <3>5 DEF t, reports
  <2>5. /\ n.status[e].alerted /\ n.status[e].downSince = s.downSince /\ n.status[e].status = s.status
    BY <1>1, <2>4 DEF StatusEntry
  <2>6. \A d \in Endpoints : EntryOK(d, n.status[d], lastUp[d], failing[d])
    BY <1>1, <2>1, <2>4, <2>5 DEF MonitorOK, EntryOK
  <2>7. /\ m.reports \in Seq(ReportEntry)
        /\ DOMAIN m.reports = 1 .. Len(m.reports) /\ Len(m.reports) \in Nat
        /\ DOMAIN n.reports = 1 .. (Len(m.reports) + 1)
        /\ \A i \in DOMAIN m.reports : n.reports[i] = m.reports[i]
        /\ n.reports[Len(m.reports) + 1] = r
    <3>1. m.reports \in Seq(ReportEntry)
      BY <1>1 DEF MonitorState
    <3>2. QED
      BY <2>4, <3>1
  <2>8. \A i \in DOMAIN n.reports : i \in DOMAIN m.reports \/ i = Len(m.reports) + 1
    BY <2>7
  <2>10. ASSUME NEW i \in DOMAIN n.reports
         PROVE  LET q == n.reports[i]
                IN  /\ q.since # 0 /\ q.lastUp <= q.since /\ q.at <= now
                    /\ q.at - q.since >= DOWNTIME_NOTIFICATION_THRESHOLD
                    /\ n.status[q.url].downSince = q.since => n.status[q.url].alerted
    <3>1. CASE i \in DOMAIN m.reports
      <4> DEFINE q == m.reports[i]
      <4>1. n.reports[i] = q /\ q \in ReportEntry
        BY <2>7, <3>1
      <4>2. /\ q.since # 0 /\ q.lastUp <= q.since /\ q.at <= now
            /\ q.at - q.since >= DOWNTIME_NOTIFICATION_THRESHOLD
            /\ m.status[q.url].downSince = q.since => m.status[q.url].alerted
        BY <1>1, <3>1 DEF ReportsOK
      <4>3. n.status[q.url].downSince = q.since => n.status[q.url].alerted
        <5>1. q.url \in Endpoints
          BY <4>1 DEF ReportEntry
        <5> HIDE DEF q
        <5>2. CASE q.url = e
          BY <2>5, <5>2
        <5>3. CASE q.url # e
          BY <2>4, <4>2, <5>1, <5>3
        <5>4. QED
          BY <5>2, <5>3
      <4> HIDE DEF q
      <4>4. QED
        BY <4>1, <4>2, <4>3
    <3>2. CASE i = Len(m.reports) + 1
      <4>1. n.reports[i] = r
        BY <2>7, <3>2
      <4>2. QED
        BY <1>1, <1>3, <2>1, <2>9, <2>5, <4>1
    <3>3. QED
      BY <2>8, <3>1, <3>2
  <2>11. \A i \in DOMAIN m.reports : ~(m.reports[i].url = e /\ m.reports[i].since = s.downSince)
    BY <1>1, <1>3 DEF ReportsOK
  <2>12. ASSUME NEW i \in DOMAIN n.reports, NEW j \in DOMAIN n.reports,
                n.reports[i].url = n.reports[j].url, n.reports[i].since = n.reports[j].since
         PROVE  i = j
    <3>1. CASE i \in DOMAIN m.reports /\ j \in DOMAIN m.reports
      BY <1>1, <2>7, <2>12, <3>1 DEF ReportsOK
    <3>2. CASE i \in DOMAIN m.reports /\ j = Len(m.reports) + 1
      BY <2>7, <2>9, <2>11, <2>12, <3>2
    <3>3. CASE i = Len(m.reports) + 1 /\ j \in DOMAIN m.reports
      BY <2>7, <2>9, <2>11, <2>12, <3>3
    <3>4. QED
      BY <2>8, <3>1, <3>2, <3>3
  <2>13. ReportsOK(n)
    BY <2>10, <2>12 DEF ReportsOK
  <2>14. QED
    BY <2>4, <2>5, <2>6, <2>13 DEF MonitorOK, n
<1>4. QED
  BY <1>2, <1>3

\* What the copy keeps of the statuses, turn by turn: it forgets no alert
\* about an endpoint without provider and makes no status unknown again.
CopyKeeps(m) ==
  /\ MonitorOK(m, lastUp, failingSince)
  /\ \A e \in Endpoints : /\ NeverMade(e) /\ failingSince[e] # 0 /\ monitor.status[e].alerted
                               => m.status[e].alerted
                          /\ monitor.status[e].status # "unknown" => m.status[e].status # "unknown"

LEMMA SyncedKeeps ==
  ASSUME now \in Nat \ {0}, lastUp \in [Endpoints -> 0 .. now], HttpTypeOK,
         NEW m, CopyKeeps(m), NEW e \in Endpoints
  PROVE  CopyKeeps(Synced(m, e))
<1> DEFINE up == EntryStatus(e) = "up"
           n == SetStatus(m, e, up)
           k == CheckDowntimeNotification(n, e)
<1>1. NeverMade(e) => EntryStatus(e) = "down"
  BY DEF NeverMade, EntryStatus, HttpTypeOK, ProviderEntry
<1>2. Follows(e, up, lastUp, failingSince, lastUp, failingSince)
  BY <1>1 DEF Follows
<1>3. MonitorOK(m, lastUp, failingSince) /\ up \in BOOLEAN /\ lastUp \in [Endpoints -> Nat]
  BY DEF CopyKeeps
<1> HIDE DEF up
<1>4. /\ MonitorOK(n, lastUp, failingSince)
      /\ \A d \in Endpoints : d # e => n.status[d] = m.status[d]
      /\ n.status[e].status # "unknown"
      /\ ~up /\ m.status[e].downSince # 0 => n.status[e] = m.status[e]
  BY <1>2, <1>3, SetStatusOK
<1> HIDE DEF n
<1>5. /\ MonitorOK(k, lastUp, failingSince)
      /\ \A d \in Endpoints : d # e => k.status[d] = n.status[d]
      /\ k.status[e].status = n.status[e].status
      /\ n.status[e].alerted => k.status[e].alerted
  BY <1>3, <1>4, CheckDowntimeOK
<1> HIDE DEF k
<1>6. NeverMade(e) /\ failingSince[e] # 0 => ~up /\ n.status[e] = m.status[e]
  <2>1. NeverMade(e) /\ failingSince[e] # 0 => m.status[e].downSince # 0
    BY DEF CopyKeeps, MonitorOK, EntryOK
  <2>2. NeverMade(e) => ~up
    BY <1>1 DEF up
  <2>3. QED
    BY <1>4, <2>1, <2>2
<1>7. CASE EntryStatus(e) = "none"
  BY <1>7 DEF Synced
<1>8. CASE EntryStatus(e) = "up"
  <2>1. Synced(m, e) = n /\ up
    BY <1>8 DEF Synced, n, up
  <2>2. QED
    BY <1>4, <1>6, <2>1 DEF CopyKeeps
<1>9. CASE EntryStatus(e) # "none" /\ EntryStatus(e) # "up"
  <2>1. Synced(m, e) = k
    BY <1>9 DEF Synced, k, n, up
  <2>2. QED
    BY <1>4, <1>5, <1>6, <2>1 DEF CopyKeeps
<1>10. QED
  BY <1>7, <1>8, <1>9

\* The whole of syncWithBlockchainService(), over both loops.
LEMMA SyncKeeps ==
  ASSUME now \in Nat \ {0}, lastUp \in [Endpoints -> 0 .. now], HttpTypeOK,
         MonitorOK(monitor, lastUp, failingSince)
  PROVE  CopyKeeps(Copied(monitor, ProviderOrder \o WsOrder))
<1> DEFINE seq == ProviderOrder \o WsOrder
           n == Len(seq)
<1>1. seq \in Seq(Endpoints) /\ n \in Nat /\ DOMAIN seq = 1 .. n
  <2>1. ProviderOrder \in Seq(Endpoints) /\ WsOrder \in Seq(Endpoints)
    <3>1. ProviderOrder \in Seq(Urls) /\ WsOrder \in Seq(WsUrls)
      BY ProviderAssumption, MonitorAssumption DEF ProviderAssumption, MonitorAssumption
    <3>2. QED
      BY <3>1 DEF Endpoints
  <2>2. QED
    BY <2>1
<1>2. \A k \in 1 .. n : seq[k] \in Endpoints
  BY <1>1
<1> HIDE DEF seq, n
<1>3. PICK f : Turns(f, monitor, n, seq)
  BY <1>1, FoldSteps
<1> DEFINE bad == {k \in 0 .. n : ~CopyKeeps(f[k])}
<1>4. CASE bad = {}
  <2>1. n \in 0 .. n
    BY <1>1
  <2>2. CopyKeeps(f[n])
    BY <1>4, <2>1
  <2>3. QED
    BY <1>3, <2>2 DEF Turns, seq
<1>5. CASE bad # {}
  <2>1. bad \subseteq Nat
    BY <1>1
  <2>2. PICK k \in bad : \A j \in bad : k <= j
    <3> HIDE DEF bad
    <3>1. QED
      BY <1>5, <2>1, LeastExists
  <2>3. CopyKeeps(f[0])
    BY <1>3 DEF Turns, CopyKeeps
  <2>4. k \in 1 .. n /\ k - 1 \in 0 .. n /\ k - 1 < k
    BY <1>1, <2>2, <2>3
  <2>5. CopyKeeps(f[k - 1])
    BY <2>2, <2>4
  <2>6. CopyKeeps(Synced(f[k - 1], seq[k]))
    BY <1>2, <2>4, <2>5, SyncedKeeps
  <2>7. CopyKeeps(f[k])
    BY <1>3, <2>4, <2>6 DEF Turns
  <2>8. QED
    BY <2>2, <2>7
<1>6. QED
  BY <1>4, <1>5

-----------------------------------------------------------------------------
(* Every step of the monitor, as far as the statuses are concerned.        *)

\* The inductive invariant behind the downtime alerts.
StatusInv ==
  /\ now \in Nat \ {0} /\ HttpTypeOK
  /\ lastUp \in [Endpoints -> 0 .. now] /\ failingSince \in [Endpoints -> 0 .. now]
  /\ due \subseteq Endpoints \cup {SYNC} /\ wsProbing \subseteq WsUrls
  /\ MonitorOK(monitor, lastUp, failingSince)
  /\ \A e \in Endpoints :
       monitor.status[e].status = "unknown" => lastUp[e] = 0 /\ failingSince[e] = 0
  /\ OutageWithoutProviderReported

\* No step gives or takes an HTTP endpoint's provider, and only the clock ages
\* what is known of the statuses.
LEMMA MonitorAges ==
  ASSUME now \in Nat, MonitorOK(monitor', lastUp', failingSince'),
         now' = now \/ now' = now + 1,
         \A u \in Urls : providers'[u].made = providers[u].made
  PROVE  MonitorOK(monitor, lastUp, failingSince)'
<1>1. monitor' \in MonitorState
  BY DEF MonitorOK
<1>2. \A e \in Endpoints : monitor'.status[e].downSince \in Nat
  BY <1>1 DEF MonitorState, StatusEntry
<1>3. \A e \in Endpoints :
        EntryOK(e, monitor.status[e], lastUp[e], failingSince[e])'
  BY <1>2 DEF MonitorOK, EntryOK, NeverMade
<1>4. ReportsOK(monitor)'
  <2>1. monitor'.reports \in Seq(ReportEntry)
    BY <1>1 DEF MonitorState
  <2>2. \A i \in DOMAIN monitor'.reports : monitor'.reports[i] \in ReportEntry
    BY <2>1
  <2>3. \A i \in DOMAIN monitor'.reports : monitor'.reports[i].at \in Nat
    BY <2>2 DEF ReportEntry
  <2>4. QED
    BY <2>3 DEF MonitorOK, ReportsOK
<1>5. QED
  BY <1>1, <1>3, <1>4 DEF MonitorOK, MonitorState, StatusEntry, ReportEntry

LEMMA MadeKept ==
  ASSUME HttpTypeOK, [Next]_vars
  PROVE  \A u \in Urls : providers'[u].made = providers[u].made
<1>1. CASE ProviderEvent
  <2>1. ASSUME NEW v \in Urls, providers' = [providers EXCEPT ![v].up = FALSE]
        PROVE  \A u \in Urls : providers'[u].made = providers[u].made
    BY <2>1 DEF HttpTypeOK, ProviderEntry
  <2>2. ASSUME NEW v \in Urls, ProviderError(v)
        PROVE  \A u \in Urls : providers'[u].made = providers[u].made
    BY <2>1, <2>2 DEF ProviderError, UpdateProviderStatus
  <2>3. ASSUME NEW ok \in BOOLEAN, FallbackAnswer(ok)
        PROVE  \A u \in Urls : providers'[u].made = providers[u].made
    <3>1. ProviderOrder[trying] \in Urls
      BY <2>3, ProviderAssumption DEF ProviderAssumption, HttpTypeOK, FallbackAnswer
    <3>2. QED
      BY <2>1, <2>3, <3>1 DEF FallbackAnswer
  <2>4. CASE UNCHANGED httpVars
    BY <2>4 DEF httpVars
  <2>5. QED
    BY <1>1, <2>2, <2>3, <2>4 DEF ProviderEvent, WsOpened, WsRefused, WsSocketLost
<1>2. CASE Next /\ ~ProviderEvent
  BY <1>2 DEF Next, StartMonitoring, MonitorRpcEndpoint, MonitorWsProvider, MonitorWsProbe,
              MonitorWsAnswer, MonitorWsPort, SyncWithBlockchainService, Tick,
              UpdateWsProviderStatus, providerVars, httpVars
<1>3. CASE UNCHANGED vars
  BY <1>3 DEF vars, providerVars, httpVars
<1>4. QED
  BY <1>1, <1>2, <1>3

\* A step that observes nothing and at most copies the provider table.
LEMMA UnobservedKeeps ==
  ASSUME StatusInv, HttpTypeOK', CopyKeeps(monitor'),
         UNCHANGED <<now, lastUp, failingSince>>,
         \A u \in Urls : providers'[u].made = providers[u].made,
         due \cap Urls \subseteq due', due' \subseteq Endpoints \cup {SYNC},
         wsProbing' \subseteq WsUrls
  PROVE  StatusInv'
<1>1. MonitorOK(monitor, lastUp, failingSince)'
  BY MonitorAges DEF StatusInv, CopyKeeps
<1>2. \A e \in Endpoints :
        monitor'.status[e].status = "unknown" => lastUp'[e] = 0 /\ failingSince'[e] = 0
  BY DEF StatusInv, CopyKeeps
<1>3. ASSUME NEW u \in Urls, Outage(u)', ~providers'[u].made
      PROVE  monitor'.status[u].alerted
  <2>1. Outage(u) /\ ~providers[u].made /\ failingSince[u] # 0 /\ u \in Endpoints
    BY <1>3 DEF Outage, Endpoints
  <2>2. monitor.status[u].alerted
    BY <2>1 DEF StatusInv, OutageWithoutProviderReported
  <2>3. QED
    BY <2>1, <2>2 DEF CopyKeeps, NeverMade
<1>4. OutageWithoutProviderReported'
  BY <1>3 DEF OutageWithoutProviderReported
<1>5. QED
  BY <1>1, <1>2, <1>4 DEF StatusInv

\* A check or a port test that found endpoint e up or down.  Every failed check
\* of an HTTP endpoint asks for the downtime alert.
LEMMA ObservedKeeps ==
  ASSUME StatusInv, NEW e \in Endpoints, NEW isUp \in BOOLEAN, Observed(e, isUp),
         UNCHANGED <<now, providers, activeProvider, trying>>,
         \/ monitor' = SetStatus(monitor, e, isUp) /\ (isUp \/ e \notin Urls)
         \/ monitor' = CheckDowntimeNotification(SetStatus(monitor, e, FALSE), e) /\ ~isUp,
         due \ {e} \subseteq due', due' \subseteq due,
         wsProbing' \subseteq wsProbing
  PROVE  StatusInv'
<1> DEFINE n == SetStatus(monitor, e, isUp)
           k == CheckDowntimeNotification(n, e)
<1>1. Follows(e, isUp, lastUp, failingSince, lastUp', failingSince')
  BY DEF Follows, Observed, StatusInv
<1>2. /\ now \in Nat \ {0} /\ MonitorOK(monitor, lastUp, failingSince)
      /\ lastUp \in [Endpoints -> Nat] /\ failingSince \in [Endpoints -> Nat]
  BY DEF StatusInv
<1>3. /\ MonitorOK(n, lastUp', failingSince')
      /\ \A d \in Endpoints : d # e => n.status[d] = monitor.status[d]
      /\ ~isUp => n.status[e].downSince # 0
      /\ n.status[e].status # "unknown"
  BY <1>1, <1>2, SetStatusOK
<1> HIDE DEF n
<1>4. /\ lastUp' \in [Endpoints -> 0 .. now] /\ failingSince' \in [Endpoints -> 0 .. now]
      /\ ~isUp => lastUp' = lastUp
      /\ isUp => failingSince'[e] = 0
      /\ \A d \in Endpoints : d # e => /\ lastUp'[d] = lastUp[d]
                                       /\ failingSince'[d] = failingSince[d]
  BY <1>2 DEF Observed, StatusInv
<1>5. ~isUp => /\ MonitorOK(k, lastUp', failingSince')
               /\ \A d \in Endpoints : d # e => k.status[d] = n.status[d]
               /\ k.status[e].status = n.status[e].status
               /\ now - n.status[e].downSince >= DOWNTIME_NOTIFICATION_THRESHOLD
                    => k.status[e].alerted
  <2> SUFFICES ASSUME ~isUp
               PROVE  /\ MonitorOK(k, lastUp', failingSince')
                      /\ \A d \in Endpoints : d # e => k.status[d] = n.status[d]
                      /\ k.status[e].status = n.status[e].status
                      /\ now - n.status[e].downSince >= DOWNTIME_NOTIFICATION_THRESHOLD
                           => k.status[e].alerted
    OBVIOUS
  <2>1. MonitorOK(n, lastUp, failingSince') /\ lastUp' = lastUp
    BY <1>3, <1>4
  <2> HIDE DEF k
  <2>2. QED
    BY <1>2, <1>3, <2>1, CheckDowntimeOK DEF k
<1> HIDE DEF k
<1>6. (monitor' = n /\ (isUp \/ e \notin Urls)) \/ (monitor' = k /\ ~isUp)
  BY DEF n, k
<1>7. MonitorOK(monitor, lastUp, failingSince)'
  <2>1. MonitorOK(monitor', lastUp', failingSince')
    BY <1>3, <1>5, <1>6
  <2>2. QED
    BY <1>2, <2>1, MonitorAges
<1>8. \A d \in Endpoints : /\ d # e => monitor'.status[d] = monitor.status[d]
                           /\ monitor'.status[e].status # "unknown"
  BY <1>3, <1>5, <1>6
<1>9. \A d \in Endpoints :
        monitor'.status[d].status = "unknown" => lastUp'[d] = 0 /\ failingSince'[d] = 0
  BY <1>4, <1>8 DEF StatusInv
<1>10. ASSUME NEW u \in Urls, Outage(u)', ~providers'[u].made
       PROVE  monitor'.status[u].alerted
  <2>1. CASE u # e
    <3>1. u \in Endpoints /\ Outage(u) /\ ~providers[u].made
      BY <1>4, <1>10, <2>1 DEF Outage, Endpoints
    <3>2. QED
      BY <1>8, <2>1, <3>1 DEF StatusInv, OutageWithoutProviderReported
  <2>2. CASE u = e
    <3>1. ~isUp /\ monitor' = k /\ failingSince'[e] # 0
          /\ now - failingSince'[e] >= DOWNTIME_NOTIFICATION_THRESHOLD
      BY <1>4, <1>6, <1>10, <2>2 DEF Outage
    <3>2. n.status[e].downSince <= failingSince'[e]
      BY <1>3, <1>10, <2>2, <3>1 DEF MonitorOK, EntryOK, NeverMade
    <3>3. n.status[e].downSince \in Nat /\ failingSince'[e] \in Nat
          /\ DOWNTIME_NOTIFICATION_THRESHOLD \in Nat
      BY <1>3, <1>4, MonitorAssumption DEF MonitorAssumption, MonitorOK, MonitorState, StatusEntry
    <3>4. now - n.status[e].downSince >= DOWNTIME_NOTIFICATION_THRESHOLD
      BY <1>2, <3>1, <3>2, <3>3
    <3>5. QED
      BY <1>5, <2>2, <3>1, <3>4
  <2>3. QED
    BY <2>1, <2>2
<1>11. OutageWithoutProviderReported'
  BY <1>10 DEF OutageWithoutProviderReported
<1>12. HttpTypeOK'
  BY DEF StatusInv, HttpTypeOK
<1>13. QED
  BY <1>2, <1>4, <1>7, <1>9, <1>11, <1>12 DEF StatusInv

\* A step that makes every endpoint's check due.
LEMMA OpenedKeeps ==
  ASSUME StatusInv, HttpTypeOK', MonitorOK(monitor', lastUp, failingSince),
         \A e \in Endpoints : monitor'.status[e].status # "unknown",
         UNCHANGED <<providers, lastUp, failingSince, wsProbing>>,
         now' = now \/ now' = now + 1,
         Endpoints \subseteq due', due' \subseteq Endpoints \cup {SYNC}
  PROVE  StatusInv'
<1>1. MonitorOK(monitor, lastUp, failingSince)'
  BY MonitorAges DEF StatusInv
<1>2. OutageWithoutProviderReported'
  BY DEF OutageWithoutProviderReported, Outage, Endpoints
<1>3. /\ now' \in Nat \ {0}
      /\ lastUp' \in [Endpoints -> 0 .. now'] /\ failingSince' \in [Endpoints -> 0 .. now']
  BY DEF StatusInv
<1>4. QED
  BY <1>1, <1>2, <1>3 DEF StatusInv

\* startMonitoring() gives every endpoint a status.
LEMMA StartedOK ==
  ASSUME StatusInv, StartMonitoring
  PROVE  /\ MonitorOK(monitor', lastUp, failingSince)
         /\ \A e \in Endpoints : monitor'.status[e].status # "unknown"
<1> DEFINE status == [e \in Endpoints |->
                        IF e \in Urls THEN IF providers[e].made THEN Up ELSE Down
                        ELSE IF wsProviders[e].made THEN Up ELSE Down]
<1>1. /\ now \in Nat \ {0} /\ MonitorOK(monitor, lastUp, failingSince)
      /\ monitor \in MonitorState /\ ReportsOK(monitor)
      /\ \A e \in Endpoints : lastUp[e] = 0 /\ failingSince[e] = 0
  BY DEF StatusInv, StartMonitoring, MonitorOK
<1>2. Up \in StatusEntry /\ Down \in StatusEntry
      /\ Up.status = "up" /\ Up.downSince = 0 /\ ~Up.alerted
      /\ Down.status = "down" /\ Down.downSince = now /\ ~Down.alerted
  BY <1>1 DEF Up, Down, StatusEntry
<1>3. \A e \in Endpoints : status[e] = Up \/ status[e] = Down
  OBVIOUS
<1>4. status \in [Endpoints -> StatusEntry]
  <2>1. \A e \in Endpoints : status[e] \in StatusEntry
    BY <1>2, <1>3
  <2>2. QED
    BY <2>1
<1>5. monitor' = [monitor EXCEPT !.status = status]
  BY DEF StartMonitoring
<1> HIDE DEF status
<1>6. monitor' \in MonitorState /\ monitor'.status = status /\ monitor'.reports = monitor.reports
  BY <1>1, <1>4, <1>5 DEF MonitorState
<1>7. \A e \in Endpoints : EntryOK(e, status[e], lastUp[e], failingSince[e])
  <2> SUFFICES ASSUME NEW e \in Endpoints
               PROVE  EntryOK(e, status[e], lastUp[e], failingSince[e])
    OBVIOUS
  <2>1. CASE status[e] = Up
    BY <1>1, <1>2, <2>1 DEF EntryOK
  <2>2. CASE status[e] = Down
    BY <1>1, <1>2, <2>2 DEF EntryOK
  <2>3. QED
    BY <1>3, <2>1, <2>2
<1>8. ASSUME NEW i \in DOMAIN monitor.reports
      PROVE  status[monitor.reports[i].url].downSince # monitor.reports[i].since
  <2> DEFINE r == monitor.reports[i]
  <2>1. monitor.reports \in Seq(ReportEntry)
    BY <1>1 DEF MonitorState
  <2>2. r \in ReportEntry
    BY <2>1
  <2>3. /\ r.url \in Endpoints /\ r.at \in Nat /\ r.since \in Nat
        /\ r.since # 0 /\ r.at <= now /\ r.at - r.since >= DOWNTIME_NOTIFICATION_THRESHOLD
    BY <1>1, <2>2 DEF ReportsOK, ReportEntry
  <2> HIDE DEF r
  <2>4. r.since # now
    BY <1>1, <2>3, MonitorAssumption DEF MonitorAssumption
  <2>5. status[r.url].downSince = 0 \/ status[r.url].downSince = now
    BY <1>2, <1>3, <2>3
  <2>6. QED
    BY <2>3, <2>4, <2>5 DEF r
<1>9. ReportsOK(monitor')
  BY <1>1, <1>6, <1>8 DEF ReportsOK
<1>10. \A e \in Endpoints : status[e].status # "unknown"
  BY <1>2, <1>3
<1>11. QED
  BY <1>6, <1>7, <1>9, <1>10 DEF MonitorOK

LEMMA StatusStep ==
  ASSUME StatusInv, HttpTypeOK', [Next]_vars
  PROVE  StatusInv'
<1>1. \A u \in Urls : providers'[u].made = providers[u].made
  BY MadeKept DEF StatusInv
<1>2. CopyKeeps(monitor)
  BY DEF CopyKeeps, StatusInv
<1>3. SYNC \notin Endpoints /\ Urls \subseteq Endpoints /\ WsUrls \subseteq Endpoints
      /\ \A w \in WsUrls : w \notin Urls
  BY MonitorAssumption DEF MonitorAssumption, Endpoints
<1>4. CASE StartMonitoring
  <2>1. /\ MonitorOK(monitor', lastUp, failingSince)
        /\ \A e \in Endpoints : monitor'.status[e].status # "unknown"
    BY <1>4, StartedOK
  <2>2. /\ UNCHANGED <<providers, lastUp, failingSince, wsProbing>> /\ now' = now
        /\ due' = Endpoints \cup {SYNC}
    BY <1>4 DEF StartMonitoring, providerVars, httpVars
  <2>3. QED
    BY <2>1, <2>2, OpenedKeeps
<1>5. ASSUME NEW u \in Urls, NEW isUp \in BOOLEAN, NEW latency \in Latencies,
             MonitorRpcEndpoint(u, isUp, latency)
      PROVE  StatusInv'
  <2>1. /\ Observed(u, isUp) /\ due' = due \ {u} /\ wsProbing' = wsProbing
        /\ UNCHANGED <<now, providers, activeProvider, trying>>
        /\ isUp => monitor' = SetStatus(monitor, u, TRUE)
        /\ ~isUp => monitor' = CheckDowntimeNotification(SetStatus(monitor, u, FALSE), u)
    BY <1>5 DEF MonitorRpcEndpoint, UpdateRpcEndpointStatus, providerVars, httpVars
  <2>2. \/ monitor' = SetStatus(monitor, u, isUp) /\ isUp
        \/ monitor' = CheckDowntimeNotification(SetStatus(monitor, u, FALSE), u) /\ ~isUp
    <3>1. CASE isUp
      BY <2>1, <3>1
    <3>2. CASE ~isUp
      BY <2>1, <3>2
    <3>3. QED
      BY <3>1, <3>2
  <2>3. QED
    BY <1>3, <2>1, <2>2, ObservedKeeps
<1>6. ASSUME NEW w \in WsUrls, MonitorWsProvider(w)
      PROVE  StatusInv'
  <2>1. /\ Observed(w, TRUE) /\ due' = due \ {w} /\ wsProbing' = wsProbing
        /\ UNCHANGED <<now, providers, activeProvider, trying>>
        /\ monitor' = SetStatus(monitor, w, TRUE)
    BY <1>6 DEF MonitorWsProvider, UpdateWsProviderStatus, httpVars
  <2>2. QED
    BY <1>3, <2>1, ObservedKeeps
<1>7. ASSUME NEW w \in WsUrls, MonitorWsProbe(w)
      PROVE  StatusInv'
  <2>1. /\ due' = due \ {w} /\ wsProbing' = wsProbing \cup {w} /\ monitor' = monitor
        /\ UNCHANGED <<now, lastUp, failingSince>>
    BY <1>7 DEF MonitorWsProbe
  <2>2. due \cap Urls \subseteq due' /\ due' \subseteq Endpoints \cup {SYNC}
        /\ wsProbing' \subseteq WsUrls /\ CopyKeeps(monitor')
    BY <1>2, <1>3, <2>1 DEF StatusInv
  <2>3. QED
    BY <1>1, <2>1, <2>2, UnobservedKeeps
<1>8. ASSUME NEW w \in WsUrls, NEW isUp \in BOOLEAN, MonitorWsAnswer(w, isUp)
      PROVE  StatusInv'
  <2>1. /\ Observed(w, isUp) /\ due' = due /\ wsProbing' \subseteq wsProbing
        /\ UNCHANGED <<now, providers, activeProvider, trying>>
        /\ isUp => monitor' = SetStatus(monitor, w, TRUE)
        /\ ~isUp => monitor' = CheckDowntimeNotification(SetStatus(monitor, w, FALSE), w)
    BY <1>8 DEF MonitorWsAnswer, UpdateWsProviderStatus, httpVars
  <2>2. \/ monitor' = SetStatus(monitor, w, isUp) /\ isUp
        \/ monitor' = CheckDowntimeNotification(SetStatus(monitor, w, FALSE), w) /\ ~isUp
    <3>1. CASE isUp
      BY <2>1, <3>1
    <3>2. CASE ~isUp
      BY <2>1, <3>2
    <3>3. QED
      BY <3>1, <3>2
  <2>3. QED
    BY <1>3, <2>1, <2>2, ObservedKeeps
<1>9. ASSUME NEW w \in WsUrls, NEW isUp \in BOOLEAN, MonitorWsPort(w, isUp)
      PROVE  StatusInv'
  <2>1. /\ Observed(w, isUp) /\ due' = due /\ wsProbing' = wsProbing
        /\ UNCHANGED <<now, providers, activeProvider, trying>>
        /\ monitor' = SetStatus(monitor, w, isUp)
    BY <1>9 DEF MonitorWsPort, UpdateWsProviderStatus, httpVars
  <2>2. QED
    BY <1>3, <2>1, ObservedKeeps
<1>10. CASE SyncWithBlockchainService
  <2>1. /\ due' = due \ {SYNC} /\ wsProbing' = wsProbing
        /\ UNCHANGED <<now, lastUp, failingSince>>
        /\ monitor' = Copied(monitor, ProviderOrder \o WsOrder)
    BY <1>10 DEF SyncWithBlockchainService, Copied
  <2>2. CopyKeeps(monitor')
    BY <2>1, SyncKeeps DEF StatusInv
  <2>3. due \cap Urls \subseteq due' /\ due' \subseteq Endpoints \cup {SYNC}
        /\ wsProbing' \subseteq WsUrls
    BY <1>3, <2>1 DEF StatusInv
  <2>4. QED
    BY <1>1, <2>1, <2>2, <2>3, UnobservedKeeps
<1>11. CASE ProviderEvent /\ UNCHANGED <<now, selectorVars, monitorVars>>
  <2>1. UNCHANGED <<now, monitor, due, wsProbing, lastUp, failingSince>>
    BY <1>11 DEF monitorVars
  <2>2. QED
    BY <1>1, <1>2, <2>1, UnobservedKeeps DEF StatusInv
<1>12. CASE Tick
  <2>1. /\ UNCHANGED <<monitor, lastUp, failingSince, wsProbing, providers>>
        /\ now' = now + 1
        /\ \A e \in Endpoints : monitor.status[e].status # "unknown"
        /\ Endpoints \subseteq due' /\ due' \subseteq Endpoints \cup {SYNC}
    BY <1>12 DEF Tick, providerVars, httpVars
  <2>2. MonitorOK(monitor', lastUp, failingSince)
    BY <2>1 DEF StatusInv
  <2>3. QED
    BY <2>1, <2>2, OpenedKeeps
<1>13. CASE UNCHANGED vars
  <2>1. UNCHANGED <<now, monitor, due, wsProbing, lastUp, failingSince>>
    BY <1>13 DEF vars, monitorVars
  <2>2. QED
    BY <1>1, <1>2, <2>1, UnobservedKeeps DEF StatusInv
<1>14. QED
  BY <1>4, <1>5, <1>6, <1>7, <1>8, <1>9, <1>10, <1>11, <1>12, <1>13 DEF Next

LEMMA StatusInit ==
  ASSUME Init
  PROVE  StatusInv
<1> DEFINE unknown == [Up EXCEPT !.status = "unknown"]
           status == [e \in Endpoints |-> unknown]
<1>1. now \in Nat \ {0} /\ PRIMARY_RPC_URL \in Urls
  BY SelectorAssumption DEF SelectorAssumption, Init
<1>2. HttpTypeOK
  BY <1>1 DEF Init, ProvidersInit, HttpTypeOK
<1>3. /\ unknown \in StatusEntry
      /\ unknown.status = "unknown" /\ unknown.downSince = 0 /\ ~unknown.alerted
  BY DEF Up, StatusEntry
<1>4. monitor = [status |-> status, lastAlert |-> 0, reports |-> << >>]
  BY DEF Init
<1> HIDE DEF unknown
<1>5. status \in [Endpoints -> StatusEntry] /\ \A e \in Endpoints : status[e] = unknown
  BY <1>3
<1> HIDE DEF status
<1>6. monitor \in MonitorState /\ monitor.status = status /\ monitor.reports = << >>
  BY <1>4, <1>5 DEF MonitorState
<1>7. /\ due = {} /\ wsProbing = {}
      /\ lastUp = [e \in Endpoints |-> 0] /\ failingSince = [e \in Endpoints |-> 0]
  BY DEF Init
<1>8. ReportsOK(monitor)
  BY <1>6 DEF ReportsOK
<1>9. \A e \in Endpoints : EntryOK(e, monitor.status[e], lastUp[e], failingSince[e])
  BY <1>1, <1>3, <1>5, <1>6, <1>7 DEF EntryOK
<1>10. OutageWithoutProviderReported
  BY <1>7 DEF OutageWithoutProviderReported, Outage, Endpoints
<1>11. QED
  BY <1>1, <1>2, <1>6, <1>7, <1>8, <1>9, <1>10 DEF StatusInv, MonitorOK

\* The statuses under every interleaving of checks, copy and provider events.
THEOREM StatusInvariant == Spec => []StatusInv
<1>1. Init => FallbackInv /\ StatusInv
  <2> SUFFICES ASSUME Init PROVE FallbackInv /\ StatusInv
    OBVIOUS
  <2>1. StatusInv
    BY StatusInit
  <2>2. OneFallback
    BY DEF Init, ProvidersInit, OneFallback
  <2>3. QED
    BY <2>1, <2>2 DEF StatusInv, FallbackInv
<1>2. FallbackInv /\ StatusInv /\ [Next]_vars => FallbackInv' /\ StatusInv'
  BY FallbackStep, StatusStep DEF FallbackInv
<1>3. QED
  BY <1>1, <1>2, PTL DEF Spec

\* A downtime alert follows an outage that really lasted the threshold, though
\* the checks, the port tests and the copy of the provider table all write the
\* status it is raised from.
THEOREM DowntimeAlertsAreTrue == Spec => []AlertAfterFullOutage
<1>1. StatusInv => AlertAfterFullOutage
  <2> SUFFICES ASSUME StatusInv, NEW i \in DOMAIN monitor.reports
               PROVE  monitor.reports[i].at - monitor.reports[i].lastUp
                        >= DOWNTIME_NOTIFICATION_THRESHOLD
    BY DEF AlertAfterFullOutage
  <2> DEFINE r == monitor.reports[i]
  <2>1. monitor.reports \in Seq(ReportEntry)
    BY DEF StatusInv, MonitorOK, MonitorState
  <2>2. r \in ReportEntry
    BY <2>1
  <2>3. r.lastUp <= r.since /\ r.at - r.since >= DOWNTIME_NOTIFICATION_THRESHOLD
    BY DEF StatusInv, MonitorOK, ReportsOK
  <2> HIDE DEF r
  <2>4. r.at - r.lastUp >= DOWNTIME_NOTIFICATION_THRESHOLD
    BY <2>2, <2>3, MonitorAssumption DEF ReportEntry, MonitorAssumption
  <2>5. QED
    BY <2>4 DEF r
<1>2. QED
  BY <1>1, StatusInvariant, PTL

\* An outage is alerted about once, whichever of the jobs notices it and
\* however often.
THEOREM OutageAlertedOnce == Spec => []OneReportPerOutage
<1>1. StatusInv => OneReportPerOutage
  BY DEF StatusInv, MonitorOK, ReportsOK, OneReportPerOutage
<1>2. QED
  BY <1>1, StatusInvariant, PTL

\* The copy of the provider table never hides the outage of an endpoint that
\* has no provider: failing for the threshold, it has been alerted about.
THEOREM OutageWithoutProviderAlerted == Spec => []OutageWithoutProviderReported
<1>1. StatusInv => OutageWithoutProviderReported
  BY DEF StatusInv
<1>2. QED
  BY <1>1, StatusInvariant, PTL

-----------------------------------------------------------------------------
(* The selector inside the monitor.                                        *)

\* What PrimaryChoice allows from a state s of the service to a state t.
Chooses(s, t) ==
  LET U == UsableUrls(t.health)
  IN  \/ /\ t.primary = s.primary /\ t.lastSwitch = s.lastSwitch
         /\ now - s.lastSwitch >= MIN_SWITCH_INTERVAL => t.primary \in U \/ U = {}
      \/ /\ now - s.lastSwitch >= MIN_SWITCH_INTERVAL
         /\ t.primary # s.primary /\ t.lastSwitch = now
         /\ IF U = {} THEN t.primary = PRIMARY_RPC_URL ELSE t.primary \in U

\* One check reported.
LEMMA ReportedOK ==
  ASSUME NEW s, StateOK(s), now \in Nat \ {0}, NEW u \in Urls,
         NEW isUp \in BOOLEAN, NEW latency \in Nat, NEW synced \in BOOLEAN, NEW behind \in Nat
  PROVE  LET t == Reported(s, u, isUp, latency, synced, behind)
         IN  /\ StateOK(t) /\ Chooses(s, t)
             /\ Known(t.health[u]) /\ t.health[u].isUp = isUp
             /\ t.health[u].synced = synced /\ t.health[u].behind = behind
             /\ \A v \in Urls : v # u => t.health[v] = s.health[v]
<1> DEFINE r == Recorded(s, u, isUp, latency, synced, behind)
           t == CheckAndUpdatePrimary(r)
           m == Measured(s.health[u], isUp, latency, synced, behind)
<1>1. StateOK(r) /\ r.primary = s.primary /\ r.lastSwitch = s.lastSwitch
  BY RecordedOK
<1>2. r.health = [s.health EXCEPT ![u] = m]
  BY DEF Recorded, StateOK, State
<1>3. m.isUp = isUp /\ m.synced = synced /\ m.behind = behind /\ m.lastChecked = now
  BY DEF Measured
<1> HIDE DEF m
<1>4. Known(m)
  BY <1>3 DEF Known
<1>5. r.health[u] = m /\ \A v \in Urls : v # u => r.health[v] = s.health[v]
  BY <1>2 DEF StateOK, State
<1> HIDE DEF r
<1>6. StateOK(t) /\ t.health = r.health
  BY <1>1, CheckedOK
<1>7. LET U == UsableUrls(t.health)
      IN  \/ /\ t.primary = r.primary /\ t.lastSwitch = r.lastSwitch
             /\ now - r.lastSwitch >= MIN_SWITCH_INTERVAL => t.primary \in U \/ U = {}
          \/ /\ now - r.lastSwitch >= MIN_SWITCH_INTERVAL
             /\ t.primary # r.primary /\ t.lastSwitch = now
             /\ IF U = {} THEN t.primary = PRIMARY_RPC_URL ELSE t.primary \in U
  BY <1>1, CheckedChooses
<1>8. Reported(s, u, isUp, latency, synced, behind) = t
  BY DEF Reported, Recorded, r
<1> HIDE DEF t
<1>9. Chooses(s, t)
  BY <1>1, <1>7 DEF Chooses
<1>10. QED
  BY <1>3, <1>4, <1>5, <1>6, <1>8, <1>9

\* A failed check reported twice in one turn moves the primary as one report
\* does: after a switch the second report is inside the interval.
LEMMA ReportedTwiceOK ==
  ASSUME NEW s, StateOK(s), now \in Nat \ {0}, NEW u \in Urls,
         NEW isUp \in BOOLEAN, ~isUp, NEW latency \in Nat, NEW again \in Nat,
         NEW synced \in BOOLEAN, NEW behind \in Nat
  PROVE  LET t == Reported(Reported(s, u, isUp, latency, synced, behind),
                           u, isUp, again, synced, behind)
         IN  /\ StateOK(t) /\ Chooses(s, t)
             /\ Known(t.health[u]) /\ t.health[u].isUp = isUp
             /\ t.health[u].synced = synced /\ t.health[u].behind = behind
             /\ \A v \in Urls : v # u => t.health[v] = s.health[v]
<1> DEFINE r == Reported(s, u, isUp, latency, synced, behind)
           t == Reported(r, u, isUp, again, synced, behind)
<1>1. /\ StateOK(r) /\ Chooses(s, r) /\ r.health[u].isUp = isUp
      /\ \A v \in Urls : v # u => r.health[v] = s.health[v]
  BY ReportedOK
<1> HIDE DEF r
<1>2. /\ StateOK(t) /\ Chooses(r, t)
      /\ Known(t.health[u]) /\ t.health[u].isUp = isUp
      /\ t.health[u].synced = synced /\ t.health[u].behind = behind
      /\ \A v \in Urls : v # u => t.health[v] = r.health[v]
  BY <1>1, ReportedOK
<1> HIDE DEF t
<1>3. UsableUrls(t.health) = UsableUrls(r.health)
  <2>1. \A v \in Urls : Usable(t.health[v]) <=> Usable(r.health[v])
    <3> SUFFICES ASSUME NEW v \in Urls PROVE Usable(t.health[v]) <=> Usable(r.health[v])
      OBVIOUS
    <3>1. CASE v = u
      BY <1>1, <1>2, <3>1 DEF Usable
    <3>2. CASE v # u
      BY <1>2, <3>2
    <3>3. QED
      BY <3>1, <3>2
  <2>2. QED
    BY <2>1 DEF UsableUrls
<1>4. Chooses(s, t)
  <2>1. MIN_SWITCH_INTERVAL \in Nat \ {0}
    BY SelectorAssumption DEF SelectorAssumption
  <2>2. CASE r.primary = s.primary /\ r.lastSwitch = s.lastSwitch
    BY <1>2, <2>2 DEF Chooses
  <2>3. CASE r.primary # s.primary \/ r.lastSwitch # s.lastSwitch
    <3>1. r.lastSwitch = now
      BY <1>1, <2>3 DEF Chooses
    <3>2. t.primary = r.primary /\ t.lastSwitch = r.lastSwitch
      BY <1>2, <2>1, <3>1 DEF Chooses
    <3>3. QED
      BY <1>1, <1>3, <2>3, <3>2 DEF Chooses
  <2>4. QED
    BY <2>2, <2>3
<1>5. QED
  BY <1>1, <1>2, <1>4 DEF t, r

\* What a check leaves of the selector.
Checked(u, isUp) ==
  /\ StateOK(selector') /\ Chooses(selector, selector')
  /\ Known(selector'.health[u]) /\ selector'.health[u].isUp = isUp
  /\ selector'.health[u].synced /\ selector'.health[u].behind = 0
  /\ \A v \in Urls : v # u => selector'.health[v] = selector.health[v]

LEMMA CheckReported ==
  ASSUME SelectorTypeOK, NEW u \in Urls, NEW isUp \in BOOLEAN, NEW latency \in Latencies,
         MonitorRpcEndpoint(u, isUp, latency)
  PROVE  Checked(u, isUp) /\ now' = now
<1> DEFINE yes == TRUE
           none == 0
<1>1. StateOK(selector) /\ now \in Nat \ {0} /\ latency \in Nat
  BY TypeIsStateOK, SelectorAssumption DEF SelectorAssumption
<1>2. yes \in BOOLEAN /\ none \in Nat
  OBVIOUS
<1>3. isUp => selector' = Reported(selector, u, isUp, latency, yes, none)
  BY DEF MonitorRpcEndpoint, UpdateRpcEndpointStatus, BecomesSelector
<1>4. ~isUp => selector' = Reported(Reported(selector, u, isUp, latency, yes, none),
                                    u, isUp, none, yes, none)
  BY DEF MonitorRpcEndpoint, UpdateRpcEndpointStatus, BecomesSelector
<1>5. now' = now
  BY DEF MonitorRpcEndpoint
<1> HIDE DEF yes, none
<1>6. /\ StateOK(selector') /\ Chooses(selector, selector')
      /\ Known(selector'.health[u]) /\ selector'.health[u].isUp = isUp
      /\ selector'.health[u].synced = yes /\ selector'.health[u].behind = none
      /\ \A v \in Urls : v # u => selector'.health[v] = selector.health[v]
  <2>1. CASE isUp
    <3> DEFINE t == Reported(selector, u, isUp, latency, yes, none)
    <3>1. /\ StateOK(t) /\ Chooses(selector, t)
          /\ Known(t.health[u]) /\ t.health[u].isUp = isUp
          /\ t.health[u].synced = yes /\ t.health[u].behind = none
          /\ \A v \in Urls : v # u => t.health[v] = selector.health[v]
      BY <1>1, <1>2, ReportedOK
    <3>2. selector' = t
      BY <1>3, <2>1
    <3> HIDE DEF t
    <3>3. QED
      BY <3>1, <3>2
  <2>2. CASE ~isUp
    BY <1>1, <1>2, <1>4, <2>2, ReportedTwiceOK
  <2>3. QED
    BY <2>1, <2>2
<1>7. QED
  BY <1>5, <1>6 DEF Checked, yes, none

\* The monitor moves the selector by checks and by the clock alone.
LEMMA SelectorMoves ==
  ASSUME [Next]_vars
  PROVE  \/ \E u \in Urls, isUp \in BOOLEAN, latency \in Latencies :
              MonitorRpcEndpoint(u, isUp, latency)
         \/ SelectorTick
         \/ UNCHANGED <<now, selectorVars>>
BY DEF Next, vars, StartMonitoring, MonitorWsProvider, MonitorWsProbe, MonitorWsAnswer,
       MonitorWsPort, SyncWithBlockchainService, Tick, SelectorTick

LEMMA SelectorTypeStep ==
  ASSUME SelectorTypeOK, [Next]_vars
  PROVE  SelectorTypeOK'
<1>1. ASSUME NEW u \in Urls, NEW isUp \in BOOLEAN, NEW latency \in Latencies,
             MonitorRpcEndpoint(u, isUp, latency)
      PROVE  SelectorTypeOK'
  <2>1. StateOK(selector') /\ now' = now
    BY <1>1, CheckReported DEF Checked
  <2>2. QED
    BY <2>1 DEF SelectorTypeOK, StateOK, State
<1>2. CASE SelectorTick \/ UNCHANGED <<now, selectorVars>>
  BY <1>2, TypeStep DEF SelectorNext
<1>3. QED
  BY <1>1, <1>2, SelectorMoves

LEMMA ChoiceMoves ==
  ASSUME SelectorTypeOK, [Next]_vars
  PROVE  [Choice!Next]_Choice!vars
<1>1. ASSUME NEW u \in Urls, NEW isUp \in BOOLEAN, NEW latency \in Latencies,
             MonitorRpcEndpoint(u, isUp, latency)
      PROVE  Choice!Report
  <2>1. Chooses(selector, selector') /\ now' = now
    BY <1>1, CheckReported DEF Checked
  <2>2. UsableUrls(selector.health)' = UsableUrls(selector'.health)
    BY DEF UsableUrls, Usable, Known
  <2>3. UsableUrls(selector'.health) \in SUBSET Urls
    BY DEF UsableUrls
  <2>4. Choice!Keep \/ Choice!Change
    BY <2>1, <2>2 DEF Chooses, Choice!Keep, Choice!Change, Choice!MaySwitch
  <2>5. QED
    BY <2>1, <2>2, <2>3, <2>4 DEF Choice!Report
<1>2. CASE SelectorTick \/ UNCHANGED <<now, selectorVars>>
  BY <1>2, ChoiceStep DEF SelectorNext
<1>3. QED
  BY <1>1, <1>2, SelectorMoves DEF Choice!Next

\* However the checks of all endpoints interleave, and though each failed one
\* is reported twice, the monitor moves the primary as PrimaryChoice promises.
THEOREM MonitorImplementsChoice == Spec => ImplementsPrimaryChoice
<1>1. Init => SelectorTypeOK /\ Choice!Init
  <2> SUFFICES ASSUME Init PROVE SelectorTypeOK /\ Choice!Init
    OBVIOUS
  <2>1. now = StartTime /\ SelectorInit
    BY DEF Init
  <2>2. selector.health = [u \in Urls |-> NewHealth] /\ selector.primary = PRIMARY_RPC_URL
        /\ selector.lastSwitch = 0
    BY <2>1 DEF SelectorInit
  <2>3. ~Usable(NewHealth)
    BY DEF Usable, Known, NewHealth
  <2>4. UsableUrls(selector.health) = {}
    BY <2>2, <2>3 DEF UsableUrls
  <2>5. QED
    BY <2>1, <2>2, <2>4, TypeInit DEF Choice!Init
<1>2. SelectorTypeOK /\ [Next]_vars => SelectorTypeOK' /\ [Choice!Next]_Choice!vars
  BY SelectorTypeStep, ChoiceMoves
<1>3. QED
  BY <1>1, <1>2, PTL DEF Spec, ImplementsPrimaryChoice, Choice!Spec

\* What the checks of a period have told the selector so far: an endpoint found
\* up is usable, one whose checks fail is not, and once a check is in, the
\* primary is usable as far as the switch interval allows.
ChecksInv ==
  /\ \A u \in Urls :
       /\ selector.health[u].synced /\ selector.health[u].behind = 0
       /\ lastUp[u] = now => u \notin due /\ Usable(selector.health[u])
       /\ failingSince[u] # 0 => ~selector.health[u].isUp
  /\ Urls \ due # {} /\ now - selector.lastSwitch >= MIN_SWITCH_INTERVAL
       => \/ selector.primary \in UsableUrls(selector.health)
          \/ UsableUrls(selector.health) = {}

LEMMA ChecksInit ==
  ASSUME Init
  PROVE  ChecksInv
<1>1. selector.health = [u \in Urls |-> NewHealth]
  BY DEF Init, SelectorInit
<1>2. ~Usable(NewHealth) /\ NewHealth.synced /\ NewHealth.behind = 0
  BY DEF Usable, Known, NewHealth
<1>3. \A u \in Urls : lastUp[u] = 0 /\ failingSince[u] = 0 /\ now # 0
  BY SelectorAssumption DEF SelectorAssumption, Init, Endpoints
<1>4. UsableUrls(selector.health) = {}
  BY <1>1, <1>2 DEF UsableUrls
<1>5. QED
  BY <1>1, <1>2, <1>3, <1>4 DEF ChecksInv

LEMMA ChecksStep ==
  ASSUME ChecksInv, StatusInv, SelectorTypeOK, [Next]_vars
  PROVE  ChecksInv'
<1>1. now \in Nat \ {0} /\ MIN_SWITCH_INTERVAL \in Nat \ {0}
  BY SelectorAssumption DEF SelectorAssumption, StatusInv
<1>2. SYNC \notin Urls /\ Urls \subseteq Endpoints /\ \A w \in WsUrls : w \notin Urls
  BY MonitorAssumption DEF MonitorAssumption, Endpoints
<1>3. \A e \in Endpoints : lastUp[e] \in 0 .. now
  BY DEF StatusInv
<1>4. ASSUME NEW u \in Urls, NEW isUp \in BOOLEAN, NEW latency \in Latencies,
             MonitorRpcEndpoint(u, isUp, latency)
      PROVE  ChecksInv'
  <2>1. Checked(u, isUp) /\ now' = now
    BY <1>4, CheckReported
  <2>2. /\ u \in due /\ due' = due \ {u} /\ Observed(u, isUp)
    BY <1>4 DEF MonitorRpcEndpoint
  <2>3. /\ \A v \in Urls : v # u => /\ lastUp'[v] = lastUp[v]
                                    /\ failingSince'[v] = failingSince[v]
        /\ ~isUp => lastUp'[u] = lastUp[u]
        /\ isUp => failingSince'[u] = 0
    BY <1>2, <2>2 DEF Observed, StatusInv
  <2>4. isUp => Usable(selector'.health[u])
    <3>1. MAX_BLOCKS_BEHIND \in Nat
      BY SelectorAssumption DEF SelectorAssumption
    <3>2. QED
      BY <2>1, <3>1 DEF Checked, Usable
  <2>5. ASSUME NEW v \in Urls
        PROVE  /\ selector'.health[v].synced /\ selector'.health[v].behind = 0
               /\ lastUp'[v] = now => v \notin due' /\ Usable(selector'.health[v])
               /\ failingSince'[v] # 0 => ~selector'.health[v].isUp
    <3>1. CASE v = u
      <4>1. ~isUp => lastUp'[v] # now
        BY <2>2, <2>3, <3>1 DEF ChecksInv
      <4>2. QED
        BY <2>1, <2>2, <2>3, <2>4, <3>1, <4>1 DEF Checked
    <3>2. CASE v # u
      <4>1. selector'.health[v] = selector.health[v]
        BY <2>1, <3>2 DEF Checked
      <4>2. QED
        BY <2>2, <2>3, <3>2, <4>1 DEF ChecksInv
    <3>3. QED
      BY <3>1, <3>2
  <2>6. now - selector'.lastSwitch >= MIN_SWITCH_INTERVAL
          => \/ selector'.primary \in UsableUrls(selector'.health)
             \/ UsableUrls(selector'.health) = {}
    BY <1>1, <2>1 DEF Checked, Chooses
  <2>7. UsableUrls(selector.health)' = UsableUrls(selector'.health)
        /\ \A v \in Urls : Usable(selector.health[v])' <=> Usable(selector'.health[v])
    BY DEF UsableUrls, Usable, Known
  <2>8. QED
    BY <2>1, <2>5, <2>6, <2>7 DEF ChecksInv
<1>5. CASE Tick
  <2>1. /\ now' = now + 1 /\ selector' = selector
        /\ lastUp' = lastUp /\ failingSince' = failingSince
        /\ Urls \ due' = {}
    BY <1>2, <1>5 DEF Tick, selectorVars
  <2>2. \A u \in Urls : lastUp[u] # now + 1
    BY <1>1, <1>2, <1>3
  <2>3. QED
    BY <2>1, <2>2 DEF ChecksInv
<1>6. CASE StartMonitoring
  <2>1. /\ now' = now /\ selector' = selector
        /\ lastUp' = lastUp /\ failingSince' = failingSince
        /\ Urls \ due' = {}
    BY <1>2, <1>6 DEF StartMonitoring, selectorVars
  <2>2. \A u \in Urls : lastUp[u] # now
    BY <1>1, <1>2, <1>6 DEF StartMonitoring, StatusInv
  <2>3. QED
    BY <2>1, <2>2 DEF ChecksInv
<1>7. ASSUME UNCHANGED <<now, selector>>, Urls \ due' = Urls \ due,
             \A u \in Urls : lastUp'[u] = lastUp[u] /\ failingSince'[u] = failingSince[u]
      PROVE  ChecksInv'
  <2>1. UsableUrls(selector.health)' = UsableUrls(selector.health)
        /\ \A u \in Urls : Usable(selector.health[u])' <=> Usable(selector.health[u])
    BY <1>7 DEF UsableUrls, Usable, Known
  <2>2. QED
    BY <1>7, <2>1 DEF ChecksInv
<1>8. ASSUME NEW w \in WsUrls, NEW isUp \in BOOLEAN, Observed(w, isUp)
      PROVE  \A u \in Urls : lastUp'[u] = lastUp[u] /\ failingSince'[u] = failingSince[u]
  BY <1>2, <1>8 DEF Observed, StatusInv
<1>9. ASSUME NEW w \in WsUrls,
             \/ MonitorWsProvider(w) \/ MonitorWsProbe(w)
             \/ \E isUp \in BOOLEAN : MonitorWsAnswer(w, isUp) \/ MonitorWsPort(w, isUp)
      PROVE  ChecksInv'
  <2>1. UNCHANGED <<now, selector>> /\ Urls \ due' = Urls \ due
    BY <1>2, <1>9 DEF MonitorWsProvider, MonitorWsProbe, MonitorWsAnswer, MonitorWsPort, selectorVars
  <2>2. (\E isUp \in BOOLEAN : Observed(w, isUp)) \/ UNCHANGED <<lastUp, failingSince>>
    BY <1>9 DEF MonitorWsProvider, MonitorWsProbe, MonitorWsAnswer, MonitorWsPort
  <2>3. QED
    BY <1>7, <1>8, <2>1, <2>2
<1>10. CASE \/ SyncWithBlockchainService
            \/ ProviderEvent /\ UNCHANGED <<now, selectorVars, monitorVars>>
            \/ UNCHANGED vars
  <2>1. UNCHANGED <<now, selector, lastUp, failingSince>> /\ Urls \ due' = Urls \ due
    BY <1>2, <1>10 DEF SyncWithBlockchainService, selectorVars, monitorVars, vars
  <2>2. QED
    BY <1>7, <2>1
<1>11. QED
  BY <1>4, <1>5, <1>6, <1>9, <1>10 DEF Next

\* Once the checks of a period are in and the interval is over, traffic does
\* not stay on an endpoint whose check failed while another one answered.
THEOREM PrimaryFollowsChecks == Spec => []PrimaryAnswersChecks
<1>1. Init => SelectorTypeOK /\ ChecksInv
  BY TypeInit, ChecksInit DEF Init
<1>2. SelectorTypeOK /\ StatusInv /\ ChecksInv /\ [Next]_vars => SelectorTypeOK' /\ ChecksInv'
  BY SelectorTypeStep, ChecksStep
<1>3. SelectorTypeOK /\ ChecksInv => PrimaryAnswersChecks
  <2> SUFFICES ASSUME SelectorTypeOK, ChecksInv, due \cap Urls = {},
                      now - selector.lastSwitch >= MIN_SWITCH_INTERVAL,
                      NEW u \in Urls, lastUp[u] = now
               PROVE  failingSince[selector.primary] = 0
    BY DEF PrimaryAnswersChecks
  <2>1. Urls \ due # {} /\ u \in UsableUrls(selector.health)
    BY DEF ChecksInv, UsableUrls
  <2>2. selector.primary \in UsableUrls(selector.health)
    BY <2>1 DEF ChecksInv
  <2>3. QED
    BY <2>2 DEF ChecksInv, UsableUrls, Usable
<1>4. QED
  BY <1>1, <1>2, <1>3, StatusInvariant, PTL DEF Spec

-----------------------------------------------------------------------------
(* The shape of the whole state.                                           *)

\* Every open socket or attempt under way is one of the two attempts made.
WsInv ==
  /\ wsProviders \in [WsUrls -> [made : BOOLEAN, status : {"none", "up", "down"}]]
  /\ opening \in [WsUrls -> Nat] /\ sockets \in [WsUrls -> Nat]
  /\ \A w \in WsUrls : opening[w] + sockets[w] <= 2

LEMMA WsStatusSet ==
  ASSUME NEW w \in WsUrls, NEW status \in {"up", "down"}, WsInv
  PROVE  [wsProviders EXCEPT ![w].status = status]
           \in [WsUrls -> [made : BOOLEAN, status : {"none", "up", "down"}]]
<1> DEFINE p == [wsProviders[w] EXCEPT !.status = status]
<1>1. p \in [made : BOOLEAN, status : {"none", "up", "down"}]
  BY DEF WsInv
<1>2. [wsProviders EXCEPT ![w].status = status] = [wsProviders EXCEPT ![w] = p]
  BY DEF WsInv
<1> HIDE DEF p
<1>3. QED
  BY <1>1, <1>2 DEF WsInv

LEMMA WsStep ==
  ASSUME WsInv, [Next]_vars
  PROVE  WsInv'
<1>1. CASE UNCHANGED wsVars
  BY <1>1 DEF wsVars, WsInv
<1>2. ASSUME NEW w \in WsUrls, NEW isUp \in BOOLEAN, UpdateWsProviderStatus(w, isUp)
      PROVE  WsInv'
  <2> DEFINE status == IF isUp THEN "up" ELSE "down"
  <2>1. status \in {"up", "down"}
    OBVIOUS
  <2>2. /\ opening' = opening /\ sockets' = sockets
        /\ wsProviders' = wsProviders \/ wsProviders' = [wsProviders EXCEPT ![w].status = status]
    BY <1>2 DEF UpdateWsProviderStatus
  <2> HIDE DEF status
  <2>3. wsProviders' \in [WsUrls -> [made : BOOLEAN, status : {"none", "up", "down"}]]
    <3>1. CASE wsProviders' = wsProviders
      BY <3>1 DEF WsInv
    <3>2. CASE wsProviders' = [wsProviders EXCEPT ![w].status = status]
      BY <2>1, <3>2, WsStatusSet
    <3>3. QED
      BY <2>2, <3>1, <3>2
  <2>4. QED
    BY <2>2, <2>3 DEF WsInv
<1>3. ASSUME NEW w \in WsUrls, WsOpened(w)
      PROVE  WsInv'
  <2> DEFINE p == [made |-> TRUE, status |-> "up"]
  <2>1. p \in [made : BOOLEAN, status : {"none", "up", "down"}]
    OBVIOUS
  <2>2. /\ opening[w] > 0 /\ opening' = [opening EXCEPT ![w] = @ - 1]
        /\ sockets' = [sockets EXCEPT ![w] = @ + 1]
        /\ wsProviders' = [wsProviders EXCEPT ![w] = p]
    BY <1>3 DEF WsOpened
  <2> HIDE DEF p
  <2>3. QED
    BY <2>1, <2>2 DEF WsInv
<1>4. ASSUME NEW w \in WsUrls, WsRefused(w)
      PROVE  WsInv'
  <2> DEFINE p == [made |-> FALSE, status |-> "down"]
  <2>1. p \in [made : BOOLEAN, status : {"none", "up", "down"}]
    OBVIOUS
  <2>2. /\ opening[w] > 0 /\ opening' = [opening EXCEPT ![w] = @ - 1]
        /\ sockets' = sockets /\ wsProviders' = [wsProviders EXCEPT ![w] = p]
    BY <1>4 DEF WsRefused
  <2> HIDE DEF p
  <2>3. QED
    BY <2>1, <2>2 DEF WsInv
<1>5. ASSUME NEW w \in WsUrls, WsSocketLost(w)
      PROVE  WsInv'
  <2>1. /\ sockets[w] > 0 /\ sockets' = [sockets EXCEPT ![w] = @ - 1]
        /\ opening' = opening
        /\ wsProviders' = [wsProviders EXCEPT ![w].status = "down"]
    BY <1>5 DEF WsSocketLost
  <2>2. wsProviders' \in [WsUrls -> [made : BOOLEAN, status : {"none", "up", "down"}]]
    BY <2>1, WsStatusSet
  <2>3. QED
    BY <2>1, <2>2 DEF WsInv
<1>6. \/ UNCHANGED wsVars
      \/ \E w \in WsUrls : \/ WsOpened(w) \/ WsRefused(w) \/ WsSocketLost(w)
                           \/ \E isUp \in BOOLEAN : UpdateWsProviderStatus(w, isUp)
  BY DEF Next, vars, StartMonitoring, MonitorRpcEndpoint, MonitorWsProvider, MonitorWsProbe,
         MonitorWsAnswer, MonitorWsPort, SyncWithBlockchainService, Tick, ProviderEvent,
         ProviderError, FallbackAnswer, providerVars
<1>7. QED
  BY <1>1, <1>2, <1>3, <1>4, <1>5, <1>6

\* Types of the whole monitor, and what ties the three fields of a status: an
\* endpoint is down exactly when it has an instant it went down at.
THEOREM TypeCorrect == Spec => []TypeOK
<1>1. Init => SelectorTypeOK /\ FallbackInv /\ WsInv
  <2> SUFFICES ASSUME Init PROVE SelectorTypeOK /\ FallbackInv /\ WsInv
    OBVIOUS
  <2>1. SelectorTypeOK
    BY TypeInit DEF Init
  <2>2. FallbackInv
    BY SelectorAssumption DEF SelectorAssumption, Init, ProvidersInit, FallbackInv, HttpTypeOK,
                              OneFallback
  <2>3. WsInv
    BY DEF Init, ProvidersInit, WsInv
  <2>4. QED
    BY <2>1, <2>2, <2>3
<1>2. SelectorTypeOK /\ FallbackInv /\ WsInv /\ [Next]_vars
        => SelectorTypeOK' /\ FallbackInv' /\ WsInv'
  BY SelectorTypeStep, FallbackStep, WsStep
<1>3. SelectorTypeOK /\ FallbackInv /\ WsInv /\ StatusInv => TypeOK
  <2> SUFFICES ASSUME SelectorTypeOK, FallbackInv, WsInv, StatusInv PROVE TypeOK
    OBVIOUS
  <2>1. ProvidersTypeOK
    <3>1. opening \in [WsUrls -> Nat] /\ sockets \in [WsUrls -> Nat]
      BY DEF WsInv
    <3>2. \A w \in WsUrls : opening[w] \in 0 .. 2 /\ sockets[w] \in 0 .. 2
      <4> SUFFICES ASSUME NEW w \in WsUrls PROVE opening[w] \in 0 .. 2 /\ sockets[w] \in 0 .. 2
        OBVIOUS
      <4>1. opening[w] \in Nat /\ sockets[w] \in Nat /\ opening[w] + sockets[w] <= 2
        BY <3>1 DEF WsInv
      <4>2. QED
        BY <4>1
    <3>3. opening \in [WsUrls -> 0 .. 2] /\ sockets \in [WsUrls -> 0 .. 2]
      BY <3>1, <3>2
    <3>4. QED
      BY <3>3 DEF FallbackInv, HttpTypeOK, WsInv, ProvidersTypeOK
  <2>2. \A e \in Endpoints : /\ EntryOK(e, monitor.status[e], lastUp[e], failingSince[e])
                             /\ monitor.status[e] \in StatusEntry
    BY DEF StatusInv, MonitorOK, MonitorState
  <2>3. \A e \in Endpoints :
          /\ monitor.status[e].status \in {"unknown", "up", "down"}
          /\ monitor.status[e].downSince \in 0 .. now
          /\ monitor.status[e].downSince # 0 <=> monitor.status[e].status = "down"
          /\ monitor.status[e].alerted => monitor.status[e].status = "down"
    BY <2>2 DEF EntryOK, StatusEntry, StatusInv
  <2>4. QED
    BY <2>1, <2>3 DEF TypeOK, StatusInv
<1>4. QED
  BY <1>1, <1>2, <1>3, StatusInvariant, PTL DEF Spec
=============================================================================
