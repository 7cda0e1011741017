------------------------- MODULE BlockchainService -------------------------
(***************************************************************************)
(* blockchain/blockchain.service.ts: the table of HTTP and WebSocket       *)
(* providers, who may change an entry, and the fallback of the active      *)
(* provider.  One chain, whose endpoints are those of RpcSelector.         *)
(*                                                                         *)
(* initializeProviders() runs twice while the process starts (the module's *)
(* own onModuleInit, then RpcMonitorService's).  Init is the state after   *)
(* the second: every HTTP endpoint has an entry, of a provider that was    *)
(* made and then tested, or of none; the two WebSocket attempts of each    *)
(* endpoint may still be under way.                                        *)
(***************************************************************************)
EXTENDS RpcSelector

CONSTANTS
  WsUrls,          \* the chain's WebSocket endpoints
  ProviderOrder    \* Urls in the order of the configuration

ASSUME ProviderAssumption ==
  /\ ProviderOrder \in Seq(Urls)
  /\ \A u \in Urls : \E i \in DOMAIN ProviderOrder : ProviderOrder[i] = u

VARIABLES
  providers,       \* [made, up]: is there a provider, endpoint.status = 'up'
  activeProvider,
  trying,          \* position of the provider fallbackToNextAvailableProvider()
                   \* awaits; 0 = it is not running
  wsProviders,     \* [made, status]; status "none" = no entry yet
  opening,         \* connection attempts outstanding
  sockets          \* open sockets of providers made, replaced ones included

httpVars == <<providers, activeProvider, trying>>
wsVars   == <<wsProviders, opening, sockets>>
providerVars == <<httpVars, wsVars>>

ProviderEntry == {p \in [made : BOOLEAN, up : BOOLEAN] : p.up => p.made}

ProvidersInit ==
  /\ providers \in [Urls -> ProviderEntry]
  /\ activeProvider = PRIMARY_RPC_URL
  /\ trying = 0
  /\ wsProviders = [w \in WsUrls |-> [made |-> FALSE, status |-> "none"]]
  /\ opening = [w \in WsUrls |-> 2]
  /\ sockets = [w \in WsUrls |-> 0]

-----------------------------------------------------------------------------
\* The loop of fallbackToNextAvailableProvider() up to its next await: the
\* first provider after position i that looks usable.
NextTry(table, i) ==
  LET candidates == {j \in DOMAIN ProviderOrder :
                       /\ j > i /\ ProviderOrder[j] # activeProvider
                       /\ table[ProviderOrder[j]].made /\ table[ProviderOrder[j]].up}
  IN  IF candidates = {} THEN 0
      ELSE CHOOSE j \in candidates : \A k \in candidates : j <= k

\* mutant: the fallback starts without the provider being marked down
UpdateProviderStatusUnmarked(u, isUp) ==
  /\ trying' = IF providers[u].up /\ ~isUp /\ activeProvider = u
               THEN NextTry(providers, 0) ELSE trying
  /\ UNCHANGED <<providers, activeProvider>>

UpdateProviderStatus(u, isUp) ==
  /\ providers' = [providers EXCEPT ![u].up = isUp]
  /\ trying' = IF providers[u].up /\ ~isUp /\ activeProvider = u
               THEN NextTry(providers', 0) ELSE trying
  /\ UNCHANGED activeProvider

\* The 'error' event of a provider, also of one that a failed first attempt
\* left behind: the only caller of updateProviderStatus.
ProviderError(u) ==
  /\ UpdateProviderStatus(u, FALSE)
  /\ UNCHANGED wsVars

\* The awaited getBlockNumber() of a fallback returns or throws.
FallbackAnswer(ok) ==
  /\ trying # 0
  /\ IF ok
     THEN activeProvider' = ProviderOrder[trying] /\ trying' = 0 /\ UNCHANGED providers
     ELSE /\ providers' = [providers EXCEPT ![ProviderOrder[trying]].up = FALSE]
          /\ trying' = NextTry(providers', trying)
          /\ UNCHANGED activeProvider
  /\ UNCHANGED wsVars

-----------------------------------------------------------------------------
\* One of the attempts of initializeWebSocketProvider() connects...
WsOpened(w) ==
  /\ opening[w] > 0
  /\ opening' = [opening EXCEPT ![w] = @ - 1]
  /\ wsProviders' = [wsProviders EXCEPT ![w] = [made |-> TRUE, status |-> "up"]]
  /\ sockets' = [sockets EXCEPT ![w] = @ + 1]
  /\ UNCHANGED httpVars

\* ... or times out, or fails: the entry loses a provider the other one made.
WsRefused(w) ==
  /\ opening[w] > 0
  /\ opening' = [opening EXCEPT ![w] = @ - 1]
  /\ wsProviders' = [wsProviders EXCEPT ![w] = [made |-> FALSE, status |-> "down"]]
  /\ UNCHANGED <<httpVars, sockets>>

\* 'error' or 'close' of a provider's socket marks whatever entry is there.
WsSocketLost(w) ==
  /\ sockets[w] > 0
  /\ sockets' = [sockets EXCEPT ![w] = @ - 1]
  /\ wsProviders' = [wsProviders EXCEPT ![w].status = "down"]
  /\ UNCHANGED <<httpVars, opening>>

UpdateWsProviderStatus(w, isUp) ==
  /\ wsProviders' = IF wsProviders[w].status = "none" THEN wsProviders
                    ELSE [wsProviders EXCEPT ![w].status = IF isUp THEN "up" ELSE "down"]
  /\ UNCHANGED <<httpVars, opening, sockets>>

ProviderEvent ==
  \/ \E u \in Urls : ProviderError(u)
  \/ \E ok \in BOOLEAN : FallbackAnswer(ok)
  \/ \E w \in WsUrls : WsOpened(w)
  \/ \E w \in WsUrls : WsRefused(w)
  \/ \E w \in WsUrls : WsSocketLost(w)

-----------------------------------------------------------------------------
ProvidersTypeOK ==
  /\ providers \in [Urls -> ProviderEntry]
  /\ activeProvider \in Urls
  /\ trying \in {0} \cup DOMAIN ProviderOrder
  /\ wsProviders \in [WsUrls -> [made : BOOLEAN, status : {"none", "up", "down"}]]
  /\ opening \in [WsUrls -> 0 .. 2] /\ sockets \in [WsUrls -> 0 .. 2]

\* The loop that looks for a new active provider runs only while the active
\* one is down, so no event can start a second loop beside it: error events
\* and answers of a running loop may come in any order.
OneFallback == trying # 0 => ~providers[activeProvider].up
=============================================================================
