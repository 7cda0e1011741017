------------------------------ MODULE AlertGate ------------------------------
(***************************************************************************)
(* AlertService as the monitors of one chain meet it: the throttle of      *)
(* shouldThrottle() and nothing else (AlertService.tla has the rest).  The *)
(* keys of the throttle hold type and chain, so one chain's monitors never *)
(* meet another's.                                                         *)
(***************************************************************************)
EXTENDS Integers, FiniteSets

CONSTANTS
  THROTTLE_DEFAULT,         \* THROTTLE_SECONDS.DEFAULT
  THROTTLE_MANY_ENDPOINTS,  \* THROTTLE_SECONDS.SYNC_BLOCKS_LAG_MANY_ENDPOINTS
  MANY_ENDPOINTS,           \* endpoints a message may count under the default (3)
  StartTime,                \* Date.now() when the process starts
  Horizon                   \* bound: last instant explored

ASSUME GateAssumption ==
  /\ THROTTLE_DEFAULT \in Nat \ {0} /\ THROTTLE_MANY_ENDPOINTS \in Nat \ {0}
  /\ MANY_ENDPOINTS \in Nat
  /\ StartTime \in Nat \ {0} /\ Horizon \in Nat
  \* epoch milliseconds dwarf every period
  /\ StartTime >= THROTTLE_DEFAULT /\ StartTime >= THROTTLE_MANY_ENDPOINTS

VARIABLES
  now,              \* Date.now()
  alertThrottling   \* type -> instant of the last alert let through, 0 if none

AlertType == {"rpc_endpoint_down", "sync_blocks_lag", "rpc_no_peers", "rpc_low_peers",
              "transaction_failure_rate_high", "insufficient_wallet_balance"}

GateInit == now = StartTime /\ alertThrottling = [t \in AlertType |-> 0]

-----------------------------------------------------------------------------
\* The period in force.  The table is looked up under the type's value, which
\* is none of its keys, so every type gets the default, but for a sync-lag
\* message that counts many endpoints.
ThrottlePeriod(alertType, endpoints) ==
  IF alertType = "sync_blocks_lag" /\ endpoints > MANY_ENDPOINTS
  THEN THROTTLE_MANY_ENDPOINTS ELSE THROTTLE_DEFAULT

\* ~shouldThrottle() for a message that counts `endpoints`
LetThrough(throttling, alertType, endpoints) ==
  now - throttling[alertType] >= ThrottlePeriod(alertType, endpoints)

\* The throttle after error(), warning() or info(): a function of the throttle
\* before, as one turn may make several calls.
Reported(throttling, alertType, endpoints) ==
  IF LetThrough(throttling, alertType, endpoints)
  THEN [throttling EXCEPT ![alertType] = now] ELSE throttling

\* What one chain may see of the service: reports of any type that count any
\* number of endpoints, and time.
GateNext ==
  \/ /\ \E t \in AlertType, n \in Nat :
          alertThrottling' = Reported(alertThrottling, t, n)
     /\ UNCHANGED now
  \/ now' = now + 1 /\ UNCHANGED alertThrottling

GateSpec == GateInit /\ [][GateNext]_<<now, alertThrottling>>

-----------------------------------------------------------------------------
GateTypeOK ==
  /\ now \in Nat /\ now >= StartTime
  /\ alertThrottling \in [AlertType -> 0 .. now]
=============================================================================
