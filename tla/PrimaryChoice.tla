--------------------------- MODULE PrimaryChoice ---------------------------
(***************************************************************************)
(* What the choice of a chain's primary RPC endpoint promises, without     *)
(* health records, scores or tiers: reports change which endpoints are     *)
(* usable; the primary changes at most once per interval and then to a     *)
(* usable endpoint, or back to the configured one when none is; and a      *)
(* report never leaves an unusable primary in place when a change is       *)
(* allowed and an endpoint is usable.                                      *)
(***************************************************************************)
EXTENDS Integers

CONSTANTS Urls, PRIMARY_RPC_URL, MIN_SWITCH_INTERVAL, StartTime

VARIABLES now, usable, primary, lastSwitch

vars == <<now, usable, primary, lastSwitch>>

Init ==
  /\ now = StartTime
  /\ usable = {} /\ primary = PRIMARY_RPC_URL /\ lastSwitch = 0

MaySwitch == now - lastSwitch >= MIN_SWITCH_INTERVAL

Keep ==
  /\ MaySwitch => primary \in usable' \/ usable' = {}
  /\ UNCHANGED <<primary, lastSwitch>>

Change ==
  /\ MaySwitch
  /\ primary' # primary
  /\ IF usable' = {} THEN primary' = PRIMARY_RPC_URL ELSE primary' \in usable'
  /\ lastSwitch' = now

Report ==
  /\ usable' \in SUBSET Urls
  /\ Keep \/ Change
  /\ UNCHANGED now

Advance ==
  /\ now' = now + 1
  /\ UNCHANGED <<usable, primary, lastSwitch>>

Next == Report \/ Advance

Spec == Init /\ [][Next]_vars
=============================================================================
