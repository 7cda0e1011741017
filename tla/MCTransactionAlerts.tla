------------------------- MODULE MCTransactionAlerts -------------------------
(***************************************************************************)
(* TransactionAlerts for TLC: three endpoints, one of them disabled by a   *)
(* pattern that names its host and port, two overlapping runs.             *)
(***************************************************************************)
EXTENDS TransactionAlerts

MCTestProviders == <<[protocol |-> "https", host |-> "a", port |-> ""],
                     [protocol |-> "https", host |-> "b", port |-> "8555"],
                     [protocol |-> "http", host |-> "c", port |-> "8555"]>>
MCDisabledPatterns == {[protocol |-> "", host |-> "b", port |-> "8555"],
                       [protocol |-> "https", host |-> "c", port |-> "8555"]}
MCChannels == <<"webhook", "telegram", "dashboard">>
=============================================================================
