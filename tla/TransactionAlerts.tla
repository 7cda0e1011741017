-------------------------- MODULE TransactionAlerts --------------------------
(***************************************************************************)
(* TransactionMonitorService with AlertService and AlertManager: the runs  *)
(* of a chain's transaction tests, and the sending of the alerts that come *)
(* through the throttle, which the runs do not wait for.                   *)
(***************************************************************************)
EXTENDS TransactionMonitor, AlertDelivery

vars == <<now, alertThrottling, testsVars, sendings>>

Init == GateInit /\ TestsInit /\ DeliveryInit

\* A run ends; an error let through is sent, with whatever text its endpoints
\* and the format of the message make.
RunEnds(r) ==
  /\ CheckFailureRatesAndAlert(r)
  /\ IF alertThrottling' # alertThrottling
     THEN \E text \in Text : sendings' = Append(sendings, NewSending(text))
     ELSE UNCHANGED sendings

\* The clock stops at the horizon, when all that was under way has ended.
AllOver ==
  /\ now = Horizon /\ Len(testRuns) = MAX_TEST_RUNS
  /\ \A r \in DOMAIN testRuns : testRuns[r].phase = "over"
  /\ \A a \in DOMAIN sendings : Sent(a)
  /\ UNCHANGED vars

Next ==
  \/ /\ \/ ExecuteTransactionTests
        \/ \E r \in DOMAIN testRuns :
             \/ \E enough \in BOOLEAN : CheckWalletBalance(r, enough)
             \/ \E up \in SUBSET DOMAIN TestProviders : StartTests(r, up)
             \/ RunTransactionTest(r)
             \/ \E mined \in BOOLEAN : SendEnds(r, mined)
             \/ PollStep(r)
        \/ TestsTick
     /\ UNCHANGED sendings
  \/ \E r \in DOMAIN testRuns : RunEnds(r)
  \/ DeliveryNext /\ UNCHANGED <<now, alertThrottling, testsVars>>
  \/ AllOver

\* A poll ends: requests through a provider have a deadline (ethers), and the
\* waits between polls are timers.  Nothing is assumed of tx.wait().
Fairness == \A r \in 1 .. MAX_TEST_RUNS :
  WF_vars(r \in DOMAIN testRuns /\ PollStep(r) /\ UNCHANGED sendings)

Spec == Init /\ [][Next]_vars /\ Fairness

-----------------------------------------------------------------------------
\* Runs keep their counts and sendings their order, whatever overlaps
\* (transaction.monitor.ts, alert-manager.ts).
TypeOK == GateTypeOK /\ TestsTypeOK /\ DeliveryTypeOK
=============================================================================
