-------------------------- MODULE TransactionMonitor --------------------------
(***************************************************************************)
(* monitoring/transaction/transaction.monitor.ts for Mainnet: the run the  *)
(* cron job starts, whether or not the one before has ended, checks the    *)
(* test wallet, sends a transaction and a contract through each endpoint,  *)
(* follows each until it is confirmed, and raises alerts about the share   *)
(* that failed.  Runs share the wallet's hasBalance.  Testnet's check and  *)
(* tests follow Mainnet's in each run, on a wallet of their own, and only  *)
(* take time.  BlockchainService's calls are modelled as they are used.    *)
(***************************************************************************)
EXTENDS AlertGate, Sequences, FiniteSetsExt

CONSTANTS
  TestProviders,      \* the chain's providers, a sequence of [protocol, host, port]
  DisabledPatterns,   \* getTransactionTestDisabledEndpoints(), as such records, "" if left out
  MAX_FAILURES,       \* tries of BlockchainService.getTransaction() (3)
  MAX_ATTEMPTS,       \* maxAttempts (8)
  CRON_INTERVAL,      \* 5 min
  MAX_TEST_RUNS       \* bound: runs started

ASSUME TestsAssumption ==
  /\ TestProviders \in Seq([protocol : STRING, host : STRING, port : STRING])
  /\ MAX_FAILURES \in Nat \ {0} /\ MAX_ATTEMPTS \in Nat
  /\ MAX_FAILURES <= MAX_ATTEMPTS
  /\ CRON_INTERVAL \in Nat \ {0} /\ MAX_TEST_RUNS \in Nat

VARIABLES
  nextCron,        \* when the cron job fires next
  hasBalance,      \* testWallets[chainId].hasBalance
  testRuns,        \* run -> [phase, queue, total, contract, attempt, failedCount, failures, tries]
                   \* where queue is the positions in TestProviders still to be tested
  clearedBy,       \* history: run whose balance check last cleared hasBalance
  failedTest       \* history: [run, cause, tries, clearedBy] of the test the last step failed

testsVars == <<nextCron, hasBalance, testRuns, clearedBy, failedTest>>

\* How a run counts failures: of transactions (FALSE) and of contracts (TRUE)
NoFailures == [contract \in BOOLEAN |-> 0]

None == [run |-> 0, cause |-> "none", tries |-> 0, clearedBy |-> 0]
NoTestFails == failedTest' = None

\* The most tries the polls of one test make: each starts with its number as
\* the count of failures.
MaxTries == (MAX_FAILURES * (MAX_FAILURES + 1)) \div 2

TestsInit ==
  /\ nextCron = StartTime
  /\ hasBalance \in BOOLEAN  \* as initializeTestWallets() found it
  /\ testRuns = <<>>
  /\ clearedBy = 0
  /\ failedTest = None

-----------------------------------------------------------------------------
\* isEndpointDisabledForTesting(): a pattern with a protocol is a whole url,
\* one with a port is any url of that host and port, else the host counts.
IsEndpointDisabledForTesting(e) ==
  \E p \in DisabledPatterns :
    \/ e = p
    \/ p.protocol = "" /\ p.port # "" /\ e.host = p.host /\ e.port = p.port
    \/ p.protocol = "" /\ p.port = "" /\ e.host = p.host

FilterEnabledProviders(positions) ==
  {i \in positions : ~IsEndpointDisabledForTesting(TestProviders[i])}

In(phase) == {r \in DOMAIN testRuns : testRuns[r].phase = phase}

\* executeTransactionTests() fires and asks for the wallet's balance.
\* bound: MAX_TEST_RUNS
ExecuteTransactionTests ==
  /\ Len(testRuns) < MAX_TEST_RUNS /\ now >= nextCron
  /\ nextCron' = nextCron + CRON_INTERVAL
  /\ testRuns' = Append(testRuns, [phase |-> "balance", queue |-> {}, total |-> 0,
                                   contract |-> FALSE, attempt |-> 0, failedCount |-> 0,
                                   failures |-> NoFailures, tries |-> 0])
  /\ NoTestFails /\ UNCHANGED <<now, alertThrottling, hasBalance, clearedBy>>

\* checkWalletBalance() ends: enough, or too little, an error or no provider.
CheckWalletBalance(r, enough) ==
  /\ testRuns[r].phase = "balance"
  /\ hasBalance' = enough
  /\ testRuns' = [testRuns EXCEPT ![r].phase = "checked"]
  /\ clearedBy' = IF enough THEN clearedBy ELSE r
  /\ NoTestFails /\ UNCHANGED <<now, alertThrottling, nextCron>>

\* mutant: the tests begin whatever the balance
StartTestsAnyway(r, up) ==
  LET enabled == FilterEnabledProviders(up)
  IN  /\ testRuns[r].phase = "checked"
      /\ testRuns' = [testRuns EXCEPT ![r].phase = "next", ![r].queue = enabled,
                                      ![r].total = Cardinality(enabled)]
      /\ NoTestFails /\ UNCHANGED <<now, alertThrottling, nextCron, hasBalance, clearedBy>>

\* Both balances are in: the providers that are up by now will be tested, in
\* their order, if the wallet has a balance by now; else there is a warning,
\* kept but notified of to nobody.
StartTests(r, up) ==
  LET enabled == FilterEnabledProviders(up)
  IN  /\ testRuns[r].phase = "checked"
      /\ testRuns' = IF hasBalance
                     THEN [testRuns EXCEPT ![r].phase = "next", ![r].queue = enabled,
                                           ![r].total = Cardinality(enabled)]
                     ELSE [testRuns EXCEPT ![r].phase = "next"]
      /\ alertThrottling' = IF hasBalance THEN alertThrottling
                            ELSE Reported(alertThrottling, "insufficient_wallet_balance", 1)
      /\ NoTestFails /\ UNCHANGED <<now, nextCron, hasBalance, clearedBy>>

\* The test under way in run r is over; the transaction is followed by the
\* contract on the same endpoint, the contract by the next endpoint.
TestOver(r, failed) ==
  LET run == testRuns[r]
  IN  [testRuns EXCEPT ![r] =
        [run EXCEPT !.phase = "next",
                    !.queue = IF run.contract THEN run.queue \ {Min(run.queue)} ELSE run.queue,
                    !.contract = ~run.contract,
                    !.attempt = 0, !.failedCount = 0, !.tries = 0,
                    !.failures[run.contract] = IF failed THEN @ + 1 ELSE @]]

TestFails(r, cause) ==
  /\ testRuns' = TestOver(r, TRUE)
  /\ failedTest' = [run |-> r, cause |-> cause, tries |-> testRuns[r].tries,
                        clearedBy |-> clearedBy]

\* runTransactionTest() looks at the wallet once more, then sends.
RunTransactionTest(r) ==
  /\ testRuns[r].phase = "next" /\ testRuns[r].queue # {}
  /\ IF hasBalance
     THEN /\ testRuns' = [testRuns EXCEPT ![r].phase = "sent"]
          /\ NoTestFails
     ELSE TestFails(r, "no balance")
  /\ UNCHANGED <<now, alertThrottling, nextCron, hasBalance, clearedBy>>

\* sendTransaction() or deployContract() ends: refused, or mined, for which
\* tx.wait(1) has no deadline.
SendEnds(r, mined) ==
  /\ testRuns[r].phase = "sent"
  /\ IF mined
     THEN testRuns' = [testRuns EXCEPT ![r].phase = "poll"] /\ NoTestFails
     ELSE TestFails(r, "refused")
  /\ UNCHANGED <<now, alertThrottling, nextCron, hasBalance, clearedBy>>

\* getTransaction() asks the chain's selected provider, which need not be the
\* one under test.
AskForTransaction(r) ==
  /\ testRuns[r].phase = "poll"
  /\ testRuns' = [testRuns EXCEPT ![r].phase = "asked",
                                  ![r].tries = IF @ > MaxTries THEN @ ELSE @ + 1]
  /\ NoTestFails /\ UNCHANGED <<now, alertThrottling, nextCron, hasBalance, clearedBy>>

\* mutant: one try too many
NextAttemptLate(r) ==
  LET attempt == testRuns[r].attempt + 1
  IN  IF attempt > MAX_FAILURES THEN TestFails(r, "unseen")
      ELSE /\ testRuns' = [testRuns EXCEPT ![r].phase = "poll", ![r].attempt = attempt,
                                           ![r].failedCount = attempt]
           /\ NoTestFails

\* The attempt is over without a verdict.  The next one passes its number as
\* failedCount, so that from MAX_FAILURES on getTransaction() gives up before
\* it asks, and the attempts left to MAX_ATTEMPTS only pass the time.
NextAttempt(r) ==
  LET attempt == testRuns[r].attempt + 1
  IN  IF attempt >= MAX_FAILURES THEN TestFails(r, "unseen")
      ELSE /\ testRuns' = [testRuns EXCEPT ![r].phase = "poll", ![r].attempt = attempt,
                                           ![r].failedCount = attempt]
           /\ NoTestFails

\* mutant: the repeated call does not count the failure
RetryElsewhereUncounted(r) ==
  /\ testRuns' = [testRuns EXCEPT ![r].phase = "poll"] /\ NoTestFails

\* A connection error, with a provider left that is up: the call is repeated.
RetryElsewhere(r) ==
  IF testRuns[r].failedCount + 1 >= MAX_FAILURES THEN NextAttempt(r)
  ELSE /\ testRuns' = [testRuns EXCEPT ![r].phase = "poll", ![r].failedCount = @ + 1]
       /\ NoTestFails

\* What getTransaction() finds: "unseen" stands for a pending or unknown
\* transaction, no provider, and errors that are not the connection's.
Answer == {"confirmed", "reverted", "unseen", "connection error"}

PollEnds(r, answer) ==
  /\ testRuns[r].phase = "asked"
  /\ CASE answer = "confirmed"        -> testRuns' = TestOver(r, FALSE) /\ NoTestFails
       [] answer = "reverted"         -> TestFails(r, "reverted")
       [] answer = "unseen"           -> NextAttempt(r)
       [] answer = "connection error" -> RetryElsewhere(r)
  /\ UNCHANGED <<now, alertThrottling, nextCron, hasBalance, clearedBy>>

HighFailureRate(r, contract) ==
  testRuns[r].total > 0 /\ 2 * testRuns[r].failures[contract] >= testRuns[r].total

\* The throttle after checkFailureRatesAndAlert(): the alert about contracts has
\* the type and chain of the one about transactions, made in the same turn.
RatesReported(r) ==
  LET first == IF HighFailureRate(r, FALSE)
               THEN Reported(alertThrottling, "transaction_failure_rate_high", 1)
               ELSE alertThrottling
  IN  IF HighFailureRate(r, TRUE) THEN Reported(first, "transaction_failure_rate_high", 1)
      ELSE first

CheckFailureRatesAndAlert(r) ==
  /\ testRuns[r].phase = "next" /\ testRuns[r].queue = {}
  /\ testRuns' = [testRuns EXCEPT ![r].phase = "over", ![r].failures = NoFailures, ![r].total = 0]
  /\ alertThrottling' = RatesReported(r)
  /\ NoTestFails /\ UNCHANGED <<now, nextCron, hasBalance, clearedBy>>

TestsTick ==
  /\ now < Horizon /\ (now < nextCron \/ Len(testRuns) = MAX_TEST_RUNS)
  /\ now' = now + 1
  /\ NoTestFails /\ UNCHANGED <<alertThrottling, nextCron, hasBalance, testRuns, clearedBy>>

PollStep(r) == AskForTransaction(r) \/ \E answer \in Answer : PollEnds(r, answer)

-----------------------------------------------------------------------------
\* Shape of the state; no run counts more failures than tests, nor polls more
\* often than its attempts allow.
TestsTypeOK ==
  /\ hasBalance \in BOOLEAN /\ nextCron >= StartTime
  /\ \A r \in DOMAIN testRuns :
       LET run == testRuns[r]
       IN  /\ run.phase \in {"balance", "checked", "next", "sent", "poll", "asked", "over"}
           /\ run.phase \in {"sent", "poll", "asked"} => run.queue # {}
           /\ \A c \in BOOLEAN : run.failures[c] <= run.total
           /\ run.attempt <= run.failedCount /\ run.failedCount < MAX_FAILURES
           /\ run.tries <= MaxTries

\* An endpoint is counted as failing for a cause: the node refused or reverted
\* the transaction, or a full series of polls did not see it confirmed, neither
\* cut short by the tries that connection errors use up nor going on beyond
\* them; or, while runs overlap, another run's check found the wallet empty.
\* A run never blames endpoints for what its own check found
\* (transaction.monitor.ts:184, 363, 405-431; blockchain.service.ts:517-574).
BlamedForCause ==
  LET f == failedTest
  IN  /\ f.cause = "unseen" => f.tries \in MAX_FAILURES .. MaxTries
      /\ f.cause = "no balance" => f.clearedBy # 0 /\ f.clearedBy # f.run

\* A test whose transaction was mined ends, however often the connection fails
\* on the way: retries and polls both draw on one count
\* (transaction.monitor.ts:405-431, blockchain.service.ts:517-574).
MinedTestsEnd ==
  \A r \in 1 .. MAX_TEST_RUNS :
    (r \in In("poll")) ~> (r \in In("next") \cup In("over"))
=============================================================================
