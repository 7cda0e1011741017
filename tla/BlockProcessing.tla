---------------------------- MODULE BlockProcessing ----------------------------
(***************************************************************************)
(* monitoring/blocks/blocks.monitor.ts for one chain, from the best height *)
(* of a cycle on: the block and the one before it are fetched from the     *)
(* provider BlockchainService selects, not from the endpoint that reported *)
(* the height, its transactions are looked up batch by batch, and the      *)
(* gauges are written.  Cycles overlap, so jobs do.                        *)
(***************************************************************************)
EXTENDS AlertGate, TimeWindowData, FiniteSetsExt

CONSTANTS
  BlockSizes,          \* numbers of transactions a block may hold
  BlockTimes,          \* seconds from a block to the next, as their timestamps say
  TX_WINDOW,           \* TRANSACTION_HISTORY_WINDOW_MS (5 min)
  BLOCK_TIME_WINDOW,   \* window of recentBlockTimes (24 h)
  SAMPLE_SIZE,         \* RECENT_BLOCKS_SAMPLE_SIZE, the most points of a window
  DEFAULT_BATCH_SIZE,  \* transactions looked up at once (20)
  LARGE_BLOCK,         \* above this size the batches are larger (500)
  LARGE_BATCH_SIZE,    \* by as much (50)
  MAX_BLOCK_JOBS,      \* bound: blocks in the works at a time
  MAX_BLOCKS           \* bound: blocks begun

ASSUME BlocksAssumption ==
  /\ BlockSizes \subseteq Nat /\ BlockTimes \subseteq Int
  /\ TX_WINDOW \in Nat /\ BLOCK_TIME_WINDOW \in Nat
  /\ DEFAULT_BATCH_SIZE \in Nat \ {0} /\ LARGE_BLOCK \in Nat
  /\ LARGE_BATCH_SIZE \in Nat \ {0} /\ MAX_BLOCK_JOBS \in Nat /\ MAX_BLOCKS \in Nat
  \* a scan interval brings one block: the window holds fewer than the sample
  /\ SAMPLE_SIZE \in Nat /\ SAMPLE_SIZE > TX_WINDOW + MAX_BLOCK_JOBS

VARIABLES
  blockJobs,             \* blocks in the works: [id, total, left, confirmed, failed]
  lastBlockJob,          \* [id, since] of the newest job
  recentBlockTimes,      \* TimeWindowData
  transactionCounts,     \* TimeWindowData
  failedTransactions,    \* TimeWindowData
  transactionsPerBlock,  \* gauge: [total, confirmed, failed]
  transactionsPerMinute, \* gauge: the sum; its division by the window is left out
  processedBlocks        \* history: [id, at, total] of every block processed

blocksVars == <<blockJobs, lastBlockJob, recentBlockTimes, transactionCounts, failedTransactions,
                transactionsPerBlock, transactionsPerMinute, processedBlocks>>

\* the two blocks are not there yet
Fetching == -1

BlocksInit ==
  /\ blockJobs = {} /\ lastBlockJob = [id |-> 0, since |-> 0]
  /\ recentBlockTimes = {} /\ transactionCounts = {} /\ failedTransactions = {}
  /\ transactionsPerBlock = [total |-> 0, confirmed |-> 0, failed |-> 0]
  /\ transactionsPerMinute = 0 /\ processedBlocks = {}

-----------------------------------------------------------------------------
\* processLatestBlockData() is called with the best height of a cycle, if the
\* cycle found any.
\* bound: one block an instant, MAX_BLOCK_JOBS in the works, MAX_BLOCKS in all
ProcessLatestBlockData ==
  /\ lastBlockJob.id < MAX_BLOCKS
  /\ Cardinality(blockJobs) < MAX_BLOCK_JOBS /\ now > lastBlockJob.since
  /\ lastBlockJob' = [id |-> lastBlockJob.id + 1, since |-> now]
  /\ blockJobs' = blockJobs \cup {[id |-> lastBlockJob.id + 1, total |-> Fetching, left |-> 0,
                                   confirmed |-> 0, failed |-> 0]}
  /\ UNCHANGED <<now, alertThrottling, recentBlockTimes, transactionCounts, failedTransactions,
                 transactionsPerBlock, transactionsPerMinute, processedBlocks>>

\* mutant: the rate is read before the block's point is added
UpdateTransactionMetricsLate(j, confirmed, failed) ==
  /\ transactionsPerBlock' = [total |-> j.total, confirmed |-> confirmed, failed |-> failed]
  /\ transactionsPerMinute' = GetSum(transactionCounts, now, TX_WINDOW)
  /\ transactionCounts' = AddDataPoint(transactionCounts, j.total, now, TX_WINDOW, SAMPLE_SIZE)
  /\ failedTransactions' =
       IF failed > 0 THEN AddDataPoint(failedTransactions, failed, now, TX_WINDOW, SAMPLE_SIZE)
       ELSE failedTransactions
  /\ processedBlocks' = processedBlocks \cup {[id |-> j.id, at |-> now, total |-> j.total]}

UpdateTransactionMetrics(j, confirmed, failed) ==
  /\ transactionsPerBlock' = [total |-> j.total, confirmed |-> confirmed, failed |-> failed]
  /\ transactionCounts' = AddDataPoint(transactionCounts, j.total, now, TX_WINDOW, SAMPLE_SIZE)
  /\ failedTransactions' =
       IF failed > 0 THEN AddDataPoint(failedTransactions, failed, now, TX_WINDOW, SAMPLE_SIZE)
       ELSE failedTransactions
  /\ transactionsPerMinute' = GetSum(transactionCounts', now, TX_WINDOW)
  /\ processedBlocks' = processedBlocks \cup {[id |-> j.id, at |-> now, total |-> j.total]}

\* Both blocks arrived: processBlockTime(), which records positive times only,
\* and processBlock().  A block without transactions is done with at once.
BlocksFetched(j, total, blockTime) ==
  /\ j.total = Fetching
  /\ recentBlockTimes' =
       IF blockTime > 0
       THEN AddDataPoint(recentBlockTimes, blockTime, now, BLOCK_TIME_WINDOW, SAMPLE_SIZE)
       ELSE recentBlockTimes
  /\ LET job == [j EXCEPT !.total = total, !.left = total]
     IN  IF total = 0
         THEN blockJobs' = blockJobs \ {j} /\ UpdateTransactionMetrics(job, 0, 0)
         ELSE /\ blockJobs' = (blockJobs \ {j}) \cup {job}
              /\ UNCHANGED <<transactionCounts, failedTransactions, transactionsPerBlock,
                             transactionsPerMinute, processedBlocks>>
  /\ UNCHANGED <<now, alertThrottling, lastBlockJob>>

\* Either block is not to be had: no provider, an error, or a provider behind
\* the best height.  Nothing comes of the cycle.
BlocksNotFetched(j) ==
  /\ j.total = Fetching
  /\ blockJobs' = blockJobs \ {j}
  /\ UNCHANGED <<now, alertThrottling, lastBlockJob, recentBlockTimes, transactionCounts,
                 failedTransactions, transactionsPerBlock, transactionsPerMinute, processedBlocks>>

BatchOf(j) ==
  LET size == IF j.total > LARGE_BLOCK THEN LARGE_BATCH_SIZE ELSE DEFAULT_BATCH_SIZE
  IN  IF j.left < size THEN j.left ELSE size

\* processTransactionBatch() settles.  A transaction nobody knows counts as
\* confirmed, a pending one in neither count.
BatchSettled(j, confirmed, failed) ==
  LET job == [j EXCEPT !.left = @ - BatchOf(j), !.confirmed = @ + confirmed, !.failed = @ + failed]
  IN  /\ j.total # Fetching
      /\ confirmed + failed <= BatchOf(j)
      /\ IF job.left = 0
         THEN blockJobs' = blockJobs \ {j} /\ UpdateTransactionMetrics(job, job.confirmed, job.failed)
         ELSE /\ blockJobs' = (blockJobs \ {j}) \cup {job}
              /\ UNCHANGED <<transactionCounts, failedTransactions, transactionsPerBlock,
                             transactionsPerMinute, processedBlocks>>
      /\ UNCHANGED <<now, alertThrottling, lastBlockJob, recentBlockTimes>>

\* bound: two windows from the start
BlocksHorizon == StartTime + 2 * TX_WINDOW

\* The calls through the provider have no deadline of their own here.
BlocksTick ==
  /\ now < BlocksHorizon
  /\ now' = now + 1
  /\ UNCHANGED <<alertThrottling, blocksVars>>

BlocksNext ==
  \/ ProcessLatestBlockData
  \/ \E j \in blockJobs :
       \/ \E total \in BlockSizes, blockTime \in BlockTimes : BlocksFetched(j, total, blockTime)
       \/ BlocksNotFetched(j)
       \/ \E confirmed, failed \in 0 .. BatchOf(j) : BatchSettled(j, confirmed, failed)
  \/ BlocksTick

-----------------------------------------------------------------------------
\* Shape of the state; no count exceeds the transactions looked up.
BlocksTypeOK ==
  /\ \A j \in blockJobs :
       /\ j.id \in 1 .. lastBlockJob.id
       /\ j.total = Fetching \/ j.left \in 1 .. j.total
       /\ j.total # Fetching => j.confirmed + j.failed <= j.total - j.left
  /\ \A data \in {recentBlockTimes, transactionCounts, failedTransactions} :
       Cardinality(data) <= SAMPLE_SIZE /\ \A p \in data : p.at \in StartTime .. now
  /\ transactionsPerBlock.confirmed + transactionsPerBlock.failed <= transactionsPerBlock.total

\* When the rate was written it counted every block processed in the window
\* before, whole and once, whatever the order blocks came in and however many
\* jobs overlapped: neither the pruning nor the limit of the window lost one
\* (blocks.monitor.ts:655-681, time-window-data.ts:67-83).
RateCoversWindow ==
  LET written == Max({0} \cup {b.at : b \in processedBlocks})
  IN  transactionsPerMinute =
        MapThenSumSet(LAMBDA b : b.total, {b \in processedBlocks : b.at >= written - TX_WINDOW})
=============================================================================
