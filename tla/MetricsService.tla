--------------------------- MODULE MetricsService ---------------------------
(***************************************************************************)
(* The InfluxDB writer of the monitor (metrics/metrics.service.ts): the    *)
(* connection state machine, the queue that holds points while there is no *)
(* connection, and the guarded periodic flush.                             *)
(*                                                                         *)
(* A point is whatever the caller saves; only its identity and the instant *)
(* it is stamped with are kept.  The influxdb-client WriteApi is external: *)
(* it stamps a point when it is handed over, buffers it, and later stores  *)
(* or (its own retries exhausted) loses it.                                *)
(***************************************************************************)
EXTENDS Integers, Sequences

CONSTANTS
  MAX_QUEUE_SIZE,           \* points kept while disconnected
  MAX_RECONNECT_ATTEMPTS,   \* attempts before the 60 s pause
  MaxPending                \* bound: reconnect timers pending at once

ASSUME MetricsAssumption ==
  /\ MAX_QUEUE_SIZE \in Nat
  /\ MAX_RECONNECT_ATTEMPTS \in Nat \ {0}
  /\ MaxPending \in Nat \ {0}

VARIABLES
  now,                \* Date.now()
  connected,
  influxClient,       \* TRUE once a client and its flush interval exist
  connectionQueue,    \* Seq of points
  isWriteInProgress,
  reconnectAttempts,
  reconnects,         \* pending setTimeout(initializeInfluxDB)
  restarts,           \* pending 60 s timers that reset the attempts
  writeBuffer,        \* points inside a WriteApi: [id, at]
  stored              \* rows InfluxDB returns to queries: [id, at]

connectionVars == <<connected, influxClient, isWriteInProgress,
                    reconnectAttempts, reconnects, restarts>>
metricsVars == <<connectionVars, connectionQueue, writeBuffer, stored>>

\* The constructor arms the first connection attempt, 3 s ahead.
MetricsInit ==
  /\ connected = FALSE /\ influxClient = FALSE
  /\ connectionQueue = <<>>
  /\ isWriteInProgress = FALSE
  /\ reconnectAttempts = 0 /\ reconnects = 1 /\ restarts = 0
  /\ writeBuffer = {} /\ stored = {}

-----------------------------------------------------------------------------
\* mutant: no limit on the attempts
ScheduleReconnectForever(attempts, pending, pauses) ==
  /\ reconnectAttempts' = attempts + 1
  /\ reconnects' = pending + 1
  /\ restarts' = pauses

\* scheduleReconnect(), called with `pending` connection timers outstanding
\* and `pauses` 60 s timers outstanding.
ScheduleReconnect(attempts, pending, pauses) ==
  IF attempts < MAX_RECONNECT_ATTEMPTS
  THEN /\ reconnectAttempts' = attempts + 1
       /\ reconnects' = pending + 1
       /\ restarts' = pauses
  ELSE /\ reconnectAttempts' = attempts
       /\ reconnects' = pending
       /\ restarts' = pauses + 1

Stamped(points) == {[id |-> points[i], at |-> now] : i \in DOMAIN points}

\* The timer fires and the client can be built.  "Connected" only means that:
\* nothing has been sent yet.  processQueue() hands over the queued points; if
\* writePoint throws at one of them, the queue is kept whole.
InitializeInfluxDB ==
  /\ reconnects > 0
  /\ connected' = TRUE /\ influxClient' = TRUE
  /\ reconnectAttempts' = 0 /\ reconnects' = reconnects - 1
  /\ \/ /\ writeBuffer' = writeBuffer \cup Stamped(connectionQueue)
        /\ connectionQueue' = <<>>
     \/ \E k \in 0 .. (Len(connectionQueue) - 1) :
          /\ writeBuffer' = writeBuffer \cup Stamped(SubSeq(connectionQueue, 1, k))
          /\ UNCHANGED connectionQueue
  /\ UNCHANGED <<isWriteInProgress, restarts, stored>>

\* The timer fires and building the client throws: handleConnectionError().
InitializeInfluxDBFails ==
  /\ reconnects > 0
  /\ connected' = FALSE
  /\ ScheduleReconnect(reconnectAttempts, reconnects - 1, restarts)
  /\ UNCHANGED <<influxClient, connectionQueue, isWriteInProgress, writeBuffer, stored>>

\* After MAX_RECONNECT_ATTEMPTS failures: start over a minute later.
RestartReconnect ==
  /\ restarts > 0
  /\ ScheduleReconnect(0, reconnects, restarts - 1)
  /\ UNCHANGED <<connected, influxClient, connectionQueue, isWriteInProgress,
                 writeBuffer, stored>>

FlushMetrics ==
  /\ influxClient /\ connected /\ ~isWriteInProgress
  /\ isWriteInProgress' = TRUE
  /\ UNCHANGED <<connected, influxClient, reconnectAttempts, reconnects, restarts,
                 connectionQueue, writeBuffer, stored>>

\* flush() resolved, or rejected with an error that is not a connection error.
FlushDone ==
  /\ isWriteInProgress
  /\ isWriteInProgress' = FALSE
  /\ UNCHANGED <<connected, influxClient, reconnectAttempts, reconnects, restarts,
                 connectionQueue, writeBuffer, stored>>

\* mutant: the failed flush only marks the writer disconnected
FlushConnectionErrorNoRetry ==
  /\ isWriteInProgress
  /\ isWriteInProgress' = FALSE
  /\ connected' = FALSE
  /\ UNCHANGED <<reconnectAttempts, reconnects, restarts, influxClient,
                 connectionQueue, writeBuffer, stored>>

FlushConnectionError ==
  /\ isWriteInProgress
  /\ reconnects + restarts < MaxPending
  /\ isWriteInProgress' = FALSE
  /\ connected' = FALSE
  /\ ScheduleReconnect(reconnectAttempts, reconnects, restarts)
  /\ UNCHANGED <<influxClient, connectionQueue, writeBuffer, stored>>

\* A point over the limit is dropped: the newest goes, not the oldest.
QueuePoint(p) ==
  connectionQueue' = IF Len(connectionQueue) < MAX_QUEUE_SIZE
                     THEN Append(connectionQueue, p)
                     ELSE connectionQueue

\* writePoint(): queue when disconnected; otherwise hand over, and on a thrown
\* connection error queue and reconnect (any other error drops the point).
WritePoint(p) ==
  \/ /\ ~connected
     /\ QueuePoint(p)
     /\ UNCHANGED <<connectionVars, writeBuffer>>
  \/ /\ connected
     /\ writeBuffer' = writeBuffer \cup Stamped(<<p>>)
     /\ UNCHANGED <<connectionVars, connectionQueue>>
  \/ /\ connected /\ reconnects + restarts < MaxPending
     /\ connected' = FALSE
     /\ QueuePoint(p)
     /\ ScheduleReconnect(reconnectAttempts, reconnects, restarts)
     /\ UNCHANGED <<influxClient, isWriteInProgress, writeBuffer>>
  \/ /\ connected
     /\ UNCHANGED <<connectionVars, connectionQueue, writeBuffer>>

\* The external WriteApi sends a buffered point, or gives up on it.
Store(w) ==
  /\ writeBuffer' = writeBuffer \ {w}
  /\ stored' \in {stored, stored \cup {w}}
  /\ UNCHANGED <<connectionVars, connectionQueue>>

MetricsNext ==
  \/ InitializeInfluxDB \/ InitializeInfluxDBFails \/ RestartReconnect
  \/ FlushMetrics \/ FlushDone \/ FlushConnectionError
  \/ \E w \in writeBuffer : Store(w)

-----------------------------------------------------------------------------
ConnectionTypeOK ==
  /\ connected \in BOOLEAN /\ influxClient \in BOOLEAN /\ isWriteInProgress \in BOOLEAN
  /\ reconnectAttempts \in 0 .. MAX_RECONNECT_ATTEMPTS
  /\ reconnects \in Nat /\ restarts \in Nat

\* However flushes, writes and failing connection attempts interleave, a
\* disconnected writer always has a timer pending that will try again: it is
\* never stranded with points piling up until the queue drops them.
NeverStranded == ~connected => reconnects + restarts > 0
=============================================================================
