---------------------------- MODULE HistoryIngest ----------------------------
(***************************************************************************)
(* The ingestion of request records: callers offer events to a bounded     *)
(* channel and never wait, one thread drains the channel in batches and    *)
(* hands each batch to the database, and a flush is answered when the      *)
(* thread reaches it.  The counters are atomics beside the channel, so the *)
(* steps on them are steps of their own.                                   *)
(***************************************************************************)
EXTENDS Naturals, Sequences, FiniteSets, Functions

CONSTANTS
  Recorder,       \* tasks that record outcomes or flush
  Event,          \* request records, by event id
  Malformed,      \* the events validate_event refuses
  QueueCapacity,  \* the channel's bound
  BatchSize       \* events per transaction

ASSUME RecorderAssumption == IsFiniteSet(Recorder)
ASSUME CapacityAssumption == QueueCapacity \in Nat /\ BatchSize \in Nat \ {0}

VARIABLES
  queue,     \* the sync_channel: events and flushes
  depth,     \* health.queue_depth
  recorder,  \* each task: what it is doing and with which event
  ingest,    \* the ingest thread: phase, batch, flushes
  opened,    \* whether the database is open (worker_store is set)
  rows,      \* the events in usage_events
  fate,      \* history: what became of an event that left the channel
  barrier    \* history: the events a flush was sent after

ingestVars ==
  <<queue, depth, recorder, ingest, opened, rows, fate, barrier>>

IngestCommand ==
  [kind : {"event"}, event : Event] \cup [kind : {"flush"}, task : Recorder]

Resting == [phase |-> "idle"]

\* Whether the database opens at start is up to the file system.
IngestInit ==
  /\ queue = <<>> /\ depth = 0 /\ rows = {} /\ fate = << >> /\ barrier = << >>
  /\ recorder = [t \in Recorder |-> Resting]
  /\ ingest = [phase |-> "recv", batch |-> <<>>, flushes |-> {}]
  /\ opened \in BOOLEAN

QueuedEvents == {c.event : c \in {d \in Range(queue) : d.kind = "event"}}

Offered ==
  DOMAIN fate \cup QueuedEvents \cup Range(ingest.batch)
    \cup {recorder[t].event : t \in {u \in Recorder : recorder[u].phase = "reserved"}}

----------------------------------------------------------------------------
(* Callers. *)

\* The depth is counted before the event is visible to the thread.
MutReserve(t, e) ==
  /\ recorder[t] = Resting /\ e \notin Offered
  /\ recorder' = [recorder EXCEPT ![t] = [phase |-> "reserved", event |-> e]]
  /\ UNCHANGED <<queue, depth, ingest, opened, rows, fate, barrier>>

Reserve(t, e) ==
  /\ recorder[t] = Resting /\ e \notin Offered
  /\ depth' = depth + 1
  /\ recorder' = [recorder EXCEPT ![t] = [phase |-> "reserved", event |-> e]]
  /\ UNCHANGED <<queue, ingest, opened, rows, fate, barrier>>

MutEnqueue(t) ==
  /\ recorder[t].phase = "reserved" /\ Len(queue) <= QueueCapacity
  /\ recorder' = [recorder EXCEPT ![t] = Resting]
  /\ queue' = Append(queue, [kind |-> "event", event |-> recorder[t].event])
  /\ UNCHANGED <<depth, ingest, opened, rows, fate, barrier>>

\* try_send: a full channel costs the event, never the caller's time.
Enqueue(t) ==
  /\ recorder[t].phase = "reserved"
  /\ recorder' = [recorder EXCEPT ![t] = Resting]
  /\ \/ /\ Len(queue) < QueueCapacity
        /\ queue' = Append(queue, [kind |-> "event", event |-> recorder[t].event])
        /\ UNCHANGED <<depth, fate>>
     \/ /\ Len(queue) >= QueueCapacity
        /\ depth' = depth - 1
        /\ fate' = [e \in DOMAIN fate \cup {recorder[t].event} |->
                      IF e = recorder[t].event THEN "dropped" ELSE fate[e]]
        /\ UNCHANGED queue
  /\ UNCHANGED <<ingest, opened, rows, barrier>>

\* A flush waits for room in the channel, and then for its answer.
Flush(t) ==
  /\ recorder[t] = Resting /\ Len(queue) < QueueCapacity
  /\ queue' = Append(queue, [kind |-> "flush", task |-> t])
  /\ recorder' = [recorder EXCEPT ![t] = [phase |-> "flushing"]]
  /\ barrier' = [u \in DOMAIN barrier \cup {t} |->
                   IF u = t THEN QueuedEvents \cup Range(ingest.batch) ELSE barrier[u]]
  /\ UNCHANGED <<depth, ingest, opened, rows, fate>>

----------------------------------------------------------------------------
(* The ingest thread. *)

Take ==
  LET c == Head(queue)
  IN  /\ queue' = Tail(queue)
      /\ ingest' = IF c.kind = "event"
                   THEN [ingest EXCEPT !.phase = "drain", !.batch = Append(@, c.event)]
                   ELSE [ingest EXCEPT !.phase = IF ingest.phase = "recv" THEN "drain" ELSE "count",
                                       !.flushes = @ \cup {c.task}]

\* recv, and then try_recv until the batch is full, a flush has been taken
\* behind it, or the channel is empty.
Receive ==
  /\ queue # <<>>
  /\ ingest.phase = "recv" \/ (ingest.phase = "drain" /\ Len(ingest.batch) < BatchSize)
  /\ Take
  /\ UNCHANGED <<depth, recorder, opened, rows, fate, barrier>>

Drained ==
  /\ ingest.phase = "drain"
  /\ queue = <<>> \/ Len(ingest.batch) >= BatchSize
  /\ ingest' = [ingest EXCEPT !.phase = "count"]
  /\ UNCHANGED <<queue, depth, recorder, opened, rows, fate, barrier>>

\* The replies go out before the batch is written.
MutCount ==
  /\ ingest.phase = "count"
  /\ depth' = depth - Len(ingest.batch)
  /\ ingest' = [ingest EXCEPT !.phase = "open", !.flushes = {}]
  /\ recorder' = [t \in Recorder |-> IF t \in ingest.flushes THEN Resting ELSE recorder[t]]
  /\ barrier' = [t \in DOMAIN barrier \ ingest.flushes |-> barrier[t]]
  /\ UNCHANGED <<queue, opened, rows, fate>>

\* The whole batch leaves the depth before it is written.
Count ==
  /\ ingest.phase = "count"
  /\ depth' = depth - Len(ingest.batch)
  /\ ingest' = [ingest EXCEPT !.phase = "open"]
  /\ UNCHANGED <<queue, recorder, opened, rows, fate, barrier>>

Answer(flushes) ==
  /\ ingest' = [phase |-> "recv", batch |-> <<>>, flushes |-> {}]
  /\ recorder' = [t \in Recorder |-> IF t \in flushes THEN Resting ELSE recorder[t]]
  /\ barrier' = [t \in DOMAIN barrier \ flushes |-> barrier[t]]

Settle(outcome) ==
  fate' = [e \in DOMAIN fate \cup Range(ingest.batch) |->
             IF e \in Range(ingest.batch) THEN outcome[e] ELSE fate[e]]

MutOpenFails ==
  /\ ingest.phase = "open" /\ ~opened
  /\ Settle([e \in Range(ingest.batch) |-> "dropped"])
  /\ ingest' = [phase |-> "recv", batch |-> <<>>, flushes |-> {}]
  /\ UNCHANGED <<queue, depth, recorder, barrier, opened, rows>>

\* A database that failed to open is tried again with every batch; the batch
\* of a failed attempt is dropped.
OpenFails ==
  /\ ingest.phase = "open" /\ ~opened
  /\ Settle([e \in Range(ingest.batch) |-> "dropped"])
  /\ Answer(ingest.flushes)
  /\ UNCHANGED <<queue, depth, opened, rows>>

\* insert_batch itself refuses a batch with a malformed event in it.
MutAccepted(batch) ==
  IF \E e \in Range(batch) : e \in Malformed THEN {} ELSE Range(batch)

\* insert_batch_skipping_invalid
Accepted(batch) == Range(batch) \ Malformed

\* The batch is one transaction: it commits or fails as a whole.
InsertBatch(commits) ==
  /\ ingest.phase = "open"
  /\ opened' = TRUE
  /\ rows' = IF commits THEN rows \cup Accepted(ingest.batch) ELSE rows
  /\ Settle([e \in Range(ingest.batch) |->
               IF e \notin Accepted(ingest.batch) THEN "rejected"
               ELSE IF commits THEN "written" ELSE "failed"])
  /\ Answer(ingest.flushes)
  /\ UNCHANGED <<queue, depth>>

IngestNext ==
  \/ \E t \in Recorder : \/ \E e \in Event : Reserve(t, e)
                         \/ Enqueue(t) \/ Flush(t)
  \/ Receive \/ Drained \/ Count \/ OpenFails
  \/ \E commits \in BOOLEAN : InsertBatch(commits)

\* The thread runs whenever it is not blocked on an empty channel.
IngestThread == Receive \/ Drained \/ Count \/ OpenFails \/ \E c \in BOOLEAN : InsertBatch(c)
IngestFairness == WF_ingestVars(IngestThread)

IngestSpec == IngestInit /\ [][IngestNext]_ingestVars

----------------------------------------------------------------------------

RecorderStates ==
  {Resting} \cup [phase : {"reserved"}, event : Event] \cup [phase : {"flushing"}]

ThreadStates ==
  [phase : {"recv", "drain", "count", "open"}, batch : Seq(Event), flushes : SUBSET Recorder]

\* The channel and the batch keep to their bounds, and the counter of the depth
\* never goes below zero.
IngestTypeOK ==
  /\ queue \in Seq(IngestCommand) /\ Len(queue) <= QueueCapacity
  /\ depth \in Nat
  /\ recorder \in [Recorder -> RecorderStates]
  /\ ingest \in ThreadStates /\ Len(ingest.batch) <= BatchSize
  /\ opened \in BOOLEAN
  /\ rows \subseteq Event /\ DOMAIN fate \subseteq Event
  /\ DOMAIN barrier \subseteq Recorder

\* The depth the console shows is exactly the events that are reserved, in the
\* channel or in the thread's hands.  It is an unsigned atomic: were an event
\* visible before it is counted, the thread's fetch_sub would wrap it.
DepthIsExact ==
  depth = Cardinality({t \in Recorder : recorder[t].phase = "reserved"})
          + Cardinality(QueuedEvents)
          + (IF ingest.phase = "open" THEN 0 ELSE Len(ingest.batch))

\* A flush is a barrier: when it is answered, every event that was in the
\* channel or in the thread's hands when it was sent has met its fate.
FlushSettlesEarlier ==
  [][\A t \in DOMAIN barrier \ DOMAIN barrier' :
       barrier[t] \subseteq DOMAIN fate']_ingestVars

\* One malformed event costs only itself: a well-formed event is lost to a full
\* channel or to the database, never to its neighbours in the batch.
MalformedCostsItself ==
  \A e \in DOMAIN fate : fate[e] = "rejected" => e \in Malformed

\* The two together: what the console is told of the channel, and what leaves it.
QueueIsFaithful == DepthIsExact /\ MalformedCostsItself

\* Every flush returns, because the thread keeps draining whatever the database does.
FlushReturns ==
  \A t \in Recorder : recorder[t].phase = "flushing" ~> recorder[t].phase # "flushing"
=============================================================================
