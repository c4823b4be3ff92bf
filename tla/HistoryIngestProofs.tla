------------------------ MODULE HistoryIngestProofs -------------------------
(***************************************************************************)
(* The ingestion of request records for any number of callers, events and  *)
(* sizes of channel and batch: the depth is exact, a malformed event costs *)
(* only itself, and a flush is a barrier.                                  *)
(***************************************************************************)
EXTENDS HistoryIngest, FiniteSetTheorems, SequenceTheorems, TLAPS

EventOf(e) == [kind |-> "event", event |-> e]

FlushOf(t) == [kind |-> "flush", task |-> t]

Places == 1 .. Len(queue)

\* Nothing is twice on its way: not in the channel, not in the hands of two
\* callers, not in the channel and in the hands of a caller.
OnceInv ==
  /\ \A i, j \in Places : queue[i] = queue[j] => i = j
  /\ \A t \in Recorder : recorder[t].phase = "reserved" =>
       /\ \A i \in Places : queue[i] # EventOf(recorder[t].event)
       /\ \A u \in Recorder :
            recorder[u].phase = "reserved" /\ recorder[u].event = recorder[t].event => u = t

\* The events that have met their fate or will with the batch at hand.
Done == DOMAIN fate \cup Range(ingest.batch)

\* Each flush that was sent has a caller that waits, and is either in the channel,
\* behind the events it was sent after, or in the thread's hands with them.
BarrierInv ==
  /\ \A t \in ingest.flushes :
       recorder[t].phase = "flushing" /\ t \in DOMAIN barrier /\ barrier[t] \subseteq Done
  /\ \A t \in Recorder, i \in Places : queue[i] = FlushOf(t) =>
       /\ recorder[t].phase = "flushing" /\ t \notin ingest.flushes /\ t \in DOMAIN barrier
       /\ \A e \in barrier[t] : e \in Done \/ \E j \in 1 .. (i - 1) : queue[j] = EventOf(e)

IngestInv ==
  /\ IngestTypeOK /\ OnceInv /\ BarrierInv
  /\ ingest.phase = "recv" => ingest.batch = <<>>
  /\ IsFiniteSet(QueuedEvents) /\ DepthIsExact /\ MalformedCostsItself

-----------------------------------------------------------------------------
\* The channel

\* A command is an event or a flush.
LEMMA CommandShapes ==
    /\ \A c \in IngestCommand :
         \/ c.kind = "event" /\ c.event \in Event /\ c = EventOf(c.event)
         \/ c.kind = "flush" /\ c.task \in Recorder /\ c = FlushOf(c.task)
    /\ \A e \in Event : EventOf(e) \in IngestCommand /\ EventOf(e).kind = "event" /\ EventOf(e).event = e
    /\ \A t \in Recorder : FlushOf(t) \in IngestCommand /\ FlushOf(t).kind = "flush" /\ FlushOf(t).task = t
BY DEF IngestCommand, EventOf, FlushOf

\* The events in a channel are those at its places.
LEMMA QueuedAre ==
    ASSUME NEW q \in Seq(IngestCommand)
    PROVE  {c.event : c \in {d \in Range(q) : d.kind = "event"}}
             = {e \in Event : \E i \in 1 .. Len(q) : q[i] = EventOf(e)}
<1> DEFINE S == {c.event : c \in {d \in Range(q) : d.kind = "event"}}
<1>1. Range(q) = {q[i] : i \in 1 .. Len(q)} /\ \A i \in 1 .. Len(q) : q[i] \in IngestCommand
  BY LenProperties, Zenon DEF Range
<1>2. ASSUME NEW e \in S PROVE e \in Event /\ \E i \in 1 .. Len(q) : q[i] = EventOf(e)
  BY <1>1, <1>2, CommandShapes
<1>3. ASSUME NEW e \in Event, NEW i \in 1 .. Len(q), q[i] = EventOf(e) PROVE e \in S
  BY <1>1, <1>3, CommandShapes
<1> QED
  BY <1>2, <1>3, Zenon

\* A command that is sent goes to the end of the channel.
LEMMA Sent ==
    ASSUME queue \in Seq(IngestCommand), NEW c \in IngestCommand, queue' = Append(queue, c)
    PROVE  /\ queue' \in Seq(IngestCommand) /\ Len(queue) \in Nat /\ Len(queue') = Len(queue) + 1
           /\ \A i \in Places : queue'[i] = queue[i]
           /\ queue'[Len(queue) + 1] = c
           /\ Places' = Places \cup {Len(queue) + 1}
           /\ QueuedEvents' = {e \in Event : e \in QueuedEvents \/ c = EventOf(e)}
<1>1. /\ queue' \in Seq(IngestCommand) /\ Len(queue) \in Nat /\ Len(queue') = Len(queue) + 1
      /\ \A i \in Places : queue'[i] = queue[i]
      /\ queue'[Len(queue) + 1] = c
  BY AppendProperties, LenProperties DEF Places
<1>2. Places' = Places \cup {Len(queue) + 1}
  BY <1>1 DEF Places
<1>3. QueuedEvents' = {e \in Event : \E i \in Places' : queue'[i] = EventOf(e)}
  BY <1>1, QueuedAre, Zenon DEF QueuedEvents, Places
<1>4. QueuedEvents = {e \in Event : \E i \in Places : queue[i] = EventOf(e)}
  BY QueuedAre, Zenon DEF QueuedEvents, Places
<1> QED
  BY <1>1, <1>2, <1>3, <1>4, Zenon

\* The command that is received comes from the front.
LEMMA Received ==
    ASSUME queue \in Seq(IngestCommand), queue # <<>>, queue' = Tail(queue),
           \A i, j \in Places : queue[i] = queue[j] => i = j
    PROVE  /\ queue' \in Seq(IngestCommand) /\ Len(queue) \in Nat /\ Len(queue') = Len(queue) - 1
           /\ 1 \in Places /\ Head(queue) = queue[1] /\ Head(queue) \in IngestCommand
           /\ \A i \in Places' : i + 1 \in Places /\ queue'[i] = queue[i + 1]
           /\ \A i \in Places \ {1} : i - 1 \in Places' /\ queue'[i - 1] = queue[i]
           /\ QueuedEvents' = {e \in QueuedEvents : EventOf(e) # Head(queue)}
<1>1. /\ queue' \in Seq(IngestCommand) /\ Len(queue) \in Nat \ {0} /\ Len(queue') = Len(queue) - 1
      /\ \A i \in 1 .. Len(queue') : queue'[i] = queue[i + 1]
      /\ Head(queue) \in IngestCommand
  BY HeadTailProperties, EmptySeq, Zenon
<1>2. 1 \in Places /\ Head(queue) = queue[1]
  BY <1>1 DEF Places
<1>3. \A i \in Places' : i + 1 \in Places /\ queue'[i] = queue[i + 1]
  BY <1>1 DEF Places
<1>4. \A i \in Places \ {1} : i - 1 \in Places' /\ queue'[i - 1] = queue[i]
  BY <1>1 DEF Places
<1>5. QueuedEvents' = {e \in Event : \E i \in Places' : queue'[i] = EventOf(e)}
  BY <1>1, QueuedAre, Zenon DEF QueuedEvents, Places
<1>0. QueuedEvents = {e \in Event : \E i \in Places : queue[i] = EventOf(e)}
  BY QueuedAre, Zenon DEF QueuedEvents, Places
<1>6. \A i \in Places' : i + 1 # 1
  BY <1>1 DEF Places
<1>7. ASSUME NEW e \in QueuedEvents' PROVE e \in QueuedEvents /\ EventOf(e) # Head(queue)
  <2>1. PICK i \in Places' : queue'[i] = EventOf(e)
    BY <1>5, Zenon
  <2>2. i + 1 \in Places /\ queue[i + 1] = EventOf(e) /\ i + 1 # 1 /\ e \in Event
    BY <1>3, <1>5, <1>6, <2>1, Zenon
  <2>3. e \in QueuedEvents
    BY <1>0, <2>2, Zenon
  <2>4. queue[i + 1] # queue[1]
    BY <1>2, <2>2, Zenon
  <2> QED
    BY <1>2, <2>2, <2>3, <2>4, Zenon
<1>8. ASSUME NEW e \in QueuedEvents, EventOf(e) # Head(queue) PROVE e \in QueuedEvents'
  <2>1. PICK i \in Places : queue[i] = EventOf(e)
    BY <1>0, Zenon
  <2>2. i \in Places \ {1}
    BY <1>2, <1>8, <2>1, Zenon
  <2>3. i - 1 \in Places' /\ queue'[i - 1] = EventOf(e) /\ e \in Event
    BY <1>0, <1>4, <2>1, <2>2, Zenon
  <2> QED
    BY <1>5, <2>3, Zenon
<1> QED
  BY <1>1, <1>2, <1>3, <1>4, <1>7, <1>8, Zenon

\* The range of a sequence that grows at its end.
LEMMA RangeAppend ==
    ASSUME NEW S, NEW q \in Seq(S), NEW x \in S
    PROVE  Range(Append(q, x)) = Range(q) \cup {x}
<1>1. /\ DOMAIN q = 1 .. Len(q) /\ Len(q) \in Nat
      /\ DOMAIN Append(q, x) = 1 .. (Len(q) + 1)
      /\ \A i \in 1 .. Len(q) : Append(q, x)[i] = q[i]
      /\ Append(q, x)[Len(q) + 1] = x
  BY AppendProperties, LenProperties
<1> QED
  BY <1>1 DEF Range

-----------------------------------------------------------------------------
\* The inductive invariant

Reserved == {t \in Recorder : recorder[t].phase = "reserved"}

InHand == IF ingest.phase = "open" THEN 0 ELSE Len(ingest.batch)

\* The depth in the terms of the proofs, all of them natural numbers.
LEMMA DepthIs ==
    ASSUME IngestInv
    PROVE  /\ depth = Cardinality(Reserved) + Cardinality(QueuedEvents) + InHand
           /\ IsFiniteSet(Reserved) /\ Cardinality(Reserved) \in Nat
           /\ Cardinality(QueuedEvents) \in Nat /\ InHand \in Nat
<1>1. IsFiniteSet(Reserved)
  BY RecorderAssumption, FS_Subset, Zenon DEF Reserved
<1>2. Cardinality(Reserved) \in Nat /\ Cardinality(QueuedEvents) \in Nat
  BY <1>1, FS_CardinalityType, Zenon DEF IngestInv
<1>3. Len(ingest.batch) \in Nat
  BY LenProperties, Zenon DEF IngestInv, IngestTypeOK, ThreadStates
<1> QED
  BY <1>1, <1>2, <1>3, Zenon DEF IngestInv, DepthIsExact, Reserved, InHand

\* The states of a caller.
LEMMA RecorderShapes ==
    /\ Resting \in RecorderStates /\ Resting.phase = "idle"
    /\ \A e \in Event : LET r == [phase |-> "reserved", event |-> e]
                        IN  r \in RecorderStates /\ r.phase = "reserved" /\ r.event = e
    /\ [phase |-> "flushing"] \in RecorderStates /\ [phase |-> "flushing"].phase = "flushing"
    /\ \A r \in RecorderStates : r.phase = "reserved" => r.event \in Event
BY DEF RecorderStates, Resting

\* An empty channel and a thread that waits for it.
LEMMA InitIngest == IngestInit => IngestInv
<1> SUFFICES ASSUME IngestInit PROVE IngestInv
  BY Zenon
<1>1. /\ Len(queue) = 0 /\ queue \in Seq(IngestCommand) /\ Places = {}
      /\ <<>> \in Seq(Event) /\ Len(<<>>) = 0
  BY EmptySeq DEF IngestInit, Places
<1>2. /\ ingest \in ThreadStates /\ ingest.batch = <<>> /\ ingest.flushes = {}
      /\ ingest.phase = "recv"
  BY <1>1, Zenon DEF IngestInit, ThreadStates
<1>3. recorder \in [Recorder -> RecorderStates] /\ \A t \in Recorder : recorder[t].phase = "idle"
  BY RecorderShapes, Zenon DEF IngestInit
<1>4. DOMAIN fate = {} /\ DOMAIN barrier = {}
  BY DEF IngestInit
<1>5. IngestTypeOK
  BY <1>1, <1>2, <1>3, <1>4, CapacityAssumption DEF IngestInit, IngestTypeOK
<1>6. OnceInv /\ BarrierInv /\ MalformedCostsItself
  BY <1>1, <1>2, <1>3, <1>4, Zenon DEF OnceInv, BarrierInv, MalformedCostsItself
<1>7. QueuedEvents = {}
  BY <1>1, QueuedAre, Zenon DEF QueuedEvents, Places
<1>8. IsFiniteSet(QueuedEvents) /\ DepthIsExact
  <2>1. {t \in Recorder : recorder[t].phase = "reserved"} = {}
    BY <1>3, Zenon
  <2>2. Cardinality({}) = 0 /\ IsFiniteSet({})
    BY FS_EmptySet, Zenon
  <2>3. depth = 0 /\ Len(ingest.batch) = 0
    BY <1>1, <1>2, Zenon DEF IngestInit
  <2>4. Cardinality({t \in Recorder : recorder[t].phase = "reserved"}) = 0
    BY <2>1, <2>2, Zenon
  <2>5. Cardinality(QueuedEvents) = 0 /\ IsFiniteSet(QueuedEvents)
    BY <1>7, <2>2, Zenon
  <2> QED
    BY <2>3, <2>4, <2>5 DEF DepthIsExact
<1> QED
  BY <1>2, <1>5, <1>6, <1>8, Zenon DEF IngestInv

\* fetch_add before try_send: the event is counted and in nobody else's hands.
LEMMA ReserveKeeps ==
    ASSUME IngestInv, NEW t \in Recorder, NEW e \in Event, Reserve(t, e)
    PROVE  IngestInv'
<1> DEFINE r == [phase |-> "reserved", event |-> e]
<1>1. /\ recorder[t] = Resting /\ e \notin Offered /\ depth' = depth + 1
      /\ recorder' = [recorder EXCEPT ![t] = r]
      /\ UNCHANGED <<queue, ingest, opened, rows, fate, barrier>>
  BY Zenon DEF Reserve
<1>2. /\ r \in RecorderStates /\ r.phase = "reserved" /\ r.event = e
      /\ recorder \in [Recorder -> RecorderStates] /\ recorder[t].phase = "idle"
  BY <1>1, RecorderShapes, Zenon DEF IngestInv, IngestTypeOK
<1> HIDE DEF r
<1>3. /\ recorder' \in [Recorder -> RecorderStates] /\ recorder'[t] = r
      /\ \A u \in Recorder \ {t} : recorder'[u] = recorder[u]
  BY <1>1, <1>2, Zenon
<1>4. IngestTypeOK' /\ MalformedCostsItself'
  BY <1>1, <1>3 DEF IngestInv, IngestTypeOK, MalformedCostsItself
<1>5. /\ \A u \in Reserved : recorder[u].event # e
      /\ \A i \in Places : queue[i] # EventOf(e)
  <2>1. \A u \in Reserved : recorder[u].event # e
    BY <1>1, Zenon DEF Offered, Reserved
  <2>2. e \notin QueuedEvents
    BY <1>1, Zenon DEF Offered
  <2>3. QueuedEvents = {x \in Event : \E i \in Places : queue[i] = EventOf(x)}
    BY QueuedAre, Zenon DEF QueuedEvents, Places, IngestInv, IngestTypeOK
  <2> QED
    BY <2>1, <2>2, <2>3, Zenon
<1>6. Places' = Places /\ QueuedEvents' = QueuedEvents /\ InHand' = InHand /\ Done' = Done
  BY <1>1, Zenon DEF Places, QueuedEvents, InHand, Done
<1>7. OnceInv'
  BY <1>1, <1>2, <1>3, <1>5, <1>6 DEF IngestInv, OnceInv, Reserved
<1>8. BarrierInv'
  BY <1>1, <1>2, <1>3, <1>6 DEF IngestInv, BarrierInv, IngestTypeOK, ThreadStates
<1>9. Reserved' = Reserved \cup {t} /\ t \notin Reserved
  BY <1>2, <1>3, Zenon DEF Reserved
<1>10. depth' = Cardinality(Reserved') + Cardinality(QueuedEvents') + InHand'
  <2>1. Cardinality(Reserved') = Cardinality(Reserved) + 1
    BY <1>9, DepthIs, FS_AddElement, Zenon
  <2> QED
    BY <1>1, <1>6, <2>1, DepthIs
<1> QED
  BY <1>1, <1>4, <1>6, <1>7, <1>8, <1>10, Zenon DEF IngestInv, DepthIsExact, Reserved, InHand

\* try_send: the event moves from its caller into the channel, or is dropped and
\* leaves the depth.
LEMMA EnqueueKeeps ==
    ASSUME IngestInv, NEW t \in Recorder, Enqueue(t)
    PROVE  IngestInv'
<1> DEFINE e == recorder[t].event
<1>1. /\ t \in Reserved /\ recorder' = [recorder EXCEPT ![t] = Resting]
      /\ UNCHANGED <<ingest, opened, rows, barrier>>
  BY Zenon DEF Enqueue, Reserved
<1>2. recorder \in [Recorder -> RecorderStates] /\ e \in Event /\ EventOf(e) \in IngestCommand
  BY <1>1, RecorderShapes, CommandShapes, Zenon DEF IngestInv, IngestTypeOK, Reserved
<1>3. /\ recorder' \in [Recorder -> RecorderStates] /\ recorder'[t].phase = "idle"
      /\ \A u \in Recorder \ {t} : recorder'[u] = recorder[u]
  BY <1>1, <1>2, RecorderShapes, Zenon
<1>4. Reserved' = Reserved \ {t} /\ Cardinality(Reserved') = Cardinality(Reserved) - 1
  <2>1. Reserved' = Reserved \ {t}
    BY <1>3, Zenon DEF Reserved
  <2> QED
    BY <1>1, <2>1, DepthIs, FS_RemoveElement, Zenon
<1>5. InHand' = InHand
  BY <1>1, Zenon DEF InHand
<1>6. ASSUME NEW u \in Recorder, recorder[u].phase = "flushing"
      PROVE  recorder'[u].phase = "flushing"
  BY <1>1, <1>3, <1>6, Zenon DEF Reserved
<1>7. /\ \A i \in Places : queue[i] # EventOf(e)
      /\ \A u \in Reserved \ {t} : recorder[u].event # e
  BY <1>1, Zenon DEF IngestInv, OnceInv, Reserved
<1>8. queue \in Seq(IngestCommand)
  BY Zenon DEF IngestInv, IngestTypeOK
<1>9. CASE Len(queue) < QueueCapacity
  <2>1. queue' = Append(queue, EventOf(e)) /\ UNCHANGED <<depth, fate>>
    <3>1. ~(Len(queue) >= QueueCapacity)
      BY <1>8, <1>9, LenProperties, CapacityAssumption
    <3> QED
      BY <3>1, Zenon DEF Enqueue, EventOf
  <2>2. /\ queue' \in Seq(IngestCommand) /\ Len(queue) \in Nat /\ Len(queue') = Len(queue) + 1
        /\ \A i \in Places : queue'[i] = queue[i]
        /\ queue'[Len(queue) + 1] = EventOf(e)
        /\ Places' = Places \cup {Len(queue) + 1}
        /\ QueuedEvents' = {x \in Event : x \in QueuedEvents \/ EventOf(e) = EventOf(x)}
    BY <1>2, <1>8, <2>1, Sent, Zenon
  <2>3. QueuedEvents' = QueuedEvents \cup {e} /\ e \notin QueuedEvents
    <3>1. QueuedEvents = {x \in Event : \E i \in Places : queue[i] = EventOf(x)}
      BY <1>8, QueuedAre, Zenon DEF QueuedEvents, Places
    <3>2. \A x \in Event : EventOf(e) = EventOf(x) => x = e
      BY <1>2, CommandShapes
    <3> HIDE DEF e
    <3> QED
      BY <1>2, <1>7, <2>2, <3>1, <3>2, Zenon
  <2>4. IngestTypeOK' /\ MalformedCostsItself'
    BY <1>1, <1>3, <1>9, <2>1, <2>2, CapacityAssumption
    DEF IngestInv, IngestTypeOK, MalformedCostsItself
  <2>5. OnceInv'
    <3>1. ASSUME NEW i \in Places', NEW j \in Places', queue'[i] = queue'[j] PROVE i = j
      BY <1>7, <2>2, <3>1 DEF IngestInv, OnceInv
    <3>2. ASSUME NEW u \in Reserved', NEW i \in Places' PROVE queue'[i] # EventOf(recorder'[u].event)
      <4>1. u \in Reserved \ {t} /\ recorder'[u] = recorder[u] /\ recorder[u].event \in Event
        BY <1>2, <1>3, <1>4, RecorderShapes, Zenon DEF Reserved
      <4>2. EventOf(recorder[u].event) # EventOf(e)
        BY <1>2, <1>7, <4>1, CommandShapes
      <4> QED
        BY <2>2, <4>1, <4>2 DEF IngestInv, OnceInv, Reserved
    <3>3. ASSUME NEW u \in Reserved', NEW v \in Reserved', recorder'[v].event = recorder'[u].event
          PROVE  v = u
      BY <1>3, <1>4, <3>3 DEF IngestInv, OnceInv, Reserved
    <3> QED
      BY <3>1, <3>2, <3>3, Zenon DEF OnceInv, Reserved
  <2>6. BarrierInv'
    <3>1. Done' = Done
      BY <1>1, <2>1, Zenon DEF Done
    <3>2. ASSUME NEW u \in ingest'.flushes
          PROVE  recorder'[u].phase = "flushing" /\ u \in DOMAIN barrier' /\ barrier'[u] \subseteq Done'
      BY <1>1, <1>6, <3>1, <3>2, Zenon DEF IngestInv, BarrierInv, IngestTypeOK, ThreadStates
    <3>3. ASSUME NEW u \in Recorder, NEW i \in Places', queue'[i] = FlushOf(u)
          PROVE  /\ recorder'[u].phase = "flushing" /\ u \notin ingest'.flushes /\ u \in DOMAIN barrier'
                 /\ \A x \in barrier'[u] : x \in Done' \/ \E j \in 1 .. (i - 1) : queue'[j] = EventOf(x)
      <4>1. EventOf(e) # FlushOf(u)
        BY Zenon DEF EventOf, FlushOf
      <4>2. i \in Places /\ queue[i] = FlushOf(u)
        BY <2>2, <3>3, <4>1, Zenon
      <4>3. \A j \in 1 .. (i - 1) : queue'[j] = queue[j]
        BY <2>2, <4>2 DEF Places
      <4> QED
        BY <1>1, <1>6, <3>1, <4>2, <4>3 DEF IngestInv, BarrierInv
    <3> QED
      BY <3>2, <3>3, Zenon DEF BarrierInv
  <2>7. /\ IsFiniteSet(QueuedEvents')
        /\ depth' = Cardinality(Reserved') + Cardinality(QueuedEvents') + InHand'
    <3>1. /\ Cardinality(QueuedEvents') = Cardinality(QueuedEvents) + 1
          /\ IsFiniteSet(QueuedEvents')
      BY <2>3, FS_AddElement, Zenon DEF IngestInv
    <3> QED
      BY <1>4, <1>5, <2>1, <3>1, DepthIs
  <2> QED
    BY <1>1, <2>4, <2>5, <2>6, <2>7, Zenon DEF IngestInv, DepthIsExact, Reserved, InHand
<1>10. CASE ~(Len(queue) < QueueCapacity)
  <2>1. /\ depth' = depth - 1 /\ UNCHANGED queue /\ DOMAIN fate' = DOMAIN fate \cup {e}
        /\ fate'[e] = "dropped" /\ \A x \in DOMAIN fate \ {e} : fate'[x] = fate[x]
    BY <1>10, Zenon DEF Enqueue
  <2>2. Places' = Places /\ QueuedEvents' = QueuedEvents
    BY <2>1, Zenon DEF Places, QueuedEvents
  <2>3. /\ IsFiniteSet(QueuedEvents') /\ depth' \in Nat
        /\ depth' = Cardinality(Reserved') + Cardinality(QueuedEvents') + InHand'
    <3>1. Cardinality(Reserved') \in Nat
      BY <1>4, DepthIs, FS_RemoveElement, FS_CardinalityType, Zenon
    <3> QED
      BY <1>4, <1>5, <2>1, <2>2, <3>1, DepthIs DEF IngestInv
  <2>4. IngestTypeOK' /\ MalformedCostsItself'
    <3>1. IngestTypeOK'
      BY <1>1, <1>2, <1>3, <2>1, <2>3, Zenon DEF IngestInv, IngestTypeOK
    <3> QED
      BY <2>1, <3>1, Zenon DEF IngestInv, MalformedCostsItself
  <2>5. OnceInv'
    BY <1>3, <1>4, <2>1, <2>2 DEF IngestInv, OnceInv, Reserved
  <2>6. BarrierInv'
    <3>1. Done \subseteq Done'
      BY <1>1, <2>1, Zenon DEF Done
    <3> QED
      BY <1>1, <1>6, <2>1, <2>2, <3>1 DEF IngestInv, BarrierInv, IngestTypeOK, ThreadStates
  <2> QED
    BY <1>1, <2>3, <2>4, <2>5, <2>6, Zenon DEF IngestInv, DepthIsExact, Reserved, InHand
<1> QED
  BY <1>9, <1>10, Zenon

\* A flush goes to the end of the channel, behind every event in it.
LEMMA FlushKeeps ==
    ASSUME IngestInv, NEW t \in Recorder, Flush(t)
    PROVE  IngestInv'
<1> DEFINE r == [phase |-> "flushing"]
<1>1. /\ recorder[t] = Resting /\ Len(queue) < QueueCapacity
      /\ queue' = Append(queue, FlushOf(t)) /\ recorder' = [recorder EXCEPT ![t] = r]
      /\ DOMAIN barrier' = DOMAIN barrier \cup {t}
      /\ barrier'[t] = QueuedEvents \cup Range(ingest.batch)
      /\ \A u \in DOMAIN barrier \ {t} : barrier'[u] = barrier[u]
      /\ UNCHANGED <<depth, ingest, opened, rows, fate>>
  BY Zenon DEF Flush, FlushOf
<1>2. r \in RecorderStates /\ r.phase = "flushing" /\ recorder[t].phase = "idle"
  BY <1>1, RecorderShapes, Zenon
<1> HIDE DEF r
<1>3. /\ recorder' \in [Recorder -> RecorderStates] /\ recorder'[t].phase = "flushing"
      /\ \A u \in Recorder \ {t} : recorder'[u] = recorder[u]
  BY <1>1, <1>2, Zenon DEF IngestInv, IngestTypeOK
<1>4. queue \in Seq(IngestCommand) /\ FlushOf(t) \in IngestCommand
  BY CommandShapes, Zenon DEF IngestInv, IngestTypeOK
<1>5. /\ queue' \in Seq(IngestCommand) /\ Len(queue) \in Nat /\ Len(queue') = Len(queue) + 1
      /\ \A i \in Places : queue'[i] = queue[i]
      /\ queue'[Len(queue) + 1] = FlushOf(t)
      /\ Places' = Places \cup {Len(queue) + 1}
      /\ QueuedEvents' = {e \in Event : e \in QueuedEvents \/ FlushOf(t) = EventOf(e)}
  BY <1>1, <1>4, Sent, Zenon
<1>6. QueuedEvents = {e \in Event : \E i \in Places : queue[i] = EventOf(e)}
  BY <1>4, QueuedAre, Zenon DEF QueuedEvents, Places
<1>7. \A e : FlushOf(t) # EventOf(e)
  BY Zenon DEF EventOf, FlushOf
<1>8. QueuedEvents' = QueuedEvents
  BY <1>5, <1>6, <1>7, Zenon
<1>9. /\ \A i \in Places : queue[i] # FlushOf(t)
      /\ t \notin ingest.flushes
  BY <1>2, Zenon DEF IngestInv, BarrierInv
<1>10. IngestTypeOK' /\ MalformedCostsItself'
  BY <1>1, <1>3, <1>5, CapacityAssumption DEF IngestInv, IngestTypeOK, MalformedCostsItself
<1>11. Reserved' = Reserved /\ InHand' = InHand /\ Done' = Done
  BY <1>1, <1>2, <1>3, Zenon DEF Reserved, InHand, Done
<1>12. OnceInv'
  <2>1. ASSUME NEW i \in Places', NEW j \in Places', queue'[i] = queue'[j] PROVE i = j
    BY <1>5, <1>9, <2>1 DEF IngestInv, OnceInv
  <2>2. ASSUME NEW u \in Reserved', NEW i \in Places' PROVE queue'[i] # EventOf(recorder'[u].event)
    BY <1>2, <1>3, <1>5, <1>7, <1>11 DEF IngestInv, OnceInv, Reserved
  <2>3. ASSUME NEW u \in Reserved', NEW v \in Reserved', recorder'[v].event = recorder'[u].event
        PROVE  v = u
    BY <1>2, <1>3, <1>11, <2>3, SMTT(30) DEF IngestInv, OnceInv, Reserved
  <2> QED
    BY <2>1, <2>2, <2>3 DEF OnceInv, Reserved
<1>13. BarrierInv'
  <2>1. ASSUME NEW u \in ingest'.flushes
        PROVE  recorder'[u].phase = "flushing" /\ u \in DOMAIN barrier' /\ barrier'[u] \subseteq Done'
    BY <1>1, <1>3, <1>9, <1>11, <2>1, Zenon DEF IngestInv, BarrierInv, IngestTypeOK, ThreadStates
  <2>2. ASSUME NEW u \in Recorder, NEW i \in Places', queue'[i] = FlushOf(u)
        PROVE  /\ recorder'[u].phase = "flushing" /\ u \notin ingest'.flushes /\ u \in DOMAIN barrier'
               /\ \A x \in barrier'[u] : x \in Done' \/ \E j \in 1 .. (i - 1) : queue'[j] = EventOf(x)
    <3>1. CASE i = Len(queue) + 1
      <4>1. u = t
        BY <1>5, <2>2, <3>1, CommandShapes
      <4>2. ASSUME NEW x \in QueuedEvents PROVE \E j \in 1 .. (i - 1) : queue'[j] = EventOf(x)
        <5>1. PICK j \in Places : queue[j] = EventOf(x)
          BY <1>6, Zenon
        <5> QED
          BY <1>5, <3>1, <5>1 DEF Places
      <4>3. Range(ingest.batch) \subseteq Done'
        BY <1>11, Zenon DEF Done
      <4> QED
        BY <1>1, <1>3, <1>9, <4>1, <4>2, <4>3, Zenon
    <3>2. CASE i \in Places
      <4>1. queue[i] = FlushOf(u) /\ u # t
        BY <1>5, <1>9, <2>2, <3>2, Zenon
      <4>2. \A j \in 1 .. (i - 1) : queue'[j] = queue[j]
        BY <1>5, <3>2 DEF Places
      <4>3. /\ recorder[u].phase = "flushing" /\ u \notin ingest.flushes /\ u \in DOMAIN barrier
            /\ \A x \in barrier[u] : x \in Done \/ \E j \in 1 .. (i - 1) : queue[j] = EventOf(x)
        BY <3>2, <4>1, Zenon DEF IngestInv, BarrierInv
      <4>4. recorder'[u] = recorder[u] /\ barrier'[u] = barrier[u] /\ UNCHANGED ingest
        BY <1>1, <1>3, <4>1, <4>3, Zenon
      <4> QED
        BY <1>1, <1>11, <4>2, <4>3, <4>4, Zenon
    <3> QED
      BY <1>5, <3>1, <3>2, Zenon
  <2> QED
    BY <2>1, <2>2 DEF BarrierInv
<1> QED
  BY <1>1, <1>8, <1>10, <1>11, <1>12, <1>13, DepthIs, Zenon DEF IngestInv, DepthIsExact, Reserved, InHand

\* recv and try_recv: the command at the front joins the batch or the flushes.
LEMMA ReceiveKeeps ==
    ASSUME IngestInv, Receive
    PROVE  IngestInv'
<1> DEFINE c == Head(queue)
<1>1. /\ queue # <<>> /\ queue' = Tail(queue) /\ queue \in Seq(IngestCommand)
      /\ ingest \in ThreadStates /\ ingest.phase \in {"recv", "drain"}
      /\ ingest.phase = "drain" => Len(ingest.batch) < BatchSize
      /\ UNCHANGED <<depth, recorder, opened, rows, fate, barrier>>
  BY Zenon DEF Receive, Take, IngestInv, IngestTypeOK
<1>2. /\ queue' \in Seq(IngestCommand) /\ Len(queue) \in Nat /\ Len(queue') = Len(queue) - 1
      /\ 1 \in Places /\ c = queue[1] /\ c \in IngestCommand
      /\ \A i \in Places' : i + 1 \in Places /\ queue'[i] = queue[i + 1]
      /\ \A i \in Places \ {1} : i - 1 \in Places' /\ queue'[i - 1] = queue[i]
      /\ QueuedEvents' = {e \in QueuedEvents : EventOf(e) # c}
  BY <1>1, Received, Zenon DEF IngestInv, OnceInv
<1>3. Reserved' = Reserved
  BY <1>1, Zenon DEF Reserved
<1>4. OnceInv'
  <2>1. ASSUME NEW i \in Places', NEW j \in Places', queue'[i] = queue'[j] PROVE i = j
    <3>1. i + 1 = j + 1
      BY <1>2, <2>1 DEF IngestInv, OnceInv
    <3> QED
      BY <3>1 DEF Places
  <2>2. ASSUME NEW u \in Reserved', NEW i \in Places' PROVE queue'[i] # EventOf(recorder'[u].event)
    <3>1. u \in Reserved /\ i + 1 \in Places /\ queue'[i] = queue[i + 1]
      BY <1>2, <1>3, Zenon
    <3> QED
      BY <1>1, <3>1, Zenon DEF IngestInv, OnceInv, Reserved
  <2>3. ASSUME NEW u \in Reserved', NEW v \in Reserved', recorder'[v].event = recorder'[u].event
        PROVE  v = u
    BY <1>1, <1>3, <2>3, Zenon DEF IngestInv, OnceInv, Reserved
  <2> QED
    BY <2>1, <2>2, <2>3, Zenon DEF OnceInv, Reserved
<1>5. MalformedCostsItself'
  BY <1>1, Zenon DEF IngestInv, MalformedCostsItself
<1>6. ASSUME NEW u \in Recorder, NEW i \in Places', queue'[i] = FlushOf(u), Done \subseteq Done',
             c.kind = "event" => c.event \in Done'
      PROVE  /\ recorder'[u].phase = "flushing" /\ u \notin ingest.flushes /\ u \in DOMAIN barrier'
             /\ \A x \in barrier'[u] : x \in Done' \/ \E j \in 1 .. (i - 1) : queue'[j] = EventOf(x)
  <2>1. i + 1 \in Places /\ queue[i + 1] = FlushOf(u) /\ i \in Nat
    BY <1>2, <1>6 DEF Places
  <2>2. /\ recorder[u].phase = "flushing" /\ u \notin ingest.flushes /\ u \in DOMAIN barrier
        /\ \A x \in barrier[u] : x \in Done \/ \E j \in 1 .. (i + 1 - 1) : queue[j] = EventOf(x)
    BY <2>1 DEF IngestInv, BarrierInv
  <2>3. ASSUME NEW x \in barrier[u], NEW j \in 1 .. (i + 1 - 1), queue[j] = EventOf(x)
        PROVE  x \in Done' \/ \E k \in 1 .. (i - 1) : queue'[k] = EventOf(x)
    <3>1. CASE j = 1
      <4>1. c.kind = "event" /\ c.event = x
        BY <1>2, <2>3, <3>1 DEF EventOf
      <4> QED
        BY <1>6, <4>1, Zenon
    <3>2. CASE j # 1
      <4>1. j \in Places \ {1} /\ j - 1 \in 1 .. (i - 1)
        BY <2>1, <3>2 DEF Places
      <4> QED
        BY <1>2, <2>3, <4>1, Zenon
    <3> QED
      BY <3>1, <3>2, Zenon
  <2> QED
    BY <1>1, <1>6, <2>2, <2>3, Zenon
<1>7. /\ Len(ingest.batch) \in Nat /\ Len(ingest.batch) < BatchSize
  BY <1>1, LenProperties, EmptySeq, CapacityAssumption DEF IngestInv, ThreadStates
<1>8. CASE c.kind = "event"
  <2> DEFINE e == c.event
             batch == Append(ingest.batch, e)
             phase == "drain"
  <2>1. e \in Event /\ c = EventOf(e)
    BY <1>2, <1>8, CommandShapes, Zenon
  <2>2. ingest' = [ingest EXCEPT !.phase = phase, !.batch = batch]
    BY <1>8, Zenon DEF Receive, Take
  <2>3. /\ batch \in Seq(Event) /\ Len(batch) = Len(ingest.batch) + 1
        /\ Range(batch) = Range(ingest.batch) \cup {e}
        /\ phase \in {"recv", "drain", "count", "open"} /\ phase # "recv" /\ phase # "open"
    BY <1>1, <2>1, AppendProperties, RangeAppend DEF ThreadStates
  <2> HIDE DEF batch, phase, e
  <2>4. /\ ingest' \in ThreadStates /\ ingest'.batch = batch /\ ingest'.phase = phase
        /\ ingest'.flushes = ingest.flushes
    BY <1>1, <2>2, <2>3, Zenon DEF ThreadStates
  <2>5. IngestTypeOK' /\ (ingest'.phase = "recv" => ingest'.batch = <<>>)
    BY <1>1, <1>2, <1>7, <2>3, <2>4, CapacityAssumption DEF IngestInv, IngestTypeOK
  <2>6. Done' = Done \cup {e}
    BY <1>1, <2>3, <2>4, Zenon DEF Done
  <2>7. BarrierInv'
    <3>1. ASSUME NEW u \in ingest'.flushes
          PROVE  recorder'[u].phase = "flushing" /\ u \in DOMAIN barrier' /\ barrier'[u] \subseteq Done'
      BY <1>1, <2>4, <2>6, <3>1, Zenon DEF IngestInv, BarrierInv
    <3> QED
      BY <1>6, <2>4, <2>6, <3>1, Zenon DEF BarrierInv, e
  <2>8. QueuedEvents' = QueuedEvents \ {e} /\ e \in QueuedEvents
    <3>1. QueuedEvents = {x \in Event : \E i \in Places : queue[i] = EventOf(x)}
      BY <1>1, QueuedAre, Zenon DEF QueuedEvents, Places
    <3>2. \A x \in Event : EventOf(x) = EventOf(e) => x = e
      BY <2>1, CommandShapes
    <3> QED
      BY <1>2, <2>1, <3>1, <3>2
  <2>9. /\ IsFiniteSet(QueuedEvents')
        /\ depth' = Cardinality(Reserved') + Cardinality(QueuedEvents') + InHand'
    <3>1. /\ Cardinality(QueuedEvents') = Cardinality(QueuedEvents) - 1
          /\ IsFiniteSet(QueuedEvents')
      BY <2>8, FS_RemoveElement, Zenon DEF IngestInv
    <3>2. InHand' = InHand + 1
      BY <1>1, <2>3, <2>4, Zenon DEF InHand
    <3> QED
      BY <1>1, <1>3, <3>1, <3>2, DepthIs
  <2> QED
    BY <1>4, <1>5, <2>5, <2>7, <2>9, Zenon DEF IngestInv, DepthIsExact, Reserved, InHand
<1>9. CASE c.kind # "event"
  <2> DEFINE t == c.task
             flushes == ingest.flushes \cup {t}
             phase == IF ingest.phase = "recv" THEN "drain" ELSE "count"
  <2>1. t \in Recorder /\ c = FlushOf(t)
    BY <1>2, <1>9, CommandShapes, Zenon
  <2>2. ingest' = [ingest EXCEPT !.phase = phase, !.flushes = flushes]
    BY <1>9, Zenon DEF Receive, Take
  <2>3. /\ flushes \in SUBSET Recorder
        /\ phase \in {"recv", "drain", "count", "open"} /\ phase # "recv" /\ phase # "open"
    BY <1>1, <2>1, Zenon DEF ThreadStates
  <2>4. /\ recorder[t].phase = "flushing" /\ t \in DOMAIN barrier /\ barrier[t] \subseteq Done
    BY <1>2, <2>1 DEF IngestInv, BarrierInv
  <2> HIDE DEF phase, t
  <2>5. /\ ingest' \in ThreadStates /\ ingest'.batch = ingest.batch /\ ingest'.phase = phase
        /\ ingest'.flushes = flushes
    BY <1>1, <2>2, <2>3, Zenon DEF ThreadStates
  <2>6. IngestTypeOK' /\ (ingest'.phase = "recv" => ingest'.batch = <<>>)
    BY <1>1, <1>2, <2>3, <2>5, CapacityAssumption DEF IngestInv, IngestTypeOK
  <2>7. Done' = Done /\ InHand' = InHand
    BY <1>1, <2>3, <2>5, Zenon DEF Done, InHand
  <2>8. BarrierInv'
    <3>1. ASSUME NEW u \in ingest'.flushes
          PROVE  recorder'[u].phase = "flushing" /\ u \in DOMAIN barrier' /\ barrier'[u] \subseteq Done'
      BY <1>1, <2>4, <2>5, <2>7, <3>1, Zenon DEF IngestInv, BarrierInv
    <3>2. ASSUME NEW u \in Recorder, NEW i \in Places', queue'[i] = FlushOf(u) PROVE u # t
      <4>1. i + 1 \in Places /\ i + 1 # 1 /\ queue[i + 1] = FlushOf(u)
        BY <1>2, <3>2 DEF Places
      <4>2. FlushOf(u) # FlushOf(t)
        BY <1>2, <2>1, <4>1 DEF IngestInv, OnceInv
      <4> QED
        BY <4>2, SMTT(30)
    <3> QED
      BY <1>6, <1>9, <2>5, <2>7, <3>1, <3>2, SMTT(30) DEF BarrierInv
  <2>9. QueuedEvents' = QueuedEvents
    <3>1. \A x : EventOf(x) # FlushOf(t)
      BY Zenon DEF EventOf, FlushOf
    <3> QED
      BY <1>2, <2>1, <3>1
  <2> QED
    BY <1>1, <1>3, <1>4, <1>5, <2>6, <2>7, <2>8, <2>9, DepthIs, Zenon
    DEF IngestInv, DepthIsExact, Reserved, InHand
<1> QED
  BY <1>8, <1>9, Zenon

\* The thread stops draining; then the batch leaves the depth.
LEMMA HandsOver ==
    ASSUME IngestInv, Drained \/ Count
    PROVE  IngestInv'
<1> DEFINE phase == IF Drained THEN "count" ELSE "open"
<1>1. /\ ingest' = [ingest EXCEPT !.phase = phase] /\ ingest \in ThreadStates
      /\ UNCHANGED <<queue, recorder, opened, rows, fate, barrier>>
  BY Zenon DEF Drained, Count, IngestInv, IngestTypeOK
<1>2. phase \in {"recv", "drain", "count", "open"} /\ phase # "recv"
  BY Zenon
<1>3. /\ ingest.phase # "open" /\ depth' + (InHand - InHand') = depth /\ InHand' \in Nat /\ depth' \in Nat
  <2>1. ingest'.phase = phase /\ ingest'.batch = ingest.batch /\ Len(ingest.batch) \in Nat
    BY <1>1, LenProperties, Zenon DEF ThreadStates
  <2>2. CASE Drained
    <3>1. ingest.phase = "drain" /\ UNCHANGED depth /\ phase = "count" /\ depth \in Nat
      BY <2>2, Zenon DEF Drained, IngestInv, IngestTypeOK
    <3>2. InHand = Len(ingest.batch) /\ InHand' = Len(ingest.batch)
      BY <2>1, <3>1, Zenon DEF InHand
    <3> QED
      BY <2>1, <3>1, <3>2
  <2>3. CASE ~Drained
    <3>1. depth' = depth - Len(ingest.batch) /\ ingest.phase = "count" /\ phase = "open"
      BY <2>3, Zenon DEF Count
    <3>2. InHand = Len(ingest.batch) /\ InHand' = 0
      BY <2>1, <3>1, Zenon DEF InHand
    <3>3. depth - InHand \in Nat
      BY DepthIs
    <3> QED
      BY <2>1, <3>1, <3>2, <3>3 DEF IngestInv, IngestTypeOK
  <2> QED
    BY <2>2, <2>3, Zenon
<1> HIDE DEF phase
<1>4. /\ ingest' \in ThreadStates /\ ingest'.phase = phase
      /\ ingest'.batch = ingest.batch /\ ingest'.flushes = ingest.flushes
  BY <1>1, <1>2, Zenon DEF ThreadStates
<1>5. /\ Places' = Places /\ QueuedEvents' = QueuedEvents /\ Reserved' = Reserved /\ Done' = Done
  BY <1>1, <1>4, Zenon DEF Places, QueuedEvents, Reserved, Done
<1>6. IngestTypeOK'
  BY <1>1, <1>3, <1>4, Zenon DEF IngestInv, IngestTypeOK
<1>7. OnceInv' /\ MalformedCostsItself'
  BY <1>1, <1>5, Zenon DEF IngestInv, OnceInv, MalformedCostsItself
<1>8. BarrierInv'
  BY <1>1, <1>4, <1>5 DEF IngestInv, BarrierInv
<1>9. depth' = Cardinality(Reserved') + Cardinality(QueuedEvents') + InHand'
  BY <1>3, <1>5, DepthIs
<1> QED
  BY <1>2, <1>4, <1>5, <1>6, <1>7, <1>8, <1>9, Zenon DEF IngestInv, DepthIsExact, Reserved, InHand

\* The batch meets its fate, written or not, and the flushes are answered.
LEMMA SettleKeeps ==
    ASSUME IngestInv, ingest.phase = "open",
           OpenFails \/ \E commits \in BOOLEAN : InsertBatch(commits)
    PROVE  IngestInv' /\ DOMAIN fate' = Done /\ DOMAIN barrier' = DOMAIN barrier \ ingest.flushes
<1>1. /\ Answer(ingest.flushes) /\ UNCHANGED <<queue, depth>>
      /\ opened' \in BOOLEAN /\ rows' \subseteq Event /\ ingest \in ThreadStates
  <2>1. ingest \in ThreadStates /\ rows \subseteq Event /\ opened \in BOOLEAN
    BY Zenon DEF IngestInv, IngestTypeOK
  <2>2. Accepted(ingest.batch) \subseteq Event
    BY <2>1, LenProperties DEF Accepted, Range, ThreadStates
  <2> QED
    BY <2>1, <2>2, Zenon DEF OpenFails, InsertBatch
<1>2. /\ DOMAIN fate' = Done /\ \A e \in DOMAIN fate' : fate'[e] = "rejected" => e \in Malformed
  BY SMTT(30) DEF OpenFails, InsertBatch, Settle, Accepted, Done, IngestInv, MalformedCostsItself
<1>3. /\ ingest' \in ThreadStates /\ ingest'.batch = <<>> /\ ingest'.flushes = {}
      /\ ingest'.phase = "recv" /\ Len(ingest'.batch) = 0 /\ Range(ingest'.batch) = {}
  BY <1>1, EmptySeq DEF Answer, ThreadStates, Range
<1>4. /\ DOMAIN barrier' = DOMAIN barrier \ ingest.flushes
      /\ \A t \in DOMAIN barrier' : barrier'[t] = barrier[t]
      /\ \A t \in Recorder \ ingest.flushes : recorder'[t] = recorder[t]
      /\ recorder' \in [Recorder -> RecorderStates]
      /\ \A t \in ingest.flushes : recorder'[t].phase = "idle" /\ recorder[t].phase = "flushing"
  <2>1. /\ recorder' = [t \in Recorder |-> IF t \in ingest.flushes THEN Resting ELSE recorder[t]]
        /\ barrier' = [t \in DOMAIN barrier \ ingest.flushes |-> barrier[t]]
    BY <1>1, Zenon DEF Answer
  <2>2. ingest.flushes \subseteq Recorder /\ recorder \in [Recorder -> RecorderStates]
    BY <1>1, Zenon DEF ThreadStates, IngestInv, IngestTypeOK
  <2>3. \A t \in ingest.flushes : recorder[t].phase = "flushing"
    BY Zenon DEF IngestInv, BarrierInv
  <2> QED
    BY <2>1, <2>2, <2>3, RecorderShapes, Zenon
<1>5. /\ Places' = Places /\ QueuedEvents' = QueuedEvents /\ Done' = Done /\ Reserved' = Reserved
      /\ InHand' = 0 /\ InHand = 0
  <2>1. Reserved' = Reserved
    BY <1>4, Zenon DEF Reserved
  <2> QED
    BY <1>1, <1>2, <1>3, <2>1, Zenon DEF Places, QueuedEvents, Done, InHand
<1>6. IngestTypeOK'
  <2>1. DOMAIN fate' \subseteq Event
    BY <1>1, <1>2, LenProperties DEF Done, Range, ThreadStates, IngestInv, IngestTypeOK
  <2> QED
    BY <1>1, <1>3, <1>4, <2>1, CapacityAssumption DEF IngestInv, IngestTypeOK
<1>7. OnceInv'
  <2>1. \A t \in Reserved : recorder'[t] = recorder[t]
    BY <1>4, Zenon DEF Reserved
  <2> QED
    BY <1>1, <1>5, <2>1 DEF IngestInv, OnceInv, Reserved
<1>8. BarrierInv'
  BY <1>1, <1>3, <1>4, <1>5 DEF IngestInv, BarrierInv
<1>9. depth' = Cardinality(Reserved') + Cardinality(QueuedEvents') + InHand'
  BY <1>1, <1>5, DepthIs, Zenon
<1> QED
  BY <1>2, <1>3, <1>4, <1>5, <1>6, <1>7, <1>8, <1>9, Zenon
  DEF IngestInv, DepthIsExact, Reserved, InHand, MalformedCostsItself

\* Callers and thread interleave in any way.
LEMMA StepIngest == IngestInv /\ [IngestNext]_ingestVars => IngestInv'
<1> SUFFICES ASSUME IngestInv, [IngestNext]_ingestVars PROVE IngestInv'
  BY Zenon
<1>1. ASSUME NEW t \in Recorder,
             (\E e \in Event : Reserve(t, e)) \/ Enqueue(t) \/ Flush(t)
      PROVE  IngestInv'
  BY <1>1, ReserveKeeps, EnqueueKeeps, FlushKeeps, Zenon
<1>2. CASE Receive
  BY <1>2, ReceiveKeeps, Zenon
<1>3. CASE Drained \/ Count
  BY <1>3, HandsOver, Zenon
<1>4. CASE OpenFails \/ \E commits \in BOOLEAN : InsertBatch(commits)
  <2>1. ingest.phase = "open"
    BY <1>4, ZenonT(60), Zenon DEF OpenFails, InsertBatch
  <2> QED
    BY <1>4, <2>1, SettleKeeps, Zenon
<1>5. CASE UNCHANGED ingestVars
  BY <1>5 DEF ingestVars, IngestInv, IngestTypeOK, OnceInv, BarrierInv, DepthIsExact,
              MalformedCostsItself, QueuedEvents, Places, Done
<1> QED
  BY <1>1, <1>2, <1>3, <1>4, <1>5, Zenon DEF IngestNext

\* The invariant of the ingestion.
LEMMA AlwaysIngest == IngestSpec => []IngestInv
BY InitIngest, StepIngest, PTL DEF IngestSpec

-----------------------------------------------------------------------------
\* Theorems

\* The channel and the batch keep to their bounds, and the unsigned counter
\* health.queue_depth never wraps below zero.
THEOREM IngestTypes == IngestSpec => []IngestTypeOK
BY AlwaysIngest, PTL DEF IngestInv

\* The depth the console shows is exactly the events on their way, at every
\* interleaving of the counter's updates with sends and receives; and a malformed
\* event costs only itself (insert_batch_skipping_invalid).
THEOREM QueueFaithful == IngestSpec => []QueueIsFaithful
BY AlwaysIngest, PTL DEF IngestInv, QueueIsFaithful

\* HistoryService::flush is a barrier: when it returns, every event that
\* was in the channel or in the thread's hands has met its fate.
THEOREM FlushIsBarrier == IngestSpec => FlushSettlesEarlier
<1> DEFINE P == \A t \in DOMAIN barrier \ DOMAIN barrier' : barrier[t] \subseteq DOMAIN fate'
<1>1. IngestInv /\ [IngestNext]_ingestVars => [P]_ingestVars
  <2> SUFFICES ASSUME IngestInv, IngestNext, NEW t \in DOMAIN barrier, t \notin DOMAIN barrier'
               PROVE  barrier[t] \subseteq DOMAIN fate'
    BY Zenon
  <2>1. ASSUME NEW u \in Recorder,
               (\E e \in Event : Reserve(u, e)) \/ Enqueue(u) \/ Flush(u)
        PROVE  DOMAIN barrier \subseteq DOMAIN barrier'
    BY <2>1, Zenon DEF Reserve, Enqueue, Flush
  <2>2. ASSUME Receive \/ Drained \/ Count PROVE UNCHANGED barrier
    BY <2>2, Zenon DEF Receive, Drained, Count
  <2>3. OpenFails \/ \E commits \in BOOLEAN : InsertBatch(commits)
    BY <2>1, <2>2, Zenon DEF IngestNext
  <2>4. ingest.phase = "open"
    BY <2>3, Zenon DEF OpenFails, InsertBatch
  <2>5. DOMAIN fate' = Done /\ t \in ingest.flushes
    BY <2>3, <2>4, SettleKeeps, Zenon
  <2> QED
    BY <2>5, SMTT(30) DEF IngestInv, BarrierInv
<1> HIDE DEF P
<1>2. IngestSpec => [][P]_ingestVars
  BY <1>1, AlwaysIngest, PTL DEF IngestSpec
<1> QED
  BY <1>2, Zenon DEF FlushSettlesEarlier, P
=============================================================================
