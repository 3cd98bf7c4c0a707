------------------------------ MODULE Pipeline -------------------------------
(***************************************************************************)
(* From the event channel of the collector to the table: the publisher     *)
(* (pubsub_sink.rs) puts batches on a Redis pub/sub channel, the           *)
(* subscriber (pubsub_subscriber.rs) of the other service takes them off   *)
(* one by one, and the sink (sink.rs) inserts them in batches.             *)
(*                                                                         *)
(* Redis pub/sub keeps nothing: what is published while the subscriber is  *)
(* not connected is gone.  Both services can be shut down and started      *)
(* again; what they hold in memory is then gone too.                       *)
(* Events are numbered in the order the collector sends them.              *)
(***************************************************************************)
EXTENDS Integers, Sequences

CONSTANTS QueueA,    \* queue_size of the collector
          BatchMax,  \* publish_batch_max
          QueueB,    \* queue_size of the writer
          BatchSize, \* flush_batch_size
          Bad,       \* events whose timestamp does not parse
          MaxEvents, \* bound: events sent
          MaxFaults, \* bound: failed publishes, inserts and broken links
          MaxStops   \* bound: shutdowns of either service

ASSUME PipelineAssumption ==
    /\ QueueA \in Nat \ {0} /\ BatchMax \in Nat \ {0}
    /\ QueueB \in Nat \ {0} /\ BatchSize \in Nat \ {0}
    /\ Bad \subseteq Nat
    /\ MaxEvents \in Nat /\ MaxFaults \in Nat /\ MaxStops \in Nat

VARIABLES
    produced,  \* events sent so far
    chanA,     \* event channel of the collector
    closedA,   \* all its senders are dropped
    pubPhase,  \* PubSubSink::run: "idle", "fill", "publish" or "done"
    lastBatch, \* channel_closed
    batch,     \* batch
    link,      \* Redis has the subscriber on the channel
    wire,      \* published to the subscriber, not yet taken
    subPhase,  \* "waiting", "listening", "sending" or "stopped"
    held,      \* the event in send().await, 0 for none
    chanB,     \* event channel of the writer
    closedB,   \* all its senders are dropped
    sinkPhase, \* Sink::run: "select", "insert" or "done"
    draining,  \* the loop of Sink::run is left
    buffer,    \* Sink.buffer
    table,     \* the rows in ClickHouse
    clean,     \* history: nothing was lost yet, by anyone's fault
    faults,    \* bound: faults so far
    stops      \* bound: shutdowns so far

source == <<produced, chanA, closedA>>
pub    == <<pubPhase, lastBatch, batch>>
sub    == <<link, wire, subPhase, held>>
sink   == <<sinkPhase, draining, buffer, table>>
queueB == <<chanB, closedB>>
bounds == <<faults, stops>>
vars   == <<source, pub, sub, queueB, sink, clean, bounds>>

Init ==
    /\ produced = 0 /\ chanA = <<>> /\ closedA = FALSE
    /\ pubPhase = "idle" /\ lastBatch = FALSE /\ batch = <<>>
    /\ link = FALSE /\ wire = <<>> /\ subPhase = "waiting" /\ held = 0
    /\ chanB = <<>> /\ closedB = FALSE
    /\ sinkPhase = "select" /\ draining = FALSE /\ buffer = <<>>
    /\ table = <<>>
    /\ clean = TRUE /\ faults = 0 /\ stops = 0

Prefixes(s) == {SubSeq(s, 1, n) : n \in 0..Len(s)}

\* Something that failed, within the bound.
Fault == /\ faults < MaxFaults
         /\ faults' = faults + 1
         /\ UNCHANGED stops

Stop == /\ stops < MaxStops
        /\ stops' = stops + 1
        /\ UNCHANGED faults

-----------------------------------------------------------------------------
(* The collector: dedup forwarder and publisher *)

\* try_send of the forwarder.
Produce ==
    /\ ~closedA /\ pubPhase # "done"
    /\ produced < MaxEvents
    /\ Len(chanA) < QueueA
    /\ produced' = produced + 1
    /\ chanA' = Append(chanA, produced')
    /\ UNCHANGED <<closedA, pub, sub, queueB, sink, clean, bounds>>

\* Redis hands the messages to the subscriber, if there is one.
Deliver(s) == IF link THEN wire' = wire \o s ELSE UNCHANGED wire

\* try_send on a full channel: the process exits, in whatever the publisher does.
Overflow ==
    /\ ~closedA /\ pubPhase # "done"
    /\ produced < MaxEvents
    /\ Len(chanA) = QueueA
    /\ produced' = produced + 1
    /\ pubPhase' = "done" /\ lastBatch' = FALSE
    /\ chanA' = <<>> /\ batch' = <<>>
    /\ \/ UNCHANGED wire
       \/ pubPhase = "publish" /\ \E s \in Prefixes(batch) : Deliver(s)
    /\ clean' = FALSE
    /\ UNCHANGED <<closedA, link, subPhase, held, queueB, sink, bounds>>

\* SIGTERM: the connections are joined and the pool drops its sender.
CollectorStop ==
    /\ ~closedA /\ pubPhase # "done"
    /\ Stop
    /\ closedA' = TRUE
    /\ UNCHANGED <<produced, chanA, pub, sub, queueB, sink, clean>>

CollectorStart ==
    /\ pubPhase = "done"
    /\ pubPhase' = "idle" /\ lastBatch' = FALSE
    /\ closedA' = FALSE
    /\ UNCHANGED <<produced, chanA, batch, sub, queueB, sink, clean, bounds>>

\* The first event of a batch.
First ==
    /\ pubPhase = "idle" /\ chanA # <<>>
    /\ batch' = <<Head(chanA)>>
    /\ chanA' = Tail(chanA)
    /\ pubPhase' = "fill"
    /\ UNCHANGED <<produced, closedA, lastBatch, sub, queueB, sink, clean, bounds>>

IdleClosed ==
    /\ pubPhase = "idle" /\ chanA = <<>> /\ closedA
    /\ pubPhase' = "done"
    /\ UNCHANGED <<source, lastBatch, batch, sub, queueB, sink, clean, bounds>>

\* (mutant of Fill: the batch may be one event too long)
FillOneMore ==
    /\ pubPhase = "fill" /\ Len(batch) <= BatchMax /\ chanA # <<>>
    /\ batch' = Append(batch, Head(chanA))
    /\ chanA' = Tail(chanA)
    /\ UNCHANGED <<produced, closedA, pubPhase, lastBatch, sub, queueB, sink, clean, bounds>>
Fill ==
    /\ pubPhase = "fill" /\ Len(batch) < BatchMax /\ chanA # <<>>
    /\ batch' = Append(batch, Head(chanA))
    /\ chanA' = Tail(chanA)
    /\ UNCHANGED <<produced, closedA, pubPhase, lastBatch, sub, queueB, sink, clean, bounds>>

\* The batch is full, or the linger has elapsed: at any time, as far as the
\* model knows.
Linger ==
    /\ pubPhase = "fill"
    /\ pubPhase' = "publish"
    /\ UNCHANGED <<source, lastBatch, batch, sub, queueB, sink, clean, bounds>>

\* (mutant of FillClosed: the loop is left before the flush)
FillClosedNoFlush ==
    /\ pubPhase = "fill" /\ Len(batch) < BatchMax /\ chanA = <<>> /\ closedA
    /\ lastBatch' = TRUE
    /\ batch' = <<>>
    /\ pubPhase' = "done"
    /\ UNCHANGED <<source, sub, queueB, sink, clean, bounds>>
\* The channel closes while the batch is filled: it is the last one.
FillClosed ==
    /\ pubPhase = "fill" /\ Len(batch) < BatchMax /\ chanA = <<>> /\ closedA
    /\ lastBatch' = TRUE
    /\ pubPhase' = "publish"
    /\ UNCHANGED <<source, batch, sub, queueB, sink, clean, bounds>>

Flushed == /\ batch' = <<>>
           /\ pubPhase' = IF lastBatch THEN "done" ELSE "idle"
           /\ UNCHANGED lastBatch

\* The pipeline of PUBLISH commands succeeds, whoever listens.
PublishOk ==
    /\ pubPhase = "publish"
    /\ Deliver(batch)
    /\ Flushed
    /\ clean' = (clean /\ link)
    /\ UNCHANGED <<source, link, subPhase, held, queueB, sink, bounds>>

\* It fails, perhaps after some of the commands were executed: no second try.
PublishFail ==
    /\ pubPhase = "publish"
    /\ Fault
    /\ \E s \in Prefixes(batch) : Deliver(s)
    /\ Flushed
    /\ clean' = FALSE
    /\ UNCHANGED <<source, link, subPhase, held, queueB, sink>>

-----------------------------------------------------------------------------
(* The writer: subscriber *)

\* subscribe_once connects and subscribes, at the start or after the delay.
Subscribe ==
    /\ subPhase = "waiting"
    /\ subPhase' = "listening" /\ link' = TRUE
    /\ UNCHANGED <<source, pub, wire, held, queueB, sink, clean, bounds>>

\* The connection breaks; what has arrived is still in the stream.
Break ==
    /\ link
    /\ Fault
    /\ link' = FALSE
    /\ wire' \in Prefixes(wire)
    /\ clean' = (clean /\ wire' = wire)
    /\ UNCHANGED <<source, pub, subPhase, held, queueB, sink>>

\* The stream ends once it is empty.
StreamEnd ==
    /\ subPhase = "listening" /\ ~link /\ wire = <<>>
    /\ subPhase' = "waiting"
    /\ UNCHANGED <<source, pub, link, wire, held, queueB, sink, clean, bounds>>

Receive ==
    /\ subPhase = "listening" /\ wire # <<>>
    /\ held' = Head(wire)
    /\ wire' = Tail(wire)
    /\ subPhase' = "sending"
    /\ UNCHANGED <<source, pub, link, queueB, sink, clean, bounds>>

\* send().await waits for room.
Send ==
    /\ subPhase = "sending" /\ Len(chanB) < QueueB
    /\ chanB' = Append(chanB, held)
    /\ held' = 0
    /\ subPhase' = "listening"
    /\ UNCHANGED <<source, pub, link, wire, closedB, sink, clean, bounds>>

-----------------------------------------------------------------------------
(* The writer: sink *)

SinkReceive ==
    /\ sinkPhase = "select" /\ chanB # <<>>
    /\ buffer' = Append(buffer, Head(chanB))
    /\ chanB' = Tail(chanB)
    /\ sinkPhase' = IF Len(buffer') >= BatchSize THEN "insert" ELSE "select"
    /\ UNCHANGED <<source, pub, sub, closedB, draining, table, clean, bounds>>

\* (mutant of SinkTick: only a full buffer is flushed)
SinkTickWhenFull ==
    /\ sinkPhase = "select" /\ Len(buffer) >= BatchSize
    /\ sinkPhase' = "insert"
    /\ UNCHANGED <<source, pub, sub, queueB, draining, buffer, table, clean, bounds>>
\* The flush interval elapses; an empty buffer is left alone.
SinkTick ==
    /\ sinkPhase = "select" /\ buffer # <<>>
    /\ sinkPhase' = "insert"
    /\ UNCHANGED <<source, pub, sub, queueB, draining, buffer, table, clean, bounds>>

\* (mutant of SinkClosed: noticed only with something to flush)
SinkClosedUnnoticed ==
    /\ sinkPhase = "select" /\ chanB = <<>> /\ closedB
    /\ buffer # <<>>
    /\ draining' = TRUE
    /\ sinkPhase' = "insert"
    /\ UNCHANGED <<source, pub, sub, queueB, buffer, table, clean, bounds>>
\* All senders are dropped and the channel is empty: the last flush.
SinkClosed ==
    /\ sinkPhase = "select" /\ chanB = <<>> /\ closedB
    /\ draining' = TRUE
    /\ sinkPhase' = IF buffer = <<>> THEN "done" ELSE "insert"
    /\ UNCHANGED <<source, pub, sub, queueB, buffer, table, clean, bounds>>

AfterFlush == /\ buffer' = <<>>
              /\ sinkPhase' = IF draining THEN "done" ELSE "select"
              /\ UNCHANGED draining

Parses == \A n \in DOMAIN buffer : buffer[n] \notin Bad

\* One event that does not serialize costs the whole batch.
SerializeFail ==
    /\ sinkPhase = "insert" /\ ~Parses
    /\ AfterFlush
    /\ clean' = FALSE
    /\ UNCHANGED <<source, pub, sub, queueB, table, bounds>>

InsertOk ==
    /\ sinkPhase = "insert" /\ Parses
    /\ table' = table \o buffer
    /\ AfterFlush
    /\ UNCHANGED <<source, pub, sub, queueB, clean, bounds>>

\* (mutant of InsertFail: the batch is kept and sent again)
InsertFailKeeping ==
    /\ sinkPhase = "insert" /\ Parses
    /\ Fault
    /\ table' \in {table, table \o buffer}
    /\ sinkPhase' = IF draining THEN "done" ELSE "select"
    /\ UNCHANGED <<draining, buffer>>
    /\ clean' = FALSE
    /\ UNCHANGED <<source, pub, sub, queueB>>
\* The insert fails, or only its answer: dropped in either case.
InsertFail ==
    /\ sinkPhase = "insert" /\ Parses
    /\ Fault
    /\ table' \in {table, table \o buffer}
    /\ AfterFlush
    /\ clean' = FALSE
    /\ UNCHANGED <<source, pub, sub, queueB>>

-----------------------------------------------------------------------------
(* The writer: shutdown *)

\* SIGTERM: the subscriber is aborted, with what it holds, and the last sender
\* is dropped.
WriterStop ==
    /\ ~closedB /\ Stop
    /\ closedB' = TRUE
    /\ subPhase' = "stopped" /\ link' = FALSE /\ wire' = <<>> /\ held' = 0
    /\ clean' = (clean /\ wire = <<>> /\ held = 0)
    /\ UNCHANGED <<source, pub, chanB, sink>>

\* The sink has not drained in 10 seconds and is aborted; an insert under way
\* may still happen.
DrainTimeout ==
    /\ closedB /\ sinkPhase # "done"
    /\ Fault
    /\ sinkPhase' = "done" /\ chanB' = <<>> /\ buffer' = <<>>
    /\ \/ UNCHANGED table
       \/ sinkPhase = "insert" /\ Parses /\ table' = table \o buffer
    /\ clean' = FALSE
    /\ UNCHANGED <<source, pub, sub, closedB, draining>>

WriterStart ==
    /\ closedB /\ sinkPhase = "done"
    /\ closedB' = FALSE /\ subPhase' = "waiting"
    /\ sinkPhase' = "select" /\ draining' = FALSE
    /\ UNCHANGED <<source, pub, link, wire, held, chanB, buffer, table, clean, bounds>>

-----------------------------------------------------------------------------

PublisherStep == First \/ IdleClosed \/ Fill \/ FillClosed \/ PublishOk
SubscriberStep == Subscribe \/ StreamEnd \/ Receive \/ Send
SinkStep == SinkReceive \/ SinkClosed \/ SerializeFail \/ InsertOk

Next ==
    \/ Produce \/ Overflow \/ CollectorStop \/ CollectorStart
    \/ PublisherStep \/ Linger \/ PublishFail
    \/ SubscriberStep \/ Break
    \/ SinkStep \/ SinkTick \/ InsertFail
    \/ WriterStop \/ DrainTimeout \/ WriterStart

Spec == Init /\ [][Next]_vars

\* Tasks are scheduled, the linger and the flush interval elapse, Redis and
\* ClickHouse answer, and a stopped service is started again.
FairSpec == /\ Spec
            /\ WF_vars(PublisherStep) /\ WF_vars(Linger)
            /\ WF_vars(SubscriberStep)
            /\ WF_vars(SinkStep) /\ WF_vars(SinkTick)
            /\ WF_vars(CollectorStart) /\ WF_vars(WriterStart)

-----------------------------------------------------------------------------
(* Properties *)

Events == 1..MaxEvents

TypeOK ==
    /\ produced \in 0..MaxEvents
    /\ chanA \in Seq(Events) /\ Len(chanA) <= QueueA /\ closedA \in BOOLEAN
    /\ pubPhase \in {"idle", "fill", "publish", "done"} /\ lastBatch \in BOOLEAN
    /\ batch \in Seq(Events) /\ Len(batch) <= BatchMax
    /\ link \in BOOLEAN /\ wire \in Seq(Events)
    /\ subPhase \in {"waiting", "listening", "sending", "stopped"}
    /\ held \in {0} \cup Events
    /\ chanB \in Seq(Events) /\ Len(chanB) <= QueueB /\ closedB \in BOOLEAN
    /\ sinkPhase \in {"select", "insert", "done"} /\ draining \in BOOLEAN
    /\ buffer \in Seq(Events) /\ Len(buffer) <= BatchSize
    /\ table \in Seq(Events)
    /\ clean \in BOOLEAN /\ faults \in 0..MaxFaults /\ stops \in 0..MaxStops

\* All events on their way, the furthest first.
InFlight == table \o buffer \o chanB \o (IF held = 0 THEN <<>> ELSE <<held>>)
                  \o wire \o batch \o chanA

\* Whatever fails, stops or starts again: no event is stored twice, and none
\* overtakes another, although a failed publish or insert may have been executed
\* in part (pubsub_sink.rs:119-135, sink.rs:262-279).
InOrderOnce ==
    /\ \A i, j \in DOMAIN InFlight : i < j => InFlight[i] < InFlight[j]
    /\ \A i \in DOMAIN InFlight : InFlight[i] <= produced

\* Unless a publish, an insert, the link or a row failed, or a service was stopped
\* with events in its hands, every event sent is stored or on its way: no batch,
\* flush or drain drops one, and a clean shutdown of either service loses nothing
\* it had accepted (pubsub_sink.rs:56-94, sink.rs:168-198).
NothingLost == clean => InFlight = [n \in 1..produced |-> n]

\* An event sent is stored in the end, or something was lost: neither service
\* sits on an event for ever, not even the last one before a quiet period.
StoredAtLast ==
    \A e \in Events :
        produced >= e ~> (~clean \/ \E n \in DOMAIN table : table[n] = e)

\* A shutdown comes to an end.
ShutdownEnds == /\ closedA ~> pubPhase = "done"
                /\ closedB ~> sinkPhase = "done"
=============================================================================
