---------------------------- MODULE PipelineProofs ---------------------------
(* Theorems about the pipeline (module Pipeline), for every size of channel *)
(* and batch and any number of events, faults and shutdowns.                *)
EXTENDS Pipeline, SequenceTheorems, TLAPS

\* s is what is left of t.
Thinner(s, t) ==
    \E f \in [1..Len(s) -> 1..Len(t)] :
        /\ \A i, j \in 1..Len(s) : i < j => f[i] < f[j]
        /\ \A i \in 1..Len(s) : s[i] = t[f[i]]

-----------------------------------------------------------------------------
LEMMA ThinnerSelf ==
    ASSUME NEW S, NEW s \in Seq(S)
    PROVE  Thinner(s, s)
<1> DEFINE f == [i \in 1..Len(s) |-> i]
<1>1. f \in [1..Len(s) -> 1..Len(s)]
  OBVIOUS
<1>2. QED
  BY <1>1 DEF Thinner

LEMMA ThinnerEmpty ==
    ASSUME NEW S, NEW t \in Seq(S)
    PROVE  Thinner(<<>>, t)
<1> DEFINE f == [i \in {} |-> i]
<1>1. 1..Len(<<>>) = {} /\ f \in [{} -> 1..Len(t)]
  OBVIOUS
<1>2. f \in [1..Len(<<>>) -> 1..Len(t)]
  BY <1>1
<1> HIDE DEF f
<1>3. QED
  BY <1>1, <1>2 DEF Thinner

LEMMA ThinnerPrefix ==
    ASSUME NEW S, NEW t \in Seq(S), NEW s \in Prefixes(t)
    PROVE  s \in Seq(S) /\ Len(s) <= Len(t) /\ Thinner(s, t)
<1>1. PICK n \in 0..Len(t) : s = SubSeq(t, 1, n)
  BY DEF Prefixes
<1>2. /\ s \in Seq(S) /\ Len(s) = n
      /\ \A i \in 1..n : s[i] = t[i]
  BY <1>1, SubSeqProperties
<1> DEFINE f == [i \in 1..n |-> i]
<1>3. f \in [1..Len(s) -> 1..Len(t)]
  BY <1>2
<1>4. \A i \in 1..Len(s) : f[i] = i /\ s[i] = t[i]
  BY <1>2
<1>5. Len(s) <= Len(t)
  BY <1>2
<1> HIDE DEF f
<1>6. QED
  BY <1>2, <1>3, <1>4, <1>5 DEF Thinner

LEMMA ThinnerConcat ==
    ASSUME NEW S, NEW s1 \in Seq(S), NEW t1 \in Seq(S), NEW s2 \in Seq(S), NEW t2 \in Seq(S),
           Thinner(s1, t1), Thinner(s2, t2)
    PROVE  Thinner(s1 \o s2, t1 \o t2)
<1>1. PICK f \in [1..Len(s1) -> 1..Len(t1)] :
         /\ \A i, j \in 1..Len(s1) : i < j => f[i] < f[j]
         /\ \A i \in 1..Len(s1) : s1[i] = t1[f[i]]
  BY DEF Thinner
<1>2. PICK g \in [1..Len(s2) -> 1..Len(t2)] :
         /\ \A i, j \in 1..Len(s2) : i < j => g[i] < g[j]
         /\ \A i \in 1..Len(s2) : s2[i] = t2[g[i]]
  BY DEF Thinner
<1>3. /\ Len(s1) \in Nat /\ Len(t1) \in Nat /\ Len(s2) \in Nat /\ Len(t2) \in Nat
      /\ Len(s1 \o s2) = Len(s1) + Len(s2) /\ Len(t1 \o t2) = Len(t1) + Len(t2)
      /\ \A i \in 1..(Len(s1) + Len(s2)) :
            (s1 \o s2)[i] = IF i <= Len(s1) THEN s1[i] ELSE s2[i - Len(s1)]
      /\ \A i \in 1..(Len(t1) + Len(t2)) :
            (t1 \o t2)[i] = IF i <= Len(t1) THEN t1[i] ELSE t2[i - Len(t1)]
  BY ConcatProperties
<1> DEFINE h == [i \in 1..(Len(s1) + Len(s2)) |->
                    IF i <= Len(s1) THEN f[i] ELSE Len(t1) + g[i - Len(s1)]]
<1>4. h \in [1..(Len(s1) + Len(s2)) -> 1..(Len(t1) + Len(t2))]
  BY <1>3
<1>5. /\ \A i \in 1..Len(s1) : h[i] = f[i] /\ f[i] \in 1..Len(t1)
      /\ \A i \in 1..(Len(s1) + Len(s2)) : i > Len(s1) =>
            /\ i - Len(s1) \in 1..Len(s2) /\ g[i - Len(s1)] \in 1..Len(t2)
            /\ h[i] = Len(t1) + g[i - Len(s1)]
  <2>1. \A i \in 1..Len(s1) : i \in 1..(Len(s1) + Len(s2)) /\ i <= Len(s1)
    BY <1>3
  <2>2. \A i \in 1..(Len(s1) + Len(s2)) : i > Len(s1) =>
            i - Len(s1) \in 1..Len(s2) /\ ~(i <= Len(s1))
    BY <1>3
  <2>3. QED
    BY <2>1, <2>2
<1> HIDE DEF h
<1>6. ASSUME NEW i \in 1..(Len(s1) + Len(s2)), NEW j \in 1..(Len(s1) + Len(s2)), i < j
      PROVE  h[i] < h[j]
  <2>1. CASE j <= Len(s1)
    <3>1. i \in 1..Len(s1) /\ j \in 1..Len(s1)
      BY <1>3, <1>6, <2>1
    <3>2. QED
      BY <1>1, <1>5, <1>6, <3>1
  <2>2. CASE i <= Len(s1) /\ j > Len(s1)
    <3>1. i \in 1..Len(s1)
      BY <1>3, <2>2
    <3>2. h[i] \in 1..Len(t1)
      BY <1>5, <3>1
    <3>3. h[j] = Len(t1) + g[j - Len(s1)] /\ g[j - Len(s1)] \in 1..Len(t2)
      BY <1>5, <2>2
    <3>4. QED
      BY <1>3, <3>2, <3>3
  <2>3. CASE i > Len(s1)
    <3>1. j > Len(s1) /\ i - Len(s1) < j - Len(s1)
      BY <1>3, <1>6, <2>3
    <3>2. g[i - Len(s1)] < g[j - Len(s1)]
      BY <1>2, <1>5, <2>3, <3>1
    <3>3. QED
      BY <1>3, <1>5, <2>3, <3>1, <3>2
  <2>4. QED
    BY <1>3, <2>1, <2>2, <2>3
<1>7. ASSUME NEW i \in 1..(Len(s1) + Len(s2))
      PROVE  (s1 \o s2)[i] = (t1 \o t2)[h[i]]
  <2>1. CASE i <= Len(s1)
    <3>1. i \in 1..Len(s1) /\ h[i] = f[i] /\ f[i] \in 1..Len(t1) /\ s1[i] = t1[f[i]]
      BY <1>1, <1>3, <1>5, <2>1
    <3>2. h[i] \in 1..(Len(t1) + Len(t2)) /\ h[i] <= Len(t1)
      BY <1>3, <3>1
    <3>3. QED
      BY <1>3, <2>1, <3>1, <3>2
  <2>2. CASE i > Len(s1)
    <3>1. /\ i - Len(s1) \in 1..Len(s2) /\ g[i - Len(s1)] \in 1..Len(t2)
          /\ h[i] = Len(t1) + g[i - Len(s1)]
          /\ s2[i - Len(s1)] = t2[g[i - Len(s1)]]
      BY <1>2, <1>5, <2>2
    <3>2. /\ h[i] \in 1..(Len(t1) + Len(t2)) /\ ~(h[i] <= Len(t1))
          /\ h[i] - Len(t1) = g[i - Len(s1)]
      BY <1>3, <3>1
    <3>3. (s1 \o s2)[i] = s2[i - Len(s1)]
      BY <1>3, <2>2
    <3>4. (t1 \o t2)[h[i]] = t2[h[i] - Len(t1)]
      BY <1>3, <3>2
    <3>5. QED
      BY <3>1, <3>2, <3>3, <3>4
  <2>3. i <= Len(s1) \/ i > Len(s1)
    BY <1>3
  <2>4. QED
    BY <2>1, <2>2, <2>3
<1>8. QED
  BY <1>3, <1>4, <1>6, <1>7 DEF Thinner

Splits(x, y, z) == (x \o y) \o z = x \o (y \o z)

LEMMA ConcatSplits ==
    ASSUME NEW x \in Seq(Events), NEW y \in Seq(Events), NEW z \in Seq(Events)
    PROVE  Splits(x, y, z)
  BY ConcatAssociative DEF Splits

\* x passes from the end of the station u to the front of y.
Passes(l, u, x, y) == (l \o (u \o x)) \o y = (l \o u) \o (x \o y)

LEMMA Passed ==
    ASSUME NEW l \in Seq(Events), NEW u \in Seq(Events), NEW x \in Seq(Events),
           NEW y \in Seq(Events)
    PROVE  Passes(l, u, x, y)
<1>1. Splits(l, u, x)
  BY ConcatSplits, Zenon
<1>2. l \o u \in Seq(Events)
  BY ConcatProperties, Zenon
<1>3. Splits(l \o u, x, y)
  BY <1>2, ConcatSplits, Zenon
<1>4. QED
  BY <1>1, <1>3, Zenon DEF Passes, Splits

LEMMA Nothing ==
    ASSUME NEW s \in Seq(Events)
    PROVE  s \o <<>> = s /\ <<>> \o s = s
  OBVIOUS

\* What a station passes on, of s, when c says that nothing may be lost.
Kept(c, s2, s) == Thinner(s2, s) /\ (c => s2 = s)

LEMMA KeptAhead ==
    ASSUME NEW c, NEW s2 \in Seq(Events), NEW s \in Seq(Events), NEW r \in Seq(Events),
           Kept(c, s2, s)
    PROVE  Kept(c, s2 \o r, s \o r)
<1>1. Thinner(r, r)
  BY ThinnerSelf
<1>2. Thinner(s2, s)
  BY DEF Kept
<1>3. Thinner(s2 \o r, s \o r)
  BY <1>1, <1>2, ThinnerConcat
<1>4. c => s2 \o r = s \o r
  BY Zenon DEF Kept
<1>5. QED
  BY <1>3, <1>4, Zenon DEF Kept

LEMMA KeptSame ==
    ASSUME NEW c, NEW s \in Seq(Events)
    PROVE  Kept(c, s, s)
<1>1. Thinner(s, s)
  BY ThinnerSelf
<1>2. QED
  BY <1>1, Zenon DEF Kept

-----------------------------------------------------------------------------
(* Types *)

\* What the phases say of the memory of the services.
Phases ==
    /\ pubPhase \in {"idle", "done"} => batch = <<>>
    /\ subPhase = "sending" <=> held # 0
    /\ closedB => subPhase = "stopped"
    /\ sinkPhase = "select" => Len(buffer) < BatchSize
    /\ sinkPhase = "done" => buffer = <<>>

IInv == TypeOK /\ Phases

LEMMA PrefixIsSeq ==
    ASSUME NEW s \in Seq(Events), NEW p \in Prefixes(s)
    PROVE  p \in Seq(Events) /\ Len(p) <= Len(s)
  BY ThinnerPrefix

LEMMA HeadAndTail ==
    ASSUME NEW s \in Seq(Events), s # <<>>
    PROVE  /\ Head(s) \in Events /\ Tail(s) \in Seq(Events) /\ Len(Tail(s)) <= Len(s)
           /\ s = <<Head(s)>> \o Tail(s)
  BY HeadTailProperties

LEMMA Appended ==
    ASSUME NEW s \in Seq(Events), NEW e \in Events
    PROVE  /\ Append(s, e) \in Seq(Events) /\ Len(Append(s, e)) = Len(s) + 1
           /\ Append(s, e) = s \o <<e>>
  BY AppendProperties, AppendIsConcat

LEMMA Concatenated ==
    ASSUME NEW s \in Seq(Events), NEW t \in Seq(Events)
    PROVE  s \o t \in Seq(Events)
  BY ConcatProperties

LEMMA InitIInv == Init => IInv
<1> USE PipelineAssumption DEF Init
<1>1. Init => Phases
  BY DEF Phases
<1>2. ASSUME Init PROVE TypeOK
  <2>1. closedA \in BOOLEAN /\ lastBatch \in BOOLEAN /\ link \in BOOLEAN
        /\ closedB \in BOOLEAN /\ draining \in BOOLEAN /\ clean \in BOOLEAN
    BY <1>2
  <2>2. /\ produced \in 0..MaxEvents /\ faults \in 0..MaxFaults /\ stops \in 0..MaxStops
        /\ Len(<<>>) = 0 /\ <<>> \in Seq(Events)
    BY <1>2
  <2>3. QED
    BY <1>2, <2>1, <2>2 DEF TypeOK
<1>3. QED
  BY <1>1, <1>2 DEF IInv

LEMMA SourceTypes ==
    ASSUME IInv, Produce \/ Overflow \/ CollectorStop \/ CollectorStart
    PROVE  IInv'
<1> USE PipelineAssumption DEF IInv, TypeOK, Phases, vars, pub, sub, sink, queueB, bounds, source
<1>1. CASE Produce
  <2>1. produced' \in Events /\ produced' \in 0..MaxEvents
    BY <1>1 DEF Produce, Events
  <2>2. chanA' \in Seq(Events) /\ Len(chanA') = Len(chanA) + 1
    BY <1>1, <2>1, Appended DEF Produce
  <2>3. QED
    BY <1>1, <2>1, <2>2 DEF Produce
<1>2. CASE Overflow
  <2>1. produced' \in 0..MaxEvents
    BY <1>2 DEF Overflow
  <2>2. wire' \in Seq(Events)
    <3>1. CASE UNCHANGED wire
      BY <3>1
    <3>2. CASE \E s \in Prefixes(batch) : Deliver(s)
      BY <3>2, PrefixIsSeq, Concatenated DEF Deliver
    <3>3. QED
      BY <1>2, <3>1, <3>2 DEF Overflow
  <2>3. clean' \in BOOLEAN
    BY <1>2 DEF Overflow
  <2>4. faults' \in 0..MaxFaults
    BY <1>2 DEF Overflow
  <2>5. Phases'
    BY <1>2, <2>1, <2>2 DEF Overflow
  <2>6. TypeOK'
    <3>1. lastBatch' \in BOOLEAN
      BY <1>2 DEF Overflow
    <3>2. /\ chanA' \in Seq(Events) /\ Len(chanA') <= QueueA
          /\ batch' \in Seq(Events) /\ Len(batch') <= BatchMax
          /\ pubPhase' = "done"
      BY <1>2 DEF Overflow
    <3>3. UNCHANGED <<closedA, link, subPhase, held, queueB, sink, bounds>>
      BY <1>2 DEF Overflow
    <3>4. QED
      BY <2>1, <2>2, <2>3, <3>1, <3>2, <3>3
  <2>7. QED
    BY <2>5, <2>6
<1>3. CASE CollectorStop
  BY <1>3 DEF CollectorStop, Stop
<1>4. CASE CollectorStart
  BY <1>4 DEF CollectorStart
<1>5. QED
  BY <1>1, <1>2, <1>3, <1>4

LEMMA PublisherTypes ==
    ASSUME IInv, PublisherStep \/ Linger \/ PublishFail
    PROVE  IInv'
<1> USE PipelineAssumption DEF IInv, TypeOK, Phases, vars, pub, sub, sink, queueB, bounds, source
<1>1. CASE First
  <2>1. Head(chanA) \in Events /\ Tail(chanA) \in Seq(Events) /\ Len(Tail(chanA)) <= Len(chanA)
    BY <1>1, HeadAndTail DEF First
  <2>2. batch' \in Seq(Events) /\ Len(batch') = 1
    BY <1>1, <2>1 DEF First
  <2>3. QED
    BY <1>1, <2>1, <2>2 DEF First
<1>2. CASE IdleClosed
  BY <1>2 DEF IdleClosed
<1>3. CASE Fill
  <2>1. Head(chanA) \in Events /\ Tail(chanA) \in Seq(Events) /\ Len(Tail(chanA)) <= Len(chanA)
    BY <1>3, HeadAndTail DEF Fill
  <2>2. batch' \in Seq(Events) /\ Len(batch') = Len(batch) + 1
    BY <1>3, <2>1, Appended DEF Fill
  <2>3. QED
    BY <1>3, <2>1, <2>2 DEF Fill
<1>4. CASE FillClosed
  BY <1>4 DEF FillClosed
<1>5. CASE PublishOk
  <2>1. wire' \in Seq(Events)
    BY <1>5, Concatenated DEF PublishOk, Deliver
  <2>2. QED
    BY <1>5, <2>1 DEF PublishOk, Flushed
<1>6. CASE Linger
  BY <1>6 DEF Linger
<1>7. CASE PublishFail
  <2>1. wire' \in Seq(Events)
    BY <1>7, PrefixIsSeq, Concatenated DEF PublishFail, Deliver
  <2>2. clean' \in BOOLEAN
    BY <1>7 DEF PublishFail, Flushed, Fault
  <2>3. faults' \in 0..MaxFaults
    BY <1>7 DEF PublishFail, Flushed, Fault
  <2>4. Phases'
    BY <1>7, <2>1 DEF PublishFail, Flushed, Fault
  <2>5. TypeOK'
    BY <1>7, <2>1, <2>2, <2>3 DEF PublishFail, Flushed, Fault
  <2>6. QED
    BY <2>4, <2>5
<1>8. QED
  BY <1>1, <1>2, <1>3, <1>4, <1>5, <1>6, <1>7 DEF PublisherStep

LEMMA SubscriberTypes ==
    ASSUME IInv, SubscriberStep \/ Break
    PROVE  IInv'
<1> USE PipelineAssumption DEF IInv, TypeOK, Phases, vars, pub, sub, sink, queueB, bounds, source
<1>1. CASE Subscribe
  BY <1>1 DEF Subscribe
<1>2. CASE StreamEnd
  BY <1>2 DEF StreamEnd
<1>3. CASE Receive
  <2>1. Head(wire) \in Events /\ Tail(wire) \in Seq(Events)
    BY <1>3, HeadAndTail DEF Receive
  <2>2. Head(wire) # 0
    BY <2>1 DEF Events
  <2>3. QED
    BY <1>3, <2>1, <2>2 DEF Receive
<1>4. CASE Send
  <2>1. chanB' \in Seq(Events) /\ Len(chanB') = Len(chanB) + 1
    BY <1>4, Appended DEF Send
  <2>2. QED
    BY <1>4, <2>1 DEF Send
<1>5. CASE Break
  <2>1. wire' \in Seq(Events)
    BY <1>5, PrefixIsSeq DEF Break
  <2>2. clean' \in BOOLEAN
    BY <1>5 DEF Break, Fault
  <2>3. faults' \in 0..MaxFaults
    BY <1>5 DEF Break, Fault
  <2>4. Phases'
    BY <1>5, <2>1 DEF Break, Fault
  <2>5. TypeOK'
    BY <1>5, <2>1, <2>2, <2>3 DEF Break, Fault
  <2>6. QED
    BY <2>4, <2>5
<1>6. QED
  BY <1>1, <1>2, <1>3, <1>4, <1>5 DEF SubscriberStep

LEMMA SinkTypes ==
    ASSUME IInv, SinkStep \/ SinkTick \/ InsertFail
    PROVE  IInv'
<1> USE PipelineAssumption DEF IInv, TypeOK, Phases, vars, pub, sub, sink, queueB, bounds, source
<1>1. CASE SinkReceive
  <2>1. Head(chanB) \in Events /\ Tail(chanB) \in Seq(Events) /\ Len(Tail(chanB)) <= Len(chanB)
    BY <1>1, HeadAndTail DEF SinkReceive
  <2>2. buffer' \in Seq(Events) /\ Len(buffer') = Len(buffer) + 1
    BY <1>1, <2>1, Appended DEF SinkReceive
  <2>3. QED
    BY <1>1, <2>1, <2>2 DEF SinkReceive
<1>2. CASE SinkClosed
  BY <1>2 DEF SinkClosed
<1>3. CASE SerializeFail
  <2>1. clean' \in BOOLEAN
    BY <1>3 DEF SerializeFail
  <2>2. buffer' \in Seq(Events) /\ Len(buffer') <= BatchSize /\ Len(buffer') < BatchSize
    BY <1>3 DEF SerializeFail, AfterFlush
  <2>3. sinkPhase' \in {"select", "insert", "done"}
    BY <1>3 DEF SerializeFail, AfterFlush
  <2>4. Phases'
    BY <1>3, <2>2 DEF SerializeFail, AfterFlush
  <2>5. TypeOK'
    BY <1>3, <2>1, <2>2, <2>3 DEF SerializeFail, AfterFlush
  <2>6. QED
    BY <2>4, <2>5
<1>4. CASE InsertOk
  <2>1. table' \in Seq(Events)
    BY <1>4, Concatenated DEF InsertOk
  <2>2. QED
    BY <1>4, <2>1 DEF InsertOk, AfterFlush
<1>5. CASE SinkTick
  BY <1>5 DEF SinkTick
<1>6. CASE InsertFail
  <2>1. table' \in Seq(Events)
    BY <1>6, Concatenated DEF InsertFail
  <2>2. clean' \in BOOLEAN
    BY <1>6 DEF InsertFail, AfterFlush, Fault
  <2>3. faults' \in 0..MaxFaults
    BY <1>6 DEF InsertFail, AfterFlush, Fault
  <2>4. Phases'
    BY <1>6, <2>1 DEF InsertFail, AfterFlush, Fault
  <2>5. TypeOK'
    BY <1>6, <2>1, <2>2, <2>3 DEF InsertFail, AfterFlush, Fault
  <2>6. QED
    BY <2>4, <2>5
<1>7. QED
  BY <1>1, <1>2, <1>3, <1>4, <1>5, <1>6 DEF SinkStep

LEMMA WriterTypes ==
    ASSUME IInv, WriterStop \/ DrainTimeout \/ WriterStart
    PROVE  IInv'
<1> USE PipelineAssumption DEF IInv, TypeOK, Phases, vars, pub, sub, sink, queueB, bounds, source
<1>1. CASE WriterStop
  <2>1. clean' \in BOOLEAN
    BY <1>1 DEF WriterStop, Stop
  <2>2. stops' \in 0..MaxStops
    BY <1>1 DEF WriterStop, Stop
  <2>3. Phases'
    BY <1>1 DEF WriterStop, Stop
  <2>4. TypeOK'
    <3>1. closedB' \in BOOLEAN /\ link' \in BOOLEAN /\ closedA' \in BOOLEAN
          /\ lastBatch' \in BOOLEAN /\ draining' \in BOOLEAN
      BY <1>1 DEF WriterStop
    <3>2. /\ wire' \in Seq(Events) /\ held' \in {0} \cup Events
          /\ subPhase' \in {"waiting", "listening", "sending", "stopped"}
      BY <1>1 DEF WriterStop
    <3>3. UNCHANGED <<source, pub, chanB, sink, faults>>
      BY <1>1 DEF WriterStop, Stop
    <3>4. QED
      BY <2>1, <2>2, <3>1, <3>2, <3>3
  <2>5. QED
    BY <2>3, <2>4
<1>2. CASE DrainTimeout
  <2>1. table' \in Seq(Events)
    BY <1>2, Concatenated DEF DrainTimeout
  <2>2. clean' \in BOOLEAN
    BY <1>2 DEF DrainTimeout, Fault
  <2>3. faults' \in 0..MaxFaults
    BY <1>2 DEF DrainTimeout, Fault
  <2>4. Phases'
    BY <1>2, <2>1 DEF DrainTimeout, Fault
  <2>5. TypeOK'
    BY <1>2, <2>1, <2>2, <2>3 DEF DrainTimeout, Fault
  <2>6. QED
    BY <2>4, <2>5
<1>3. CASE WriterStart
  <2>1. Phases'
    BY <1>3 DEF WriterStart
  <2>2. TypeOK'
    BY <1>3 DEF WriterStart
  <2>3. QED
    BY <2>1, <2>2
<1>4. QED
  BY <1>1, <1>2, <1>3

\* The services stay within their buffers, and hold what their phase says.
LEMMA NextIInv ==
    ASSUME IInv, [Next]_vars
    PROVE  IInv'
<1>1. CASE UNCHANGED vars
  BY <1>1 DEF IInv, TypeOK, Phases, vars, source, pub, sub, queueB, sink, bounds
<1>2. QED
  BY <1>1, SourceTypes, PublisherTypes, SubscriberTypes, SinkTypes, WriterTypes DEF Next

\* Every channel, batch and buffer stays within its limit, whatever fails or stops
\* (pubsub_sink.rs:56-94, sink.rs:168-198).
THEOREM TypeCorrect == Spec => []TypeOK
<1>1. IInv => TypeOK
  BY DEF IInv
<1>2. QED
  BY <1>1, InitIInv, NextIInv, PTL DEF Spec

-----------------------------------------------------------------------------
(* The stations, one behind the other *)

Held      == IF held = 0 THEN <<>> ELSE <<held>>
Stored    == table \o buffer
Queued    == Stored \o chanB
Taken     == Queued \o Held
OnTheWire == Taken \o wire
Batched   == OnTheWire \o batch

LineIsUp ==
    /\ InFlight = Batched \o chanA
    /\ Held \in Seq(Events) /\ Stored \in Seq(Events) /\ Queued \in Seq(Events)
    /\ Taken \in Seq(Events) /\ OnTheWire \in Seq(Events)
    /\ Batched \in Seq(Events) /\ InFlight \in Seq(Events)

LEMMA LineUp == TypeOK => LineIsUp
<1> SUFFICES ASSUME TypeOK PROVE LineIsUp
  OBVIOUS
<1>1. /\ table \in Seq(Events) /\ buffer \in Seq(Events) /\ chanB \in Seq(Events)
      /\ wire \in Seq(Events) /\ batch \in Seq(Events) /\ chanA \in Seq(Events)
      /\ held \in {0} \cup Events
  BY DEF TypeOK
<1>2. Held \in Seq(Events)
  BY <1>1 DEF Held
<1>3. Stored \in Seq(Events)
  BY <1>1, Concatenated DEF Stored
<1>4. Queued \in Seq(Events)
  BY <1>1, <1>3, Concatenated DEF Queued
<1>5. Taken \in Seq(Events)
  BY <1>2, <1>4, Concatenated DEF Taken
<1>6. OnTheWire \in Seq(Events)
  BY <1>1, <1>5, Concatenated DEF OnTheWire
<1>7. Batched \in Seq(Events)
  BY <1>1, <1>6, Concatenated DEF Batched
<1>8. InFlight = Batched \o chanA
  BY Zenon DEF InFlight, Batched, OnTheWire, Taken, Queued, Stored, Held
<1>9. InFlight \in Seq(Events)
  BY <1>1, <1>7, <1>8, Concatenated
<1>10. QED
  BY <1>2, <1>3, <1>4, <1>5, <1>6, <1>7, <1>8, <1>9 DEF LineIsUp

LEMMA LineUpNext == TypeOK' => LineIsUp'
  BY LineUp, PTL

\* What happens at one station leaves those behind it where they are.
LEMMA Behind ==
    ASSUME TypeOK, TypeOK'
    PROVE  /\ Kept(clean', Batched', Batched) /\ UNCHANGED chanA
                => Kept(clean', InFlight', InFlight)
           /\ Kept(clean', OnTheWire', OnTheWire) /\ UNCHANGED batch
                => Kept(clean', Batched', Batched)
           /\ Kept(clean', Taken', Taken) /\ UNCHANGED wire
                => Kept(clean', OnTheWire', OnTheWire)
           /\ Kept(clean', Queued', Queued) /\ UNCHANGED held
                => Kept(clean', Taken', Taken)
           /\ Kept(clean', Stored', Stored) /\ UNCHANGED chanB
                => Kept(clean', Queued', Queued)
<1>1. /\ chanA \in Seq(Events) /\ batch \in Seq(Events) /\ wire \in Seq(Events)
      /\ chanB \in Seq(Events)
  BY DEF TypeOK
<1>2. /\ Held \in Seq(Events) /\ Stored \in Seq(Events) /\ Queued \in Seq(Events)
      /\ Taken \in Seq(Events) /\ OnTheWire \in Seq(Events) /\ Batched \in Seq(Events)
      /\ InFlight = Batched \o chanA
  BY LineUp DEF LineIsUp
<1>3. /\ Held' \in Seq(Events) /\ Stored' \in Seq(Events) /\ Queued' \in Seq(Events)
      /\ Taken' \in Seq(Events) /\ OnTheWire' \in Seq(Events) /\ Batched' \in Seq(Events)
      /\ InFlight' = Batched' \o chanA'
  BY LineUpNext DEF LineIsUp
<1>4. ASSUME Kept(clean', Batched', Batched), UNCHANGED chanA
      PROVE  Kept(clean', InFlight', InFlight)
  <2>1. Kept(clean', Batched' \o chanA, Batched \o chanA)
    BY <1>1, <1>2, <1>3, <1>4, KeptAhead
  <2>2. QED
    BY <1>2, <1>3, <1>4, <2>1, Zenon
<1>5. ASSUME Kept(clean', OnTheWire', OnTheWire), UNCHANGED batch
      PROVE  Kept(clean', Batched', Batched)
  <2>1. Kept(clean', OnTheWire' \o batch, OnTheWire \o batch)
    BY <1>1, <1>2, <1>3, <1>5, KeptAhead
  <2>2. QED
    BY <1>5, <2>1, Zenon DEF Batched
<1>6. ASSUME Kept(clean', Taken', Taken), UNCHANGED wire
      PROVE  Kept(clean', OnTheWire', OnTheWire)
  <2>1. Kept(clean', Taken' \o wire, Taken \o wire)
    BY <1>1, <1>2, <1>3, <1>6, KeptAhead
  <2>2. QED
    BY <1>6, <2>1, Zenon DEF OnTheWire
<1>7. ASSUME Kept(clean', Queued', Queued), UNCHANGED held
      PROVE  Kept(clean', Taken', Taken)
  <2>1. Kept(clean', Queued' \o Held, Queued \o Held)
    BY <1>1, <1>2, <1>3, <1>7, KeptAhead
  <2>2. Held' = Held
    BY <1>7 DEF Held
  <2>3. QED
    BY <2>1, <2>2, Zenon DEF Taken
<1>8. ASSUME Kept(clean', Stored', Stored), UNCHANGED chanB
      PROVE  Kept(clean', Queued', Queued)
  <2>1. Kept(clean', Stored' \o chanB, Stored \o chanB)
    BY <1>1, <1>2, <1>3, <1>8, KeptAhead
  <2>2. QED
    BY <1>8, <2>1, Zenon DEF Queued
<1>9. QED
  BY <1>4, <1>5, <1>6, <1>7, <1>8, Zenon

-----------------------------------------------------------------------------
(* The steps *)

LEMMA ThinnerSeq ==
    ASSUME NEW s \in Seq(Events)
    PROVE  Thinner(s, s) /\ Thinner(<<>>, s)
  BY ThinnerSelf, ThinnerEmpty

LEMMA ThinnerPair ==
    ASSUME NEW s1 \in Seq(Events), NEW t1 \in Seq(Events),
           NEW s2 \in Seq(Events), NEW t2 \in Seq(Events),
           Thinner(s1, t1), Thinner(s2, t2)
    PROVE  Thinner(s1 \o s2, t1 \o t2)
  BY ThinnerConcat

LEMMA Taking ==
    ASSUME TypeOK, TypeOK', Phases, First \/ Fill
    PROVE  Kept(clean', InFlight', InFlight)
<1> DEFINE x == <<Head(chanA)>>
<1>1. chanA \in Seq(Events) /\ chanA # <<>> /\ batch \in Seq(Events) /\ chanA' \in Seq(Events)
  BY DEF TypeOK, First, Fill
<1>2. x \in Seq(Events) /\ chanA = x \o chanA'
  <2>1. Head(chanA) \in Events /\ chanA = x \o Tail(chanA) /\ chanA' = Tail(chanA)
    BY <1>1, HeadAndTail, Zenon DEF First, Fill
  <2>2. QED
    BY <2>1
<1>3. batch' = batch \o x
  <2>1. Head(chanA) \in Events
    BY <1>1, HeadAndTail, Zenon
  <2>2. CASE First
    <3>1. batch = <<>> /\ batch' = x
      BY <2>2, Zenon DEF First, Phases
    <3>2. QED
      BY <1>2, <3>1, Nothing
  <2>3. CASE Fill
    <3>1. batch' = Append(batch, Head(chanA))
      BY <2>3 DEF Fill
    <3>2. QED
      BY <1>1, <2>1, <3>1, Appended, Zenon
  <2>4. QED
    BY <2>2, <2>3
<1> HIDE DEF x
<1>4. OnTheWire' = OnTheWire
  BY Zenon DEF First, Fill, sub, sink, queueB, OnTheWire, Taken, Queued, Stored, Held
<1>5. /\ OnTheWire \in Seq(Events) /\ InFlight = Batched \o chanA /\ InFlight \in Seq(Events)
  BY LineUp DEF LineIsUp
<1>6. InFlight' = Batched' \o chanA'
  BY LineUpNext DEF LineIsUp
<1>7. Passes(OnTheWire, batch, x, chanA')
  BY <1>1, <1>2, <1>5, Passed, Zenon
<1>8. InFlight' = InFlight
  BY <1>2, <1>3, <1>4, <1>5, <1>6, <1>7, Zenon DEF Batched, Passes
<1>9. QED
  BY <1>5, <1>8, KeptSame

\* p is what Redis hands on of the batch.
LEMMA Publishing ==
    ASSUME TypeOK, TypeOK', NEW p \in Seq(Events), Thinner(p, batch),
           wire' = wire \o p, batch' = <<>>, UNCHANGED <<held, queueB, sink>>
    PROVE  Thinner(Batched', Batched) /\ (p = batch => Batched' = Batched)
<1>1. wire \in Seq(Events) /\ batch \in Seq(Events)
  BY DEF TypeOK
<1>2. Taken' = Taken
  BY Zenon DEF sink, queueB, Taken, Queued, Stored, Held
<1>3. Taken \in Seq(Events) /\ OnTheWire \in Seq(Events)
  BY LineUp DEF LineIsUp
<1>4. <<>> \in Seq(Events) /\ p \o <<>> = p
  BY Nothing
<1>5. Passes(Taken, wire, p, <<>>)
  BY <1>1, <1>3, <1>4, Passed, Zenon
<1>6. Batched' = OnTheWire \o p
  BY <1>2, <1>4, <1>5, Zenon DEF Batched, OnTheWire, Passes
<1>7. Thinner(OnTheWire, OnTheWire)
  BY <1>3, ThinnerSeq
<1>8. Thinner(OnTheWire \o p, OnTheWire \o batch)
  BY <1>1, <1>3, <1>7, ThinnerPair
<1>9. QED
  BY <1>6, <1>8, Zenon DEF Batched

\* Deliver hands on p, or nothing.
LEMMA Delivering ==
    ASSUME TypeOK, NEW s \in Seq(Events), Thinner(s, batch), Deliver(s)
    PROVE  \E p \in {s, <<>>} : /\ p \in Seq(Events) /\ Thinner(p, batch)
                               /\ wire' = wire \o p
                               /\ (link => p = s)
<1>1. wire \in Seq(Events) /\ batch \in Seq(Events)
  BY DEF TypeOK
<1>2. wire \o <<>> = wire /\ Thinner(<<>>, batch) /\ <<>> \in Seq(Events)
  BY <1>1, Nothing, ThinnerSeq
<1>3. QED
  BY <1>2, Zenon DEF Deliver

LEMMA PublishKeeps ==
    ASSUME TypeOK, TypeOK', PublishOk \/ PublishFail
    PROVE  Kept(clean', InFlight', InFlight)
<1>1. batch' = <<>> /\ UNCHANGED <<held, queueB, sink, chanA>>
  BY DEF PublishOk, PublishFail, Flushed, source
<1>2. PICK s \in Seq(Events) : /\ Thinner(s, batch) /\ Deliver(s)
                               /\ (clean' => s = batch /\ link)
  <2>1. batch \in Seq(Events)
    BY DEF TypeOK
  <2>2. CASE PublishOk
    BY <2>1, <2>2, ThinnerSeq, Zenon DEF PublishOk
  <2>3. CASE PublishFail
    <3>1. PICK s \in Prefixes(batch) : Deliver(s)
      BY <2>3 DEF PublishFail
    <3>2. s \in Seq(Events) /\ Thinner(s, batch)
      BY <2>1, <3>1, ThinnerPrefix
    <3>3. ~clean'
      BY <2>3 DEF PublishFail
    <3>4. QED
      BY <3>1, <3>2, <3>3, Zenon
  <2>4. QED
    BY <2>2, <2>3
<1>3. PICK p \in {s, <<>>} : /\ p \in Seq(Events) /\ Thinner(p, batch)
                             /\ wire' = wire \o p /\ (link => p = s)
  BY <1>2, Delivering
<1>4. Thinner(Batched', Batched) /\ (p = batch => Batched' = Batched)
  BY <1>1, <1>3, Publishing
<1>5. Kept(clean', Batched', Batched)
  BY <1>2, <1>3, <1>4, Zenon DEF Kept
<1>6. QED
  BY <1>1, <1>5, Behind, Zenon

LEMMA Receiving ==
    ASSUME TypeOK, TypeOK', Phases, Receive
    PROVE  Kept(clean', InFlight', InFlight)
<1> DEFINE x == <<Head(wire)>>
<1>1. wire \in Seq(Events) /\ wire # <<>> /\ wire' \in Seq(Events)
  BY DEF TypeOK, Receive
<1>2. Head(wire) \in Events /\ wire = x \o Tail(wire) /\ wire' = Tail(wire)
  BY <1>1, HeadAndTail, Zenon DEF Receive
<1>3. x \in Seq(Events) /\ Head(wire) # 0
  BY <1>2 DEF Events
<1>4. Held = <<>> /\ Held' = x
  <2>1. held = 0
    BY Zenon DEF Receive, Phases
  <2>2. held' = Head(wire)
    BY DEF Receive
  <2>3. QED
    BY <1>3, <2>1, <2>2, Zenon DEF Held
<1> HIDE DEF x
<1>5. Queued' = Queued
  BY Zenon DEF Receive, sink, queueB, Queued, Stored
<1>6. Queued \in Seq(Events) /\ Taken \in Seq(Events) /\ OnTheWire \in Seq(Events)
  BY LineUp DEF LineIsUp
<1>7. Queued \o <<>> = Queued
  BY <1>6, Nothing
<1>8. Splits(Queued, x, wire')
  BY <1>1, <1>3, <1>6, ConcatSplits, Zenon
<1>9. OnTheWire' = OnTheWire
  BY <1>2, <1>4, <1>5, <1>7, <1>8, Zenon DEF OnTheWire, Taken, Splits
<1>10. Kept(clean', OnTheWire', OnTheWire)
  BY <1>6, <1>9, KeptSame
<1>11. batch' = batch /\ chanA' = chanA
  BY DEF Receive, pub, source
<1>12. QED
  BY <1>10, <1>11, Behind, Zenon

LEMMA Sending ==
    ASSUME TypeOK, TypeOK', Phases, Send
    PROVE  Kept(clean', InFlight', InFlight)
<1>1. held \in Events /\ chanB \in Seq(Events) /\ <<held>> \in Seq(Events)
  BY DEF TypeOK, Phases, Send
<1>2. Held = <<held>> /\ Held' = <<>>
  BY Zenon DEF Held, Phases, Send
<1>3. chanB' = chanB \o <<held>>
  BY <1>1, Appended, Zenon DEF Send
<1>4. Stored' = Stored
  BY Zenon DEF Send, sink, Stored
<1>5. Stored \in Seq(Events) /\ Taken \in Seq(Events)
  BY LineUp DEF LineIsUp
<1>6. <<>> \in Seq(Events) /\ <<held>> \o <<>> = <<held>>
  BY <1>1, Nothing
<1>7. Passes(Stored, chanB, <<held>>, <<>>)
  BY <1>1, <1>5, <1>6, Passed, Zenon
<1>8. Taken' = Taken
  BY <1>2, <1>3, <1>4, <1>6, <1>7, Zenon DEF Taken, Queued, Passes
<1>9. Kept(clean', Taken', Taken)
  BY <1>5, <1>8, KeptSame
<1>10. wire' = wire /\ batch' = batch /\ chanA' = chanA
  BY DEF Send, pub, source
<1>11. QED
  BY <1>9, <1>10, Behind, Zenon

LEMMA BreakKeeps ==
    ASSUME TypeOK, TypeOK', Break
    PROVE  Kept(clean', InFlight', InFlight)
<1>1. Taken' = Taken
  BY Zenon DEF Break, sink, queueB, Taken, Queued, Stored, Held
<1>2. Taken \in Seq(Events)
  BY LineUp DEF LineIsUp
<1>3. wire \in Seq(Events) /\ wire' \in Seq(Events) /\ Thinner(wire', wire)
  BY ThinnerPrefix DEF TypeOK, Break
<1>4. Thinner(Taken, Taken)
  BY <1>2, ThinnerSeq
<1>5. Thinner(Taken \o wire', Taken \o wire)
  BY <1>2, <1>3, <1>4, ThinnerPair
<1>6. clean' => wire' = wire
  BY DEF Break
<1>7. Kept(clean', OnTheWire', OnTheWire)
  BY <1>1, <1>5, <1>6, Zenon DEF OnTheWire, Kept
<1>8. batch' = batch /\ chanA' = chanA
  BY DEF Break, pub, source
<1>9. QED
  BY <1>7, <1>8, Behind, Zenon

LEMMA WriterStopKeeps ==
    ASSUME TypeOK, TypeOK', WriterStop
    PROVE  Kept(clean', InFlight', InFlight)
<1>1. Queued' = Queued
  BY Zenon DEF WriterStop, sink, Queued, Stored
<1>2. Queued \in Seq(Events) /\ Held \in Seq(Events) /\ wire \in Seq(Events) /\ Taken \in Seq(Events)
      /\ <<>> \in Seq(Events)
  BY LineUp DEF LineIsUp, TypeOK
<1>3. Held' = <<>> /\ wire' = <<>>
  BY Zenon DEF WriterStop, Held
<1>4. Thinner(Queued, Queued) /\ Thinner(<<>>, Held) /\ Thinner(<<>>, wire)
  BY <1>2, ThinnerSeq
<1>5. Thinner(Queued \o <<>>, Queued \o Held)
  BY <1>2, <1>4, ThinnerPair
<1>6. Queued \o <<>> \in Seq(Events) /\ Queued \o Held \in Seq(Events)
  BY <1>2, Concatenated
<1>7. Thinner((Queued \o <<>>) \o <<>>, (Queued \o Held) \o wire)
  BY <1>2, <1>4, <1>5, <1>6, ThinnerPair
<1>8. clean' => Held = <<>> /\ wire = <<>>
  BY DEF WriterStop, Held
<1>9. Kept(clean', OnTheWire', OnTheWire)
  BY <1>1, <1>3, <1>7, <1>8, Zenon DEF OnTheWire, Taken, Kept
<1>10. batch' = batch /\ chanA' = chanA
  BY DEF WriterStop, pub, source
<1>11. QED
  BY <1>9, <1>10, Behind, Zenon

LEMMA SinkTakes ==
    ASSUME TypeOK, TypeOK', SinkReceive
    PROVE  Kept(clean', InFlight', InFlight)
<1> DEFINE x == <<Head(chanB)>>
<1>1. chanB \in Seq(Events) /\ chanB # <<>> /\ buffer \in Seq(Events) /\ table \in Seq(Events)
      /\ chanB' \in Seq(Events)
  BY DEF TypeOK, SinkReceive
<1>2. Head(chanB) \in Events /\ chanB = x \o Tail(chanB) /\ chanB' = Tail(chanB)
  BY <1>1, HeadAndTail, Zenon DEF SinkReceive
<1>3. x \in Seq(Events)
  BY <1>2
<1>4. buffer' = buffer \o x /\ table' = table
  BY <1>1, <1>2, Appended, Zenon DEF SinkReceive
<1> HIDE DEF x
<1>5. Passes(table, buffer, x, chanB')
  BY <1>1, <1>3, Passed, Zenon
<1>6. Queued' = Queued
  BY <1>2, <1>4, <1>5, Zenon DEF Queued, Stored, Passes
<1>7. Queued \in Seq(Events)
  BY LineUp DEF LineIsUp
<1>8. Kept(clean', Queued', Queued)
  BY <1>6, <1>7, KeptSame
<1>9. held' = held /\ wire' = wire /\ batch' = batch /\ chanA' = chanA
  BY DEF SinkReceive, sub, pub, source
<1>10. QED
  BY <1>8, <1>9, Behind, Zenon

\* The buffer ends up in the table or nowhere.
LEMMA Flushing ==
    ASSUME TypeOK, buffer' = <<>>, table' \in {table, table \o buffer}
    PROVE  Thinner(Stored', Stored) /\ (table' = table \o buffer => Stored' = Stored)
<1>1. table \in Seq(Events) /\ buffer \in Seq(Events) /\ <<>> \in Seq(Events)
  BY DEF TypeOK
<1>2. Stored \in Seq(Events)
  BY LineUp DEF LineIsUp
<1>3. Stored \o <<>> = Stored /\ Thinner(Stored, Stored)
  BY <1>2, Nothing, ThinnerSeq
<1>4. Thinner(table, table) /\ Thinner(<<>>, buffer)
  BY <1>1, ThinnerSeq
<1>5. Thinner(table \o <<>>, table \o buffer)
  BY <1>1, <1>4, ThinnerPair
<1>6. QED
  BY <1>3, <1>5, Zenon DEF Stored

LEMMA FlushKeeps ==
    ASSUME TypeOK, TypeOK', SerializeFail \/ InsertOk \/ InsertFail
    PROVE  Kept(clean', InFlight', InFlight)
<1>1. /\ buffer' = <<>> /\ table' \in {table, table \o buffer}
      /\ clean' => table' = table \o buffer
      /\ chanB' = chanB /\ held' = held /\ wire' = wire /\ batch' = batch /\ chanA' = chanA
  BY Zenon DEF SerializeFail, InsertOk, InsertFail, AfterFlush, sub, pub, source, queueB
<1>2. Thinner(Stored', Stored) /\ (table' = table \o buffer => Stored' = Stored)
  BY <1>1, Flushing
<1>3. Kept(clean', Stored', Stored)
  BY <1>1, <1>2, Zenon DEF Kept
<1>4. QED
  BY <1>1, <1>3, Behind, Zenon

LEMMA DrainKeeps ==
    ASSUME TypeOK, TypeOK', DrainTimeout
    PROVE  Kept(clean', InFlight', InFlight)
<1>1. /\ buffer' = <<>> /\ table' \in {table, table \o buffer} /\ chanB' = <<>> /\ ~clean'
      /\ held' = held /\ wire' = wire /\ batch' = batch /\ chanA' = chanA
  BY DEF DrainTimeout, sub, pub, source
<1>2. Thinner(Stored', Stored)
  BY <1>1, Flushing
<1>3. /\ Stored \in Seq(Events) /\ Stored' \in Seq(Events) /\ chanB \in Seq(Events)
      /\ <<>> \in Seq(Events)
  BY LineUp, LineUpNext DEF LineIsUp, TypeOK
<1>4. Thinner(<<>>, chanB)
  BY <1>3, ThinnerSeq
<1>5. Thinner(Stored' \o <<>>, Stored \o chanB)
  BY <1>2, <1>3, <1>4, ThinnerPair
<1>6. Kept(clean', Queued', Queued)
  BY <1>1, <1>5, Zenon DEF Kept, Queued
<1>7. QED
  BY <1>1, <1>6, Behind, Zenon

LEMMA Producing ==
    ASSUME TypeOK, TypeOK', Produce
    PROVE  InFlight' = Append(InFlight, produced + 1)
<1>1. chanA \in Seq(Events) /\ produced + 1 \in Events /\ chanA' = Append(chanA, produced + 1)
  BY DEF TypeOK, Produce, Events
<1>2. <<produced + 1>> \in Seq(Events) /\ chanA' = chanA \o <<produced + 1>>
  BY <1>1, Appended
<1>3. Batched' = Batched
  BY Zenon DEF Produce, pub, sub, queueB, sink, Batched, OnTheWire, Taken, Queued, Stored, Held
<1>4. Batched \in Seq(Events) /\ InFlight \in Seq(Events) /\ InFlight = Batched \o chanA
  BY LineUp DEF LineIsUp
<1>5. InFlight' = Batched' \o chanA'
  BY LineUpNext DEF LineIsUp
<1> DEFINE e == <<produced + 1>>
<1> HIDE DEF e
<1>6. Splits(Batched, chanA, e)
  BY <1>1, <1>2, <1>4, ConcatSplits, Zenon DEF e
<1>7. InFlight' = InFlight \o e
  BY <1>2, <1>3, <1>4, <1>5, <1>6, Zenon DEF e, Splits
<1>8. QED
  BY <1>1, <1>4, <1>7, Appended, Zenon DEF e

LEMMA OverflowKeeps ==
    ASSUME TypeOK, TypeOK', Overflow
    PROVE  Kept(clean', InFlight', Append(InFlight, produced + 1))
<1>1. /\ chanA' = <<>> /\ batch' = <<>> /\ ~clean' /\ UNCHANGED <<held, queueB, sink>>
      /\ wire \in Seq(Events) /\ batch \in Seq(Events) /\ chanA \in Seq(Events)
      /\ <<>> \in Seq(Events)
  BY DEF Overflow, TypeOK
<1>2. PICK p \in Seq(Events) : Thinner(p, batch) /\ wire' = wire \o p
  <2>1. CASE wire' = wire
    BY <1>1, <2>1, Nothing, ThinnerSeq, Zenon
  <2>2. CASE \E s \in Prefixes(batch) : Deliver(s)
    <3>1. PICK s \in Prefixes(batch) : Deliver(s)
      BY <2>2
    <3>2. s \in Seq(Events) /\ Thinner(s, batch)
      BY <1>1, ThinnerPrefix
    <3>3. QED
      BY <3>1, <3>2, Delivering, Zenon
  <2>3. QED
    BY <2>1, <2>2 DEF Overflow
<1>3. Thinner(Batched', Batched)
  BY <1>1, <1>2, Publishing
<1>4. Batched \in Seq(Events) /\ InFlight \in Seq(Events) /\ InFlight = Batched \o chanA
  BY LineUp DEF LineIsUp
<1>5. Batched' \in Seq(Events) /\ InFlight' = Batched' \o <<>>
  BY <1>1, LineUpNext DEF LineIsUp
<1>6. Thinner(<<>>, chanA)
  BY <1>1, ThinnerSeq
<1>7. Thinner(InFlight', InFlight)
  BY <1>1, <1>3, <1>4, <1>5, <1>6, ThinnerPair, Zenon
<1>8. InFlight' \in Seq(Events) /\ InFlight' \o <<>> = InFlight'
  BY LineUpNext, Nothing DEF LineIsUp
<1>9. produced + 1 \in Events /\ <<produced + 1>> \in Seq(Events)
  BY DEF TypeOK, Overflow, Events
<1>10. Thinner(<<>>, <<produced + 1>>)
  BY <1>9, ThinnerSeq
<1>11. Thinner(InFlight' \o <<>>, InFlight \o <<produced + 1>>)
  BY <1>1, <1>4, <1>7, <1>8, <1>9, <1>10, ThinnerPair
<1>12. QED
  BY <1>1, <1>4, <1>8, <1>9, <1>11, Appended, Zenon DEF Kept

\* The steps that move no event.
LEMMA StandingStill ==
    ASSUME TypeOK,
           \/ CollectorStop \/ CollectorStart \/ IdleClosed \/ FillClosed \/ Linger
           \/ Subscribe \/ StreamEnd \/ SinkClosed \/ SinkTick \/ WriterStart
           \/ UNCHANGED vars
    PROVE  Kept(clean', InFlight', InFlight) /\ produced' = produced /\ clean' = clean
<1>1. /\ UNCHANGED <<table, buffer, chanB, held, wire, batch, chanA>>
      /\ produced' = produced /\ clean' = clean
  BY DEF CollectorStop, CollectorStart, IdleClosed, FillClosed, Linger, Subscribe, StreamEnd,
         SinkClosed, SinkTick, WriterStart, vars, source, pub, sub, queueB, sink
<1>2. InFlight' = InFlight
  BY <1>1, Zenon DEF InFlight
<1>3. InFlight \in Seq(Events)
  BY LineUp DEF LineIsUp
<1>4. QED
  BY <1>1, <1>2, <1>3, KeptSame

Flows ==
    /\ clean' => clean
    /\ \/ produced' = produced /\ Kept(clean', InFlight', InFlight)
       \/ /\ produced' = produced + 1 /\ produced + 1 \in Events
          /\ Kept(clean', InFlight', Append(InFlight, produced + 1))

LEMMA Flow ==
    ASSUME IInv, IInv', [Next]_vars
    PROVE  Flows
<1>1. TypeOK /\ TypeOK' /\ Phases
  BY DEF IInv
<1>2. CASE Produce
  <2>1. clean' = clean /\ produced' = produced + 1 /\ produced + 1 \in Events
    BY <1>1, <1>2 DEF Produce, TypeOK, Events
  <2>2. InFlight' = Append(InFlight, produced + 1)
    BY <1>1, <1>2, Producing
  <2>3. InFlight' \in Seq(Events)
    BY <1>1, LineUpNext DEF LineIsUp
  <2>4. Kept(clean', InFlight', InFlight')
    BY <2>3, KeptSame
  <2>5. QED
    BY <2>1, <2>2, <2>4, Zenon DEF Flows
<1>3. CASE Overflow
  <2>1. ~clean' /\ produced' = produced + 1 /\ produced + 1 \in Events
    BY <1>1, <1>3 DEF Overflow, TypeOK, Events
  <2>2. QED
    BY <1>1, <1>3, <2>1, OverflowKeeps, Zenon DEF Flows
<1>4. CASE First \/ Fill
  <2>1. clean' = clean /\ produced' = produced
    BY <1>4 DEF First, Fill, source
  <2>2. QED
    BY <1>1, <1>4, <2>1, Taking, Zenon DEF Flows
<1>5. CASE PublishOk \/ PublishFail
  <2>1. (clean' => clean) /\ produced' = produced
    BY <1>5 DEF PublishOk, PublishFail, source
  <2>2. QED
    BY <1>1, <1>5, <2>1, PublishKeeps, Zenon DEF Flows
<1>6. CASE Receive
  <2>1. clean' = clean /\ produced' = produced
    BY <1>6 DEF Receive, source
  <2>2. QED
    BY <1>1, <1>6, <2>1, Receiving, Zenon DEF Flows
<1>7. CASE Send
  <2>1. clean' = clean /\ produced' = produced
    BY <1>7 DEF Send, source
  <2>2. QED
    BY <1>1, <1>7, <2>1, Sending, Zenon DEF Flows
<1>8. CASE Break
  <2>1. (clean' => clean) /\ produced' = produced
    BY <1>8 DEF Break, source
  <2>2. QED
    BY <1>1, <1>8, <2>1, BreakKeeps, Zenon DEF Flows
<1>9. CASE WriterStop
  <2>1. (clean' => clean) /\ produced' = produced
    BY <1>9 DEF WriterStop, source
  <2>2. QED
    BY <1>1, <1>9, <2>1, WriterStopKeeps, Zenon DEF Flows
<1>10. CASE SinkReceive
  <2>1. clean' = clean /\ produced' = produced
    BY <1>10 DEF SinkReceive, source
  <2>2. QED
    BY <1>1, <1>10, <2>1, SinkTakes, Zenon DEF Flows
<1>11. CASE SerializeFail \/ InsertOk \/ InsertFail
  <2>1. (clean' => clean) /\ produced' = produced
    BY <1>11 DEF SerializeFail, InsertOk, InsertFail, source
  <2>2. QED
    BY <1>1, <1>11, <2>1, FlushKeeps, Zenon DEF Flows
<1>12. CASE DrainTimeout
  <2>1. ~clean' /\ produced' = produced
    BY <1>12 DEF DrainTimeout, source
  <2>2. QED
    BY <1>1, <1>12, <2>1, DrainKeeps, Zenon DEF Flows
<1>13. CASE \/ CollectorStop \/ CollectorStart \/ IdleClosed \/ FillClosed \/ Linger
            \/ Subscribe \/ StreamEnd \/ SinkClosed \/ SinkTick \/ WriterStart
            \/ UNCHANGED vars
  <2>1. Kept(clean', InFlight', InFlight) /\ produced' = produced /\ clean' = clean
    BY <1>1, <1>13, StandingStill
  <2>2. QED
    BY <2>1, Zenon DEF Flows
<1>14. QED
  BY <1>2, <1>3, <1>4, <1>5, <1>6, <1>7, <1>8, <1>9, <1>10, <1>11, <1>12, <1>13
     DEF Next, PublisherStep, SubscriberStep, SinkStep

-----------------------------------------------------------------------------
(* Order *)

Increasing(s, n) ==
    /\ \A i, j \in 1..Len(s) : i < j => s[i] < s[j]
    /\ \A i \in 1..Len(s) : s[i] <= n

LEMMA ThinnerIncreasing ==
    ASSUME NEW s \in Seq(Events), NEW t \in Seq(Events), NEW n, Thinner(s, t), Increasing(t, n)
    PROVE  Increasing(s, n)
<1>1. PICK f \in [1..Len(s) -> 1..Len(t)] :
         /\ \A i, j \in 1..Len(s) : i < j => f[i] < f[j]
         /\ \A i \in 1..Len(s) : s[i] = t[f[i]]
  BY DEF Thinner
<1>2. \A i \in 1..Len(s) : f[i] \in 1..Len(t)
  BY <1>1
<1>3. ASSUME NEW i \in 1..Len(s), NEW j \in 1..Len(s), i < j
      PROVE  s[i] < s[j]
  <2>1. f[i] < f[j] /\ s[i] = t[f[i]] /\ s[j] = t[f[j]]
    BY <1>1, <1>3
  <2>2. t[f[i]] < t[f[j]]
    BY <1>2, <2>1 DEF Increasing
  <2>3. QED
    BY <2>1, <2>2
<1>4. ASSUME NEW i \in 1..Len(s)
      PROVE  s[i] <= n
  <2>1. s[i] = t[f[i]] /\ t[f[i]] <= n
    BY <1>1, <1>2 DEF Increasing
  <2>2. QED
    BY <2>1
<1>5. QED
  BY <1>3, <1>4 DEF Increasing

LEMMA AppendIncreasing ==
    ASSUME NEW t \in Seq(Events), NEW n \in Nat, n + 1 \in Events, Increasing(t, n)
    PROVE  Append(t, n + 1) \in Seq(Events) /\ Increasing(Append(t, n + 1), n + 1)
<1>1. /\ Append(t, n + 1) \in Seq(Events) /\ Len(Append(t, n + 1)) = Len(t) + 1
      /\ \A i \in 1..Len(t) : Append(t, n + 1)[i] = t[i] /\ t[i] \in Events
      /\ Append(t, n + 1)[Len(t) + 1] = n + 1
      /\ Len(t) \in Nat
  BY AppendProperties
<1>2. \A i \in 1..Len(t) : t[i] <= n /\ t[i] \in Int
  BY <1>1 DEF Increasing, Events
<1> DEFINE a == Append(t, n + 1)
<1> HIDE DEF a
<1>3. /\ Len(a) = Len(t) + 1 /\ a[Len(t) + 1] = n + 1
      /\ \A i \in 1..Len(t) : a[i] = t[i] /\ a[i] <= n /\ a[i] \in Int
  BY <1>1, <1>2 DEF a
<1>4. ASSUME NEW i \in 1..Len(a), NEW j \in 1..Len(a), i < j
      PROVE  a[i] < a[j]
  <2>1. i \in 1..Len(t)
    BY <1>1, <1>3, <1>4
  <2>2. CASE j \in 1..Len(t)
    BY <1>3, <1>4, <2>1, <2>2 DEF Increasing
  <2>3. CASE j = Len(t) + 1
    BY <1>3, <2>1, <2>3
  <2>4. QED
    BY <1>1, <1>3, <2>2, <2>3
<1>5. \A i \in 1..Len(a) : a[i] <= n + 1
  BY <1>1, <1>3
<1>6. Increasing(a, n + 1)
  BY <1>4, <1>5 DEF Increasing
<1>7. QED
  BY <1>1, <1>6 DEF a

\* Whatever fails, stops or starts again, no event is stored twice and none overtakes
\* another (pubsub_sink.rs:119-135, sink.rs:262-279).
THEOREM OrderIsKept == Spec => []InOrderOnce
<1> DEFINE Ordered == InFlight \in Seq(Events) /\ Increasing(InFlight, produced)
<1>1. Init => Ordered
  <2>1. SUFFICES ASSUME Init PROVE Ordered
    OBVIOUS
  <2>2. InFlight = <<>>
    BY <2>1, Nothing DEF Init, InFlight
  <2>3. QED
    BY <2>2 DEF Increasing
<1>2. ASSUME IInv, IInv', Ordered, [Next]_vars
      PROVE  Ordered'
  <2>1. InFlight' \in Seq(Events) /\ produced \in Nat
    BY <1>2, LineUpNext DEF IInv, LineIsUp, TypeOK
  <2>2. Flows
    BY <1>2, Flow
  <2>3. CASE produced' = produced /\ Kept(clean', InFlight', InFlight)
    <3>1. Increasing(InFlight', produced)
      BY <1>2, <2>1, <2>3, ThinnerIncreasing DEF Kept
    <3>2. QED
      BY <2>1, <2>3, <3>1
  <2>4. CASE /\ produced' = produced + 1 /\ produced + 1 \in Events
             /\ Kept(clean', InFlight', Append(InFlight, produced + 1))
    <3>1. /\ Append(InFlight, produced + 1) \in Seq(Events)
          /\ Increasing(Append(InFlight, produced + 1), produced + 1)
      BY <1>2, <2>1, <2>4, AppendIncreasing
    <3>2. Increasing(InFlight', produced + 1)
      BY <2>1, <2>4, <3>1, ThinnerIncreasing DEF Kept
    <3>3. QED
      BY <2>1, <2>4, <3>2
  <2>5. QED
    BY <2>2, <2>3, <2>4 DEF Flows
<1>3. Ordered => InOrderOnce
  <2>1. SUFFICES ASSUME Ordered PROVE InOrderOnce
    OBVIOUS
  <2>2. DOMAIN InFlight = 1..Len(InFlight)
    BY <2>1
  <2>3. QED
    BY <2>1, <2>2 DEF InOrderOnce, Increasing
<1>4. IInv /\ [Next]_vars => IInv'
  BY NextIInv
<1> HIDE DEF Ordered
<1>5. QED
  BY <1>1, <1>2, <1>3, <1>4, InitIInv, PTL DEF Spec

\* While nothing failed and no service was stopped with events in its hands, every
\* event sent is stored or on its way (pubsub_sink.rs:56-94, sink.rs:168-198).
THEOREM EverythingArrives == Spec => []NothingLost
<1>1. Init => NothingLost
  <2>1. SUFFICES ASSUME Init PROVE InFlight = [n \in 1..produced |-> n]
    BY DEF NothingLost
  <2>2. InFlight = <<>> /\ produced = 0
    BY <2>1, Nothing DEF Init, InFlight
  <2>3. QED
    BY <2>2
<1>2. ASSUME IInv, IInv', NothingLost, [Next]_vars
      PROVE  NothingLost'
  <2>1. SUFFICES ASSUME clean' PROVE InFlight' = [n \in 1..produced' |-> n]
    BY Zenon DEF NothingLost
  <2>2. Flows
    BY <1>2, Flow
  <2>3. InFlight = [n \in 1..produced |-> n] /\ produced \in Nat
    BY <1>2, <2>1, <2>2 DEF Flows, NothingLost, IInv, TypeOK
  <2>4. CASE produced' = produced /\ Kept(clean', InFlight', InFlight)
    BY <2>1, <2>3, <2>4, Zenon DEF Kept
  <2>5. CASE /\ produced' = produced + 1 /\ produced + 1 \in Events
             /\ Kept(clean', InFlight', Append(InFlight, produced + 1))
    <3>1. InFlight' = Append(InFlight, produced + 1)
      BY <2>1, <2>5, Zenon DEF Kept
    <3>2. Append([n \in 1..produced |-> n], produced + 1) = [n \in 1..(produced + 1) |-> n]
      BY <2>3
    <3>3. QED
      BY <2>3, <2>5, <3>1, <3>2
  <2>6. QED
    BY <2>2, <2>4, <2>5 DEF Flows
<1>3. IInv /\ [Next]_vars => IInv'
  BY NextIInv
<1>4. QED
  BY <1>1, <1>2, <1>3, InitIInv, PTL DEF Spec

=============================================================================
