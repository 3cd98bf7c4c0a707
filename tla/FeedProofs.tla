----------------------------- MODULE FeedProofs ------------------------------
(* Theorems about the feed of whole events (modules Feed and Events) and    *)
(* about the deduplication it uses (module Dedup), for every set of frames  *)
(* and connections, every rotation interval and every channel capacity.     *)
EXTENDS Feed, SequenceTheorems, WellFoundedInduction, TLAPS

USE DEF Never

-----------------------------------------------------------------------------
\* Every variable keeps its type, and no time stamp is ahead of the clock.
THEOREM TypeCorrect == Spec => []TypeOK
<1>1. Init => TypeOK
  <2> SUFFICES ASSUME Init
               PROVE  TypeOK
    OBVIOUS
  <2>1. /\ passing \in [Conns -> Keys \cup {None}]
        /\ admittedAt \in [Keys -> {Never} \cup 0..now]
        /\ pushedAt \in [Keys -> {Never} \cup 0..now]
    BY DEF Init
  <2>2. now \in Nat /\ lastRotate \in 0..now /\ queued \in 0..Capacity
    BY DedupAssumption DEF Init
  <2>3. QED
    BY <2>1, <2>2 DEF Init, TypeOK
<1>2. TypeOK /\ [Next]_vars => TypeOK'
  <2> SUFFICES ASSUME TypeOK, [Next]_vars
               PROVE  TypeOK'
    OBVIOUS
  <2> USE DEF TypeOK
  <2>1. ASSUME NEW c \in Conns, NEW k \in Keys, Absorb(c, k)
        PROVE  TypeOK'
    BY <2>1 DEF Absorb, MaybeRotate, RotatedCurrent, RotatedPrevious,
                channel, history
  <2>2. ASSUME NEW c \in Conns, NEW k \in Keys, Admit(c, k)
        PROVE  TypeOK'
    BY <2>2 DEF Admit, MaybeRotate, RotatedCurrent, RotatedPrevious, channel
  <2>3. ASSUME NEW c \in Conns, Push(c)
        PROVE  TypeOK'
    <3>1. passing[c] \in Keys
      BY <2>3 DEF Push
    <3>2. queued' \in 0..Capacity
      BY <2>3, DedupAssumption DEF Push
    <3>3. QED
      BY <2>3, <3>1, <3>2 DEF Push, Done, cache
  <2>4. ASSUME NEW c \in Conns, PushFull(c)
        PROVE  TypeOK'
    BY <2>4 DEF PushFull, Done, cache, history
  <2>5. ASSUME NEW c \in Conns, PushClosed(c)
        PROVE  TypeOK'
    BY <2>5 DEF PushClosed, Done, cache, history
  <2>6. CASE SinkReceive
    <3>1. queued' \in 0..Capacity
      BY <2>6, DedupAssumption DEF SinkReceive
    <3>2. QED
      BY <2>6, <3>1 DEF SinkReceive, cache, history
  <2>7. CASE SinkClose
    BY <2>7 DEF SinkClose, cache, history
  <2>8. CASE Tick
    BY <2>8 DEF Tick, cache, channel, history
  <2>9. ASSUME NEW c \in Conns, KeyPanic(c)
        PROVE  TypeOK'
    BY <2>9 DEF KeyPanic, cache, history
  <2>10. CASE UNCHANGED vars
    BY <2>10 DEF vars, cache, channel, history
  <2>11. QED
    BY <2>1, <2>2, <2>3, <2>4, <2>5, <2>6, <2>7, <2>8, <2>9, <2>10 DEF Next
<1>3. QED
  BY <1>1, <1>2, PTL DEF Spec

-----------------------------------------------------------------------------
\* The cache forgets a key only once rotate_every separates its admission from
\* the last rotation: two generations are enough (dedup.rs:76-91).
THEOREM CacheNeverForgetsEarly == Spec => []CacheRemembers
<1>1. Init => CacheRemembers
  BY DEF Init, CacheRemembers
<1>2. TypeOK /\ CacheRemembers /\ [Next]_vars => CacheRemembers'
  <2> SUFFICES ASSUME TypeOK, CacheRemembers, [Next]_vars
               PROVE  CacheRemembers'
    OBVIOUS
  <2>1. ASSUME MaybeRotate, now' = now, NEW k \in Keys,
               admittedAt[k] # Never, admittedAt'[k] = admittedAt[k],
               RotatedCurrent \subseteq current'
        PROVE  \/ k \in current'
               \/ k \in previous' /\ lastRotate' >= admittedAt'[k]
               \/ lastRotate' - admittedAt'[k] >= RotateEvery
    <3>1. CASE RotationDue
      BY <2>1, <3>1, DedupAssumption
      DEF MaybeRotate, RotatedPrevious, RotationDue, TypeOK, CacheRemembers
    <3>2. CASE ~RotationDue
      BY <2>1, <3>2
      DEF MaybeRotate, RotatedPrevious, RotatedCurrent, TypeOK, CacheRemembers
    <3>3. QED
      BY <3>1, <3>2
  <2>2. ASSUME NEW c \in Conns, NEW k \in Keys, Absorb(c, k)
        PROVE  CacheRemembers'
    BY <2>1, <2>2 DEF Absorb, history, CacheRemembers
  <2>3. ASSUME NEW c \in Conns, NEW k \in Keys, Admit(c, k)
        PROVE  CacheRemembers'
    <3> SUFFICES ASSUME NEW q \in Keys, admittedAt'[q] # Never
                 PROVE  \/ q \in current'
                        \/ q \in previous' /\ lastRotate' >= admittedAt'[q]
                        \/ lastRotate' - admittedAt'[q] >= RotateEvery
      BY DEF CacheRemembers
    <3>1. CASE q = k
      BY <2>3, <3>1 DEF Admit
    <3>2. CASE q # k
      BY <2>1, <2>3, <3>2 DEF Admit, TypeOK
    <3>3. QED
      BY <3>1, <3>2
  <2>4. ASSUME UNCHANGED <<cache, admittedAt>>
        PROVE  CacheRemembers'
    BY <2>4 DEF cache, CacheRemembers
  <2>5. QED
    BY <2>2, <2>3, <2>4
    DEF Next, vars, history, KeyPanic, Push, PushFull, PushClosed,
        SinkReceive, SinkClose, Tick
<1>3. QED
  BY <1>1, <1>2, TypeCorrect, PTL DEF Spec

-----------------------------------------------------------------------------
\* Absorbing a duplicate never loses the event: since its key was last let
\* through, the event has been pushed or is about to be, or the process or the
\* sink is gone (dedup.rs:195-211).
THEOREM NothingLost == Spec => []AbsorbedCopyIsNotTheLast
<1>1. Init => AbsorbedCopyIsNotTheLast
  BY DEF Init, AbsorbedCopyIsNotTheLast
<1>2. TypeOK /\ AbsorbedCopyIsNotTheLast /\ [Next]_vars
         => AbsorbedCopyIsNotTheLast'
  <2> SUFFICES ASSUME TypeOK, AbsorbedCopyIsNotTheLast, [Next]_vars
               PROVE  AbsorbedCopyIsNotTheLast'
    OBVIOUS
  <2> USE DEF AbsorbedCopyIsNotTheLast
  <2>1. ASSUME NEW c \in Conns, NEW k \in Keys, Absorb(c, k)
        PROVE  AbsorbedCopyIsNotTheLast'
    BY <2>1 DEF Absorb, channel, history
  <2>2. ASSUME NEW c \in Conns, NEW k \in Keys, Admit(c, k)
        PROVE  AbsorbedCopyIsNotTheLast'
    <3> SUFFICES ASSUME NEW q \in Keys, admittedAt'[q] # Never
                 PROVE  \/ pushedAt'[q] >= admittedAt'[q]
                        \/ \E d \in Conns : passing'[d] = q
                        \/ exited' \/ ~open'
      OBVIOUS
    <3>1. passing'[c] = k
      BY <2>2 DEF Admit, TypeOK
    <3>2. CASE q = k
      BY <3>1, <3>2
    <3>3. CASE q # k
      <4>1. \A d \in Conns : passing[d] = q => passing'[d] = q
        BY <2>2, <3>3, DedupAssumption DEF Admit, TypeOK
      <4>2. admittedAt'[q] = admittedAt[q]
        BY <2>2, <3>3 DEF Admit, TypeOK
      <4>3. QED
        BY <2>2, <4>1, <4>2 DEF Admit, channel
    <3>4. QED
      BY <3>2, <3>3
  <2>3. ASSUME NEW c \in Conns, Push(c)
        PROVE  AbsorbedCopyIsNotTheLast'
    <3> SUFFICES ASSUME NEW q \in Keys, admittedAt'[q] # Never
                 PROVE  \/ pushedAt'[q] >= admittedAt'[q]
                        \/ \E d \in Conns : passing'[d] = q
                        \/ exited' \/ ~open'
      OBVIOUS
    <3>1. CASE q = passing[c]
      BY <2>3, <3>1 DEF Push, TypeOK
    <3>2. CASE q # passing[c]
      <4>1. \A d \in Conns : passing[d] = q => passing'[d] = q
        BY <2>3, <3>2 DEF Push, Done, TypeOK
      <4>2. pushedAt'[q] = pushedAt[q]
        BY <2>3, <3>2 DEF Push, TypeOK
      <4>3. QED
        BY <2>3, <4>1, <4>2 DEF Push
    <3>3. QED
      BY <3>1, <3>2
  <2>4. ASSUME NEW c \in Conns, PushFull(c) \/ PushClosed(c) \/ KeyPanic(c)
        PROVE  AbsorbedCopyIsNotTheLast'
    BY <2>4 DEF PushFull, PushClosed, KeyPanic, history
  <2>5. CASE SinkReceive \/ SinkClose
    BY <2>5 DEF SinkReceive, SinkClose, history
  <2>6. CASE Tick \/ UNCHANGED vars
    BY <2>6 DEF Tick, vars, channel, history
  <2>7. QED
    BY <2>1, <2>2, <2>3, <2>4, <2>5, <2>6 DEF Next
<1>3. QED
  BY <1>1, <1>2, TypeCorrect, PTL DEF Spec

-----------------------------------------------------------------------------
\* The forwarder implements EventFilter: a key is let through at most once in
\* any window of rotate_every, whichever connections carry its copies, and each
\* admission is handed to the channel exactly once (dedup.rs:31-35).
THEOREM ForwarderImplementsFilter == Spec => ImplementsFilter
<1> DEFINE owed == {p \in Conns \X Keys : passing[p[1]] = p[2]}
<1>1. Init => Filter!Init
  BY DedupAssumption DEF Init, Filter!Init, Filter!Never
<1>2. TypeOK /\ CacheRemembers /\ [Next]_vars => [Filter!Next]_Filter!vars
  <2> SUFFICES ASSUME TypeOK, CacheRemembers, [Next]_vars
               PROVE  Filter!Next \/ UNCHANGED Filter!vars
    OBVIOUS
  <2> USE DEF Filter!Never
  <2>1. ASSUME NEW c \in Conns, NEW k \in Keys, Admit(c, k)
        PROVE  Filter!Admit(c, k)
    <3>1. admittedAt[k] = Never \/ now - admittedAt[k] >= RotateEvery
      <4> SUFFICES ASSUME admittedAt[k] # Never
                   PROVE  now - admittedAt[k] >= RotateEvery
        OBVIOUS
      <4>1. k \notin RotatedCurrent \cup RotatedPrevious
        BY <2>1 DEF Admit, Seen
      <4>2. CASE RotationDue
        BY <4>1, <4>2, DedupAssumption
        DEF RotationDue, RotatedPrevious, CacheRemembers, TypeOK
      <4>3. CASE ~RotationDue
        BY <4>1, <4>3, DedupAssumption
        DEF RotatedCurrent, RotatedPrevious, CacheRemembers, TypeOK
      <4>4. QED
        BY <4>2, <4>3
    <3>2. owed' = owed \cup {<<c, k>>}
      BY <2>1, DedupAssumption DEF Admit, TypeOK
    <3>3. QED
      BY <2>1, <3>1, <3>2 DEF Admit, Filter!Admit
  <2>2. ASSUME NEW c \in Conns, Running(c), passing[c] # None, Done(c),
               UNCHANGED <<now, admittedAt>>
        PROVE  \E k \in Keys : Filter!HandOver(c, k)
    <3>1. passing[c] \in Keys
      BY <2>2 DEF TypeOK
    <3>2. owed' = owed \ {<<c, passing[c]>>}
      BY <2>2, <3>1, DedupAssumption DEF Done, TypeOK
    <3>3. QED
      BY <2>2, <3>1, <3>2 DEF Filter!HandOver
  <2>3. CASE Tick
    BY <2>3 DEF Tick, history, Filter!Tick, Filter!Next
  <2>4. ASSUME UNCHANGED <<now, admittedAt, passing>>
        PROVE  UNCHANGED Filter!vars
    BY <2>4 DEF Filter!vars
  <2>5. ASSUME NEW c \in Conns, NEW k \in Keys, Absorb(c, k)
        PROVE  UNCHANGED Filter!vars
    BY <2>4, <2>5 DEF Absorb, history
  <2>6. ASSUME NEW c \in Conns, Push(c) \/ PushFull(c) \/ PushClosed(c)
        PROVE  \E k \in Keys : Filter!HandOver(c, k)
    BY <2>2, <2>6 DEF Push, PushFull, PushClosed, history
  <2>7. CASE SinkReceive \/ SinkClose
    BY <2>4, <2>7 DEF SinkReceive, SinkClose, history
  <2>8. CASE UNCHANGED vars
    BY <2>4, <2>8 DEF vars, history
  <2>9. ASSUME NEW c \in Conns, KeyPanic(c)
        PROVE  UNCHANGED Filter!vars
    BY <2>4, <2>9 DEF KeyPanic, history
  <2>10. QED
    BY <2>1, <2>3, <2>5, <2>6, <2>7, <2>8, <2>9 DEF Next, Filter!Next
<1>3. QED
  BY <1>1, <1>2, TypeCorrect, CacheNeverForgetsEarly, PTL
  DEF Spec, Filter!Spec, ImplementsFilter

-----------------------------------------------------------------------------
\* The loops around try_send use the forwarder as module Dedup describes it, so
\* what is proved of keys holds of the events that carry them
\* (connection.rs:351-370).
THEOREM FeedRefinesDedup == FeedSpec => Spec
<1>1. FeedInit => Init
  BY DEF FeedInit
<1>2. [FeedNext]_allVars => [Next]_vars
  <2> SUFFICES ASSUME [FeedNext]_allVars
               PROVE  Next \/ UNCHANGED vars
    OBVIOUS
  <2>1. ASSUME NEW c \in Conns, NEW f \in Frames,
               NEW desired \in SUBSET {ev.asset_id : ev \in AllEvents},
               ReceiveFrame(c, f, desired)
        PROVE  UNCHANGED vars
    BY <2>1 DEF ReceiveFrame
  <2>2. ASSUME NEW c \in Conns, Offer(c)
        PROVE  Next
    BY <2>2 DEF Offer, Next
  <2>3. ASSUME NEW c \in Conns, Forward(c)
        PROVE  Next
    BY <2>3 DEF Forward, Next
  <2>4. CASE SinkTakes
    BY <2>4 DEF SinkTakes, Next
  <2>5. CASE (SinkClose \/ Tick) /\ UNCHANGED feedVars
    BY <2>5 DEF Next
  <2>6. CASE UNCHANGED allVars
    BY <2>6 DEF allVars
  <2>7. QED
    BY <2>1, <2>2, <2>3, <2>4, <2>5, <2>6 DEF FeedNext
<1>3. QED
  BY <1>1, <1>2, PTL DEF FeedSpec, Spec

\* An absorbed event always has an equal one that was pushed or is about to be
\* (dedup.rs:195-211).
THEOREM FeedLosesNothing == FeedSpec => []AbsorbedCopyIsNotTheLast
  BY FeedRefinesDedup, NothingLost, PTL

\* The events of all connections go through the abstract filter
\* (dedup.rs:31-35).
THEOREM FeedImplementsFilter == FeedSpec => ImplementsFilter
  BY FeedRefinesDedup, ForwarderImplementsFilter, PTL

-----------------------------------------------------------------------------
\* What is pushed is the event whose key was admitted, although the mutex is
\* released in between (dedup.rs:195-211, connection.rs:351-366).
THEOREM AdmittedIsPushed == FeedSpec => []InHandIsHead
<1> DEFINE Inv == InHandIsHead /\ DOMAIN eventsBuf = Conns
<1>1. FeedInit => Inv
  BY DEF FeedInit, Init, InHandIsHead
<1>2. TypeOK /\ Inv /\ [FeedNext]_allVars => Inv'
  <2> SUFFICES ASSUME TypeOK, Inv, [FeedNext]_allVars
               PROVE  Inv'
    OBVIOUS
  <2> USE DEF InHandIsHead
  <2>1. ASSUME NEW c \in Conns, NEW f \in Frames,
               NEW desired \in SUBSET {ev.asset_id : ev \in AllEvents},
               ReceiveFrame(c, f, desired)
        PROVE  Inv'
    <3>1. passing[c] = None
      BY <2>1 DEF ReceiveFrame
    <3>2. UNCHANGED passing /\ DOMAIN eventsBuf' = Conns
      BY <2>1 DEF ReceiveFrame, vars
    <3>3. \A d \in Conns \ {c} : eventsBuf'[d] = eventsBuf[d]
      BY <2>1 DEF ReceiveFrame
    <3>4. QED
      BY <3>1, <3>2, <3>3
  <2>2. ASSUME NEW c \in Conns, passing'[c] = None,
               \A d \in Conns \ {c} : passing'[d] = passing[d] /\ eventsBuf'[d] = eventsBuf[d],
               DOMAIN eventsBuf' = Conns
        PROVE  Inv'
    BY <2>2
  <2>3. ASSUME UNCHANGED passing, UNCHANGED eventsBuf
        PROVE  Inv'
    BY <2>3
  <2>4. ASSUME NEW c \in Conns, KeyPanic(c), UNCHANGED feedVars
        PROVE  Inv'
    BY <2>3, <2>4 DEF KeyPanic, feedVars
  <2>5. ASSUME NEW c \in Conns, NEW k \in Keys, Absorb(c, k), Drained(c)
        PROVE  Inv'
    BY <2>2, <2>5 DEF Absorb, Drained
  <2>6. ASSUME NEW c \in Conns, NEW k \in Keys, Admit(c, k), UNCHANGED feedVars,
               eventsBuf[c] # <<>>, k = DedupKey(Head(eventsBuf[c]))
        PROVE  Inv'
    <3>1. passing'[c] = k /\ \A d \in Conns \ {c} : passing'[d] = passing[d]
      BY <2>6 DEF Admit, TypeOK
    <3>2. UNCHANGED eventsBuf
      BY <2>6 DEF feedVars
    <3>3. QED
      BY <2>6, <3>1, <3>2
  <2>7. ASSUME NEW c \in Conns, Offer(c)
        PROVE  Inv'
    BY <2>4, <2>5, <2>6, <2>7 DEF Offer
  <2>8. ASSUME NEW c \in Conns, Forward(c)
        PROVE  Inv'
    <3>1. passing'[c] = None /\ \A d \in Conns \ {c} : passing'[d] = passing[d]
      BY <2>8 DEF Forward, Push, PushFull, PushClosed, Done, TypeOK
    <3>2. /\ \A d \in Conns \ {c} : eventsBuf'[d] = eventsBuf[d]
          /\ DOMAIN eventsBuf' = Conns
      BY <2>8 DEF Forward, Drained, feedVars
    <3>3. QED
      BY <2>2, <3>1, <3>2
  <2>9. CASE SinkTakes
    BY <2>3, <2>9 DEF SinkTakes, SinkReceive
  <2>10. CASE (SinkClose \/ Tick) /\ UNCHANGED feedVars
    BY <2>3, <2>10 DEF SinkClose, Tick, feedVars
  <2>11. CASE UNCHANGED allVars
    BY <2>3, <2>11 DEF allVars, vars, feedVars
  <2>12. QED
    BY <2>1, <2>7, <2>8, <2>9, <2>10, <2>11 DEF FeedNext
<1>3. QED
  BY <1>1, <1>2, FeedRefinesDedup, TypeCorrect, PTL DEF FeedSpec

-----------------------------------------------------------------------------
\* What the code's types say of an Event: the fields of its kind, and Options.
IsEvent(ev) ==
    /\ ev.event_type \in Kinds
    /\ ev = [f \in Fields(ev.event_type) |-> ev[f]]
    /\ \A f \in Optional \cap DOMAIN ev : ev[f] = {} \/ \E x : ev[f] = {x}

\* A subscriber cannot parse an event that lacks a quote.
LEMMA UnquotedIsDropped ==
    ASSUME NEW ev, IsEvent(ev), Unquoted(ev)
    PROVE  ~Readable(Json(ev))
<1>1. DOMAIN ev = Fields(ev.event_type)
  BY DEF IsEvent
<1>2. DOMAIN Json(ev) = {f \in DOMAIN ev : f \in Optional => ev[f] # {}}
  BY DEF Json
<1>3. Json(ev).event_type = ev.event_type
  <2>1. "event_type" \in DOMAIN ev
    BY <1>1 DEF Fields, Common
  <2>2. QED
    BY <1>2, <2>1 DEF Json, Optional
<1>4. PICK f \in {"best_bid", "best_ask"} \cap DOMAIN ev : ev[f] = {}
  BY DEF Unquoted
<1>5. f \in Fields(ev.event_type) \ {"hash"} /\ f \notin DOMAIN Json(ev)
  BY <1>1, <1>2, <1>4 DEF Optional
<1>6. QED
  BY <1>3, <1>5 DEF Readable

\* The subscriber parses back exactly the event that the publisher serialized,
\* with its hash or without, as long as no quote is missing
\* (pubsub_sink.rs:3-8, pubsub_subscriber.rs:70-90).
THEOREM RoundTrip ==
    ASSUME NEW ev, IsEvent(ev), ~Unquoted(ev)
    PROVE  Readable(Json(ev)) /\ Parsed(Json(ev)) = ev
<1> DEFINE json == Json(ev)
<1>1. DOMAIN ev = Fields(ev.event_type)
  BY DEF IsEvent
<1>2. DOMAIN json = {f \in DOMAIN ev : f \in Optional => ev[f] # {}}
  BY DEF Json
<1>3. \A f \in DOMAIN json :
          json[f] = IF f \in Optional THEN CHOOSE x \in ev[f] : TRUE ELSE ev[f]
  BY <1>2 DEF Json
<1>4. json.event_type = ev.event_type
  <2>1. "event_type" \in DOMAIN ev
    BY <1>1 DEF Fields, Common
  <2>2. "event_type" \in DOMAIN json
    BY <1>2, <2>1 DEF Optional
  <2>3. QED
    BY <1>3, <2>2 DEF Optional
<1>5. Readable(json)
  <2>1. \A f \in DOMAIN ev \ {"hash"} : f \in DOMAIN json
    BY <1>2 DEF Optional, Unquoted
  <2>2. QED
    BY <1>1, <1>4, <2>1 DEF Readable
<1>6. \A f \in Fields(ev.event_type) :
          ev[f] = IF f \notin Optional THEN json[f]
                  ELSE IF f \in DOMAIN json THEN {json[f]} ELSE {}
  <2> TAKE f \in Fields(ev.event_type)
  <2>1. CASE f \notin Optional
    BY <1>1, <1>2, <1>3, <2>1
  <2>2. CASE f \in Optional /\ ev[f] = {}
    BY <1>1, <1>2, <2>2
  <2>3. CASE f \in Optional /\ ev[f] # {}
    <3>1. PICK x : ev[f] = {x}
      BY <1>1, <2>3 DEF IsEvent
    <3>2. f \in DOMAIN json
      BY <1>1, <1>2, <2>3
    <3>3. json[f] = x
      <4>1. \A y \in ev[f] : y = x
        BY <3>1
      <4>2. (CHOOSE y \in ev[f] : TRUE) \in ev[f]
        BY <2>3
      <4>3. QED
        BY <1>3, <2>3, <3>2, <4>1, <4>2
    <3>4. QED
      BY <2>3, <3>1, <3>2, <3>3
  <2>4. QED
    BY <2>1, <2>2, <2>3
<1>7. Parsed(json) = [f \in Fields(ev.event_type) |-> ev[f]]
  BY <1>4, <1>6 DEF Parsed
<1>8. QED
  BY <1>5, <1>7 DEF IsEvent

-----------------------------------------------------------------------------
(* The least number, and induction *)

LEMMA LeastNumber ==
    ASSUME NEW T \in SUBSET Nat, T # {}
    PROVE  \E n \in T : \A m \in T : n <= m
<1> DEFINE R == OpToRel(<, Nat)
<1>1. IsWellFoundedOn(R, Nat)
  BY NatLessThanWellFounded
<1>2. \A x, y \in Nat : <<y, x>> \in R <=> y < x
  BY DEF OpToRel
<1> HIDE DEF R
<1>3. T \subseteq Nat /\ T # {}
  OBVIOUS
<1>4. \E n \in T : \A m \in T : ~(<<m, n>> \in R)
  BY <1>1, <1>3, WFMin
<1>5. PICK n \in T : \A m \in T : ~(<<m, n>> \in R)
  BY <1>4
<1>6. \A m \in T : ~(m < n)
  BY <1>2, <1>5
<1>7. QED
  BY <1>6

LEMMA Induction ==
    ASSUME NEW P \in SUBSET Nat, 0 \in P, \A n \in P : n + 1 \in P
    PROVE  P = Nat
<1> SUFFICES ASSUME Nat \ P # {}
             PROVE  FALSE
  OBVIOUS
<1>1. PICK n \in Nat \ P : \A m \in Nat \ P : n <= m
  BY LeastNumber
<1>2. n - 1 \in Nat \ P
  BY <1>1
<1>3. QED
  BY <1>1, <1>2

-----------------------------------------------------------------------------
(* Sequences put one after the other *)

\* What FlattenSeq computes for the first i sequences.
Flattening(seqs, n, f) ==
    f = [i \in 1..n |-> IF i = 1 THEN seqs[i] ELSE f[i - 1] \o seqs[i]]

LEMMA FlatteningExists ==
    ASSUME NEW seqs
    PROVE  \A n \in Nat : \E f : Flattening(seqs, n, f)
<1> DEFINE P == {n \in Nat : \E f : Flattening(seqs, n, f)}
<1>1. 0 \in P
  <2>1. Flattening(seqs, 0, [i \in 1..0 |-> <<>>])
    BY DEF Flattening
  <2>2. QED
    BY <2>1
<1>2. ASSUME NEW n \in P
      PROVE  n + 1 \in P
  <2>1. PICK f : Flattening(seqs, n, f)
    OBVIOUS
  <2> DEFINE next == IF n + 1 = 1 THEN seqs[n + 1] ELSE f[n] \o seqs[n + 1]
             g == [i \in 1..(n + 1) |-> IF i = n + 1 THEN next ELSE f[i]]
  <2>2. g[n + 1] = next /\ \A i \in 1..n : g[i] = f[i]
    <3>1. n \in Nat /\ n + 1 \in 1..(n + 1)
      OBVIOUS
    <3>2. \A i \in 1..n : i \in 1..(n + 1) /\ i # n + 1
      BY <3>1
    <3> HIDE DEF next
    <3>3. QED
      BY <3>1, <3>2
  <2>3. \A i \in 1..n : f[i] = IF i = 1 THEN seqs[i] ELSE f[i - 1] \o seqs[i]
    BY <2>1 DEF Flattening
  <2>4. ASSUME NEW i \in 1..(n + 1)
        PROVE  g[i] = IF i = 1 THEN seqs[i] ELSE g[i - 1] \o seqs[i]
    <3>1. CASE i = n + 1
      <4>1. i # 1 => n \in 1..n /\ i - 1 = n
        BY <3>1
      <4>2. QED
        BY <2>2, <3>1, <4>1
    <3>2. CASE i # n + 1
      <4>1. i \in 1..n /\ (i # 1 => i - 1 \in 1..n)
        BY <3>2
      <4>2. QED
        BY <2>2, <2>3, <4>1
    <3>3. QED
      BY <3>1, <3>2
  <2>5. g = [i \in 1..(n + 1) |-> g[i]]
    OBVIOUS
  <2> HIDE DEF g
  <2>6. Flattening(seqs, n + 1, g)
    BY <2>4, <2>5 DEF Flattening
  <2>7. QED
    BY <2>6
<1> HIDE DEF P
<1>3. P = Nat
  BY <1>1, <1>2, Induction DEF P
<1>4. QED
  BY <1>3 DEF P

\* The sequences of S, one after the other, hold what each of them holds.
LEMMA Flattened ==
    ASSUME NEW S, NEW seqs \in Seq(Seq(S))
    PROVE  /\ FlattenSeq(seqs) \in Seq(S)
           /\ Range(FlattenSeq(seqs)) = UNION {Range(seqs[i]) : i \in DOMAIN seqs}
<1>1. PICK n \in Nat : n = Len(seqs) /\ DOMAIN seqs = 1..n
  OBVIOUS
<1>2. CASE n = 0
  <2>1. FlattenSeq(seqs) = seqs /\ seqs = <<>>
    BY <1>1, <1>2 DEF FlattenSeq
  <2>2. QED
    BY <1>1, <1>2, <2>1 DEF Range
<1>3. CASE n # 0
  <2> DEFINE f == CHOOSE g : Flattening(seqs, n, g)
  <2>1. FlattenSeq(seqs) = f[n]
    BY <1>1, <1>3 DEF FlattenSeq, Flattening
  <2>2. Flattening(seqs, n, f)
    BY FlatteningExists
  <2> HIDE DEF f
  <2>3. \A i \in 1..n : f[i] = IF i = 1 THEN seqs[i] ELSE f[i - 1] \o seqs[i]
    BY <2>2 DEF Flattening
  <2>4. \A i \in 1..n : seqs[i] \in Seq(S)
    BY <1>1
  <2> DEFINE Held(i) == UNION {Range(seqs[j]) : j \in 1..i}
             P == {i \in Nat : i \in 1..n => f[i] \in Seq(S) /\ Range(f[i]) = Held(i)}
  <2>5. 0 \in P
    OBVIOUS
  <2>6. ASSUME NEW i \in P
        PROVE  i + 1 \in P
    <3> SUFFICES ASSUME i + 1 \in 1..n
                 PROVE  f[i + 1] \in Seq(S) /\ Range(f[i + 1]) = Held(i + 1)
      OBVIOUS
    <3>1. CASE i = 0
      <4>1. f[1] = seqs[1] /\ f[1] \in Seq(S)
        BY <2>3, <2>4, <3>1
      <4>2. 1..1 = {1}
        OBVIOUS
      <4>3. Held(1) = Range(seqs[1])
        BY <4>2
      <4>4. QED
        BY <3>1, <4>1, <4>3
    <3>2. CASE i # 0
      <4>1. i \in 1..n /\ f[i] \in Seq(S) /\ Range(f[i]) = Held(i)
        BY <3>2
      <4>2. f[i + 1] = f[i] \o seqs[i + 1] /\ seqs[i + 1] \in Seq(S)
        <5>1. i + 1 \in 1..n /\ i + 1 # 1 /\ (i + 1) - 1 = i
          BY <3>2
        <5>2. QED
          BY <2>3, <2>4, <5>1
      <4>3. f[i + 1] \in Seq(S) /\ Range(f[i + 1]) = Range(f[i]) \cup Range(seqs[i + 1])
        BY <4>1, <4>2, RangeConcatenation
      <4>4. 1..(i + 1) = 1..i \cup {i + 1}
        OBVIOUS
      <4>5. Held(i + 1) = Held(i) \cup Range(seqs[i + 1])
        BY <4>4
      <4>6. QED
        BY <4>1, <4>3, <4>5
    <3>3. QED
      BY <3>1, <3>2
  <2> HIDE DEF P
  <2>7. P = Nat
    BY <2>5, <2>6, Induction DEF P
  <2>8. f[n] \in Seq(S) /\ Range(f[n]) = Held(n)
    BY <1>3, <2>7 DEF P
  <2>9. QED
    BY <1>1, <2>1, <2>8
<1>4. QED
  BY <1>2, <1>3

-----------------------------------------------------------------------------
(* Events and what they tell of a message *)

\* The event that `explode' makes of an entry of a message.
EventOf(msg, entry) ==
    IF msg.event_type = "price_change" THEN PriceChange(msg, entry)
    ELSE IF msg.event_type = "book"
    THEN [msg EXCEPT !.bids = Levels(@), !.asks = Levels(@), !.hash = {@}]
    ELSE msg

LEMMA Exploded ==
    ASSUME NEW msg, IsMessage(msg)
    PROVE  /\ Explode(msg) \in Seq(Range(Explode(msg)))
           /\ Range(Explode(msg)) = {EventOf(msg, entry) : entry \in Entries(msg)}
<1>1. CASE msg.event_type = "price_change"
  <2>1. /\ "price_changes" \in DOMAIN msg /\ msg.price_changes \in Seq(Range(msg.price_changes))
        /\ Entries(msg) = Range(msg.price_changes)
    BY <1>1 DEF IsMessage, Entries
  <2>2. Explode(msg) = [i \in DOMAIN msg.price_changes |->
                            PriceChange(msg, msg.price_changes[i])]
    BY <1>1 DEF Explode
  <2>3. \A entry : EventOf(msg, entry) = PriceChange(msg, entry)
    BY <1>1 DEF EventOf
  <2>4. PICK n \in Nat : DOMAIN msg.price_changes = 1..n
    BY <2>1
  <2>5. DOMAIN Explode(msg) = 1..n
    BY <2>2, <2>4
  <2>6. Range(Explode(msg)) = {EventOf(msg, entry) : entry \in Entries(msg)}
    BY <2>1, <2>2, <2>3, <2>4 DEF Range
  <2>7. \A i \in 1..n : Explode(msg)[i] \in Range(Explode(msg))
    BY <2>5 DEF Range
  <2>8. Explode(msg) = [i \in 1..n |-> Explode(msg)[i]]
    BY <2>2, <2>4
  <2>9. QED
    BY <2>6, <2>7, <2>8
<1>2. CASE msg.event_type # "price_change"
  <2>1. Explode(msg) = <<EventOf(msg, msg)>>
    BY <1>2 DEF Explode, EventOf
  <2>2. "price_changes" \notin DOMAIN msg
    BY <1>2 DEF IsMessage, Fields, Common, Kinds
  <2>3. Entries(msg) = {msg}
    BY <2>2 DEF Entries
  <2>4. Range(Explode(msg)) = {EventOf(msg, msg)}
    BY <2>1 DEF Range
  <2>5. QED
    BY <2>1, <2>3, <2>4
<1>3. QED
  BY <1>1, <1>2

\* What an event says of a field: one value or none.
Content(ev, f) == IF f \notin DOMAIN ev THEN {}
                  ELSE IF f \in Optional THEN ev[f] ELSE {ev[f]}

\* The values of an Option, read by CHOOSE.
LEMMA OptionValue ==
    ASSUME NEW s, s # {}, \E x : s = {x}
    PROVE  s = {CHOOSE x \in s : TRUE}
<1>1. PICK x : s = {x}
  OBVIOUS
<1>2. (CHOOSE y \in s : TRUE) \in s
  OBVIOUS
<1>3. QED
  BY <1>1, <1>2

\* The JSON of an event says what the event does.
LEMMA JsonSays ==
    ASSUME NEW ev, IsEvent(ev), NEW f
    PROVE  Said(Json(ev), f) = Content(ev, f)
<1>1. DOMAIN Json(ev) = {g \in DOMAIN ev : g \in Optional => ev[g] # {}}
  BY DEF Json
<1>2. CASE f \notin DOMAIN ev
  BY <1>1, <1>2 DEF Said, Content
<1>3. CASE f \in DOMAIN ev /\ f \notin Optional
  <2>1. f \in DOMAIN Json(ev) /\ Json(ev)[f] = ev[f]
    BY <1>1, <1>3 DEF Json
  <2>2. QED
    BY <1>3, <2>1 DEF Said, Content
<1>4. CASE f \in DOMAIN ev /\ f \in Optional /\ ev[f] = {}
  BY <1>1, <1>4 DEF Said, Content
<1>5. CASE f \in DOMAIN ev /\ f \in Optional /\ ev[f] # {}
  <2>1. f \in DOMAIN Json(ev) /\ Json(ev)[f] = CHOOSE x \in ev[f] : TRUE
    BY <1>1, <1>5 DEF Json
  <2>2. \E x : ev[f] = {x}
    BY <1>5 DEF IsEvent
  <2>3. ev[f] = {Json(ev)[f]}
    BY <1>5, <2>1, <2>2, OptionValue
  <2>4. QED
    BY <1>5, <2>1, <2>3 DEF Said, Content
<1>6. QED
  BY <1>2, <1>3, <1>4, <1>5

LEMMA KindFields ==
    /\ Fields("book") = Common \cup {"bids", "asks", "hash"}
    /\ Fields("price_change") =
           Common \cup {"best_bid", "best_ask", "hash", "price", "size", "side"}
    /\ Fields("last_trade_price") =
           Common \cup {"price", "size", "side", "fee_rate_bps", "transaction_hash"}
    /\ Fields("tick_size_change") = Common \cup {"old_tick_size", "new_tick_size"}
  BY DEF Fields

LEMMA OptionIs ==
    ASSUME NEW s, IsOption(s)
    PROVE  s = {} \/ \E x : s = {x}
<1>1. ASSUME NEW x \in s
      PROVE  s = {x}
  BY <1>1 DEF IsOption
<1>2. QED
  BY <1>1

\* Every event comes from an entry of a message and says what the wire said.
LEMMA EventSays ==
    ASSUME NEW msg, IsMessage(msg), NEW entry \in Entries(msg)
    PROVE  /\ IsEvent(EventOf(msg, entry))
           /\ \A f \in AllFields : OnWire(<<msg, entry>>, f) = Content(EventOf(msg, entry), f)
           /\ EventOf(msg, entry).event_type = msg.event_type
<1> DEFINE ev == EventOf(msg, entry)
<1>1. CASE msg.event_type = "price_change"
  <2>1. /\ DOMAIN entry = EntryFields /\ IsOption(entry.best_bid) /\ IsOption(entry.best_ask)
        /\ DOMAIN msg = {"event_type", "market", "timestamp", "price_changes"}
    BY <1>1 DEF IsMessage, Entries, Common
  <2>2. ev = PriceChange(msg, entry)
    BY <1>1 DEF EventOf
  <2>3. DOMAIN ev = Fields("price_change")
    BY <2>2, KindFields DEF PriceChange, Common
  <2>4. IsEvent(ev) /\ ev.event_type = "price_change"
    <3>1. /\ ev.event_type = "price_change" /\ ev.hash = {entry.hash}
          /\ ev.best_bid = entry.best_bid /\ ev.best_ask = entry.best_ask
      BY <2>2 DEF PriceChange
    <3>2. ev = [f \in Fields("price_change") |-> ev[f]]
      BY <2>2, <2>3 DEF PriceChange
    <3>3. \A f \in Optional \cap DOMAIN ev : ev[f] = {} \/ \E x : ev[f] = {x}
      <4>1. ev.hash = {} \/ \E x : ev.hash = {x}
        BY <3>1
      <4>2. ev.best_bid = {} \/ \E x : ev.best_bid = {x}
        BY <2>1, <3>1, OptionIs
      <4>3. ev.best_ask = {} \/ \E x : ev.best_ask = {x}
        BY <2>1, <3>1, OptionIs
      <4>4. QED
        BY <4>1, <4>2, <4>3 DEF Optional
    <3>4. QED
      BY <3>1, <3>2, <3>3 DEF IsEvent, Kinds
  <2>5. ASSUME NEW f \in AllFields
        PROVE  OnWire(<<msg, entry>>, f) = Content(ev, f)
    <3>1. f \notin {"price_changes"}
      BY DEF AllFields, Kinds, Fields, Common
    <3>2. CASE f \in {"best_bid", "best_ask"}
      BY <2>1, <2>2, <3>2 DEF OnWire, Content, Optional, EntryFields, PriceChange
    <3>3. CASE f \in {"asset_id", "price", "size", "side", "hash"}
      BY <2>1, <2>2, <3>3 DEF OnWire, Content, Optional, EntryFields, PriceChange
    <3>4. CASE f \in {"event_type", "market", "timestamp"}
      BY <1>1, <2>1, <2>2, <3>4 DEF OnWire, Content, Optional, EntryFields, PriceChange
    <3>5. CASE f \notin EntryFields \cup {"event_type", "market", "timestamp"}
      <4>1. f \notin DOMAIN ev
        BY <2>3, <3>5, KindFields DEF EntryFields, Common
      <4>2. f \notin DOMAIN entry /\ f \notin DOMAIN msg
        BY <2>1, <3>1, <3>5
      <4>3. QED
        BY <4>1, <4>2 DEF OnWire, Content
    <3>6. QED
      BY <3>2, <3>3, <3>4, <3>5 DEF EntryFields
  <2>6. QED
    BY <1>1, <2>4, <2>5
<1>2. CASE msg.event_type # "price_change"
  <2>1. /\ msg.event_type \in Kinds \ {"price_change"} /\ DOMAIN msg = Fields(msg.event_type)
        /\ msg = [f \in DOMAIN msg |-> msg[f]]
    BY <1>2 DEF IsMessage
  <2>2. "price_changes" \notin DOMAIN msg
    BY <2>1, KindFields DEF Kinds, Common
  <2>3. entry = msg
    BY <2>2 DEF Entries
  <2>4. CASE msg.event_type = "book"
    <3>1. DOMAIN msg = Common \cup {"bids", "asks", "hash"}
      BY <2>1, <2>4, KindFields
    <3>2. /\ DOMAIN ev = DOMAIN msg /\ ev = [f \in DOMAIN msg |-> ev[f]]
          /\ ev.bids = Levels(msg.bids) /\ ev.asks = Levels(msg.asks) /\ ev.hash = {msg.hash}
          /\ \A f \in DOMAIN msg \ {"bids", "asks", "hash"} : ev[f] = msg[f]
      BY <2>4, <3>1 DEF EventOf
    <3> HIDE DEF ev
    <3>3. ev.event_type = "book"
      BY <2>4, <3>1, <3>2 DEF Common
    <3>4. IsEvent(ev)
      <4>1. \A f \in Optional \cap DOMAIN ev : ev[f] = {} \/ \E x : ev[f] = {x}
        BY <3>1, <3>2 DEF Optional, Common
      <4>2. QED
        BY <2>1, <2>4, <3>2, <3>3, <4>1 DEF IsEvent
    <3>5. ASSUME NEW f \in AllFields
          PROVE  OnWire(<<msg, msg>>, f) = Content(ev, f)
      <4>1. "best_bid" \notin DOMAIN msg /\ "best_ask" \notin DOMAIN msg
        BY <3>1 DEF Common
      <4>2. CASE f \notin DOMAIN msg
        BY <3>2, <4>2 DEF OnWire, Content
      <4>3. CASE f \in {"bids", "asks"}
        BY <3>1, <3>2, <4>3 DEF OnWire, Content, Optional
      <4>4. CASE f \in DOMAIN msg \ {"bids", "asks"}
        <5>1. f = "hash" \/ f \notin Optional
          BY <4>1, <4>4 DEF Optional
        <5>2. OnWire(<<msg, msg>>, f) = {msg[f]}
          BY <4>1, <4>4 DEF OnWire
        <5>3. QED
          BY <3>2, <4>4, <5>1, <5>2 DEF Content, Optional
      <4>5. QED
        BY <4>2, <4>3, <4>4
    <3>6. QED
      BY <2>3, <2>4, <3>3, <3>4, <3>5 DEF ev
  <2>5. CASE msg.event_type # "book"
    <3>1. ev = msg
      BY <1>2, <2>5 DEF EventOf
    <3>2. \A f \in DOMAIN msg : f \notin {"bids", "asks", "best_bid", "best_ask", "hash"}
      BY <2>1, <2>5, KindFields DEF Kinds, Common
    <3>3. IsEvent(msg)
      BY <2>1, <3>2 DEF IsEvent, Optional
    <3>4. \A f \in AllFields : OnWire(<<msg, msg>>, f) = Content(msg, f)
      BY <3>2 DEF OnWire, Content, Optional
    <3>5. QED
      BY <2>3, <3>1, <3>3, <3>4
  <2>6. QED
    BY <2>4, <2>5
<1>3. QED
  BY <1>1, <1>2

-----------------------------------------------------------------------------
(* Rows *)

LEMMA ColumnsAreFields == TypedColumns \subseteq AllFields /\ Common \subseteq AllFields
<1>1. /\ Fields("book") \subseteq AllFields /\ Fields("price_change") \subseteq AllFields
      /\ Fields("last_trade_price") \subseteq AllFields
      /\ Fields("tick_size_change") \subseteq AllFields
  BY DEF AllFields, Kinds
<1>2. QED
  BY <1>1, KindFields DEF TypedColumns, Common

\* The typed row of an event says what the wire said of it.
LEMMA TypedRowSays ==
    ASSUME NEW ev, IsEvent(ev), NEW x, \A f \in AllFields : OnWire(x, f) = Content(ev, f),
           "fee_rate_bps" \in DOMAIN ev => ev.fee_rate_bps \in U16
    PROVE  TypedSays(TypedRow(ev), x)
<1> SUFFICES ASSUME NEW col \in TypedColumns
             PROVE  Said(TypedRow(ev), col) = IF OnWire(x, col) = {} THEN {Default(col)}
                                              ELSE OnWire(x, col)
  BY DEF TypedSays
<1>1. OnWire(x, col) = Content(ev, col)
  BY ColumnsAreFields
<1> DEFINE row == TypedRow(ev)
           d == Default(col)
<1>2. /\ DOMAIN row = TypedColumns
      /\ row[col] = IF col \notin DOMAIN ev THEN d
                    ELSE IF col \in Optional
                    THEN IF ev[col] = {} THEN d ELSE CHOOSE y \in ev[col] : TRUE
                    ELSE IF col = "fee_rate_bps" /\ ev[col] \notin U16 THEN 0
                    ELSE ev[col]
  BY Zenon DEF TypedRow
<1> HIDE DEF row, d
<1>3. Said(row, col) = {row[col]}
  BY <1>2 DEF Said
<1>4. CASE col \notin DOMAIN ev
  BY <1>1, <1>2, <1>3, <1>4 DEF Content, row, d
<1>5. CASE col \in DOMAIN ev /\ col \in Optional /\ ev[col] = {}
  BY <1>1, <1>2, <1>3, <1>5 DEF Content, row, d
<1>6. CASE col \in DOMAIN ev /\ col \in Optional /\ ev[col] # {}
  <2>1. row[col] = CHOOSE y \in ev[col] : TRUE
    BY <1>2, <1>6
  <2>2. \E y : ev[col] = {y}
    BY <1>6 DEF IsEvent
  <2>3. ev[col] = {row[col]}
    BY <1>6, <2>1, <2>2, OptionValue
  <2>4. QED
    BY <1>1, <1>3, <1>6, <2>3 DEF Content, row
<1>7. CASE col \in DOMAIN ev /\ col \notin Optional
  <2>1. row[col] = ev[col]
    BY <1>2, <1>7
  <2>2. QED
    BY <1>1, <1>3, <1>7, <2>1 DEF Content, row
<1>8. QED
  BY <1>4, <1>5, <1>6, <1>7

LEMMA StrippedIs ==
    ASSUME NEW ev, IsEvent(ev)
    PROVE  /\ IsEvent(StripHash(ev))
           /\ \A f : f # "hash" => Content(StripHash(ev), f) = Content(ev, f)
<1>1. CASE ~HasContentHash(ev)
  BY <1>1 DEF StripHash
<1>2. CASE HasContentHash(ev)
  <2> DEFINE s == StripHash(ev)
  <2>1. /\ s = [ev EXCEPT !.hash = {}] /\ ev.event_type \in {"book", "price_change"}
        /\ DOMAIN ev = Fields(ev.event_type) /\ ev = [f \in DOMAIN ev |-> ev[f]]
    BY <1>2 DEF StripHash, HasContentHash, IsEvent
  <2>2. "hash" \in DOMAIN ev /\ "event_type" \in DOMAIN ev
    BY <2>1, KindFields DEF Common
  <2>3. /\ DOMAIN s = DOMAIN ev /\ s = [f \in DOMAIN ev |-> s[f]] /\ s["hash"] = {}
        /\ \A f \in DOMAIN ev \ {"hash"} : s[f] = ev[f]
    BY <2>1, <2>2
  <2> HIDE DEF s
  <2>4. s.event_type = ev.event_type
    BY <2>2, <2>3
  <2>5. IsEvent(s)
    <3>1. \A f \in Optional \cap DOMAIN s : s[f] = {} \/ \E x : s[f] = {x}
      BY <2>3 DEF IsEvent
    <3>2. QED
      BY <2>1, <2>3, <2>4, <3>1 DEF IsEvent, Kinds
  <2>6. QED
    BY <2>3, <2>5 DEF Content, s
<1>3. QED
  BY <1>1, <1>2

\* So does the raw row, with the hash or without.
LEMMA RawRowSays ==
    ASSUME NEW ev, IsEvent(ev), NEW x, \A f \in AllFields : OnWire(x, f) = Content(ev, f),
           NEW exclude \in BOOLEAN
    PROVE  RawSays(RawRow(ev, exclude), x)
<1> DEFINE row == RawRow(ev, exclude)
           stored == IF exclude THEN StripHash(ev) ELSE ev
<1>1. IsEvent(stored) /\ \A f : f # "hash" => Content(stored, f) = Content(ev, f)
  BY StrippedIs
<1>2. row.data = Json(stored)
  BY DEF RawRow
<1>3. DOMAIN row = {"timestamp", "market", "event_type", "data"}
      /\ row.timestamp = ev.timestamp /\ row.market = ev.market /\ row.event_type = ev.event_type
  BY DEF RawRow
<1> HIDE DEF row, stored
<1> SUFFICES ASSUME NEW f \in AllFields \ {"hash"}
             PROVE  /\ f # "timestamp" => Said(row.data, f) = OnWire(x, f)
                    /\ f \in DOMAIN row => Said(row, f) = OnWire(x, f)
  BY DEF RawSays, row
<1>4. Said(row.data, f) = OnWire(x, f)
  BY <1>1, <1>2, JsonSays
<1>5. ASSUME f \in DOMAIN row
      PROVE  Said(row, f) = OnWire(x, f)
  <2>1. f # "data"
    BY KindFields DEF AllFields, Kinds, Common
  <2>2. f \in {"timestamp", "market", "event_type"}
    BY <1>3, <1>5, <2>1
  <2>3. f \in DOMAIN ev /\ f \notin Optional
    BY <2>2 DEF IsEvent, Fields, Common, Optional
  <2>4. row[f] = ev[f]
    BY <1>3, <2>2
  <2>5. QED
    BY <1>5, <2>3, <2>4 DEF Said, Content
<1>6. QED
  BY <1>4, <1>5

-----------------------------------------------------------------------------
(* From the frames to the buffers *)

LEMMA SequenceParts ==
    ASSUME NEW S, NEW s \in Seq(S)
    PROVE  /\ Range(s) \subseteq S
           /\ s # <<>> => /\ Head(s) \in S /\ Tail(s) \in Seq(S)
                          /\ Head(s) \in Range(s)
                          /\ Range(s) = {Head(s)} \cup Range(Tail(s))
                          /\ Len(s) \in Nat /\ Len(Tail(s)) = Len(s) - 1
<1>1. PICK n \in Nat : n = Len(s) /\ DOMAIN s = 1..n
  OBVIOUS
<1>2. Range(s) \subseteq S
  BY DEF Range
<1>3. ASSUME s # <<>>
      PROVE  /\ Head(s) \in S /\ Tail(s) \in Seq(S) /\ Head(s) \in Range(s)
             /\ Range(s) = {Head(s)} \cup Range(Tail(s))
             /\ Len(s) \in Nat /\ Len(Tail(s)) = Len(s) - 1
  <2>1. /\ n >= 1 /\ Head(s) = s[1] /\ Tail(s) \in Seq(S) /\ DOMAIN Tail(s) = 1..(n - 1)
        /\ Len(Tail(s)) = n - 1 /\ \A i \in 1..(n - 1) : Tail(s)[i] = s[i + 1]
    BY <1>1, <1>3
  <2>2. \A i \in 1..n : i = 1 \/ (i - 1 \in 1..(n - 1) /\ s[i] = Tail(s)[i - 1])
    BY <1>1, <2>1
  <2>3. Range(s) \subseteq {Head(s)} \cup Range(Tail(s))
    <3>1. ASSUME NEW i \in 1..n
          PROVE  s[i] \in {Head(s)} \cup Range(Tail(s))
      <4>1. CASE i = 1
        BY <2>1, <4>1
      <4>2. CASE i # 1
        <5>1. i - 1 \in DOMAIN Tail(s) /\ s[i] = Tail(s)[i - 1]
          BY <2>1, <2>2, <4>2
        <5>2. QED
          BY <5>1 DEF Range
      <4>3. QED
        BY <4>1, <4>2
    <3>2. QED
      BY <1>1, <3>1 DEF Range
  <2>4. \A i \in 1..(n - 1) : i + 1 \in 1..n
    BY <1>1
  <2>5. Head(s) \in Range(s) /\ Range(Tail(s)) \subseteq Range(s)
    BY <1>1, <2>1, <2>4 DEF Range
  <2>6. QED
    BY <1>1, <1>2, <2>1, <2>3, <2>5
<1>4. QED
  BY <1>2, <1>3

LEMMA AppendRange ==
    ASSUME NEW S, NEW s \in Seq(S), NEW e \in S
    PROVE  /\ Append(s, e) \in Seq(S) /\ Range(Append(s, e)) = Range(s) \cup {e}
           /\ Len(Append(s, e)) = Len(s) + 1
<1>1. PICK n \in Nat : n = Len(s) /\ DOMAIN s = 1..n
  OBVIOUS
<1>2. /\ Append(s, e) \in Seq(S) /\ DOMAIN Append(s, e) = 1..(n + 1)
      /\ Append(s, e)[n + 1] = e /\ \A i \in 1..n : Append(s, e)[i] = s[i]
      /\ Len(Append(s, e)) = n + 1
  BY <1>1
<1>3. 1..(n + 1) = 1..n \cup {n + 1}
  OBVIOUS
<1>4. QED
  BY <1>1, <1>2, <1>3 DEF Range

EventsOf(frame) == UNION {Range(Explode(m)) : m \in Range(frame)}

LEMMA FrameEvents ==
    ASSUME NEW frame \in Frames
    PROVE  /\ \A m \in Range(frame) : m \in Messages /\ IsMessage(m)
           /\ EventsOf(frame) \subseteq AllEvents
           /\ Staged(frame) \in Seq(EventsOf(frame))
           /\ Range(Staged(frame)) = EventsOf(frame)
<1>1. frame \in Seq(Range(frame)) /\ \A i \in DOMAIN frame : IsMessage(frame[i])
  BY FeedAssumption
<1>2. \A m \in Range(frame) : m \in Messages /\ IsMessage(m)
  BY <1>1 DEF Range, Messages
<1>3. EventsOf(frame) \subseteq AllEvents
  BY <1>2 DEF EventsOf, AllEvents
<1> DEFINE seqs == [i \in DOMAIN frame |-> Explode(frame[i])]
<1>4. \A i \in DOMAIN frame : Range(Explode(frame[i])) \subseteq EventsOf(frame)
  BY DEF EventsOf, Range
<1>5. \A i \in DOMAIN frame : Explode(frame[i]) \in Seq(EventsOf(frame))
  <2> TAKE i \in DOMAIN frame
  <2>1. Explode(frame[i]) \in Seq(Range(Explode(frame[i])))
    BY <1>1, Exploded
  <2>2. QED
    BY <1>4, <2>1
<1>6. seqs \in Seq(Seq(EventsOf(frame)))
  <2>1. PICK n \in Nat : DOMAIN frame = 1..n
    BY <1>1
  <2>2. QED
    BY <1>5, <2>1
<1>7. UNION {Range(seqs[i]) : i \in DOMAIN seqs} = EventsOf(frame)
  BY DEF EventsOf, Range
<1> HIDE DEF seqs
<1>8. /\ FlattenSeq(seqs) \in Seq(EventsOf(frame))
      /\ Range(FlattenSeq(seqs)) = UNION {Range(seqs[i]) : i \in DOMAIN seqs}
  BY <1>6, Flattened
<1>9. QED
  BY <1>2, <1>3, <1>7, <1>8 DEF Staged, seqs

\* What a frame leaves in the buffer: its events for the assets desired, all of
\* them and no other (connection.rs:477-516).
LEMMA TextHandled ==
    ASSUME NEW frame \in Frames, NEW desired
    PROVE  /\ HandleText(frame, desired) \in Seq(AllEvents)
           /\ Range(HandleText(frame, desired)) =
                  {ev \in EventsOf(frame) : ev.asset_id \in desired}
<1> DEFINE S == EventsOf(frame)
           staged == Staged(frame)
           seqs == [i \in DOMAIN staged |->
                       IF staged[i].asset_id \in desired THEN <<staged[i]>> ELSE <<>>]
<1>1. S \subseteq AllEvents /\ staged \in Seq(S) /\ Range(staged) = S
  BY FrameEvents
<1> HIDE DEF S, staged
<1>2. PICK n \in Nat : DOMAIN staged = 1..n
  BY <1>1
<1>3. \A i \in 1..n : staged[i] \in S
  BY <1>1, <1>2
<1>4. seqs \in Seq(Seq(AllEvents)) /\ DOMAIN seqs = 1..n
  BY <1>1, <1>2, <1>3
<1>5. \A i \in 1..n : Range(seqs[i]) = {ev \in {staged[i]} : ev.asset_id \in desired}
  BY <1>2 DEF Range
<1>6. UNION {Range(seqs[i]) : i \in DOMAIN seqs} = {ev \in Range(staged) : ev.asset_id \in desired}
  <2>1. Range(staged) = {staged[i] : i \in 1..n}
    BY <1>2 DEF Range
  <2> HIDE DEF seqs
  <2>2. ASSUME NEW ev
        PROVE  (\E i \in 1..n : ev \in Range(seqs[i]))
                   <=> ev \in Range(staged) /\ ev.asset_id \in desired
    BY <1>5, <2>1
  <2>3. QED
    BY <1>4, <2>2
<1>7. HandleText(frame, desired) = FlattenSeq(seqs)
  BY DEF HandleText, staged
<1> HIDE DEF seqs
<1>8. QED
  BY <1>1, <1>4, <1>6, <1>7, Flattened DEF S

\* Every event is the event of an entry of a message.
LEMMA EventsOfEntries ==
    ASSUME NEW frame \in Frames, NEW ev
    PROVE  ev \in EventsOf(frame)
               <=> \E m \in Range(frame) : \E entry \in Entries(m) : ev = EventOf(m, entry)
<1>1. \A m \in Range(frame) : Range(Explode(m)) = {EventOf(m, entry) : entry \in Entries(m)}
  BY FrameEvents, Exploded
<1>2. QED
  BY <1>1 DEF EventsOf

\* The asset of an event is that of its entry.
LEMMA EventAsset ==
    ASSUME NEW msg, IsMessage(msg), NEW entry \in Entries(msg)
    PROVE  EventOf(msg, entry).asset_id = entry.asset_id
<1>1. CASE msg.event_type = "price_change"
  BY <1>1 DEF EventOf, PriceChange
<1>2. CASE msg.event_type # "price_change"
  <2>1. /\ msg.event_type \in Kinds \ {"price_change"} /\ DOMAIN msg = Fields(msg.event_type)
    BY <1>2 DEF IsMessage
  <2>2. "price_changes" \notin DOMAIN msg /\ "asset_id" \in DOMAIN msg
    BY <2>1, KindFields DEF Kinds, Common
  <2>3. entry = msg
    BY <2>2 DEF Entries
  <2>4. QED
    BY <1>2, <2>2, <2>3 DEF EventOf
<1>3. QED
  BY <1>1, <1>2

-----------------------------------------------------------------------------
(* The keys *)

\* Two events with one key are one event.
FineKeys ==
    \A e1, e2 \in AllEvents :
        ~HashTooShort(e1) /\ ~HashTooShort(e2) /\ DedupKey(e1) = DedupKey(e2) => e1 = e2

LEMMA EventsAreEvents ==
    ASSUME NEW ev \in AllEvents
    PROVE  IsEvent(ev) /\ (HasContentHash(ev) => \E h : ev.hash = {h})
<1>1. PICK m \in Messages : ev \in Range(Explode(m))
  BY DEF AllEvents
<1>2. IsMessage(m)
  BY FrameEvents DEF Messages
<1>3. PICK entry \in Entries(m) : ev = EventOf(m, entry)
  BY <1>1, <1>2, Exploded
<1>4. IsEvent(ev) /\ ev.event_type = m.event_type
  BY <1>2, <1>3, EventSays
<1>5. CASE m.event_type = "price_change"
  <2>1. ev.hash = {entry.hash}
    BY <1>3, <1>5 DEF EventOf, PriceChange
  <2>2. QED
    BY <1>4, <2>1
<1>6. CASE m.event_type = "book"
  <2>1. m = [f \in DOMAIN m |-> m[f]] /\ "hash" \in DOMAIN m
    BY <1>2, <1>6, KindFields DEF IsMessage
  <2>2. ev = [m EXCEPT !.bids = Levels(@), !.asks = Levels(@), !.hash = {@}]
    BY <1>3, <1>6 DEF EventOf
  <2>3. ev.hash = {m.hash}
    BY <2>1, <2>2
  <2>4. QED
    BY <1>4, <2>3
<1>7. CASE m.event_type \notin {"book", "price_change"}
  BY <1>4, <1>7 DEF HasContentHash
<1>8. QED
  BY <1>5, <1>6, <1>7

LEMMA KeyOfHash ==
    ASSUME NEW ev \in Hashed
    PROVE  \E h : /\ ev.hash = {h} /\ DedupKey(ev).prefix = h[1]
                  /\ "event_type" \notin DOMAIN DedupKey(ev)
<1>1. ev \in AllEvents /\ HasContentHash(ev)
  BY DEF Hashed
<1>2. PICK h : ev.hash = {h}
  BY <1>1, EventsAreEvents
<1>3. {g[1] : g \in ev.hash} = {h[1]}
  BY <1>2
<1>4. (CHOOSE p \in {g[1] : g \in ev.hash} : TRUE) = h[1]
  BY <1>3
<1>5. DedupKey(ev) = [prefix |-> h[1]]
  BY <1>1, <1>4 DEF DedupKey
<1>6. QED
  BY <1>2, <1>5

\* The key of a trade or a tick size change holds all of it, and no key of a hash
\* is that of such an event; so the keys are as fine as the hashes.
LEMMA HashesMakeKeys == FineHashes => FineKeys
<1> SUFFICES ASSUME FineHashes, NEW e1 \in AllEvents, NEW e2 \in AllEvents,
                    ~HashTooShort(e1), ~HashTooShort(e2), DedupKey(e1) = DedupKey(e2)
             PROVE  e1 = e2
  BY DEF FineKeys
<1>1. \A ev \in AllEvents : ~HasContentHash(ev) =>
          DedupKey(ev) = ev /\ "event_type" \in DOMAIN ev
  <2> SUFFICES ASSUME NEW ev \in AllEvents, ~HasContentHash(ev)
               PROVE  DedupKey(ev) = ev /\ "event_type" \in DOMAIN ev
    OBVIOUS
  <2>1. IsEvent(ev)
    BY EventsAreEvents
  <2>2. DOMAIN ev = Fields(ev.event_type)
    BY <2>1 DEF IsEvent
  <2>3. QED
    BY <2>2 DEF DedupKey, Fields, Common
<1>2. CASE HasContentHash(e1) /\ HasContentHash(e2)
  <2>1. e1 \in Hashed /\ e2 \in Hashed
    BY <1>2 DEF Hashed
  <2>2. PICK h1 : e1.hash = {h1} /\ DedupKey(e1).prefix = h1[1]
    BY <2>1, KeyOfHash
  <2>3. PICK h2 : e2.hash = {h2} /\ DedupKey(e2).prefix = h2[1]
    BY <2>1, KeyOfHash
  <2>4. h1[1] = h2[1]
    BY <2>2, <2>3
  <2>5. QED
    BY <2>1, <2>2, <2>3, <2>4 DEF FineHashes
<1>3. CASE ~HasContentHash(e1) /\ ~HasContentHash(e2)
  BY <1>1, <1>3
<1>4. ASSUME NEW ev \in AllEvents, NEW other \in AllEvents, ~HashTooShort(ev),
             HasContentHash(ev), ~HasContentHash(other)
      PROVE  DedupKey(ev) # DedupKey(other)
  <2>1. ev \in Hashed
    BY <1>4 DEF Hashed
  <2>2. "event_type" \notin DOMAIN DedupKey(ev)
    BY <2>1, KeyOfHash
  <2>3. QED
    BY <1>1, <1>4, <2>2
<1>5. QED
  BY <1>2, <1>3, <1>4

-----------------------------------------------------------------------------
(* The buffers, the channel and what is behind them *)

\* The buffers and the channel hold events.
Buffered ==
    /\ eventsBuf \in [Conns -> Seq(AllEvents)] /\ channelBuf \in Seq(AllEvents)
    /\ Len(channelBuf) = queued /\ taken \subseteq AllEvents

\* What has arrived are entries of the messages, each with its message.
ArrivedSent ==
    \A x \in arrived : \E m \in Messages : \E entry \in Entries(m) :
        IsMessage(m) /\ x = <<m, entry>>

\* No event comes from nowhere.
Traced == \A ev \in Kept : \E x \in arrived : ev = EventOf(x[1], x[2])

\* The key of an event in hand could be read.
InHandReadable ==
    \A c \in Conns : passing[c] # None => ~HashTooShort(Head(eventsBuf[c]))

\* A key that the cache holds is that of an event which was pushed or is about
\* to be.
Passed(k) == \E ev \in Range(channelBuf) \cup taken : ~HashTooShort(ev) /\ DedupKey(ev) = k
SeenKept ==
    \A k \in current \cup previous : Passed(k) \/ \E c \in Conns : passing[c] = k

\* The event of every entry that has arrived is there.
EntriesKept == \A x \in arrived : EventOf(x[1], x[2]) \in Kept

FeedInv == TypeOK /\ InHandIsHead /\ Buffered /\ ArrivedSent /\ Traced /\ InHandReadable

KeptInv == exited \/ ~open \/ (SeenKept /\ EntriesKept)

\* Where an event may be.
LEMMA KeptIs ==
    ASSUME NEW ev
    PROVE  ev \in Kept <=> \/ \E c \in Conns : ev \in Range(eventsBuf[c])
                           \/ ev \in Range(channelBuf) \/ ev \in taken
  BY DEF Kept

LEMMA KeptNextIs ==
    ASSUME NEW ev
    PROVE  (ev \in Kept)' <=> \/ \E c \in Conns : ev \in Range(eventsBuf'[c])
                              \/ ev \in Range(channelBuf') \/ ev \in taken'
  BY DEF Kept

\* The head of a buffer that holds something.
LEMMA HeadOfBuffer ==
    ASSUME Buffered, NEW c \in Conns, eventsBuf[c] # <<>>
    PROVE  /\ Head(eventsBuf[c]) \in AllEvents /\ Tail(eventsBuf[c]) \in Seq(AllEvents)
           /\ Head(eventsBuf[c]) \in Kept
           /\ Range(eventsBuf[c]) = {Head(eventsBuf[c])} \cup Range(Tail(eventsBuf[c]))
<1>1. eventsBuf[c] \in Seq(AllEvents)
  BY DEF Buffered
<1> DEFINE buf == eventsBuf[c]
<1>2. buf \in Seq(AllEvents) /\ buf # <<>>
  BY <1>1
<1> HIDE DEF buf
<1>3. /\ Head(buf) \in AllEvents /\ Tail(buf) \in Seq(AllEvents) /\ Head(buf) \in Range(buf)
      /\ Range(buf) = {Head(buf)} \cup Range(Tail(buf))
  BY <1>2, SequenceParts
<1>4. QED
  BY <1>3, KeptIs DEF buf

\* A buffer that is drained: its head goes, the others stay as they are.
LEMMA BufferDrained ==
    ASSUME Buffered, NEW c \in Conns, eventsBuf[c] # <<>>, Drained(c)
    PROVE  /\ eventsBuf' \in [Conns -> Seq(AllEvents)]
           /\ \A d \in Conns \ {c} : eventsBuf'[d] = eventsBuf[d]
           /\ \A d \in Conns : Range(eventsBuf'[d]) \subseteq Range(eventsBuf[d])
           /\ \A d \in Conns : Range(eventsBuf[d])
                  \subseteq Range(eventsBuf'[d]) \cup {Head(eventsBuf[c])}
<1>1. /\ eventsBuf \in [Conns -> Seq(AllEvents)]
      /\ eventsBuf' = [eventsBuf EXCEPT ![c] = Tail(eventsBuf[c])]
  BY DEF Buffered, Drained
<1>2. eventsBuf' \in [Conns -> Seq(AllEvents)]
  BY <1>1, HeadOfBuffer
<1>3. eventsBuf'[c] = Tail(eventsBuf[c]) /\ \A d \in Conns \ {c} : eventsBuf'[d] = eventsBuf[d]
  BY <1>1
<1>4. ASSUME NEW d \in Conns
      PROVE  /\ Range(eventsBuf'[d]) \subseteq Range(eventsBuf[d])
             /\ Range(eventsBuf[d]) \subseteq Range(eventsBuf'[d]) \cup {Head(eventsBuf[c])}
  <2>1. CASE d = c
    BY <1>3, <2>1, HeadOfBuffer
  <2>2. CASE d # c
    BY <1>3, <2>2
  <2>3. QED
    BY <2>1, <2>2
<1>5. QED
  BY <1>2, <1>3, <1>4

Rest == Buffered /\ ArrivedSent /\ Traced /\ InHandReadable

\* When nothing of the feed moves.
LEMMA NothingMoves ==
    ASSUME FeedInv, UNCHANGED feedVars, UNCHANGED <<queued, passing>>
    PROVE  Rest' /\ (EntriesKept => EntriesKept')
<1>1. UNCHANGED <<eventsBuf, channelBuf, arrived, taken>> /\ UNCHANGED queued /\ UNCHANGED passing
  BY DEF feedVars
<1>2. Buffered' /\ ArrivedSent' /\ InHandReadable'
  BY <1>1 DEF FeedInv, Buffered, ArrivedSent, InHandReadable
<1>3. Kept' = Kept
  BY <1>1 DEF Kept
<1>4. QED
  BY <1>1, <1>2, <1>3 DEF FeedInv, Rest, Traced, EntriesKept

\* A frame: its events for the assets desired go to the buffer, and their entries
\* are what arrives.
LEMMA Receiving ==
    ASSUME FeedInv, NEW c \in Conns, NEW frame \in Frames, NEW desired,
           ReceiveFrame(c, frame, desired)
    PROVE  Rest' /\ (SeenKept => SeenKept') /\ (EntriesKept => EntriesKept')
<1> DEFINE new == HandleText(frame, desired)
           sent == {x \in UNION {{m} \X Entries(m) : m \in Range(frame)} : x[2].asset_id \in desired}
<1>1. /\ Buffered /\ eventsBuf[c] = <<>>
      /\ eventsBuf' = [eventsBuf EXCEPT ![c] = new]
      /\ arrived' = arrived \cup sent
      /\ UNCHANGED <<vars, channelBuf, taken>>
  BY DEF ReceiveFrame, FeedInv
<1>2. new \in Seq(AllEvents) /\ Range(new) = {ev \in EventsOf(frame) : ev.asset_id \in desired}
  BY TextHandled
<1> HIDE DEF new
<1>3. UNCHANGED <<queued, passing, current, previous, channelBuf, taken>>
  BY <1>1 DEF vars, cache, channel
<1>4. eventsBuf \in [Conns -> Seq(AllEvents)]
  BY DEF FeedInv, Buffered
<1>5. eventsBuf'[c] = new /\ \A d \in Conns \ {c} : eventsBuf'[d] = eventsBuf[d]
  BY <1>1, <1>4
<1>6. Buffered'
  BY <1>1, <1>2, <1>3, <1>4 DEF FeedInv, Buffered
<1>7. ASSUME NEW ev
      PROVE  ev \in Range(new) <=> \E x \in sent : ev = EventOf(x[1], x[2])
  <2>1. \A m \in Range(frame) : m \in Messages /\ IsMessage(m)
    BY FrameEvents
  <2>2. ASSUME ev \in Range(new)
        PROVE  \E x \in sent : ev = EventOf(x[1], x[2])
    <3>0. PICK m \in Range(frame) : \E entry \in Entries(m) : ev = EventOf(m, entry)
      BY <1>2, <2>2, EventsOfEntries
    <3>1. PICK entry \in Entries(m) : ev = EventOf(m, entry)
      BY <3>0
    <3>2. entry.asset_id \in desired
      BY <1>2, <2>1, <2>2, <3>1, EventAsset
    <3>3. <<m, entry>> \in sent
      BY <3>2
    <3> HIDE DEF sent
    <3>4. QED
      BY <3>1, <3>3
  <2>3. ASSUME NEW x \in sent, ev = EventOf(x[1], x[2])
        PROVE  ev \in Range(new)
    <3>0. PICK m \in Range(frame) :
              \E entry \in Entries(m) : x = <<m, entry>> /\ entry.asset_id \in desired
      OBVIOUS
    <3>1. PICK entry \in Entries(m) : x = <<m, entry>> /\ entry.asset_id \in desired
      BY <3>0
    <3>2. ev = EventOf(m, entry)
      BY <2>3, <3>1
    <3>3. ev \in EventsOf(frame) /\ ev.asset_id \in desired
      BY <2>1, <3>1, <3>2, EventsOfEntries, EventAsset
    <3>4. QED
      BY <1>2, <3>3
  <2>4. QED
    BY <2>2, <2>3
<1>8. ArrivedSent'
  <2>1. ASSUME NEW x \in sent
        PROVE  \E m \in Messages : \E entry \in Entries(m) : IsMessage(m) /\ x = <<m, entry>>
    <3>0. PICK m \in Range(frame) : \E entry \in Entries(m) : x = <<m, entry>>
      OBVIOUS
    <3>1. PICK entry \in Entries(m) : x = <<m, entry>>
      BY <3>0
    <3>2. m \in Messages /\ IsMessage(m)
      BY FrameEvents
    <3>3. QED
      BY <3>1, <3>2
  <2> HIDE DEF sent
  <2>2. QED
    BY <1>1, <2>1 DEF FeedInv, ArrivedSent
<1> HIDE DEF sent
<1>9. ASSUME NEW ev
      PROVE  (ev \in Kept)' <=> ev \in Kept \/ ev \in Range(new)
  <2>1. \A d \in Conns : ev \in Range(eventsBuf'[d])
            <=> (IF d = c THEN ev \in Range(new) ELSE ev \in Range(eventsBuf[d]))
    BY <1>5
  <2>2. ev \notin Range(eventsBuf[c])
    BY <1>1 DEF Range
  <2>3. QED
    BY <1>3, <2>1, <2>2, KeptIs, KeptNextIs
<1>10. Traced'
  BY <1>1, <1>7, <1>9 DEF FeedInv, Traced
<1>11. InHandReadable'
  <2>1. \A d \in Conns : passing[d] # None => d # c
    BY <1>1 DEF FeedInv, InHandIsHead
  <2>2. QED
    BY <1>3, <1>5, <2>1 DEF FeedInv, InHandReadable
<1>12. SeenKept => SeenKept'
  BY <1>3 DEF SeenKept, Passed
<1>13. EntriesKept => EntriesKept'
  BY <1>1, <1>7, <1>9 DEF EntriesKept
<1>14. QED
  BY <1>6, <1>8, <1>10, <1>11, <1>12, <1>13 DEF Rest

\* The panic on a hash that is too short ends the process.
LEMMA Panicking ==
    ASSUME FeedInv, NEW c \in Conns, KeyPanic(c), UNCHANGED feedVars
    PROVE  Rest' /\ exited'
  BY NothingMoves DEF KeyPanic

\* The mutex keeps no key but those of the cache before.
LEMMA RotationForgets ==
    ASSUME MaybeRotate
    PROVE  RotatedCurrent \cup previous' \subseteq current \cup previous
  BY DEF MaybeRotate, RotatedCurrent, RotatedPrevious

\* A copy is absorbed: an equal event is there or has been taken.
LEMMA Absorbing ==
    ASSUME FeedInv, NEW c \in Conns, NEW k \in Keys, eventsBuf[c] # <<>>,
           ~HashTooShort(Head(eventsBuf[c])), k = DedupKey(Head(eventsBuf[c])),
           Absorb(c, k), Drained(c), UNCHANGED <<channelBuf, arrived, taken>>
    PROVE  /\ Rest' /\ (SeenKept => SeenKept')
           /\ FineKeys /\ SeenKept /\ EntriesKept => EntriesKept'
<1>1. /\ UNCHANGED <<queued, passing, channelBuf, arrived, taken>> /\ passing[c] = None
      /\ MaybeRotate /\ current' = RotatedCurrent /\ k \in RotatedCurrent \cup RotatedPrevious
  BY DEF Absorb, channel, Seen
<1>2. Buffered
  BY DEF FeedInv
<1>3. /\ eventsBuf' \in [Conns -> Seq(AllEvents)]
      /\ \A d \in Conns \ {c} : eventsBuf'[d] = eventsBuf[d]
      /\ \A d \in Conns : Range(eventsBuf'[d]) \subseteq Range(eventsBuf[d])
      /\ \A d \in Conns : Range(eventsBuf[d])
             \subseteq Range(eventsBuf'[d]) \cup {Head(eventsBuf[c])}
  BY <1>2, BufferDrained
<1>4. Buffered' /\ ArrivedSent'
  BY <1>1, <1>3 DEF FeedInv, Buffered, ArrivedSent
<1>5. \A ev : (ev \in Kept)' => ev \in Kept
  BY <1>1, <1>3, KeptIs, KeptNextIs
<1>6. Traced'
  BY <1>1, <1>5 DEF FeedInv, Traced
<1>7. InHandReadable'
  BY <1>1, <1>3 DEF FeedInv, InHandReadable
<1>8. SeenKept => SeenKept'
  BY <1>1, RotationForgets DEF SeenKept, Passed
<1>9. ASSUME FineKeys, SeenKept, NEW ev \in Kept
      PROVE  (ev \in Kept)'
  <2> DEFINE hd == Head(eventsBuf[c])
  <2>1. ev \in Kept
    OBVIOUS
  <2>2. CASE ev # hd
    BY <1>1, <1>3, <2>1, <2>2, KeptIs, KeptNextIs
  <2>3. CASE ev = hd
    <3>1. k \in current \cup previous
      BY <1>1 DEF RotatedCurrent, RotatedPrevious
    <3>2. hd \in AllEvents /\ ~HashTooShort(hd) /\ DedupKey(hd) = k
      BY <1>2, HeadOfBuffer
    <3> HIDE DEF hd
    <3>3. CASE Passed(k)
      <4>1. PICK e \in Range(channelBuf) \cup taken : ~HashTooShort(e) /\ DedupKey(e) = k
        BY <3>3 DEF Passed
      <4>2. e \in AllEvents
        BY <1>2, <4>1, SequenceParts DEF Buffered
      <4>3. e = hd
        BY <1>9, <3>2, <4>1, <4>2 DEF FineKeys
      <4>4. QED
        BY <1>1, <2>3, <4>1, <4>3, KeptNextIs
    <3>4. ASSUME NEW d \in Conns, passing[d] = k
          PROVE  (ev \in Kept)'
      <4>1. k # None
        BY DedupAssumption
      <4>2. d # c
        BY <1>1, <3>4, <4>1
      <4>3. /\ eventsBuf[d] # <<>> /\ k = DedupKey(Head(eventsBuf[d]))
            /\ ~HashTooShort(Head(eventsBuf[d]))
        BY <3>4, <4>1 DEF FeedInv, InHandIsHead, InHandReadable
      <4>4. /\ Head(eventsBuf[d]) \in AllEvents
            /\ Head(eventsBuf[d]) \in Range(eventsBuf[d])
        BY <1>2, <4>3, HeadOfBuffer
      <4>5. Head(eventsBuf[d]) = hd
        BY <1>9, <3>2, <4>3, <4>4 DEF FineKeys
      <4>6. hd \in Range(eventsBuf'[d])
        BY <1>3, <4>2, <4>4, <4>5
      <4>7. QED
        BY <2>3, <4>6, KeptNextIs
    <3>5. QED
      BY <1>9, <3>1, <3>3, <3>4 DEF SeenKept
  <2>4. QED
    BY <2>2, <2>3
<1>10. FineKeys /\ SeenKept /\ EntriesKept => EntriesKept'
  BY <1>1, <1>9 DEF EntriesKept
<1>11. QED
  BY <1>4, <1>6, <1>7, <1>8, <1>10 DEF Rest

\* A key is inserted, and its event is in hand.
LEMMA Admitting ==
    ASSUME FeedInv, NEW c \in Conns, NEW k \in Keys, eventsBuf[c] # <<>>,
           ~HashTooShort(Head(eventsBuf[c])), k = DedupKey(Head(eventsBuf[c])),
           Admit(c, k), UNCHANGED feedVars
    PROVE  Rest' /\ (SeenKept => SeenKept') /\ (EntriesKept => EntriesKept')
<1>1. /\ UNCHANGED <<queued, eventsBuf, channelBuf, arrived, taken>> /\ MaybeRotate
      /\ passing[c] = None /\ passing' = [passing EXCEPT ![c] = k]
      /\ current' = RotatedCurrent \cup {k}
  BY DEF Admit, channel, feedVars
<1>2. passing \in [Conns -> Keys \cup {None}]
  BY DEF FeedInv, TypeOK
<1>3. passing'[c] = k /\ \A d \in Conns \ {c} : passing'[d] = passing[d]
  BY <1>1, <1>2
<1>4. Buffered' /\ ArrivedSent' /\ Kept' = Kept
  BY <1>1 DEF FeedInv, Buffered, ArrivedSent, Kept
<1>5. Traced' /\ (EntriesKept => EntriesKept')
  BY <1>1, <1>4 DEF FeedInv, Traced, EntriesKept
<1>6. InHandReadable'
  BY <1>1, <1>3 DEF FeedInv, InHandReadable
<1>7. SeenKept => SeenKept'
  <2> SUFFICES ASSUME SeenKept, NEW q \in current' \cup previous'
               PROVE  Passed(q)' \/ \E d \in Conns : passing'[d] = q
    BY DEF SeenKept
  <2>1. CASE q = k
    BY <1>3, <2>1
  <2>2. CASE q # k
    <3>1. q \in current \cup previous
      BY <1>1, <2>2, RotationForgets
    <3>2. Passed(q) => Passed(q)'
      BY <1>1 DEF Passed
    <3>3. ASSUME NEW d \in Conns, passing[d] = q
          PROVE  passing'[d] = q \/ Passed(q)'
      <4>1. CASE d # c
        BY <1>3, <3>3, <4>1
      <4>2. CASE d = c
        <5>1. q = None
          BY <1>1, <3>3, <4>2
        <5>2. q \in Keys
          BY <3>1 DEF FeedInv, TypeOK
        <5>3. QED
          BY <5>1, <5>2, DedupAssumption
      <4>3. QED
        BY <4>1, <4>2
    <3>4. QED
      BY <3>1, <3>2, <3>3 DEF SeenKept
  <2>3. QED
    BY <2>1, <2>2
<1>8. QED
  BY <1>4, <1>5, <1>6, <1>7 DEF Rest

\* What a connection in hand no longer holds, the others still do.
LEMMA HandsEmptied ==
    ASSUME FeedInv, NEW c \in Conns, Done(c)
    PROVE  /\ passing'[c] = None /\ \A d \in Conns \ {c} : passing'[d] = passing[d]
  BY DEF FeedInv, TypeOK, Done

\* The event in hand goes to the channel.
LEMMA Pushing ==
    ASSUME FeedInv, NEW c \in Conns, Push(c), Drained(c),
           channelBuf' = Append(channelBuf, Head(eventsBuf[c])), UNCHANGED <<arrived, taken>>
    PROVE  Rest' /\ (SeenKept => SeenKept') /\ (EntriesKept => EntriesKept')
<1> DEFINE hd == Head(eventsBuf[c])
<1>1. /\ passing[c] # None /\ Done(c) /\ queued' = queued + 1
      /\ UNCHANGED <<current, previous, arrived, taken>>
  BY DEF Push, cache
<1>2. eventsBuf[c] # <<>> /\ passing[c] = DedupKey(hd) /\ ~HashTooShort(hd) /\ Buffered
  BY <1>1 DEF FeedInv, InHandIsHead, InHandReadable
<1>3. /\ eventsBuf' \in [Conns -> Seq(AllEvents)]
      /\ \A d \in Conns \ {c} : eventsBuf'[d] = eventsBuf[d]
      /\ \A d \in Conns : Range(eventsBuf'[d]) \subseteq Range(eventsBuf[d])
      /\ \A d \in Conns : Range(eventsBuf[d]) \subseteq Range(eventsBuf'[d]) \cup {hd}
  BY <1>2, BufferDrained
<1>4. hd \in AllEvents /\ hd \in Range(eventsBuf[c])
  BY <1>2, HeadOfBuffer
<1> HIDE DEF hd
<1>5. channelBuf \in Seq(AllEvents) /\ Len(channelBuf) = queued /\ taken \subseteq AllEvents
  BY <1>2 DEF Buffered
<1>6. /\ channelBuf' \in Seq(AllEvents) /\ Range(channelBuf') = Range(channelBuf) \cup {hd}
      /\ Len(channelBuf') = Len(channelBuf) + 1
  BY <1>4, <1>5, AppendRange DEF hd
<1>7. Buffered' /\ ArrivedSent'
  BY <1>1, <1>3, <1>5, <1>6 DEF FeedInv, Buffered, ArrivedSent
<1>8. \A ev : (ev \in Kept)' <=> ev \in Kept
  BY <1>1, <1>3, <1>4, <1>6, KeptIs, KeptNextIs
<1>9. Traced' /\ (EntriesKept => EntriesKept')
  BY <1>1, <1>8 DEF FeedInv, Traced, EntriesKept
<1>10. passing'[c] = None /\ \A d \in Conns \ {c} : passing'[d] = passing[d]
  BY <1>1, HandsEmptied
<1>11. InHandReadable'
  BY <1>3, <1>10 DEF FeedInv, InHandReadable
<1>12. SeenKept => SeenKept'
  <2> SUFFICES ASSUME SeenKept, NEW q \in current \cup previous
               PROVE  Passed(q)' \/ \E d \in Conns : passing'[d] = q
    BY <1>1 DEF SeenKept
  <2>1. Passed(q) => Passed(q)'
    BY <1>1, <1>6 DEF Passed
  <2>2. ASSUME passing[c] = q
        PROVE  Passed(q)'
    BY <1>2, <1>6, <2>2 DEF Passed
  <2>3. QED
    BY <1>10, <2>1, <2>2 DEF SeenKept
<1>13. QED
  BY <1>7, <1>9, <1>11, <1>12 DEF Rest

\* A full channel ends the process.
LEMMA Overflowing ==
    ASSUME FeedInv, NEW c \in Conns, PushFull(c), UNCHANGED feedVars
    PROVE  Rest' /\ exited'
<1>1. Done(c) /\ UNCHANGED queued /\ exited'
  BY DEF PushFull
<1>2. UNCHANGED <<eventsBuf, channelBuf, arrived, taken>>
  BY DEF feedVars
<1>3. Buffered' /\ ArrivedSent' /\ Kept' = Kept
  BY <1>1, <1>2 DEF FeedInv, Buffered, ArrivedSent, Kept
<1>4. Traced'
  BY <1>2, <1>3 DEF FeedInv, Traced
<1>5. InHandReadable'
  BY <1>1, <1>2, HandsEmptied DEF FeedInv, InHandReadable
<1>6. QED
  BY <1>1, <1>3, <1>4, <1>5 DEF Rest

\* A closed one ends the connection, with what it holds.
LEMMA Closing ==
    ASSUME FeedInv, NEW c \in Conns, PushClosed(c),
           eventsBuf' = [eventsBuf EXCEPT ![c] = <<>>],
           UNCHANGED <<channelBuf, arrived, taken>>
    PROVE  Rest' /\ ~open'
<1>1. Done(c) /\ UNCHANGED <<queued, open>> /\ ~open
  BY DEF PushClosed
<1>2. eventsBuf \in [Conns -> Seq(AllEvents)]
  BY DEF FeedInv, Buffered
<1>3. /\ eventsBuf' \in [Conns -> Seq(AllEvents)] /\ eventsBuf'[c] = <<>>
      /\ \A d \in Conns \ {c} : eventsBuf'[d] = eventsBuf[d]
  BY <1>2
<1>4. Buffered' /\ ArrivedSent'
  BY <1>1, <1>3 DEF FeedInv, Buffered, ArrivedSent
<1>5. Range(eventsBuf'[c]) = {}
  BY <1>3 DEF Range
<1>6. \A ev : (ev \in Kept)' => ev \in Kept
  BY <1>3, <1>5, KeptIs, KeptNextIs
<1>7. Traced'
  BY <1>6 DEF FeedInv, Traced
<1>8. InHandReadable'
  BY <1>1, <1>3, HandsEmptied DEF FeedInv, InHandReadable
<1>9. QED
  BY <1>1, <1>4, <1>7, <1>8 DEF Rest

\* The sink takes the head of the channel.
LEMMA Taking ==
    ASSUME FeedInv, SinkTakes
    PROVE  /\ Rest' /\ (SeenKept => SeenKept') /\ (EntriesKept => EntriesKept')
           /\ taken' \ taken \subseteq Kept
<1> DEFINE hd == Head(channelBuf)
<1>1. /\ queued > 0 /\ queued' = queued - 1 /\ taken' = taken \cup {hd}
      /\ channelBuf' = Tail(channelBuf)
      /\ UNCHANGED <<eventsBuf, arrived, passing, current, previous>>
  BY DEF SinkTakes, SinkReceive, cache
<1>2. channelBuf \in Seq(AllEvents) /\ Len(channelBuf) = queued /\ taken \subseteq AllEvents
  BY DEF FeedInv, Buffered
<1>3. channelBuf # <<>>
  BY <1>1, <1>2
<1>4. /\ hd \in AllEvents /\ Tail(channelBuf) \in Seq(AllEvents)
      /\ Range(channelBuf) = {hd} \cup Range(Tail(channelBuf))
      /\ Len(channelBuf) \in Nat /\ Len(Tail(channelBuf)) = Len(channelBuf) - 1
  BY <1>2, <1>3, SequenceParts
<1> HIDE DEF hd
<1>5. Range(channelBuf') \cup taken' = Range(channelBuf) \cup taken
  BY <1>1, <1>4
<1>6. Buffered' /\ ArrivedSent'
  BY <1>1, <1>2, <1>4 DEF FeedInv, Buffered, ArrivedSent
<1>7. \A ev : (ev \in Kept)' <=> ev \in Kept
  BY <1>1, <1>5, KeptIs, KeptNextIs
<1>8. Traced' /\ (EntriesKept => EntriesKept')
  BY <1>1, <1>7 DEF FeedInv, Traced, EntriesKept
<1>9. InHandReadable'
  BY <1>1 DEF FeedInv, InHandReadable
<1>10. SeenKept => SeenKept'
  BY <1>1, <1>5 DEF SeenKept, Passed
<1>11. taken' \ taken \subseteq Kept
  BY <1>1, <1>4, KeptIs
<1>12. QED
  BY <1>6, <1>8, <1>9, <1>10, <1>11 DEF Rest

\* What has ended stays so.
LEMMA EndedStays ==
    ASSUME [FeedNext]_allVars
    PROVE  (exited => exited') /\ (~open => ~open')
<1>1. ASSUME NEW c \in Conns, NEW f \in Frames,
             NEW desired \in SUBSET {ev.asset_id : ev \in AllEvents},
             ReceiveFrame(c, f, desired)
      PROVE  UNCHANGED <<exited, open>>
  BY <1>1 DEF ReceiveFrame, vars, channel
<1>2. ASSUME NEW c \in Conns, Offer(c)
      PROVE  (exited => exited') /\ (~open => ~open')
  BY <1>2 DEF Offer, KeyPanic, Absorb, Admit, channel
<1>3. ASSUME NEW c \in Conns, Forward(c)
      PROVE  (exited => exited') /\ (~open => ~open')
  BY <1>3 DEF Forward, Push, PushFull, PushClosed
<1>4. CASE SinkTakes \/ SinkClose \/ Tick \/ UNCHANGED allVars
  BY <1>4 DEF SinkTakes, SinkReceive, SinkClose, Tick, allVars, vars, channel
<1>5. QED
  BY <1>1, <1>2, <1>3, <1>4 DEF FeedNext

\* A step keeps the feed's invariant; if keys are as fine as events, it keeps
\* every entry; and the sink takes only what was there.
LEMMA FeedStep ==
    ASSUME FeedInv, [FeedNext]_allVars
    PROVE  /\ Rest' /\ (FineKeys /\ KeptInv => KeptInv')
           /\ taken' \ taken \subseteq Kept
<1> USE DEF KeptInv
<1>1. ASSUME NEW c \in Conns, NEW f \in Frames,
             NEW desired \in SUBSET {ev.asset_id : ev \in AllEvents},
             ReceiveFrame(c, f, desired)
      PROVE  Rest' /\ (FineKeys /\ KeptInv => KeptInv') /\ taken' = taken
  BY <1>1, Receiving, EndedStays DEF ReceiveFrame
<1>2. ASSUME NEW c \in Conns, Offer(c)
      PROVE  Rest' /\ (FineKeys /\ KeptInv => KeptInv') /\ taken' = taken
  <2>1. CASE KeyPanic(c) /\ UNCHANGED feedVars
    BY <2>1, Panicking DEF feedVars
  <2>2. ASSUME NEW k \in Keys, eventsBuf[c] # <<>>, ~HashTooShort(Head(eventsBuf[c])),
               k = DedupKey(Head(eventsBuf[c])), Absorb(c, k), Drained(c),
               UNCHANGED <<channelBuf, arrived, taken>>
        PROVE  Rest' /\ (FineKeys /\ KeptInv => KeptInv') /\ taken' = taken
    BY <2>2, Absorbing, EndedStays
  <2>3. ASSUME NEW k \in Keys, eventsBuf[c] # <<>>, ~HashTooShort(Head(eventsBuf[c])),
               k = DedupKey(Head(eventsBuf[c])), Admit(c, k), UNCHANGED feedVars
        PROVE  Rest' /\ (FineKeys /\ KeptInv => KeptInv') /\ taken' = taken
    BY <2>3, Admitting, EndedStays DEF feedVars
  <2>4. QED
    BY <1>2, <2>1, <2>2, <2>3 DEF Offer
<1>3. ASSUME NEW c \in Conns, Forward(c)
      PROVE  Rest' /\ (FineKeys /\ KeptInv => KeptInv') /\ taken' = taken
  <2>1. CASE /\ Push(c) /\ Drained(c)
             /\ channelBuf' = Append(channelBuf, Head(eventsBuf[c]))
             /\ UNCHANGED <<arrived, taken>>
    BY <2>1, Pushing, EndedStays
  <2>2. CASE PushFull(c) /\ UNCHANGED feedVars
    BY <2>2, Overflowing DEF feedVars
  <2>3. CASE /\ PushClosed(c) /\ eventsBuf' = [eventsBuf EXCEPT ![c] = <<>>]
             /\ UNCHANGED <<channelBuf, arrived, taken>>
    BY <2>3, Closing
  <2>4. QED
    BY <1>3, <2>1, <2>2, <2>3 DEF Forward
<1>4. CASE SinkTakes
  BY <1>4, Taking, EndedStays
<1>5. CASE (SinkClose \/ Tick \/ UNCHANGED vars) /\ UNCHANGED feedVars
  <2>1. UNCHANGED <<queued, passing, current, previous, channelBuf, taken>>
    BY <1>5 DEF SinkClose, Tick, vars, cache, channel, feedVars
  <2>2. SeenKept => SeenKept'
    BY <2>1 DEF SeenKept, Passed
  <2>3. Rest' /\ (EntriesKept => EntriesKept')
    BY <1>5, <2>1, NothingMoves
  <2>4. QED
    BY <2>1, <2>2, <2>3, EndedStays
<1>6. CASE UNCHANGED allVars
  BY <1>5, <1>6 DEF allVars
<1>7. QED
  BY <1>1, <1>2, <1>3, <1>4, <1>5, <1>6 DEF FeedNext

LEMMA FeedStart ==
    ASSUME FeedInit
    PROVE  Rest /\ KeptInv
<1>1. /\ eventsBuf = [c \in Conns |-> <<>>] /\ channelBuf = <<>> /\ arrived = {}
      /\ taken = {} /\ queued = 0 /\ current = {} /\ previous = {}
      /\ \A c \in Conns : passing[c] = None
  BY DEF FeedInit, Init
<1>2. Buffered /\ ArrivedSent /\ InHandReadable
  BY <1>1 DEF Buffered, ArrivedSent, InHandReadable
<1>3. \A ev : ev \notin Kept
  BY <1>1, KeptIs DEF Range
<1>4. QED
  BY <1>1, <1>2, <1>3 DEF Rest, Traced, KeptInv, SeenKept, EntriesKept

LEMMA FeedAlways == FeedSpec => []FeedInv
<1>1. FeedInit => Rest
  BY FeedStart
<1>2. TypeOK /\ InHandIsHead /\ Rest /\ [FeedNext]_allVars => Rest'
  BY FeedStep DEF FeedInv, Rest
<1>3. TypeOK /\ InHandIsHead /\ Rest => FeedInv
  BY DEF FeedInv, Rest
<1>4. QED
  BY <1>1, <1>2, <1>3, FeedRefinesDedup, TypeCorrect, AdmittedIsPushed, PTL DEF FeedSpec

\* The buffers and the channel hold events of the frames, as many as are counted,
\* and the event in hand is the head of its buffer.
THEOREM FeedTypeCorrect == FeedSpec => []FeedTypeOK
<1>1. FeedInv => FeedTypeOK
  BY DEF FeedInv, Buffered, FeedTypeOK
<1>2. QED
  BY <1>1, FeedAlways, PTL

-----------------------------------------------------------------------------
\* If the content hashes are as fine as what they stand for, nothing that a connection
\* receives for an asset it wants is lost to the copies: until the process ends or the sink is
\* gone, an event that says the same is in a buffer, in the channel or taken
\* (dedup.rs:103-211, connection.rs:351-366, 477-516).
THEOREM EveryEntryIsKept == ASSUME FineHashes PROVE FeedSpec => []EveryEntryKept
<1>1. FeedInit => KeptInv
  BY FeedStart
<1>2. FeedInv /\ KeptInv /\ [FeedNext]_allVars => KeptInv'
  BY FeedStep, HashesMakeKeys
<1>3. FeedInv /\ KeptInv => EveryEntryKept
  <2> SUFFICES ASSUME FeedInv, EntriesKept, NEW x \in arrived
               PROVE  \E ev \in Kept : Represents(ev, x)
    BY DEF KeptInv, EveryEntryKept
  <2>1. PICK m \in Messages : \E entry \in Entries(m) : IsMessage(m) /\ x = <<m, entry>>
    BY DEF FeedInv, ArrivedSent
  <2>2. PICK entry \in Entries(m) : IsMessage(m) /\ x = <<m, entry>>
    BY <2>1
  <2>3. EventOf(m, entry) \in Kept
    BY <2>2 DEF EntriesKept
  <2>4. IsEvent(EventOf(m, entry))
        /\ \A f \in AllFields : OnWire(x, f) = Content(EventOf(m, entry), f)
    BY <2>2, EventSays
  <2>5. Represents(EventOf(m, entry), x)
    BY <2>4, JsonSays DEF Represents
  <2>6. QED
    BY <2>3, <2>5
<1>4. QED
  BY <1>1, <1>2, <1>3, FeedAlways, PTL DEF FeedSpec

-----------------------------------------------------------------------------
\* The fee of an event is that of its message.
LEMMA EventFee ==
    ASSUME FeesFit, NEW msg \in Messages, IsMessage(msg), NEW entry \in Entries(msg)
    PROVE  LET ev == EventOf(msg, entry)
           IN  "fee_rate_bps" \in DOMAIN ev => ev.fee_rate_bps \in U16
<1> DEFINE ev == EventOf(msg, entry)
<1>1. ev.event_type = msg.event_type /\ DOMAIN ev = Fields(ev.event_type)
  <2>1. IsEvent(ev) /\ ev.event_type = msg.event_type
    BY EventSays
  <2> HIDE DEF ev
  <2>2. QED
    BY <2>1 DEF IsEvent
<1>2. CASE msg.event_type = "last_trade_price"
  <2>1. ev = msg
    <3>1. entry = msg
      BY <1>2, KindFields DEF IsMessage, Entries, Common
    <3>2. QED
      BY <1>2 DEF EventOf
  <2>2. QED
    BY <2>1 DEF FeesFit
<1>3. CASE msg.event_type # "last_trade_price"
  <2>1. "fee_rate_bps" \notin DOMAIN ev
    <3>1. msg.event_type \in Kinds
      BY DEF IsMessage, Kinds
    <3>2. QED
      BY <1>1, <1>3, <3>1, KindFields DEF Kinds, Common
  <2>2. QED
    BY <2>1
<1>4. QED
  BY <1>2, <1>3

\* If the fees on the wire are those a u16 can hold, what the sink takes is stored
\* as what the wire said of it, in both schemas, with and without its hash, by the
\* process that received it and by a subscriber that parsed its JSON; a price change
\* without a quote the subscriber drops (sink.rs:284-327, events.rs:185-289).
THEOREM RowsAreTrue == ASSUME FeesFit PROVE FeedSpec => RowsSayWhatTheWireSaid
<1> DEFINE True(ev, route) ==
               \/ route = "pubsub" /\ Unquoted(ev) /\ Reaching(route, ev) = {}
               \/ \E x \in arrived, got \in Reaching(route, ev) :
                     /\ TypedSays(TypedRow(got), x)
                     /\ \A exclude \in BOOLEAN : RawSays(RawRow(got, exclude), x)
<1>1. ASSUME FeedInv, NEW ev \in Kept, NEW route \in {"direct", "pubsub"}
      PROVE  True(ev, route)
  <2>1. PICK x \in arrived : ev = EventOf(x[1], x[2])
    BY <1>1 DEF FeedInv, Traced
  <2>2. PICK m \in Messages : \E entry \in Entries(m) : IsMessage(m) /\ x = <<m, entry>>
    BY <1>1, <2>1 DEF FeedInv, ArrivedSent
  <2>3. PICK entry \in Entries(m) : IsMessage(m) /\ x = <<m, entry>>
    BY <2>2
  <2>4. ev = EventOf(m, entry)
    BY <2>1, <2>3
  <2>5. IsEvent(ev) /\ \A f \in AllFields : OnWire(x, f) = Content(ev, f)
    BY <2>3, <2>4, EventSays
  <2>6. "fee_rate_bps" \in DOMAIN ev => ev.fee_rate_bps \in U16
    BY <2>3, <2>4, EventFee
  <2>7. /\ TypedSays(TypedRow(ev), x)
        /\ \A exclude \in BOOLEAN : RawSays(RawRow(ev, exclude), x)
    BY <2>5, <2>6, TypedRowSays, RawRowSays
  <2>8. \/ route = "pubsub" /\ Unquoted(ev) /\ Reaching(route, ev) = {}
        \/ ev \in Reaching(route, ev)
    <3>1. CASE route = "direct"
      BY <3>1 DEF Reaching
    <3>2. CASE route = "pubsub" /\ ~Unquoted(ev)
      BY <2>5, <3>2, RoundTrip DEF Reaching
    <3>3. CASE route = "pubsub" /\ Unquoted(ev)
      BY <2>5, <3>3, UnquotedIsDropped DEF Reaching
    <3>4. QED
      BY <3>1, <3>2, <3>3
  <2>9. QED
    BY <2>1, <2>7, <2>8
<1>2. FeedInv /\ [FeedNext]_allVars =>
          [\A ev \in taken' \ taken, route \in {"direct", "pubsub"} : True(ev, route)]_allVars
  <2> SUFFICES ASSUME FeedInv, [FeedNext]_allVars,
                      NEW ev \in taken' \ taken, NEW route \in {"direct", "pubsub"}
               PROVE  True(ev, route)
    BY Zenon
  <2>1. ev \in Kept
    BY FeedStep
  <2> HIDE DEF True
  <2>2. QED
    BY <1>1, <2>1
<1>3. QED
  BY <1>2, FeedAlways, PTL DEF FeedSpec, RowsSayWhatTheWireSaid
=============================================================================
