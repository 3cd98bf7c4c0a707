--------------------------- MODULE HeartbeatProofs ---------------------------
(***************************************************************************)
(* Proofs about module Heartbeat, for all intervals and delays that keep   *)
(* its assumption, PongTimeout + Lag < PingInterval.                       *)
(***************************************************************************)
EXTENDS Heartbeat, TLAPS

\* The timing of one exchange.  An open session is never later than its next
\* tick by more than Lag; the next tick is one interval after the last PING.
TickTime ==
    open => /\ now <= nextTick + Lag
            /\ lastPing = Never => nextTick = PingInterval
            /\ lastPing # Never => nextTick = lastPing + PingInterval

\* Where the PONG of the last PING can be while it is missing.
Exchange ==
    /\ \A t \in asked : t = lastPing
    /\ \A t \in arrived : t >= lastPing
    /\ \A s, t \in arrived : s = t
    /\ lastPing = Never => answered
    /\ ~answered => lastPing \in asked \/ arrived # {}
    /\ open => \A t \in arrived : now <= t + Lag

\* After a death no PONG arrives, and at most one more PING is sent.
LastWords ==
    diedAt # Never => /\ \A t \in arrived : t <= diedAt
                      /\ answered => lastPing <= diedAt
                      /\ lastPing <= diedAt + PingInterval + Lag

IInv == /\ TypeOK
        /\ OneOutstanding
        /\ TickTime
        /\ Exchange
        /\ LastWords
        /\ NoFalseAlarm

LEMMA InitIInv == Init => IInv
  BY HeartbeatAssumption
  DEF Init, IInv, TypeOK, OneOutstanding, TickTime, Exchange, LastWords,
      NoFalseAlarm, Never

\* A missing PONG is overdue whenever a tick finds it missing.
LEMMA MissingIsOverdue ==
  ASSUME IInv, open, now >= nextTick
  PROVE  PongOverdue <=> ~answered
  BY HeartbeatAssumption DEF IInv, TypeOK, TickTime, Exchange, PongOverdue, Never

\* A PONG that waits in the socket at a tick came after PONG_TIMEOUT.
LEMMA WaitingIsLate ==
  ASSUME IInv, open, now >= nextTick, ~answered
  PROVE  lastPing \in asked \/ \E t \in arrived : t > lastPing + PongTimeout
<1>1. /\ lastPing \in Nat /\ now \in Nat /\ nextTick = lastPing + PingInterval
      /\ arrived \subseteq Nat
  BY DEF IInv, TypeOK, TickTime, Exchange, Never
<1>2. ASSUME NEW t \in arrived
      PROVE  t > lastPing + PongTimeout
  <2>1. now <= t + Lag /\ t \in Nat
    BY <1>1, <1>2 DEF IInv, Exchange
  <2>2. QED
    BY <1>1, <2>1, HeartbeatAssumption
<1>3. QED
  BY <1>2 DEF IInv, Exchange

LEMMA StepIInv == IInv /\ [Next]_vars => IInv'
<1> SUFFICES ASSUME IInv, [Next]_vars
             PROVE  IInv'
  OBVIOUS
<1> USE HeartbeatAssumption DEF Never
<1>1. CASE TickTimeout
  <2>1. /\ lastPing \in asked \/ \E t \in arrived : t > lastPing + PongTimeout
        /\ now - lastPing >= PongTimeout
    BY <1>1, WaitingIsLate DEF TickTimeout, PongOverdue
  <2>2. QED
    BY <1>1, <2>1
    DEF TickTimeout, IInv, TypeOK, OneOutstanding, TickTime, Exchange,
        LastWords, NoFalseAlarm
<1>2. CASE TickPing
  <2>1. answered /\ asked = {} /\ arrived = {}
    BY <1>2, MissingIsOverdue DEF TickPing, IInv, OneOutstanding
  <2>2. diedAt # Never => now <= diedAt + PingInterval + Lag
    BY <1>2, <2>1 DEF TickPing, IInv, TypeOK, TickTime, LastWords
  <2>3. TypeOK'
    <3>1. now \in Nat /\ now' = now
      BY <1>2 DEF TickPing, IInv, TypeOK
    <3>2. asked' = {now} /\ arrived' = {}
      BY <1>2, <2>1 DEF TickPing
    <3>3. nextTick' \in 0..(now' + PingInterval) /\ lastPing' \in 0..now'
      BY <1>2, <3>1 DEF TickPing
    <3>4. now \in 0..now
      BY <3>1
    <3>5. asked' \in SUBSET (0..now') /\ arrived' \in SUBSET (0..now')
      BY <3>1, <3>2, <3>4
    <3>6. QED
      BY <1>2, <3>1, <3>3, <3>5 DEF TickPing, IInv, TypeOK
  <2>4. OneOutstanding' /\ NoFalseAlarm'
    BY <1>2, <2>1 DEF TickPing, IInv, OneOutstanding, NoFalseAlarm
  <2>5. TickTime'
    BY <1>2 DEF TickPing, IInv, TypeOK, TickTime
  <2>6. Exchange'
    BY <1>2, <2>1 DEF TickPing, IInv, TypeOK, Exchange
  <2>7. LastWords'
    BY <1>2, <2>1, <2>2 DEF TickPing, IInv, TypeOK, LastWords
  <2>8. QED
    BY <2>3, <2>4, <2>5, <2>6, <2>7 DEF IInv
<1>3. CASE ReadPong
  BY <1>3
  DEF ReadPong, IInv, TypeOK, OneOutstanding, TickTime, Exchange, LastWords,
      NoFalseAlarm
<1>4. CASE Answer
  <2>1. PICK t \in asked : asked' = asked \ {t}
    BY <1>4 DEF Answer
  <2>2. /\ asked' = {} /\ arrived' = {now}
        /\ lastPing \in 0..now /\ ~answered /\ now \in 0..now
    <3>1. asked = {t}
      BY DEF IInv, OneOutstanding
    <3>2. asked' = {} /\ arrived' = {now} /\ ~answered
      BY <1>4, <2>1, <3>1 DEF Answer, IInv, OneOutstanding
    <3>3. lastPing \in 0..now /\ now \in 0..now
      BY <3>2 DEF IInv, TypeOK, Exchange
    <3>4. QED
      BY <3>2, <3>3
  <2>3. TypeOK'
    BY <1>4, <2>2 DEF Answer, IInv, TypeOK
  <2>4. OneOutstanding' /\ NoFalseAlarm'
    BY <1>4, <2>2 DEF Answer, IInv, OneOutstanding, NoFalseAlarm
  <2>5. TickTime'
    BY <1>4 DEF Answer, IInv, TickTime
  <2>7. Exchange'
    BY <1>4, <2>2 DEF Answer, IInv, TypeOK, Exchange
  <2>8. LastWords'
    BY <1>4 DEF Answer, LastWords
  <2>9. QED
    BY <2>3, <2>4, <2>5, <2>7, <2>8 DEF IInv
<1>5. CASE Die
  <2>1. TypeOK' /\ NoFalseAlarm'
    BY <1>5 DEF Die, IInv, TypeOK, NoFalseAlarm
  <2>2. OneOutstanding' /\ TickTime'
    BY <1>5, Zenon DEF Die, IInv, OneOutstanding, TickTime
  <2>3. Exchange'
    BY <1>5 DEF Die, IInv, TypeOK, Exchange
  <2>4. LastWords'
    BY <1>5 DEF Die, IInv, TypeOK, OneOutstanding, LastWords
  <2>5. QED
    BY <2>1, <2>2, <2>3, <2>4 DEF IInv
<1>6. CASE Advance
  BY <1>6
  DEF Advance, IInv, TypeOK, OneOutstanding, TickTime, Exchange, LastWords,
      NoFalseAlarm
<1>7. CASE UNCHANGED vars
  BY <1>7
  DEF vars, IInv, TypeOK, OneOutstanding, TickTime, Exchange, LastWords,
      NoFalseAlarm
<1>8. QED
  BY <1>1, <1>2, <1>3, <1>4, <1>5, <1>6, <1>7 DEF Next

\* The inductive invariant holds in every behaviour.
THEOREM Inductive == Spec => []IInv
  BY InitIInv, StepIInv, PTL DEF Spec

\* A session is given up only when the PONG of its last PING did not come within
\* PONG_TIMEOUT, and is given up at the next tick if there is no PONG by then,
\* however late ticks and PONGs are taken (connection.rs:412-421).
THEOREM SilentSessionsEnd == Spec => []SilenceEndsSession
<1>1. IInv => SilenceEndsSession
  BY HeartbeatAssumption DEF IInv, TypeOK, TickTime, Exchange, SilenceEndsSession, Never
<1>2. QED
  BY <1>1, Inductive, PTL

\* A PONG always answers the last PING (connection.rs:346-350, 411-426).
THEOREM OnePingAtATime == Spec => []OneOutstanding
<1>1. IInv => OneOutstanding
  BY DEF IInv
<1>2. QED
  BY <1>1, Inductive, PTL

\* A half-open socket is given up within two intervals.
THEOREM HalfOpenIsDetected == Spec => []DeadSocketDetected
<1>1. IInv => DeadSocketDetected
  BY HeartbeatAssumption
  DEF IInv, TypeOK, TickTime, LastWords, DeadSocketDetected, Never
<1>2. QED
  BY <1>1, Inductive, PTL
=============================================================================
