------------------------------ MODULE Heartbeat ------------------------------
(***************************************************************************)
(* ws/connection.rs, run_session: the application-level PING/PONG exchange *)
(* of one session, in seconds.  The task reads the socket and its ping     *)
(* ticker in one select!, so either may wait a little while the task does  *)
(* something else (Lag).  Whether the last PING has its PONG is looked at  *)
(* when the next PING is due and at no other time.                         *)
(*                                                                         *)
(* The other end answers a PING as soon or as late as it likes, or not at  *)
(* all, and may die without a word (a half-open socket).                   *)
(***************************************************************************)
EXTENDS Integers, FiniteSets

CONSTANTS PingInterval, \* PING_INTERVAL
          PongTimeout,  \* PONG_TIMEOUT
          Lag,          \* the longest a ready branch of the select! waits
          MaxTime       \* bound: the clock stops here

ASSUME HeartbeatAssumption ==
    /\ PingInterval \in Nat \ {0} /\ PongTimeout \in Nat /\ Lag \in Nat
    /\ PongTimeout + Lag < PingInterval

Never == -1

VARIABLES now,      \* seconds since the session started
          nextTick, \* deadline of ping_interval
          lastPing, \* last_ping_sent
          answered, \* ~(last_pong < last_ping_sent)
          asked,    \* send times of the PINGs not answered yet
          arrived,  \* arrival times of the PONGs not read yet
          diedAt,   \* when the other end died, or Never
          open      \* run_session has not returned

vars == <<now, nextTick, lastPing, answered, asked, arrived, diedAt, open>>

\* The first tick of an interval is immediate and skipped.
Init ==
    /\ now = 0 /\ nextTick = PingInterval
    /\ lastPing = Never /\ answered = TRUE
    /\ asked = {} /\ arrived = {}
    /\ diedAt = Never /\ open = TRUE

\* (mutant of PongOverdue: the whole interval has to be exceeded)
PongOverdueLate ==
    lastPing # Never /\ ~answered /\ now - lastPing > PingInterval
\* The last PING was sent, has no PONG yet and is older than PONG_TIMEOUT.
PongOverdue ==
    lastPing # Never /\ ~answered /\ now - lastPing >= PongTimeout

\* The ticker fires and finds the PONG missing: SessionOutcome::PongTimeout.
TickTimeout ==
    /\ open /\ now >= nextTick
    /\ PongOverdue
    /\ open' = FALSE
    /\ UNCHANGED <<now, nextTick, lastPing, answered, asked, arrived, diedAt>>

\* (mutant of TickPing: last_ping_sent is set by the first PING only)
TickPingStampedOnce ==
    /\ open /\ now >= nextTick
    /\ ~PongOverdue
    /\ nextTick' = now + PingInterval
    /\ lastPing' = IF lastPing = Never THEN now ELSE lastPing
    /\ answered' = (lastPing # Never /\ answered)
    /\ asked' = asked \cup {now}
    /\ UNCHANGED <<now, arrived, diedAt, open>>
\* The ticker fires and the next PING is sent.  MissedTickBehavior::Delay counts
\* the next interval from the moment a late tick was taken.
TickPing ==
    /\ open /\ now >= nextTick
    /\ ~PongOverdue
    /\ nextTick' = now + PingInterval
    /\ lastPing' = now
    /\ answered' = FALSE
    /\ asked' = asked \cup {now}
    /\ UNCHANGED <<now, arrived, diedAt, open>>

\* (mutant of ReadPong: the PONG is not recognised)
ReadPongIgnored ==
    /\ open
    /\ \E t \in arrived : arrived' = arrived \ {t}
    /\ UNCHANGED <<now, nextTick, lastPing, answered, asked, diedAt, open>>
\* A PONG is read: last_pong is now.
ReadPong ==
    /\ open
    /\ \E t \in arrived : arrived' = arrived \ {t}
    /\ answered' = TRUE
    /\ UNCHANGED <<now, nextTick, lastPing, asked, diedAt, open>>

\* The PONG of one PING reaches this end of the socket.
Answer ==
    /\ open /\ diedAt = Never
    /\ \E t \in asked : asked' = asked \ {t}
    /\ arrived' = arrived \cup {now}
    /\ UNCHANGED <<now, nextTick, lastPing, answered, diedAt, open>>

Die ==
    /\ open /\ diedAt = Never
    /\ diedAt' = now
    /\ UNCHANGED <<now, nextTick, lastPing, answered, asked, arrived, open>>

\* Time passes, but a branch of the select! that is ready waits no longer than Lag.
Advance ==
    /\ open
    /\ now < MaxTime
    /\ now < nextTick + Lag
    /\ \A t \in arrived : now < t + Lag
    /\ now' = now + 1
    /\ UNCHANGED <<nextTick, lastPing, answered, asked, arrived, diedAt, open>>

Next == TickTimeout \/ TickPing \/ ReadPong \/ Answer \/ Die \/ Advance

Spec == Init /\ [][Next]_vars

-----------------------------------------------------------------------------
(* Properties *)

TypeOK ==
    /\ now \in Nat
    /\ nextTick \in 0..(now + PingInterval)
    /\ lastPing \in {Never} \cup 0..now
    /\ answered \in BOOLEAN
    /\ asked \in SUBSET (0..now) /\ arrived \in SUBSET (0..now)
    /\ diedAt \in {Never} \cup 0..now
    /\ open \in BOOLEAN

\* A session is given up for one reason only: the PONG of its last PING did not
\* reach the socket within PONG_TIMEOUT.  A PONG that came in time is never
\* overlooked, not even when it waits in the socket while the ticker is taken
\* first.  And one without a PONG is not kept for longer than PING_INTERVAL: the
\* code looks at its next tick only, so this is the bound it keeps, not the
\* PONG_TIMEOUT that connection.rs:11-13 and 408-410 speak of.  A PONG that is late
\* and comes before that tick saves the session (connection.rs:346-350, 412-421).
NoFalseAlarm ==
    ~open => /\ now - lastPing >= PongTimeout
             /\ lastPing \in asked \/ \E t \in arrived : t > lastPing + PongTimeout
SilenceEndsSession ==
    /\ NoFalseAlarm
    /\ open /\ ~answered => now <= lastPing + PingInterval + Lag

\* A half-open socket is given up within two intervals, however the death falls
\* between a PING, its PONG and the next tick.
DeadSocketDetected ==
    open /\ diedAt # Never => now - diedAt <= 2 * (PingInterval + Lag)

\* No PING is sent before the last one is answered, so a PONG is never taken for
\* the answer to a later PING, although PONGs carry no identity
\* (connection.rs:346-350, 411-426).
OneOutstanding ==
    /\ \A s, t \in asked : s = t
    /\ asked # {} => arrived = {}
    /\ answered => asked = {} /\ arrived = {}
=============================================================================
