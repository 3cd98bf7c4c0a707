--------------------------- MODULE ConnectionProofs --------------------------
(* Theorems about one connection task (module Connection), for every set of *)
(* assets, every mailbox and any number of commands and broken sockets.     *)
EXTENDS Connection, SequenceTheorems, TLAPS

\* The task has a socket.
Live == phase \in {"resubscribe", "session"}

\* Outside of a session there is no socket; a fresh one has seen nothing.
FreshInv ==
    /\ ~Live => ~broken
    /\ phase # "session" => wire = <<>> /\ serverSubs = {} /\ serverSaw = "nothing"
    /\ phase = "resubscribe" => ~initialSent /\ subscribed = {}
    /\ broken => wire = <<>>

\* The diff of a session is against what was written on its socket.
DiffInv ==
    phase = "session" =>
        /\ subscribed = desired
        /\ ~initialSent => desired = {} /\ wire = <<>> /\ serverSaw = "nothing"

\* Where the one market frame is.
FrameInv ==
    /\ serverSaw \in {"nothing", "market"}
    /\ phase = "session" /\ ~broken /\ initialSent =>
          /\ serverSaw = "nothing" =>
                /\ wire # <<>> /\ wire[1].op = "market"
                /\ \A k \in 2..Len(wire) : wire[k].op # "market"
          /\ serverSaw = "market" => \A k \in 1..Len(wire) : wire[k].op # "market"

ConnectionInv ==
    TypeOK /\ NoCommandLost /\ FreshInv /\ DiffInv /\ ServerConverges /\ FrameInv

-----------------------------------------------------------------------------
\* A message at the end decides for the assets it names.
LEMMA EventuallyAppend ==
    ASSUME NEW q \in Seq(Frames), NEW x \in Frames, NEW set, NEW a
    PROVE  Eventually(Append(q, x), set, a) <=>
               IF a \in x.assets THEN x.op # "unsubscribe" ELSE Eventually(q, set, a)
<1> DEFINE v == Append(q, x)
           S == {k \in DOMAIN v : a \in v[k].assets}
           T == {k \in DOMAIN q : a \in q[k].assets}
<1>1. /\ DOMAIN v = 1..(Len(q) + 1) /\ DOMAIN q = 1..Len(q) /\ Len(q) \in Nat
      /\ v[Len(q) + 1] = x /\ \A k \in 1..Len(q) : v[k] = q[k]
  OBVIOUS
<1> HIDE DEF v
<1>2. CASE a \in x.assets
  <2>1. Len(q) + 1 \in S /\ \A k \in S : k <= Len(q) + 1 /\ k \in Int
    BY <1>1, <1>2
  <2>2. ASSUME x.op # "unsubscribe" PROVE Eventually(v, set, a)
    BY <1>1, <2>1, <2>2 DEF Eventually
  <2>3. ASSUME Eventually(v, set, a) PROVE x.op # "unsubscribe"
    BY <1>1, <2>1, <2>3 DEF Eventually
  <2>4. QED
    BY <1>2, <2>2, <2>3 DEF v
<1>3. CASE a \notin x.assets
  <2>1. S = T
    BY <1>1, <1>3
  <2>2. QED
    BY <1>1, <1>3, <2>1 DEF Eventually, v
<1>4. QED
  BY <1>2, <1>3

\* A message is applied when it is taken.
LEMMA EventuallyTail ==
    ASSUME NEW q \in Seq(Frames), q # <<>>, NEW set, NEW a
    PROVE  LET applied == IF Head(q).op = "unsubscribe" THEN set \ Head(q).assets
                                                        ELSE set \cup Head(q).assets
           IN  Eventually(Tail(q), applied, a) <=> Eventually(q, set, a)
<1> DEFINE t == Tail(q)
           S == {k \in DOMAIN q : a \in q[k].assets}
           T == {k \in DOMAIN t : a \in t[k].assets}
           applied == IF q[1].op = "unsubscribe" THEN set \ q[1].assets
                                                 ELSE set \cup q[1].assets
<1>1. /\ DOMAIN q = 1..Len(q) /\ DOMAIN t = 1..(Len(q) - 1) /\ Len(q) \in Nat \ {0}
      /\ Head(q) = q[1] /\ \A k \in 1..(Len(q) - 1) : t[k] = q[k + 1]
  OBVIOUS
<1> HIDE DEF t
<1>2. /\ \A k \in T : k + 1 \in S
      /\ \A k \in S : k # 1 => k - 1 \in T
  BY <1>1
<1>3. 1 \in S <=> a \in q[1].assets
  BY <1>1
<1>4. \A k \in S \cup T : k \in Int /\ k >= 1
  BY <1>1
<1>5. CASE T = {}
  <2>1. \A k \in S : k = 1
    BY <1>2, <1>5
  <2>2. Eventually(t, applied, a) <=> a \in applied
    BY <1>5 DEF Eventually
  <2>3. Eventually(q, set, a) <=> a \in applied
    <3>1. CASE 1 \in S
      BY <1>3, <2>1, <3>1 DEF Eventually
    <3>2. CASE 1 \notin S
      BY <1>3, <2>1, <3>2 DEF Eventually
    <3>3. QED
      BY <3>1, <3>2
  <2>4. QED
    BY <1>1, <2>2, <2>3 DEF t
<1>6. CASE T # {}
  <2>1. PICK l \in T : TRUE
    BY <1>6
  <2>2. ASSUME NEW k \in T, \A j \in T : j <= k, t[k].op # "unsubscribe"
        PROVE  k + 1 \in S /\ (\A j \in S : j <= k + 1) /\ q[k + 1].op # "unsubscribe"
    BY <1>1, <1>2, <1>4, <2>2
  <2>3. ASSUME NEW k \in S, \A j \in S : j <= k, q[k].op # "unsubscribe"
        PROVE  k - 1 \in T /\ (\A j \in T : j <= k - 1) /\ t[k - 1].op # "unsubscribe"
    <3>1. k # 1
      BY <1>2, <1>4, <2>1, <2>3
    <3>2. QED
      BY <1>1, <1>2, <1>4, <2>3, <3>1
  <2>4. S # {}
    BY <1>2, <2>1
  <2>5. Eventually(t, applied, a) <=>
        \E k \in T : (\A j \in T : j <= k) /\ t[k].op # "unsubscribe"
    BY <1>6 DEF Eventually
  <2>6. Eventually(q, set, a) <=>
        \E k \in S : (\A j \in S : j <= k) /\ q[k].op # "unsubscribe"
    BY <2>4 DEF Eventually
  <2>7. QED
    BY <1>1, <2>2, <2>3, <2>5, <2>6 DEF t
<1>7. QED
  BY <1>5, <1>6

LEMMA EventuallyEmpty ==
    ASSUME NEW set, NEW a
    PROVE  Eventually(<<>>, set, a) <=> a \in set
  BY DEF Eventually

-----------------------------------------------------------------------------
LEMMA TypeStep == TypeOK /\ [Next]_vars => TypeOK'
<1> SUFFICES ASSUME TypeOK, [Next]_vars
             PROVE  TypeOK'
  OBVIOUS
<1> USE DEF TypeOK
<1>1. CASE Delay
  <2>1. backoff' \in 1..MaxDelay
    <3>1. Lesser(2 * backoff, MaxDelay) \in 1..MaxDelay
      BY ConnectionAssumption DEF Lesser
    <3>2. QED
      BY <1>1, <3>1 DEF Delay
  <2>2. firstAttempt' = FALSE /\ pongTimedOut' \in BOOLEAN /\ phase' \in Phases
    BY <1>1 DEF Delay, Phases
  <2>3. QED
    BY <1>1, <2>1, <2>2 DEF Delay, subState, poolVars, socketVars, envVars
<1>2. CASE ExitAfterDelay \/ GoConnect \/ ConnectFail \/ ConnectOk
  <2>1. CASE ExitAfterDelay \/ GoConnect \/ ConnectFail
    BY <2>1 DEF ExitAfterDelay, GoConnect, ConnectFail, Publish, Phases,
                subState, poolVars, socketVars, envVars
  <2>2. CASE ConnectOk
    <3>1. phase' \in Phases /\ subscribed' = {} /\ initialSent' = FALSE /\ published' = "Connected"
      BY <2>2 DEF ConnectOk, Publish, Phases
    <3>2. QED
      BY <2>2, <3>1 DEF ConnectOk, poolVars, socketVars, envVars
  <2>3. QED
    BY <1>2, <2>1, <2>2
<1>3. ASSUME NEW op \in {"market", "subscribe", "unsubscribe"}, NEW S \in SUBSET Assets,
             Write(op, S)
      PROVE  wire' \in Seq(Frames)
  <2>1. [op |-> op, assets |-> S] \in Frames
    BY DEF Frames
  <2>2. QED
    BY <1>3, <2>1, AppendProperties DEF Write
<1>4. ASSUME NEW S \in SUBSET Assets, SendSubscribe(S)
      PROVE  wire' \in Seq(Frames) /\ initialSent' \in BOOLEAN
  BY <1>3, <1>4 DEF SendSubscribe
<1>5. CASE Resubscribe
  <2>1. wire' \in Seq(Frames) /\ initialSent' \in BOOLEAN
    BY <1>4, <1>5 DEF Resubscribe
  <2>2. QED
    BY <1>5, <2>1 DEF Resubscribe, Phases, poolVars, envVars
<1>6. ASSUME NEW next, next \in Phases, EndSession(next),
             UNCHANGED <<firstAttempt, desired, subscribed, mailbox, poolVars, envVars>>,
             initialSent' \in BOOLEAN, pongTimedOut' \in BOOLEAN, backoff' \in {1, backoff}
      PROVE  TypeOK'
  <2>1. backoff' \in 1..MaxDelay
    BY <1>6, ConnectionAssumption
  <2>2. /\ phase' = next /\ published' = "Disconnected"
        /\ wire' = <<>> /\ broken' = FALSE /\ serverSubs' = {} /\ serverSaw' = "nothing"
    BY <1>6 DEF EndSession, Publish
  <2>3. <<>> \in Seq(Frames)
    OBVIOUS
  <2>4. QED
    BY <1>6, <2>1, <2>2, <2>3 DEF poolVars, envVars
<1>7. CASE ResubscribeFail \/ SessionShutdown \/ SessionClosed \/ SessionPongTimeout
           \/ SessionSinkClosed
  BY <1>6, <1>7 DEF ResubscribeFail, SessionShutdown, SessionClosed, SessionPongTimeout,
                    SessionSinkClosed, subState, Phases
<1>8. ASSUME mailbox # <<>>
      PROVE  /\ Head(mailbox) \in Commands /\ Tail(mailbox) \in Seq(Commands)
             /\ Len(Tail(mailbox)) <= MailboxSize
  BY <1>8, HeadTailProperties, ConnectionAssumption
<1>9. CASE TakeSubscribe
  <2>1. Head(mailbox).assets \in SUBSET Assets
    BY <1>8, <1>9 DEF TakeSubscribe, Commands
  <2>2. wire' \in Seq(Frames) /\ initialSent' \in BOOLEAN
    BY <1>4, <1>9, <2>1 DEF TakeSubscribe
  <2>3. QED
    BY <1>8, <1>9, <2>1, <2>2 DEF TakeSubscribe, loopVars, poolVars, envVars
<1>10. CASE TakeUnsubscribe
  <2>1. wire' \in Seq(Frames)
    BY <1>3, <1>10 DEF TakeUnsubscribe
  <2>2. QED
    BY <1>8, <1>10, <2>1 DEF TakeUnsubscribe, loopVars, poolVars, envVars
<1>11. ASSUME NEW op \in {"subscribe", "unsubscribe"}, NEW S \in SUBSET Assets,
              PoolSend(op, S)
       PROVE  TypeOK'
  <2>1. [op |-> op, assets |-> S] \in Commands
    BY DEF Commands
  <2>2. mailbox' \in Seq(Commands) /\ Len(mailbox') <= MailboxSize
    BY <1>11, <2>1, AppendProperties, ConnectionAssumption DEF PoolSend
  <2>3. QED
    BY <1>11, <2>2 DEF PoolSend, loopVars, subState, socketVars, envVars
<1>12. CASE PoolSubscribe \/ PoolUnsubscribe
  BY <1>11, <1>12 DEF PoolSubscribe, PoolUnsubscribe
<1>13. CASE ServerRead
  <2>1. Head(wire) \in Frames /\ Tail(wire) \in Seq(Frames)
    BY <1>13, HeadTailProperties DEF ServerRead
  <2>2. serverSubs' \in SUBSET Assets /\ serverSaw' \in {"nothing", "market", "nonsense"}
    BY <1>13, <2>1 DEF ServerRead, Frames
  <2>3. QED
    BY <1>13, <2>1, <2>2 DEF ServerRead, loopVars, subState, poolVars, envVars
<1>14. CASE Break \/ PoolDrop \/ SinkClose
  <2>1. CASE Break
    <3>1. broken' = TRUE /\ wire' = <<>> /\ breaks' \in Nat
      BY <2>1 DEF Break
    <3>2. QED
      BY <2>1, <3>1 DEF Break, loopVars, subState, poolVars
  <2>2. CASE PoolDrop
    BY <2>2 DEF PoolDrop, loopVars, subState, socketVars, envVars
  <2>3. CASE SinkClose
    BY <2>3 DEF SinkClose, loopVars, subState, poolVars, socketVars
  <2>4. QED
    BY <1>14, <2>1, <2>2, <2>3
<1>15. CASE UNCHANGED vars
  BY <1>15 DEF vars, loopVars, subState, poolVars, socketVars, envVars
<1>16. QED
  BY <1>1, <1>2, <1>5, <1>7, <1>9, <1>10, <1>12, <1>13, <1>14, <1>15
  DEF Next, TaskStep, EnvStep

-----------------------------------------------------------------------------
\* Commands reach the task in the end.
LEMMA CommandStep ==
    ASSUME TypeOK, NoCommandLost, [Next]_vars
    PROVE  NoCommandLost'
<1> USE DEF NoCommandLost
<1>1. mailbox \in Seq(Frames)
  <2>1. Commands \subseteq Frames
    BY DEF Commands, Frames
  <2>2. QED
    BY <2>1, SeqMonotonic DEF TypeOK
<1>2. CASE /\ UNCHANGED <<mailbox, desired, handle>>
           /\ phase = "done" => phase' = "done"
  BY <1>2
<1>3. CASE TakeSubscribe \/ TakeUnsubscribe
  <2>1. /\ phase = "session" /\ mailbox # <<>> /\ mailbox' = Tail(mailbox)
        /\ UNCHANGED handle
    BY <1>3 DEF TakeSubscribe, TakeUnsubscribe, poolVars
  <2>2. desired' = IF Head(mailbox).op = "unsubscribe" THEN desired \ Head(mailbox).assets
                                                      ELSE desired \cup Head(mailbox).assets
    BY <1>3 DEF TakeSubscribe, TakeUnsubscribe
  <2>3. \A a : Eventually(mailbox', desired', a) <=> Eventually(mailbox, desired, a)
    BY <1>1, <2>1, <2>2, EventuallyTail
  <2>4. QED
    BY <2>1, <2>3
<1>4. ASSUME NEW op \in {"subscribe", "unsubscribe"}, NEW S \in SUBSET Assets,
             PoolSend(op, S)
      PROVE  NoCommandLost'
  <2>1. CASE phase = "done"
    BY <1>4, <2>1 DEF PoolSend, loopVars
  <2>2. CASE phase # "done"
    <3>1. /\ mailbox' = Append(mailbox, [op |-> op, assets |-> S])
          /\ handle' = IF op = "subscribe" THEN handle \cup S ELSE handle \ S
          /\ UNCHANGED desired
      BY <1>4, <2>2 DEF PoolSend, subState
    <3>2. [op |-> op, assets |-> S] \in Frames
      BY DEF Frames
    <3>3. \A a : Eventually(mailbox', desired', a) <=>
                  IF a \in S THEN op # "unsubscribe" ELSE Eventually(mailbox, desired, a)
      BY <1>1, <3>1, <3>2, EventuallyAppend
    <3>4. QED
      BY <2>2, <3>1, <3>3
  <2>3. QED
    BY <2>1, <2>2
<1>5. CASE PoolSubscribe \/ PoolUnsubscribe
  BY <1>4, <1>5 DEF PoolSubscribe, PoolUnsubscribe, TypeOK
<1>6. CASE Delay \/ ExitAfterDelay \/ GoConnect \/ ConnectFail \/ ConnectOk
  BY <1>2, <1>6 DEF Delay, ExitAfterDelay, GoConnect, ConnectFail, ConnectOk, subState, poolVars
<1>7. CASE Resubscribe \/ ResubscribeFail \/ SessionShutdown \/ SessionClosed
           \/ SessionPongTimeout \/ SessionSinkClosed
  BY <1>2, <1>7 DEF Resubscribe, ResubscribeFail, SessionShutdown, SessionClosed,
                    SessionPongTimeout, SessionSinkClosed, EndSession, subState, poolVars
<1>8. CASE PoolDrop \/ ServerRead \/ Break \/ SinkClose \/ UNCHANGED vars
  BY <1>2, <1>8 DEF PoolDrop, ServerRead, Break, SinkClose, vars, loopVars, subState, poolVars
<1>9. QED
  BY <1>3, <1>5, <1>6, <1>7, <1>8 DEF Next, TaskStep, EnvStep

\* What is written on a socket, and what the server makes of it.
SocketInv == FreshInv /\ DiffInv /\ ServerConverges /\ FrameInv

\* A frame at the end leads the server where the task wants it.
LEMMA WriteStep ==
    ASSUME TypeOK, SocketInv, Live, NEW S \in SUBSET Assets,
           NEW op \in {"market", "subscribe", "unsubscribe"}, Write(op, S),
           UNCHANGED <<broken, serverSubs, serverSaw>>,
           ~initialSent => op = "market", initialSent => op # "market", initialSent',
           subscribed' = desired', phase' = "session",
           desired' = IF op = "unsubscribe" THEN desired \ S ELSE desired \cup S,
           phase = "resubscribe" => S = desired
    PROVE  SocketInv'
<1> USE DEF SocketInv
<1> DEFINE frame == [op |-> op, assets |-> S]
<1>1. frame \in Frames /\ wire \in Seq(Frames)
  BY DEF Frames, TypeOK
<1>2. FreshInv' /\ DiffInv'
  BY DEF FreshInv, DiffInv, Live, Write
<1>3. ServerConverges'
  <2>1. SUFFICES ASSUME ~broken
                 PROVE  \A a \in Assets : Eventually(wire', serverSubs', a) <=> a \in desired'
    BY DEF ServerConverges
  <2>2. \A a : Eventually(wire', serverSubs', a) <=>
                IF a \in S THEN op # "unsubscribe" ELSE Eventually(wire, serverSubs, a)
    BY <1>1, <2>1, EventuallyAppend DEF Write
  <2>3. CASE phase = "session"
    BY <2>1, <2>2, <2>3 DEF ServerConverges
  <2>4. CASE phase = "resubscribe"
    <3>1. \A a : ~Eventually(wire, serverSubs, a)
      BY <2>4, EventuallyEmpty DEF FreshInv
    <3>2. op # "unsubscribe" /\ S = desired
      BY <2>4 DEF FreshInv
    <3>3. QED
      BY <2>2, <3>1, <3>2
  <2>5. QED
    BY <2>3, <2>4 DEF Live
<1>4. FrameInv'
  <2>1. SUFFICES ASSUME ~broken
                 PROVE  /\ serverSaw = "nothing" =>
                              /\ wire' # <<>> /\ wire'[1].op = "market"
                              /\ \A k \in 2..Len(wire') : wire'[k].op # "market"
                        /\ serverSaw = "market" => \A k \in 1..Len(wire') : wire'[k].op # "market"
    BY DEF FrameInv
  <2>2. /\ wire' = Append(wire, frame) /\ wire' # <<>> /\ Len(wire') = Len(wire) + 1
        /\ wire'[Len(wire) + 1] = frame /\ \A k \in 1..Len(wire) : wire'[k] = wire[k]
        /\ Len(wire) \in Nat
    BY <1>1, <2>1, AppendProperties DEF Write
  <2>3. CASE initialSent
    <3>1. phase = "session" /\ op # "market"
      BY <2>3 DEF Live, FreshInv
    <3>2. QED
      BY <1>1, <2>1, <2>2, <2>3, <3>1 DEF FrameInv
  <2>4. CASE ~initialSent
    <3>1. wire = <<>> /\ serverSaw = "nothing" /\ op = "market"
      BY <2>4 DEF Live, FreshInv, DiffInv
    <3>2. QED
      BY <2>2, <3>1
  <2>5. QED
    BY <2>3, <2>4
<1>5. QED
  BY <1>2, <1>3, <1>4

LEMMA SocketStep ==
    ASSUME TypeOK, SocketInv, [Next]_vars
    PROVE  SocketInv'
<1> USE DEF SocketInv
<1>1. CASE Delay \/ ExitAfterDelay \/ GoConnect \/ ConnectFail \/ ConnectOk
  <2>1. /\ UNCHANGED <<wire, broken, serverSubs, serverSaw>>
        /\ ~Live /\ phase' # "session"
        /\ phase' = "resubscribe" => subscribed' = {} /\ ~initialSent'
    BY <1>1 DEF Delay, ExitAfterDelay, GoConnect, ConnectFail, ConnectOk, socketVars, Live
  <2>2. QED
    BY <2>1 DEF FreshInv, DiffInv, ServerConverges, FrameInv, Live
<1>2. CASE Resubscribe
  <2>1. /\ phase = "resubscribe" /\ phase' = "session"
        /\ subscribed = {} /\ subscribed' = desired /\ desired' = desired /\ ~initialSent
        /\ UNCHANGED <<broken, serverSubs, serverSaw>>
    BY <1>2 DEF Resubscribe, FreshInv
  <2>2. CASE desired = {}
    <3>1. UNCHANGED <<initialSent, wire>>
      BY <1>2, <2>2 DEF Resubscribe
    <3>2. ServerConverges'
      BY <2>1, <2>2, <3>1, EventuallyEmpty DEF FreshInv, ServerConverges
    <3>3. QED
      BY <2>1, <2>2, <3>1, <3>2 DEF FreshInv, DiffInv, FrameInv, Live
  <2>3. CASE desired # {}
    <3>1. Write("market", desired) /\ initialSent' /\ desired \in SUBSET Assets
      BY <1>2, <2>1, <2>3 DEF Resubscribe, SendSubscribe, TypeOK
    <3>2. QED
      BY <2>1, <3>1, WriteStep DEF Live
  <2>4. QED
    BY <2>2, <2>3
<1>3. ASSUME NEW next, next \in {"top", "done"}, EndSession(next)
      PROVE  SocketInv'
  BY <1>3 DEF EndSession, FreshInv, DiffInv, ServerConverges, FrameInv, Live
<1>4. CASE ResubscribeFail \/ SessionShutdown \/ SessionClosed \/ SessionPongTimeout
           \/ SessionSinkClosed
  BY <1>3, <1>4 DEF ResubscribeFail, SessionShutdown, SessionClosed, SessionPongTimeout,
                    SessionSinkClosed
<1>5. ASSUME UNCHANGED <<phase, desired, subscribed, initialSent, wire, broken, serverSubs,
                         serverSaw>>
      PROVE  SocketInv'
  BY <1>5 DEF FreshInv, DiffInv, ServerConverges, FrameInv, Live
<1>6. ASSUME mailbox # <<>>
      PROVE  Head(mailbox).assets \in SUBSET Assets
  <2>1. Head(mailbox) \in Commands
    BY <1>6, HeadTailProperties DEF TypeOK
  <2>2. QED
    BY <2>1 DEF Commands
<1>7. CASE TakeSubscribe
  <2> DEFINE assets == Head(mailbox).assets
             new    == assets \ subscribed
  <2>1. /\ phase = "session" /\ phase' = "session" /\ assets \in SUBSET Assets
        /\ UNCHANGED <<broken, serverSubs, serverSaw>>
        /\ subscribed = desired
        /\ desired' = desired \cup assets /\ subscribed' = subscribed \cup assets
    BY <1>6, <1>7 DEF TakeSubscribe, loopVars, DiffInv
  <2>2. CASE new = {}
    <3>1. UNCHANGED <<initialSent, wire>> /\ desired' = desired /\ subscribed' = subscribed
      BY <1>7, <2>1, <2>2 DEF TakeSubscribe
    <3>2. QED
      BY <1>5, <2>1, <3>1
  <2>3. CASE new # {}
    <3>1. SendSubscribe(new)
      BY <1>7, <2>3 DEF TakeSubscribe
    <3>2. desired' = desired \cup new /\ subscribed' = desired'
      BY <2>1
    <3>3. CASE initialSent
      BY <2>1, <3>1, <3>2, <3>3, WriteStep DEF SendSubscribe, Live
    <3>4. CASE ~initialSent
      BY <2>1, <3>1, <3>2, <3>4, WriteStep DEF SendSubscribe, Live
    <3>5. QED
      BY <3>3, <3>4
  <2>4. QED
    BY <2>2, <2>3
<1>8. CASE TakeUnsubscribe
  <2> DEFINE gone == Head(mailbox).assets \cap desired
  <2>1. /\ phase = "session" /\ phase' = "session" /\ gone \in SUBSET Assets
        /\ UNCHANGED <<broken, serverSubs, serverSaw, initialSent>>
        /\ subscribed = desired
        /\ desired' = desired \ gone /\ subscribed' = subscribed \ gone
    BY <1>6, <1>8 DEF TakeUnsubscribe, loopVars, DiffInv
  <2>2. CASE gone = {}
    <3>1. UNCHANGED <<wire, desired, subscribed>>
      BY <1>8, <2>1, <2>2 DEF TakeUnsubscribe
    <3>2. QED
      BY <1>5, <2>1, <3>1
  <2>3. CASE gone # {}
    <3>1. Write("unsubscribe", gone) /\ initialSent
      BY <1>8, <2>1, <2>3 DEF TakeUnsubscribe, DiffInv
    <3>2. QED
      BY <2>1, <3>1, WriteStep DEF Live
  <2>4. QED
    BY <2>2, <2>3
<1>9. CASE PoolSubscribe \/ PoolUnsubscribe \/ PoolDrop \/ SinkClose \/ UNCHANGED vars
  BY <1>5, <1>9 DEF PoolSubscribe, PoolUnsubscribe, PoolSend, PoolDrop, SinkClose, vars,
                    loopVars, subState, socketVars
<1>10. CASE ServerRead
  <2>1. /\ wire # <<>> /\ ~broken /\ phase = "session" /\ initialSent
        /\ wire' = Tail(wire) /\ UNCHANGED <<phase, desired, subscribed, initialSent, broken>>
    BY <1>10 DEF ServerRead, FreshInv, DiffInv, loopVars, subState
  <2>2. /\ wire \in Seq(Frames) /\ Len(wire) \in Nat \ {0} /\ Head(wire) = wire[1]
        /\ Len(wire') = Len(wire) - 1
        /\ \A k \in 1..Len(wire') : wire'[k] = wire[k + 1]
    BY <2>1, HeadTailProperties DEF TypeOK
  <2>3. ServerConverges'
    <3>1. serverSubs' = IF Head(wire).op = "unsubscribe" THEN serverSubs \ Head(wire).assets
                                                        ELSE serverSubs \cup Head(wire).assets
      BY <1>10 DEF ServerRead
    <3>2. \A a : Eventually(wire', serverSubs', a) <=> Eventually(wire, serverSubs, a)
      BY <2>1, <2>2, <3>1, EventuallyTail
    <3>3. QED
      BY <2>1, <3>2 DEF ServerConverges
  <2>4. FrameInv'
    <3>1. serverSaw' = "market"
      BY <1>10, <2>1, <2>2 DEF ServerRead, FrameInv
    <3>2. \A k \in 1..Len(wire') : wire'[k].op # "market"
      BY <2>1, <2>2 DEF FrameInv
    <3>3. QED
      BY <3>1, <3>2 DEF FrameInv
  <2>5. FreshInv' /\ DiffInv'
    BY <2>1 DEF FreshInv, DiffInv, Live
  <2>6. QED
    BY <2>3, <2>4, <2>5
<1>11. CASE Break
  BY <1>11 DEF Break, FreshInv, DiffInv, ServerConverges, FrameInv, Live, loopVars, subState
<1>12. QED
  BY <1>1, <1>2, <1>4, <1>7, <1>8, <1>9, <1>10, <1>11 DEF Next, TaskStep, EnvStep

-----------------------------------------------------------------------------
\* ConnectionInv is an invariant: what the theorems below follow from.
THEOREM ConnectionInvariant == Spec => []ConnectionInv
<1>1. Init => ConnectionInv
  <2> SUFFICES ASSUME Init
               PROVE  ConnectionInv
    OBVIOUS
  <2>1. TypeOK
    <3>1. <<>> \in Seq(Commands) /\ <<>> \in Seq(Frames) /\ Len(<<>>) <= MailboxSize
      BY ConnectionAssumption
    <3>2. backoff \in 1..MaxDelay
      BY ConnectionAssumption DEF Init
    <3>3. QED
      BY <3>1, <3>2 DEF Init, TypeOK, Phases
  <2>2. NoCommandLost
    BY EventuallyEmpty DEF Init, NoCommandLost
  <2>3. FreshInv /\ DiffInv /\ ServerConverges /\ FrameInv
    BY DEF Init, FreshInv, DiffInv, ServerConverges, FrameInv, Live
  <2>4. QED
    BY <2>1, <2>2, <2>3 DEF ConnectionInv
<1>2. ConnectionInv /\ [Next]_vars => ConnectionInv'
  BY TypeStep, CommandStep, SocketStep DEF ConnectionInv, SocketInv
<1>3. QED
  BY <1>1, <1>2, PTL DEF Spec

\* Every variable keeps its type, the mailbox its bound and the backoff its ceiling
\* (connection.rs:163-177, pool.rs:426).
THEOREM TypeCorrect == Spec => []TypeOK
<1>1. ConnectionInv => TypeOK
  BY DEF ConnectionInv
<1>2. QED
  BY <1>1, ConnectionInvariant, PTL

\* A command reaches the task's set in the end, in whatever phase of delay,
\* connecting, session and break it is sent (connection.rs:180-190, 430-473).
THEOREM CommandsAreNotLost == Spec => []NoCommandLost
<1>1. ConnectionInv => NoCommandLost
  BY DEF ConnectionInv
<1>2. QED
  BY <1>1, ConnectionInvariant, PTL

\* In a live session the frames written lead the server to stream exactly the
\* desired assets (connection.rs:316-324, 435-443, 454-460).
THEOREM ServerWillAgree == Spec => []ServerConverges
<1>1. ConnectionInv => ServerConverges
  BY DEF ConnectionInv
<1>2. QED
  BY <1>1, ConnectionInvariant, PTL

\* Every socket sees one market frame, and sees it first (connection.rs:26-28).
THEOREM FirstFrameOnly == Spec => []OneMarketFrame
<1>1. ConnectionInv => OneMarketFrame
  BY DEF ConnectionInv, FrameInv, OneMarketFrame
<1>2. QED
  BY <1>1, ConnectionInvariant, PTL

\* The monitor is told Connected and Disconnected exactly as sessions begin and
\* end, by whichever of the exits they end (connection.rs:222-241).
THEOREM MonitorIsTold == Spec => []StatusFollowsSession
<1>1. Init => StatusFollowsSession
  BY DEF Init, StatusFollowsSession
<1>2. StatusFollowsSession /\ [Next]_vars => StatusFollowsSession'
  <2> SUFFICES ASSUME StatusFollowsSession, [Next]_vars
               PROVE  StatusFollowsSession'
    OBVIOUS
  <2> USE DEF StatusFollowsSession, Publish, EndSession
  <2>1. CASE Delay \/ ExitAfterDelay \/ GoConnect \/ ConnectFail \/ ConnectOk
    BY <2>1 DEF Delay, ExitAfterDelay, GoConnect, ConnectFail, ConnectOk
  <2>2. CASE Resubscribe \/ ResubscribeFail \/ SessionShutdown \/ SessionClosed
             \/ SessionPongTimeout \/ SessionSinkClosed
    BY <2>2 DEF Resubscribe, ResubscribeFail, SessionShutdown, SessionClosed,
                SessionPongTimeout, SessionSinkClosed
  <2>3. CASE TakeSubscribe \/ TakeUnsubscribe \/ PoolSubscribe \/ PoolUnsubscribe \/ PoolDrop
             \/ ServerRead \/ Break \/ SinkClose \/ UNCHANGED vars
    BY <2>3 DEF TakeSubscribe, TakeUnsubscribe, PoolSubscribe, PoolUnsubscribe, PoolSend,
                PoolDrop, ServerRead, Break, SinkClose, vars, loopVars
  <2>4. QED
    BY <2>1, <2>2, <2>3 DEF Next, TaskStep, EnvStep
<1>3. QED
  BY <1>1, <1>2, PTL DEF Spec

=============================================================================
