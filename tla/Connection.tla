----------------------------- MODULE Connection ------------------------------
(***************************************************************************)
(* ws/connection.rs: one connection task.  Its run loop connects, runs a   *)
(* session until something breaks it, waits and connects again, until its  *)
(* command channel is closed or the event sink is gone.                    *)
(*                                                                         *)
(* Around it: the pool, which sends commands and at last drops the sender; *)
(* and the server, which applies the subscription frames of the socket in  *)
(* order and forgets everything when the socket goes.                      *)
(* Time is left out: waiting is a step (module Heartbeat has the clock).   *)
(***************************************************************************)
EXTENDS Integers, Sequences, FiniteSets

CONSTANTS Assets,       \* asset ids
          MailboxSize,  \* capacity of the command channel
          MaxDelay,     \* RECONNECT_DELAY_MAX, in seconds
          MaxCommands,  \* bound: commands the pool sends
          MaxBreaks     \* bound: sockets that break

ASSUME ConnectionAssumption == /\ MailboxSize \in Nat \ {0}
                               /\ MaxDelay \in Nat \ {0}

VARIABLES
    phase,        \* where the task is, see Phases
    firstAttempt, \* run: first_attempt
    pongTimedOut, \* run: pong_timed_out
    backoff,      \* run: backoff, in seconds
    desired,      \* SubState.desired
    subscribed,   \* SubState.subscribed
    initialSent,  \* SubState.initial_sent
    mailbox,      \* commands sent, not yet taken
    closed,       \* the pool dropped the sender
    handle,       \* the pool's ConnHandle.assets
    wire,         \* frames written to the socket, not yet read by the server
    broken,       \* the socket is dead; the task may not know yet
    serverSubs,   \* assets the server streams on this socket
    serverSaw,    \* what the server made of the frames so far
    sinkOpen,     \* the receiver of the event channel exists
    published,    \* last status sent to the health monitor
    commands,     \* bound: commands sent so far
    breaks        \* bound: sockets broken so far

loopVars   == <<phase, firstAttempt, pongTimedOut, backoff>>
subState   == <<desired, subscribed, initialSent>>
poolVars   == <<closed, handle, commands>>
socketVars == <<wire, broken, serverSubs, serverSaw>>
envVars    == <<sinkOpen, breaks>>
vars == <<loopVars, subState, mailbox, poolVars, socketVars, published, envVars>>

Phases == {"top",         \* start of the loop, before the delay
           "check",       \* after the delay
           "connecting",
           "resubscribe", \* start of run_session
           "session",     \* the select! loop of run_session
           "done"}        \* run returned

Commands == [op : {"subscribe", "unsubscribe"}, assets : SUBSET Assets]
Frames   == [op : {"market", "subscribe", "unsubscribe"}, assets : SUBSET Assets]

Init ==
    /\ phase = "top" /\ firstAttempt = TRUE /\ pongTimedOut = FALSE /\ backoff = 1
    /\ desired = {} /\ subscribed = {} /\ initialSent = FALSE
    /\ mailbox = <<>> /\ closed = FALSE /\ handle = {} /\ commands = 0
    /\ wire = <<>> /\ broken = FALSE /\ serverSubs = {} /\ serverSaw = "nothing"
    /\ published = "nothing"
    /\ sinkOpen = TRUE /\ breaks = 0

\* (mutant of Lesser: the cap of the delay is gone)
FirstOf(m, n) == m
Lesser(m, n) == IF m < n THEN m ELSE n

\* status_tx.send
Publish(status) == published' = status

\* A frame is written: whole, or into a dead socket.
Write(op, assets) ==
    wire' = IF broken THEN wire
            ELSE Append(wire, [op |-> op, assets |-> assets])

\* send_subscribe: the first frame of a session has another form.
SendSubscribe(assets) ==
    /\ Write(IF initialSent THEN "subscribe" ELSE "market", assets)
    /\ initialSent' = TRUE

\* The session is over and its socket dropped.
EndSession(next) ==
    /\ phase' = next
    /\ Publish("Disconnected")
    /\ wire' = <<>> /\ broken' = FALSE
    /\ serverSubs' = {} /\ serverSaw' = "nothing"

-----------------------------------------------------------------------------
(* The run loop *)

\* The reconnect delay: none at first and after a PONG timeout.
Delay ==
    /\ phase = "top"
    /\ phase' = "check"
    /\ firstAttempt' = FALSE
    /\ \/ /\ firstAttempt
          /\ UNCHANGED <<pongTimedOut, backoff>>
       \/ /\ ~firstAttempt /\ pongTimedOut
          /\ pongTimedOut' = FALSE
          /\ UNCHANGED backoff
       \/ /\ ~firstAttempt /\ ~pongTimedOut
          /\ backoff' = Lesser(2 * backoff, MaxDelay)
          /\ UNCHANGED pongTimedOut
    /\ UNCHANGED <<subState, mailbox, poolVars, socketVars, published, envVars>>

\* Shutdown is noticed here once the channel is closed and drained.
ExitAfterDelay ==
    /\ phase = "check"
    /\ closed /\ mailbox = <<>>
    /\ phase' = "done"
    /\ Publish("Disconnected")
    /\ UNCHANGED <<firstAttempt, pongTimedOut, backoff, subState, mailbox,
                   poolVars, socketVars, envVars>>

\* (mutant of GoConnect: the check is a try_recv, which takes a command)
GoConnectConsuming ==
    /\ phase = "check"
    /\ ~(closed /\ mailbox = <<>>)
    /\ phase' = "connecting"
    /\ mailbox' = IF mailbox = <<>> THEN mailbox ELSE Tail(mailbox)
    /\ UNCHANGED <<firstAttempt, pongTimedOut, backoff, subState, poolVars,
                   socketVars, published, envVars>>
\* The check itself takes nothing off the channel.
GoConnect ==
    /\ phase = "check"
    /\ ~(closed /\ mailbox = <<>>)
    /\ phase' = "connecting"
    /\ UNCHANGED <<firstAttempt, pongTimedOut, backoff, subState, mailbox,
                   poolVars, socketVars, published, envVars>>

ConnectFail ==
    /\ phase = "connecting"
    /\ phase' = "top"
    /\ Publish("Disconnected")
    /\ UNCHANGED <<firstAttempt, pongTimedOut, backoff, subState, mailbox,
                   poolVars, socketVars, envVars>>

\* (mutant of ConnectOk: reset_session forgets initial_sent)
ConnectOkNoReset ==
    /\ phase = "connecting"
    /\ phase' = "resubscribe"
    /\ subscribed' = {}
    /\ Publish("Connected")
    /\ UNCHANGED <<firstAttempt, pongTimedOut, backoff, desired, initialSent,
                   mailbox, poolVars, socketVars, envVars>>
\* A fresh socket: reset_session, and the status goes out.
ConnectOk ==
    /\ phase = "connecting"
    /\ phase' = "resubscribe"
    /\ subscribed' = {} /\ initialSent' = FALSE
    /\ Publish("Connected")
    /\ UNCHANGED <<firstAttempt, pongTimedOut, backoff, desired, mailbox,
                   poolVars, socketVars, envVars>>

-----------------------------------------------------------------------------
(* run_session *)

\* (mutant of Resubscribe: what is desired is not sent again)
ResubscribeNothing ==
    /\ phase = "resubscribe"
    /\ phase' = "session"
    /\ subscribed' = subscribed \cup desired
    /\ UNCHANGED <<initialSent, wire, firstAttempt, pongTimedOut, backoff,
                   desired, mailbox, poolVars, broken, serverSubs, serverSaw,
                   published, envVars>>
\* Everything desired is subscribed again before anything else.
Resubscribe ==
    /\ phase = "resubscribe"
    /\ phase' = "session"
    /\ IF desired = {}
       THEN UNCHANGED <<initialSent, wire>>
       ELSE SendSubscribe(desired)
    /\ subscribed' = subscribed \cup desired
    /\ UNCHANGED <<firstAttempt, pongTimedOut, backoff, desired, mailbox,
                   poolVars, broken, serverSubs, serverSaw, published, envVars>>

\* SessionOutcome::Error: the resubscription cannot be written.  The delay
\* reached so far stays.
ResubscribeFail ==
    /\ phase = "resubscribe"
    /\ broken /\ desired # {}
    /\ initialSent' = TRUE
    /\ EndSession("top")
    /\ UNCHANGED <<firstAttempt, pongTimedOut, backoff, desired, subscribed,
                   mailbox, poolVars, envVars>>

TakeSubscribe ==
    /\ phase = "session" /\ mailbox # <<>>
    /\ Head(mailbox).op = "subscribe"
    /\ mailbox' = Tail(mailbox)
    /\ LET assets == Head(mailbox).assets
           new    == assets \ subscribed
       IN  /\ desired' = desired \cup assets
           /\ subscribed' = subscribed \cup assets
           /\ IF new = {} THEN UNCHANGED <<initialSent, wire>>
              ELSE SendSubscribe(new)
    /\ UNCHANGED <<loopVars, poolVars, broken, serverSubs, serverSaw,
                   published, envVars>>

\* (mutant of TakeUnsubscribe: the asset stays in `subscribed')
TakeUnsubscribeHalf ==
    /\ phase = "session" /\ mailbox # <<>>
    /\ Head(mailbox).op = "unsubscribe"
    /\ mailbox' = Tail(mailbox)
    /\ LET gone == Head(mailbox).assets \cap desired
       IN  /\ desired' = desired \ gone
           /\ IF gone = {} THEN UNCHANGED wire ELSE Write("unsubscribe", gone)
    /\ UNCHANGED <<loopVars, subscribed, initialSent, poolVars, broken,
                   serverSubs, serverSaw, published, envVars>>
TakeUnsubscribe ==
    /\ phase = "session" /\ mailbox # <<>>
    /\ Head(mailbox).op = "unsubscribe"
    /\ mailbox' = Tail(mailbox)
    /\ LET gone == Head(mailbox).assets \cap desired
       IN  /\ desired' = desired \ gone
           /\ subscribed' = subscribed \ gone
           /\ IF gone = {} THEN UNCHANGED wire ELSE Write("unsubscribe", gone)
    /\ UNCHANGED <<loopVars, initialSent, poolVars, broken, serverSubs,
                   serverSaw, published, envVars>>

\* (mutant of SessionShutdown: the task waits for the peer to close)
SessionShutdownIgnored ==
    /\ phase = "session" /\ closed /\ mailbox = <<>> /\ broken
    /\ EndSession("done")
    /\ UNCHANGED <<firstAttempt, pongTimedOut, backoff, subState, mailbox,
                   poolVars, envVars>>
\* recv() returns None: the channel is closed and drained.
SessionShutdown ==
    /\ phase = "session" /\ closed /\ mailbox = <<>>
    /\ EndSession("done")
    /\ UNCHANGED <<firstAttempt, pongTimedOut, backoff, subState, mailbox,
                   poolVars, envVars>>

\* SessionOutcome::Closed: a close frame, a read error, the end of the stream
\* or a PING that cannot be written.
SessionClosed ==
    /\ phase = "session" /\ broken
    /\ EndSession("top")
    /\ backoff' = 1
    /\ UNCHANGED <<firstAttempt, pongTimedOut, subState, mailbox, poolVars, envVars>>

\* SessionOutcome::PongTimeout: the socket is half-open and nothing answers.
SessionPongTimeout ==
    /\ phase = "session" /\ broken
    /\ EndSession("top")
    /\ backoff' = 1
    /\ pongTimedOut' = TRUE
    /\ UNCHANGED <<firstAttempt, subState, mailbox, poolVars, envVars>>

\* SessionOutcome::ChannelClosed: an event of a desired asset arrives and the
\* sink is gone.
SessionSinkClosed ==
    /\ phase = "session" /\ ~sinkOpen
    /\ serverSubs \cap desired # {}
    /\ EndSession("done")
    /\ UNCHANGED <<firstAttempt, pongTimedOut, backoff, subState, mailbox,
                   poolVars, envVars>>

-----------------------------------------------------------------------------
(* The pool, the server, the network and the sink *)

\* The pool records the assets in its handle and sends the command; the send
\* fails, and is only logged, when the task is done.
PoolSend(op, assets) ==
    /\ ~closed /\ commands < MaxCommands
    /\ Len(mailbox) < MailboxSize
    /\ mailbox' = IF phase = "done" THEN mailbox
                  ELSE Append(mailbox, [op |-> op, assets |-> assets])
    /\ handle' = IF op = "subscribe" THEN handle \cup assets ELSE handle \ assets
    /\ commands' = commands + 1
    /\ UNCHANGED <<closed, loopVars, subState, socketVars, published, envVars>>

PoolSubscribe   == \E S \in SUBSET (Assets \ handle) \ {{}} : PoolSend("subscribe", S)
PoolUnsubscribe == \E S \in SUBSET handle \ {{}} : PoolSend("unsubscribe", S)

\* The handle is dropped, by a garbage collection or by the pool's shutdown.
PoolDrop ==
    /\ ~closed
    /\ closed' = TRUE
    /\ UNCHANGED <<handle, commands, loopVars, subState, mailbox, socketVars,
                   published, envVars>>

\* The server applies the next frame.  The first must be the market form, the
\* others must not.
ServerRead ==
    /\ wire # <<>> /\ ~broken
    /\ LET frame == Head(wire)
       IN  /\ serverSubs' = IF frame.op = "unsubscribe"
                            THEN serverSubs \ frame.assets
                            ELSE serverSubs \cup frame.assets
           /\ serverSaw' = IF (frame.op = "market") = (serverSaw = "nothing")
                           THEN "market" ELSE "nonsense"
    /\ wire' = Tail(wire)
    /\ UNCHANGED <<broken, loopVars, subState, mailbox, poolVars, published, envVars>>

\* The socket dies under the task; what the server has not read is lost.
Break ==
    /\ phase \in {"resubscribe", "session"} /\ ~broken
    /\ breaks < MaxBreaks
    /\ breaks' = breaks + 1
    /\ broken' = TRUE
    /\ wire' = <<>>
    /\ UNCHANGED <<serverSubs, serverSaw, loopVars, subState, mailbox, poolVars,
                   published, sinkOpen>>

SinkClose ==
    /\ sinkOpen
    /\ sinkOpen' = FALSE
    /\ UNCHANGED <<breaks, loopVars, subState, mailbox, poolVars, socketVars,
                   published>>

-----------------------------------------------------------------------------

TaskStep ==
    \/ Delay \/ ExitAfterDelay \/ GoConnect
    \/ ConnectFail \/ ConnectOk
    \/ Resubscribe \/ ResubscribeFail
    \/ TakeSubscribe \/ TakeUnsubscribe
    \/ SessionShutdown \/ SessionClosed \/ SessionPongTimeout \/ SessionSinkClosed

EnvStep == PoolSubscribe \/ PoolUnsubscribe \/ PoolDrop \/ ServerRead \/ Break \/ SinkClose

Next == TaskStep \/ EnvStep

Spec == Init /\ [][Next]_vars

\* The runtime schedules the task, and select! polls its branches in random
\* order, so a command that stays available is taken: every ready step of the
\* task happens.  Whether a connect succeeds is left open.
TaskFairness ==
    /\ WF_vars(TaskStep)
    /\ WF_vars(TakeSubscribe \/ TakeUnsubscribe \/ SessionShutdown)

FairSpec == Spec /\ TaskFairness

\* On top of that the network is not down for good: a connect attempted again
\* and again succeeds at last, and the server reads what it was sent.
NetworkFairSpec == FairSpec /\ SF_vars(ConnectOk) /\ WF_vars(ServerRead)

-----------------------------------------------------------------------------
(* Properties *)

TypeOK ==
    /\ phase \in Phases
    /\ firstAttempt \in BOOLEAN /\ pongTimedOut \in BOOLEAN
    /\ backoff \in 1..MaxDelay
    /\ desired \in SUBSET Assets /\ subscribed \in SUBSET Assets
    /\ initialSent \in BOOLEAN
    /\ mailbox \in Seq(Commands) /\ Len(mailbox) <= MailboxSize
    /\ closed \in BOOLEAN /\ handle \in SUBSET Assets /\ commands \in Nat
    /\ wire \in Seq(Frames) /\ broken \in BOOLEAN
    /\ serverSubs \in SUBSET Assets
    /\ serverSaw \in {"nothing", "market", "nonsense"}
    /\ sinkOpen \in BOOLEAN /\ breaks \in Nat
    /\ published \in {"nothing", "Connected", "Disconnected"}

\* a is in the set once the queued messages are applied to it: the last message
\* that names it decides.
Eventually(queue, set, a) ==
    LET about == {k \in DOMAIN queue : a \in queue[k].assets}
    IN  \/ about = {} /\ a \in set
        \/ \E k \in about : /\ \A j \in about : j <= k
                            /\ queue[k].op # "unsubscribe"

\* No command is lost between the pool and the task, in whatever phase it is
\* sent: not in the delay, not while connecting, not when the socket breaks
\* (connection.rs:180-190, 430-473).
NoCommandLost ==
    phase # "done" =>
        \A a \in Assets : Eventually(mailbox, desired, a) <=> a \in handle

\* In a live session the frames already written lead the server to stream
\* exactly the desired assets: the per-session diff never skips one the server
\* does not have (connection.rs:316-324, 435-443, 454-460).
ServerConverges ==
    phase = "session" /\ ~broken =>
        \A a \in Assets : Eventually(wire, serverSubs, a) <=> a \in desired

\* On every socket the first subscription frame is the market form and no later
\* one is (connection.rs:26-28).
OneMarketFrame == serverSaw # "nonsense"

\* The monitor's last word on this connection is Connected exactly while a
\* session runs (connection.rs:222-241).
StatusFollowsSession ==
    published = "Connected" <=> phase \in {"resubscribe", "session"}

\* An asset the pool subscribed ends up streamed, across breaks and reconnects,
\* unless the pool takes it back, or the connection or the sink is closed.
SubscriptionTakesHold ==
    \A a \in Assets :
        a \in handle ~> (a \in serverSubs \/ a \notin handle \/ closed \/ ~sinkOpen)

\* A connection whose sender is dropped ends, whatever is in its mailbox.
DroppedConnectionEnds == closed ~> phase = "done"
=============================================================================
