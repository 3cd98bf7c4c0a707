-------------------------------- MODULE Feed ---------------------------------
(***************************************************************************)
(* An event from the frame to its row.  Connections receive copies of the  *)
(* same frames in any order and at any time; each explodes and filters its *)
(* frames (connection.rs) and hands the events, one after the other, to    *)
(* the forwarder of module Dedup; the sink takes them off the channel.     *)
(* The row is written by the process itself or, on the route through Redis,*)
(* by a subscriber that has parsed the JSON of the event.                  *)
(***************************************************************************)
EXTENDS Dedup, Events

CONSTANT Frames    \* the frames the server sends

Messages == UNION {Range(f) : f \in Frames}
AllEvents == UNION {Range(Explode(m)) : m \in Messages}

\* Every frame is one that parses; Keys has the key of every event.
ASSUME FeedAssumption ==
    /\ \A f \in Frames : f \in Seq(Range(f)) /\ \A i \in DOMAIN f : IsMessage(f[i])
    /\ \A ev \in AllEvents : ~HashTooShort(ev) => DedupKey(ev) \in Keys

VARIABLES
    eventsBuf,  \* per connection: events_buf; its head is the event in hand
    channelBuf, \* the events in the channel
    arrived,    \* history: <<message, entry>> of the events put in a buffer
    taken       \* history: the events the sink has taken

feedVars == <<eventsBuf, channelBuf, arrived, taken>>
allVars == <<vars, feedVars>>

FeedInit ==
    /\ Init
    /\ eventsBuf = [c \in Conns |-> <<>>] /\ channelBuf = <<>>
    /\ arrived = {} /\ taken = {}

Entries(msg) == IF "price_changes" \in DOMAIN msg THEN Range(msg.price_changes)
                                                  ELSE {msg}

\* bound: events received or about to be
InBuffers == FoldFunction(LAMBDA buf, n : Len(buf) + n, 0, eventsBuf)

\* A frame arrives when the last one is done with; which assets the connection
\* wants at that time is up to the pool.
ReceiveFrame(c, frame, desired) ==
    /\ Running(c) /\ eventsBuf[c] = <<>>
    /\ Received + InBuffers + Len(HandleText(frame, desired)) <= MaxEvents
    /\ HandleText(frame, desired) # <<>>
    /\ eventsBuf' = [eventsBuf EXCEPT ![c] = HandleText(frame, desired)]
    /\ arrived' = arrived \cup
           {x \in UNION {{m} \X Entries(m) : m \in Range(frame)} :
               x[2].asset_id \in desired}
    /\ UNCHANGED <<vars, channelBuf, taken>>

\* drain(..): the head is done with.
Drained(c) == eventsBuf' = [eventsBuf EXCEPT ![c] = Tail(@)]

\* try_send, the part under the mutex.
Offer(c) ==
    /\ eventsBuf[c] # <<>>
    /\ LET ev == Head(eventsBuf[c])
       IN  \/ HashTooShort(ev) /\ KeyPanic(c) /\ UNCHANGED feedVars
           \/ /\ ~HashTooShort(ev)
              /\ \E k \in Keys :
                    /\ k = DedupKey(ev)
                    /\ \/ /\ Absorb(c, k) /\ Drained(c)
                          /\ UNCHANGED <<channelBuf, arrived, taken>>
                       \/ Admit(c, k) /\ UNCHANGED feedVars

\* try_send, the part on the channel.
Forward(c) ==
    \/ /\ Push(c) /\ Drained(c)
       /\ channelBuf' = Append(channelBuf, Head(eventsBuf[c]))
       /\ UNCHANGED <<arrived, taken>>
    \/ PushFull(c) /\ UNCHANGED feedVars
    \/ /\ PushClosed(c)
       /\ eventsBuf' = [eventsBuf EXCEPT ![c] = <<>>]
       /\ UNCHANGED <<channelBuf, arrived, taken>>

SinkTakes ==
    /\ SinkReceive
    /\ taken' = taken \cup {Head(channelBuf)}
    /\ channelBuf' = Tail(channelBuf)
    /\ UNCHANGED <<eventsBuf, arrived>>

FeedNext ==
    \/ \E c \in Conns :
        \/ \E f \in Frames, desired \in SUBSET {ev.asset_id : ev \in AllEvents} :
               ReceiveFrame(c, f, desired)
        \/ Offer(c) \/ Forward(c)
    \/ SinkTakes
    \/ (SinkClose \/ Tick) /\ UNCHANGED feedVars

FeedSpec == FeedInit /\ [][FeedNext]_allVars

-----------------------------------------------------------------------------
(* Properties *)

\* What the wire says of a field: one value or none.  An entry is told with its
\* message, levels in the form of the tables.
AllFields == UNION {Fields(kind) : kind \in Kinds}
OnWire(x, f) ==
    LET msg == x[1]
        entry == x[2]
    IN  CASE f \in {"bids", "asks"} \cap DOMAIN entry -> {Levels(entry[f])}
          [] f \in {"best_bid", "best_ask"} \cap DOMAIN entry -> entry[f]
          [] f \in DOMAIN entry \ {"bids", "asks", "best_bid", "best_ask"} -> {entry[f]}
          [] f \in DOMAIN msg \ DOMAIN entry -> {msg[f]}
          [] OTHER -> {}
Said(record, f) == IF f \in DOMAIN record THEN {record[f]} ELSE {}

Represents(ev, x) == \A f \in AllFields : Said(Json(ev), f) = OnWire(x, f)

\* What is asked of the frames where a property needs more than their form.  Of a
\* content hash only 64 bits are kept, with no trace of the kind: here two events
\* that share these are one event.  A fee is a string on the wire and is stored as
\* a u16: here it is one.
Hashed == {ev \in AllEvents : HasContentHash(ev) /\ ~HashTooShort(ev)}
FineHashes ==
    \A e1, e2 \in Hashed :
        (\E h1 \in e1.hash, h2 \in e2.hash : h1[1] = h2[1]) => e1 = e2
FeesFit == \A m \in Messages : "fee_rate_bps" \in DOMAIN m => m.fee_rate_bps \in U16

\* No event of a frame is lost to the copies: whatever a connection received for
\* an asset it wants is in a buffer, in the channel or taken by the sink, as
\* itself or as an equal event, as long as the process runs and the sink is
\* there.  It needs FineHashes, a key of the other events that tells them apart, and
\* that the insert of a key precedes its push (dedup.rs:103-211,
\* connection.rs:351-366, 477-516).
Kept == (UNION {Range(eventsBuf[c]) : c \in Conns}) \cup Range(channelBuf) \cup taken
EveryEntryKept ==
    \A x \in arrived : exited \/ ~open \/ \E ev \in Kept : Represents(ev, x)

TypedSays(row, x) ==
    \A col \in TypedColumns :
        Said(row, col) = IF OnWire(x, col) = {} THEN {Default(col)} ELSE OnWire(x, col)
\* The timestamp is asked for in its column.  Whether the JSON repeats it is left
\* open: events.rs:20-22 and its tests (604, 642, 683, 699) say that it does not,
\* the code writes it (185-243), and the subscriber could not parse without it.
RawSays(row, x) ==
    \A f \in AllFields \ {"hash"} :
        /\ f # "timestamp" => Said(row.data, f) = OnWire(x, f)
        /\ f \in DOMAIN row => Said(row, f) = OnWire(x, f)

\* Every event the sink takes is stored as what the wire said of it, in both
\* schemas, with and without its hash, and equally by the process that received
\* it and by a subscriber that parsed its JSON.  A price change without a quote is
\* stored by the former only: the subscriber cannot parse it and drops it, against
\* the "full fidelity" of pubsub_sink.rs:3-8 (sink.rs:284-327, events.rs:185-289).
Reaching(route, ev) == IF route = "direct" THEN {ev}
                       ELSE {Parsed(json) : json \in {j \in {Json(ev)} : Readable(j)}}
Unquoted(ev) == \E f \in {"best_bid", "best_ask"} \cap DOMAIN ev : ev[f] = {}
RowsSayWhatTheWireSaid ==
    [][\A ev \in taken' \ taken, route \in {"direct", "pubsub"} :
          \/ route = "pubsub" /\ Unquoted(ev) /\ Reaching(route, ev) = {}
          \/ \E x \in arrived, got \in Reaching(route, ev) :
                /\ TypedSays(TypedRow(got), x)
                /\ \A exclude \in BOOLEAN : RawSays(RawRow(got, exclude), x)]_allVars

\* The event in hand is the head of its connection's buffer: the key that was
\* admitted is the key of the event that is pushed.
InHandIsHead ==
    \A c \in Conns : passing[c] # None =>
        eventsBuf[c] # <<>> /\ passing[c] = DedupKey(Head(eventsBuf[c]))

\* Type invariant, with the event in hand and the channel as it is counted.
FeedTypeOK ==
    /\ TypeOK /\ InHandIsHead
    /\ eventsBuf \in [Conns -> Seq(AllEvents)] /\ channelBuf \in Seq(AllEvents)
    /\ Len(channelBuf) = queued
    /\ taken \subseteq AllEvents
=============================================================================
