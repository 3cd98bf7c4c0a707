------------------------------- MODULE Events --------------------------------
(***************************************************************************)
(* events.rs and the forms an event takes on its way: the message on the   *)
(* WebSocket, the Event after `explode', its dedup_key, its JSON on the    *)
(* Redis channel, and its row in the raw or the typed table (sink.rs).     *)
(*                                                                         *)
(* Strings and decimals are values.  An Option is a set of at most one     *)
(* element.  A content hash is a pair, its first 16 hex digits and the     *)
(* rest, or <<>> when it is shorter.  Timestamps are numbers: one that is  *)
(* not costs a batch (module Pipeline).                                    *)
(***************************************************************************)
EXTENDS Integers, Sequences, SequencesExt

Optional == {"best_bid", "best_ask", "hash"}

\* The fields of each variant of the enum Event, tag included.
Common == {"event_type", "market", "asset_id", "timestamp"}
Kinds == {"book", "price_change", "last_trade_price", "tick_size_change"}
Fields(kind) == Common \cup
    CASE kind = "book" -> {"bids", "asks", "hash"}
      [] kind = "price_change" ->
             {"best_bid", "best_ask", "hash", "price", "size", "side"}
      [] kind = "last_trade_price" ->
             {"price", "size", "side", "fee_rate_bps", "transaction_hash"}
      [] kind = "tick_size_change" -> {"old_tick_size", "new_tick_size"}

-----------------------------------------------------------------------------
(* From the wire to events *)

\* What serde takes for a message: the fields of its kind, the quotes of an entry
\* being Options.
EntryFields == {"asset_id", "price", "size", "side", "best_bid", "best_ask", "hash"}
IsOption(quote) == \A x, y \in quote : x = y
IsMessage(msg) ==
    /\ msg = [f \in DOMAIN msg |-> msg[f]]
    /\ \/ /\ msg.event_type \in Kinds \ {"price_change"}
          /\ DOMAIN msg = Fields(msg.event_type)
       \/ /\ msg.event_type = "price_change"
          /\ DOMAIN msg = (Common \ {"asset_id"}) \cup {"price_changes"}
          /\ msg.price_changes \in Seq(Range(msg.price_changes))
          /\ \A entry \in Range(msg.price_changes) :
                /\ DOMAIN entry = EntryFields
                /\ IsOption(entry.best_bid) /\ IsOption(entry.best_ask)

\* Level::from: an object of the wire becomes a pair.
Levels(wire) == [i \in DOMAIN wire |-> <<wire[i].price, wire[i].size>>]

\* (mutant of PriceChange: the other side's quote)
PriceChangeSwapped(msg, entry) ==
    [event_type |-> "price_change", market |-> msg.market,
     asset_id |-> entry.asset_id, timestamp |-> msg.timestamp,
     best_bid |-> entry.best_ask, best_ask |-> entry.best_bid,
     hash |-> {entry.hash}, price |-> entry.price, size |-> entry.size,
     side |-> entry.side]
\* One event for each entry, with the market and timestamp of the message.
PriceChange(msg, entry) ==
    [event_type |-> "price_change", market |-> msg.market,
     asset_id |-> entry.asset_id, timestamp |-> msg.timestamp,
     best_bid |-> entry.best_bid, best_ask |-> entry.best_ask,
     hash |-> {entry.hash}, price |-> entry.price, size |-> entry.size,
     side |-> entry.side]

\* explode
Explode(msg) ==
    CASE msg.event_type = "book" ->
             <<[msg EXCEPT !.bids = Levels(@), !.asks = Levels(@), !.hash = {@}]>>
      [] msg.event_type = "price_change" ->
             [i \in DOMAIN msg.price_changes |->
                  PriceChange(msg, msg.price_changes[i])]
      [] OTHER -> <<msg>>

\* handle_text: a frame of one or many messages, exploded, and of these events
\* the ones of desired assets.
Staged(frame) == FlattenSeq([i \in DOMAIN frame |-> Explode(frame[i])])
HandleText(frame, desired) ==
    LET staged == Staged(frame)
    IN  FlattenSeq([i \in DOMAIN staged |->
                       IF staged[i].asset_id \in desired THEN <<staged[i]>> ELSE <<>>])

-----------------------------------------------------------------------------
(* The key of an event *)

HasContentHash(ev) == ev.event_type \in {"book", "price_change"}

\* hex_prefix_u64 panics on a hash that is too short.
HashTooShort(ev) == HasContentHash(ev) /\ ev.hash = {<<>>}

\* (mutant of DedupKey: a trade is known by its transaction)
DedupKeyByTransaction(ev) ==
    IF HasContentHash(ev) THEN [prefix |-> CHOOSE p \in {h[1] : h \in ev.hash} : TRUE]
    ELSE IF ev.event_type = "last_trade_price"
    THEN [transaction_hash |-> ev.transaction_hash]
    ELSE ev
\* dedup_key: the 64 bits of the content hash, with no trace of what kind of
\* event it was; for the others a hasher takes in the kind and every field.
DedupKey(ev) ==
    IF HasContentHash(ev) THEN [prefix |-> CHOOSE p \in {h[1] : h \in ev.hash} : TRUE]
    ELSE ev

-----------------------------------------------------------------------------
(* The JSON of an event *)

\* serde_json::to_string: a field that is None is left out.
Json(ev) ==
    [f \in {f \in DOMAIN ev : f \in Optional => ev[f] # {}} |->
        IF f \in Optional THEN CHOOSE x \in ev[f] : TRUE ELSE ev[f]]

\* serde_json::from_str::<Event>.  Only the hash may be missing: the quotes are
\* read `with' a function, and have no `default' (events.rs:200-209).
Readable(json) == Fields(json.event_type) \ {"hash"} \subseteq DOMAIN json
Parsed(json) ==
    [f \in Fields(json.event_type) |->
        IF f \notin Optional THEN json[f]
        ELSE IF f \in DOMAIN json THEN {json[f]} ELSE {}]

-----------------------------------------------------------------------------
(* The rows of the sink *)

\* Event::strip_hash
StripHash(ev) == IF HasContentHash(ev) THEN [ev EXCEPT !.hash = {}] ELSE ev

\* write_raw_row
RawRow(ev, excludeHash) ==
    [timestamp |-> ev.timestamp, market |-> ev.market, event_type |-> ev.event_type,
     data |-> Json(IF excludeHash THEN StripHash(ev) ELSE ev)]

\* What a column holds for events that do not have it.
Default(column) == CASE column \in {"bids", "asks"} -> <<>>
                     [] column \in {"side", "transaction_hash"} -> ""
                     [] OTHER -> 0
TypedColumns == Common \cup {"bids", "asks", "price", "size", "side", "best_bid",
    "best_ask", "fee_rate_bps", "transaction_hash", "old_tick_size", "new_tick_size"}

U16 == 0..65535

\* typed_row_value: a fee that is not a u16 is stored as 0, a quote that is
\* missing as 0.
TypedRow(ev) ==
    [col \in TypedColumns |->
        IF col \notin DOMAIN ev THEN Default(col)
        ELSE IF col \in Optional
        THEN IF ev[col] = {} THEN Default(col) ELSE CHOOSE x \in ev[col] : TRUE
        ELSE IF col = "fee_rate_bps" /\ ev[col] \notin U16 THEN 0
        ELSE ev[col]]
=============================================================================
