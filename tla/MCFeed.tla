------------------------------- MODULE MCFeed --------------------------------
(* A price change of both assets of a market, one entry without quotes; an  *)
(* array of two fills of one transaction and a tick change; a book; and a   *)
(* book whose hash is too short.                                            *)
EXTENDS Feed, TLC

Entry(asset, price, bid, hash) ==
    [asset_id |-> asset, price |-> price, size |-> 7, side |-> "BUY",
     best_bid |-> bid, best_ask |-> {60}, hash |-> hash]
PriceChanges ==
    [event_type |-> "price_change", market |-> "m", timestamp |-> 100,
     price_changes |-> <<Entry("yes", 40, {40}, <<1, 1>>),
                         Entry("no", 60, {}, <<2, 1>>)>>]
Fill(size) ==
    [event_type |-> "last_trade_price", market |-> "m", asset_id |-> "yes",
     timestamp |-> 101, price |-> 41, size |-> size, side |-> "SELL",
     fee_rate_bps |-> 1000, transaction_hash |-> "tx"]
TickChange ==
    [event_type |-> "tick_size_change", market |-> "m", asset_id |-> "no",
     timestamp |-> 101, old_tick_size |-> 10, new_tick_size |-> 1]
Book(hash) ==
    [event_type |-> "book", market |-> "m", asset_id |-> "no", timestamp |-> 102,
     bids |-> <<[price |-> 39, size |-> 5], [price |-> 38, size |-> 2]>>,
     asks |-> <<>>, hash |-> hash]

SampleFrames == {<<PriceChanges>>, <<Fill(3), Fill(4)>>, <<TickChange, Book(<<3, 1>>)>>,
                 <<Book(<<>>)>>}
SampleKeys == {DedupKey(ev) : ev \in {e \in AllEvents : ~HashTooShort(e)}}

\* The frames are such that both hypotheses hold.
ASSUME SampleAssumption == FineHashes /\ FeesFit

Symmetry == Permutations(Conns)
=============================================================================
