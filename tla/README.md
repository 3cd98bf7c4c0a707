# Verification of the Polymarket order book collector

TLA+ models of the collector in this repository, model-checked with TLC on small
instances, and theorems about them checked with TLAPS for all values of the
parameters. Line numbers refer to the files under `src/`; `pool.rs`,
`connection.rs`, `dedup.rs`, `sink.rs`, `events.rs` and `markets/*` are those of
`src/shared/rust/polymarket-orderbook-rust/src/`.

## 1. The system

```
 Gamma API ──> active-markets tracker ──> Redis stream + cache ─┐
                                                                v
 CLOB WebSocket <──> connection tasks <── commands ── pool <── stream listener
        │                  │  │ status        │ map
        │                  │  └──────> health monitor
        v                  v
   frames ──> dedup cache ──> event channel ──> pub/sub publisher
                                                       │ Redis pub/sub
                                                       v
                               subscriber ──> channel ──> ClickHouse sink ──> table
                                                                               │
                                                            R2 exporter <──────┘
```

### 1.1 Components

| Component | State it keeps | Operations | Correct when |
|---|---|---|---|
| Dedup cache and forwarder (`ws/dedup.rs`) | two generations of keys, time of the last rotation, counters | `check_and_insert`, `maybe_rotate`, `try_send` | a key is let through at most once per `rotate_every`; what is absorbed has a sibling that reaches the sink |
| Pool (`ws/pool.rs`) | vector of connection handles, set of markets, reverse index asset → two positions | `subscribe_markets`, `unsubscribe_markets`, `shutdown` | every asset of a subscribed market is on exactly two connections, within capacity, and the tasks are told the same |
| Health monitor (`ws/pool.rs`) | status per connection id, copy of the reverse index, state per asset, gauges | status message, new map | reported health is the health of the asset |
| Connection task (`ws/connection.rs`) | desired and subscribed sets, initial-frame flag, backoff | connect, resubscribe, commands, end of session, exit | no command lost; the server streams what the pool wants |
| Heartbeat (`ws/connection.rs`) | time of the last PING and PONG | tick, PONG | dead sockets are found, live ones are kept |
| R2 exporter (`r2-archive/exporter/run.py`) | next hour; objects in R2 | backfill, loop | every complete hour ends up as one complete object |
| Market tracker (`polymarket-active-markets/run.py`) | set of active markets, cache and stream in Redis | two pollers, cache save | markets are announced when they open and when they are resolved |
| Stream listener (`markets/stream.rs`, `redis_cache.rs`, `gamma.rs`) | consumer group cursor, pending entries | preload, read, dispatch, acknowledge | the pool follows the announcements |
| Pub/sub publisher, subscriber, sink (`pubsub_sink.rs`, `pubsub_subscriber.rs`, `sink.rs`, both `main.rs`) | batch, channel, row buffer, counters | batch, publish, receive, flush, shutdown | order kept, nothing twice, losses only where something failed |
| Events (`events.rs`, rows in `sink.rs`) | none | parse, explode, key, JSON, row | a row says what the wire said, by every route |
| Gamma client (`markets/gamma.rs`) | none | pages of active markets | the preload knows what is active |

Also in the repository and not modelled: see section 6.

### 1.2 Interactions

* pool → task: a bounded command channel per connection (`send().await`, with
  the pool's mutex held); dropping the sender is the shutdown signal.
* task → monitor: unbounded status channel, messages carry the connection *id*.
* pool → monitor: a watch channel with the reverse index, whose entries are
  *positions* in the pool's vector; only the latest value is seen.
* tasks → sink: the shared cache under a mutex, then `try_send` on the event
  channel after the mutex is released.
* sink → ClickHouse: one insert at a time; ClickHouse stamps the rows.
* exporter ← ClickHouse, → R2: queries and uploads of one thread.

### 1.3 What is hard here

Interleaved calls and reconnects (commands taken while a socket dies), the
insert-then-push of two connections that carry the same asset, `swap_remove`
under a reverse index, positions against ids, two channels to one monitor, keys
that must be as fine as the events, two forms of one event, a
PONG that races the next tick, hours that turn while the exporter works, pollers
that work on answers older than their awaits, restarts with no state, entries
delivered and not acknowledged. `PROJECT.json` lists each hazard at its line.

## 2. Modules

| Module | Models | Runs |
|---|---|---|
| `EventFilter` | abstract: a filter that lets a key through at most once per window and owes one push per admission | refined by `Dedup` and `Feed` |
| `Dedup` | `ws/dedup.rs` with the push of `run_session`; an event is its key | in `dedup` |
| `Events` | `events.rs` and the row forms of `sink.rs`, as pure operators | in `dedup` |
| `Feed` | extends `Dedup` and `Events`: frames, buffers and the channel's contents | `dedup` |
| `Pool` | `ws/pool.rs`, subscribe and unsubscribe, one loop iteration per step | `pool`, `pool_dup` |
| `PoolMonitor` | extends `Pool` with the tasks' status messages and the health monitor | `monitor`, `monitor_down` |
| `Connection` | the run loop and session of `ws/connection.rs`, with pool and server around it | `connection` |
| `Heartbeat` | PING and PONG of a session, with a clock | `heartbeat` |
| `Exporter` | `r2-archive/exporter/run.py` with sink and clock around it | `exporter`, `exporter_forgotten` |
| `Pipeline` | publisher, Redis pub/sub, subscriber and ClickHouse sink, with both shutdowns | `pipeline` |
| `MarketTracker` | `polymarket-active-markets/run.py` with Gamma around it | `tracker` |
| `Catalogue` | extends `MarketTracker` with the collector's preload (`main.rs`, `gamma.rs`, `redis_cache.rs`) and `markets/stream.rs` | `catalogue` |
| `MCFeed`, `MCPool`, `MCCatalogue` | sample frames, symmetry, bounds on the stream and the faults | |
| `FeedProofs`, `PoolProofs`, `MonitorProofs`, `ConnectionProofs`, `HeartbeatProofs`, `ExporterProofs`, `PipelineProofs`, `CatalogueProofs` | theorems, section 4 | |

### 2.1 EventFilter, Dedup, Events and Feed

In `Dedup` an event is its dedup key. `Absorb`, `Admit` are the two outcomes of
`check_and_insert` (rotation included); `Push`, `PushFull`, `PushClosed` those of
`try_send`, taken later because the cache's mutex is released in between. A full
channel ends the process (connection.rs:353-370), a closed one the connection;
`KeyPanic` is a content hash shorter than 16 digits, which ends the process too
(`panic = "abort"` in the release profile). `admittedAt` and `pushedAt` are
history. `EventFilter` promises at most one admission per window and one push
per admission; its `owed` is mapped to the keys in the hands of a connection.

`Events` has the message of the wire, the event after `explode`, its key, its
JSON, the event a subscriber parses from the JSON, and its row in both schemas.
An `Option` is a set of at most one value; decimals and strings are values. The
content hash is a pair (first 16 digits, rest), because only the first part is
in the key; the kind is not. `IsMessage` is what serde takes for a message.

`Feed` puts the two together: a connection receives a frame, explodes and
filters it into its buffer, and offers the head of the buffer to the forwarder;
the sink takes events off the channel. The frames are a constant; which assets a
connection wants when a frame arrives is left open. `arrived` and `taken` are
history. `FineHashes` (content hashes that agree on 64 bits are of one event) and
`FeesFit` (a fee fits a u16) are hypotheses on the frames for one property each;
`MCFeed` states as an assumption that its frames keep them. The route through
Redis is the function `Parsed` after `Json`; what Redis and the services do to
the order and number of events is `Pipeline`.

### 2.2 Pool and PoolMonitor

A call holds the pool's mutex to its end, but is modelled one loop iteration per
step since tasks run in between and `Dispatch`/`SendUnsubscribe` wait for room.
`pc` names the loop. The random shuffles and the hash map order are the free
choice of the next item. The batch of a call is a set of pairs market, copy:
with `Copies = {1}` a batch has no duplicates; `pool_dup` allows two, which the
Gamma pages can produce. Market hashes, outcomes and statistics are abstracted;
`Pool::shutdown` is `PoolDrop` of `Connection`.

`PoolMonitor` adds the two channels and the monitor. `StatusRepeated` is the
early `continue`, `StatusChanged` and `MapChanged` the two branches, with the
gauges they recompute. The code counts positions and ids from 0, the model
counts positions from 1.

### 2.3 Connection

`phase` is the place in `Connection::run`/`run_session`. The session's `select!`
is the choice between the enabled actions. A frame is a record of its form and
assets; the server reads frames in order and forgets everything with the socket.
A broken socket may still be written to. The waiting before a reconnect is a
step (`Delay`); no clock. `handle` is the pool's view, changed when it sends.

### 2.4 Heartbeat

The ticker (`MissedTickBehavior::Delay`), the PING, the PONG and the check of
the previous PONG at the next tick, in whole seconds. `asked` holds the PINGs
the server has not answered, `arrived` the PONGs in the socket. `Lag` bounds how
late a ready task runs. The server may answer at any time, or never: nothing is
assumed of it. Since the code looks for the PONG at its next tick only,
`SilenceEndsSession` has two halves: a session is given up only if its PONG was
not there within PONG_TIMEOUT, and is kept no longer than the next tick after a
PING without one. The bound of the second is PING_INTERVAL, not the PONG_TIMEOUT
of connection.rs:11-13 and 408-410 (section 3, findings).

### 2.5 Exporter

Hours are numbers. `Insert`/`Commit` are the sink's insert: stamped when it
starts, visible when it is committed, at the latest when EXPORT_DELAY_MINUTES of
the next hour have passed (`ClockStep` waits for it). `List` is the start of the
backfill; `missing` is the set of hours it still has to try, taken smallest
first (`First`). `ReadClock` and `Wake` are the two readings of the clock in the
loop. Fetch and upload are separate steps. An object is the number of rows it
holds. A crash loses everything but the objects.

### 2.6 Pipeline

Events are numbers in the order in which the collector produces them. The
four actors are the forwarder with its channel, the publisher with a batch, the
subscriber with one event, and the sink with its buffer; between them lie two
bounded channels and the pub/sub link (`wire`). The linger of the publisher and
the flush interval of the sink are choices that are always possible (`Linger`,
`SinkTick`). A fault is a publish that fails, executed in part or not at all, a
link that breaks, an insert that fails with or without its rows stored, a drain
that runs into its timeout. `CollectorStop` and `WriterStop` are the two
shutdowns; both services come back. The events in `Bad` do not serialize (their
timestamp is not a number) and take their batch with them. Payloads that do not
parse are in `Feed`; counters and the table are left out, and
`DROP_TABLE_ON_START` is taken to be off.

### 2.7 MarketTracker and Catalogue

A step of a poller runs from one await to the next; a command to Redis is sent
at the end of a step and executed in a step of its own, so that an announcement
can be overtaken by one of the other poller, and a save by another save. The
answer of Gamma to the new-markets poller comes in pages of `PageSize`, asked for
by offset, one await after the other (`NewPage`, `NewLastPage`); between two of
them markets open and close, and the rest of the list moves. `Matching` and
`Ahead` are the request and its order (latest startDate first; of markets with
one startDate Gamma is taken to keep some fixed order, `Rank`). The answer is
handled later than it was given (`NewProcess`). The load and the request for
closed markets are one step each.

The collector preloads its pool: from the cache, from Gamma, whose pages may
shift while they are read, or, under `--new-only`, not at all (`PreloadCache`,
`PreloadGamma`, `PreloadNothing`). Then the listener finds or creates its
consumer group (`Listen`), under `--skip-backlog` setting it to the end of the
stream (`ListenSkipping`). It reads its pending entries, then the new ones, and
dispatches and acknowledges each. `stream` holds the entries the group has not
been given, `pending` those it was given and has not acknowledged; acknowledged
entries are never read again and are forgotten by the model.

`told` is history: the markets that are active according to the stream. Two more
history variables say which markets may differ between Gamma, stream and pool, and
why. Each has one set of markets per cause, so that a property can say which
causes it excepts.

`missed`, in `MarketTracker`, per member of `Causes`:

| Cause | Step | Stream and Gamma differ because | Fault |
|---|---|---|---|
| `late` | `Open` | the market became visible when the tracker had one of a later startDate, in its watermark or in the answer at hand | no |
| `shifted` | `NewLastPage` | another market closed between two pages, so that none had this one, and one had a market of a later startDate: the watermark passes it | no |
| `overtaken` | `NewExecute` | its `new_market` was executed after its `market_resolved`: it stays announced | no |
| `unpublished` | `NewFail` | its announcement failed, and the dictionary has it | yes |
| `aged` | `Age` | it closed, and nobody asked for CLOSED_TIME_OVERLAP | yes |
| `down` | `Load` | it opened or closed while no tracker ran | yes |

A market that closes leaves `late`, `shifted` and `unpublished`: they explain only
that an active market was not announced. `NeverTold` and `StillTold` are the causes
of the two directions.

`lost`, in `Catalogue`, per member of `Losses`:

| Loss | Step | Pool and stream differ because | Fault |
|---|---|---|---|
| `stale` | `Preload` | the preload says something else, and no unread entry is about the market | no (older cache, `--new-only`) |
| `undone` | `DispatchFail` | the dispatch failed and the entry was acknowledged | yes |
| `replayed` | `CollectorEnds` | an XACK failed, the listener went on, and the entry comes again after what followed it | yes |
| `skipped` | `ListenSkipping` | the entry was passed over by `--skip-backlog` | no |

A new announcement of a market takes it out of `lost` (`XAdd`): the pool must follow
that one. An entry that was delivered, dispatched or not, and not acknowledged when
the collector ended is no loss.

## 3. Runs

| Run | Instance | Shows |
|---|---|---|
| `dedup` | `FeedSpec`: 2 connections, 4 frames of all four kinds, rotation every 2, channel of 1, time to 4, 3 events | `FeedTypeOK` (what is pushed is the event that was admitted), `AbsorbedCopyIsNotTheLast`, `EveryEntryKept`, `ImplementsFilter`, `RowsSayWhatTheWireSaid` |
| `pool` | 3 markets, 4 assets a connection, mailbox 1, 4 connections | `TypeOK`, `TwoConnections`, `HandlesMatchIndex`, `TasksConverge`, `CapacityRespected`, `Pass1AlwaysFits`, `NoEmptyConnection`, `NoMigration` |
| `pool_dup` | 1 market listed twice | **violated** `HeldByExactlyTwo`: an asset on four connections |
| `monitor` | 2 markets on one pair, 3 status messages, mailbox 1, 4 connections | `MonitorTypeOK` (with the gauges), `HealthKnown` once all is read, `CallsReturn` |
| `monitor_down` | 1 market, 2 assets a connection | **violated** `DownMeansBothDown`: after a collection health is judged by other connections |
| `connection` | 2 assets, mailbox 2, 4 commands, 2 breaks | `TypeOK`, `NoCommandLost`, `ServerConverges`, `OneMarketFrame`; `SubscriptionTakesHold`, `DroppedConnectionEnds` |
| `heartbeat` | 10 s interval, 5 s timeout, answers at any time or never, lag 2 s, 45 s | `SilenceEndsSession`, `DeadSocketDetected`, `OneOutstanding` |
| `exporter` | 3 hours, 2 rows an hour, 1 failure, 1 restart | `ObjectsComplete`, `LoopLeavesNoHole`, `BackfillExports`; `NewHourExported` |
| `exporter_forgotten` | 3 hours, 1 row, no failure | **violated** `NoHourForgotten`: an hour that completes during the backfill |
| `pipeline` | 5 events, channels of 2 and 1, batches of 2, 1 row that does not serialize, 2 faults, 2 shutdowns | `TypeOK`, `InOrderOnce`, `NothingLost`; `StoredAtLast`, `ShutdownEnds` |
| `tracker` | 3 markets, one listed at the start, pages of 2, 2 start dates, 1 fault | `DroppedIsTold`; `CacheCatchesUp`, `AnnouncementsCatchUp` |
| `catalogue` | 2 markets, one listed at the start, pages of 1, 2 start dates, 1 fault or a failed XACK and a restart, replies of 2, 2 unacknowledged entries | `TypeOK`, `PoolFollowsStream`, `PoolFollowsGamma` |

Why the bounds are enough:

* `dedup`: the frames explode into one, two or a mix of events, with and without
  quotes, two fills of one transaction, and a hash too short; three events are
  the least with a duplicate and something else, and time 4 outlives a rotation.
* `pool`: three markets on connections of four fill a pair, leave it part-filled
  and overflow it; the fourth connection lets a collection move one that is in
  use. `monitor`: two markets come and go on one pair while it goes up and down.
* `connection`: two breaks let a reconnect be broken again with commands of both
  kinds in the mailbox. `heartbeat`: 45 s hold three PINGs with a death and a
  late tick between any two, and PONGs within 5 s, after that, and not at all.
* `exporter`: one hour for the backfill, one for the loop, one that is not over.
* `pipeline`: five events fill every buffer; two faults let a restart meet a
  broken link.
* `tracker`: three markets in pages of two are the least with a second page that
  another market's closing empties: the market between the pages is `shifted`. Two
  start dates let the watermark move past a market and make ties. The watermark
  includes the newest market, so an old market is fetched again and its stale
  answer can race with its resolution. One fault is one restart or one failed
  command, at any point; all six causes occur.
* `catalogue`: of two markets, one opens later, with the same startDate or a later
  one, so that the watermark moves; pages of one make two requests. One fault is
  one restart of either process or one failed command, at any point; a second
  only ends a collector that could not acknowledge an entry (`FewFaults`), which
  then comes again. Two entries (`FewUnread`) hold the
  announcement of a market and its resolution in one reply. All four losses occur.

Deadlock checking is off where the bounds (time, commands, hours) stop a
behaviour, or the modelled program ends.

### Fairness

* `PoolMonitor!MonitorFairSpec` (and `Pool!FairSpec`): the holder of the mutex
  keeps running (tokio polls it when there is room), and each task takes its
  commands: true as long as every connection is established at some time.
  `CallsReturn` depends on that.
* `Connection!FairSpec`: the task is polled, and `select!` polls its branches in
  random order, so a command that stays in the mailbox is taken.
  `NetworkFairSpec` adds strong fairness of a successful connect (the code
  retries for ever) and a server that reads.
* `Exporter!FairSpec`: the single thread runs, ClickHouse commits, the clock
  goes on. Failures and crashes are bounded, not fair.
* `Pipeline!FairSpec`: tasks are scheduled, the linger and the flush interval
  elapse, a service that stopped is started again (docker: `restart:
  unless-stopped`) and reconnects. Faults and shutdowns are bounded, not fair.
* `MarketTracker!TrackerFairSpec`: a tracker that ended is started again, and
  the event loop runs both pollers. Gamma owes nothing, faults are bounded.

The other runs check safety only and assume no fairness.

### Findings

1. *Duplicates in a batch* (pool.rs:183, run `pool_dup`).
2. *Positions taken for ids in the monitor* (pool.rs:495, run `monitor_down`).
3. *Hours between backfill and loop* (run.py:443, run `exporter_forgotten`).

Read in the code and visible in the models, without a run of their own:

* The PONG timeout is looked at only when the next PING is due
  (connection.rs:412): a missing PONG closes the socket 10 s after its PING, and
  a PONG between 5 and 10 s late is accepted; connection.rs:11-13 and 408-410 say
  5 s. `SilenceEndsSession` states the bound that holds.
* The storage JSON has the timestamp: `Event` serializes it (events.rs:185-243) and
  the subscriber needs it, while events.rs:20-22 says that it is omitted and the
  tests at 604, 642, 683 and 699 assert it. `RowsSayWhatTheWireSaid` asks for the
  timestamp in the row's own column and nothing of it in the data column.
* A `new_market` can be executed after the `market_resolved` of the same market,
  which travels on another connection (run.py:267, 393): the market has left the
  dictionary, the stream says that it is active, and nobody takes that back. No
  fault is needed: cause `overtaken`.
* The new-markets request is paged by offset (run.py:159-182): a market that closes
  between two pages lets another fall between them; the watermark moves past it
  (398-399) and it is never announced, though run.py:347-349 says that anything
  older has already been seen. No fault is needed: cause `shifted`. The same holds
  of a market that becomes visible after one of a later startDate: cause `late`.
* A stream entry is acknowledged even when its dispatch failed (stream.rs:90-97);
  stream.rs:11 speaks of successfully processed messages: loss `undone`.
* A failed XREADGROUP ends the listener (stream.rs:74); its handle is looked at
  only at the shutdown.
* stream.rs:11-12 says that `--skip-backlog` drops pending messages; setting the
  group's position leaves its pending list, which is read first and replayed, and
  `PoolFollowsStream` includes that replay.
* A new market enters the dictionary before it is announced (run.py:392-396): a
  failed publication is not repeated.
* A collector that starts between the acknowledgement of an announcement and the
  next save of the cache misses that announcement.
* A price change without quotes is accepted from the wire (events.rs:103-106), but
  its JSON is not accepted by the subscriber: the quotes are read `with` a
  function and have no `default` (200-209); pubsub_sink.rs:3-8 promises full
  fidelity. `RowsSayWhatTheWireSaid` has a price change without a quote that
  the subscriber cannot parse as its only exception.
* The table at dedup.rs:26 omits the market from the key of a tick size change;
  the code hashes it. The keys of books and price changes are 16 digits of a
  hash with no trace of the kind.
* connection.rs:198-203 publishes `Disconnected` after every failed connect,
  where 151-154 speaks of transitions only; the monitor ignores repetitions.
* `Connected` is published before the resubscription is written (222-224).
* Two events of one asset admitted on two connections may reach the channel in
  the other order, as the mutex is released in between (connection.rs:353).
* The cache rotates on arrival only (dedup.rs:86): after a quiet period a key
  lives longer than the two intervals of dedup.rs:34-35.
* A connection removed from the pool keeps its status `down` in the monitor and
  is counted for ever (pool.rs:549).
* The exit is checked with an empty mailbox only (connection.rs:186): a dropped
  connection with buffered commands keeps trying while the server is down.
  `DroppedConnectionEnds` therefore needs the network of `NetworkFairSpec`.
* The backfill has no export delay (run.py:413) and the loop reads the clock
  twice (447-448); an hour read in time to miss its last insert is the exception
  `early` of `ObjectsComplete` and `BackfillExports`.

## 4. Proofs

Checked by TLAPS, for every value of the constants that keeps the named
assumptions of the modules. Each rests on an inductive invariant; what it adds
to the property is what a single step needs to know. Every invariant and every
action property that a passing run checks is stated by a theorem. Three
hypotheses go beyond the assumptions, each named in its theorem:

* `OneCopy`: no batch lists a market twice. Run `pool_dup` shows what happens
  otherwise. The other theorems of the pool do without it.
* `FineHashes` (`EveryEntryIsKept` only): the code relies on 64 bits of a content
  hash. The hasher of the other events is taken to be ideal (`DedupKey`).
* `FeesFit` (`RowsAreTrue` only): the code stores 0 for any other fee, which
  `typed_last_trade_price_parses_garbage_fee_rate_as_zero` (sink.rs:815) wants.

`FeedProofs`, of the forwarder (`Spec` of `Dedup`)
* `CacheNeverForgetsEarly`: `CacheRemembers` is inductive relative to `TypeOK`:
  a rotation happens `RotateEvery` or more after the last one, so a key that
  leaves `previous` was admitted before the last rotation.
* `NothingLost`: `AbsorbedCopyIsNotTheLast`, inductive relative to `TypeOK`.
* `ForwarderImplementsFilter`: `Spec => ImplementsFilter`; an admission needs a
  key that neither generation holds, so by `CacheRemembers` the window is over;
  every other step is a push or a stutter of the filter.

`FeedProofs`, of whole events, from `FeedAssumption` (every frame parses, the keys
of the frames' events are keys)
* `FeedRefinesDedup`: every step of the feed is a step of `Dedup` or leaves its
  variables alone. `FeedLosesNothing` and `FeedImplementsFilter` follow.
* `AdmittedIsPushed`: the event in hand is the head of its connection's buffer;
  only its own connection moves that buffer.
* `RoundTrip`: for every event with its quotes, parsing the JSON gives back the
  event, with or without its hash; `UnquotedIsDropped`: the JSON of a price change
  without a quote is not parsed.
* `FeedTypeCorrect`, `RowsAreTrue` from `FeedInv`: whatever is in a buffer, in the
  channel or taken is the event of an entry that arrived (`Traced`), and the
  buffers hold events only. `Exploded` says which entry an event of `Explode` is
  of; `EventSays`, `JsonSays`, `TypedRowSays` and `RawRowSays` carry what it says
  through each form.
* `EveryEntryIsKept` from `KeptInv`: as long as process and sink live, a key in
  the cache belongs to an event that was pushed or is in hand (`SeenKept`). So a
  copy that is absorbed has an equal that is kept, since `FineHashes` makes the
  keys as fine as the events (`HashesMakeKeys`). That nothing is lost between frame
  and buffer is a lemma about `FlattenSeq`.

`PoolProofs`
* `TypeCorrect`: `pending` and `unsubs` are as long as `connections`, and what is
  still to be collected is an index (`Collectable`): no access is out of bounds.
* `TwoConnectionsAlways`, `HandlesMatchIndexAlways`, `NoMigrationEver`, for
  batches without duplicates (`OneCopy`; `pool_dup` shows why). The invariant
  `PoolInv` says of every asset where it is in the middle of a call: a tracked
  one is held, or due to be subscribed, exactly where its entry says, and not
  still due to be given up; an untracked one is due at most on its first
  connection (`Placed`). It is waiting exactly as long as it is registered and
  not tracked (`Registered`, `Awaited`), and nobody holds anything on a
  connection that is to be collected (`Emptied`): so no entry names it, and the
  entries that name the last one follow it to its new place.
* `TasksEndUpAsRecorded` from `ConvergeInv`: the commands in a mailbox, applied to
  the task's set, give what the handle of its id records. Ids are never given
  twice (`IdsInv`), an id not given yet was told nothing (`Untold`), and what is
  collected records nothing (`Bare`), so a handle that moves or goes changes
  nothing of this.
* `CapacityNeverExceeded`, `Pass1NeverPanics` from `LoadInv`: what a connection
  holds and is due to get is at most `MaxAssets`, and the free places are at least
  the items of the rest of pass 1 and all those of pass 2. They are counted as a
  set of pairs (connection, place), so that each placement takes one of them and
  an opened connection adds `MaxAssets`; an item of pass 2 that finds no
  room but on its first connection goes to a fresh overflow connection.
* `NoConnectionIdle` from `FullInv`: the room is less than one connection more
  than the items due (`Snug`), unless no connection was bare or the two are the
  first; so when the items are placed none is left without (`Filled`), and a
  collection removes those that are.

`MonitorProofs`, over the invariants of `PoolProofs`, which hold of the pool that
`PoolMonitor` extends (`MonitorHasPool`)
* `MonitorTypeCorrect` from `MonitorInv`: the last status of a task still in the
  queue, or else what the monitor noted of it, is what the task is; every asset
  is in the state that the map and the statuses noted give it; and the gauges
  count these states.
* `MonitorKnowsHealth` adds `Told`: between calls the last map sent is the pool's
  index. An unsubscribe that removed nothing publishes no map; that it collects no
  connection either, and so moves nobody's position, needs `FullInv`.

`ConnectionProofs`
* `TypeCorrect`, `CommandsAreNotLost`, `ServerWillAgree`, `FirstFrameOnly`,
  `MonitorIsTold` from `ConnectionInv`: outside of a session there is no socket
  and a fresh one has seen nothing (`FreshInv`); in a session the task has written all it
  desires (`DiffInv`); the market frame is the first on the wire or has been read
  (`FrameInv`). Appending to and taking from the mailbox and the wire go
  through lemmas about the last command that names an asset.

`HeartbeatProofs`, from `HeartbeatAssumption` (`PongTimeout + Lag < PingInterval`)
* `Inductive`: the invariant `IInv` — at most one PING is outstanding, its PONG
  is asked for, in the socket or read, and time has not run past what is due.
* `SilentSessionsEnd`, `OnePingAtATime`, `HalfOpenIsDetected` follow from it.
  None of the three is inductive alone. For the first, a PONG that still waits in
  the socket at a tick arrived at most `Lag` before, so after PONG_TIMEOUT
  (`WaitingIsLate`).

`ExporterProofs`
* `ObjectsAreComplete`, `NoHoleIsLeft`, `BackfillIsDone` from `IInv`: an insert in
  flight belongs to this hour, or to the last while the delay runs (`ClockInv`);
  so rows read after the delay are final, in R2 (`StoredInv`) and in hand
  (`InHandInv`); a listed hour is exported, given up, still to be tried or for
  ever empty (`ListedInv`).

`PipelineProofs`
* `TypeCorrect`: every buffer within its limit; it needs what each phase says of
  the buffers (`Phases`).
* `OrderIsKept`, `EverythingArrives`: with all buffers laid in a row from the
  table to the source (`InFlight`), every step removes from that row or appends
  the next number to it (`Flows`); as long as nothing went wrong it removes
  nothing (`Kept`).

`CatalogueProofs`. The exceptions in these theorems are those that the properties
name, cause by cause (section 2.7); some of them need no fault.
* `TrackerDropsNothingUntold` from `TellingInv`: what the stream says to be active
  is in the dictionary, was overtaken, or closed while no tracker ran; and between
  the execution of a resolution and its answer the market is not told again but
  as overtaken.
* `PoolEndsUpAsToldTo`: the entries ahead of the listener, applied to the pool in
  order, give what the stream says (`FollowInv`, over `After`); by where the listener
  stands in the pending entries (`ReadingInv`) this holds from the preload on and
  through every redelivery. For the preload, `AgreeInv`: the last unacknowledged
  entry about a market says what the stream says, so a replay ends well whatever
  was loaded; only a market without such an entry depends on the preload.
* `CatalogueTypeCorrect`, `PoolEndsUpAsGamma` from `Types` and `GammaInv`. The
  pollers' part (`PollersInv`): what a poller resolves has ended on Gamma, what it
  announces has begun, and a market that has not begun is neither in the
  dictionary nor told. The watermark's part (`WatermarkInv`): a market that is
  active on Gamma, not in the dictionary and in no cause of `NeverTold` is not
  older than the watermark and, unless it is in the answer being worked on, not
  older than that answer's newest market, however its pages fell. So a later
  answer has it. With `PoolFollowsStream` the pool then agrees with Gamma once all
  is settled.

Only model-checked: liveness (`CallsReturn`, `SubscriptionTakesHold`,
`DroppedConnectionEnds`, `NewHourExported`, `StoredAtLast`, `ShutdownEnds`,
`CacheCatchesUp`, `AnnouncementsCatchUp`), as fairness and ENABLED are out of the
prover's reach; and the three properties that do not hold. The library's
induction theorems take an operator as a parameter, which the provers cannot
instantiate. Where an induction was needed (`FlattenSeq`, the greatest number of
a bounded set), it is over a set of numbers instead: `LeastNumber`, from
`NatLessThanWellFounded` and `WFMin`.

## 5. Plan

1. An abstract placement (each tracked asset on two connections, within capacity)
   that the pool implements, as a refinement and as a theorem.
2. What holds of the pool without `OneCopy`: at least two connections an asset.
3. An abstract tracker that `MarketTracker` implements, and the liveness of the
   listener over it.
4. The Python order book client (`obdata/orderbook`), if a service uses it again.

## 6. Not modelled

* Configuration (`config.rs`, environment variables), statistics, counters and
  logging: no state another part acts on.
* Table definitions, query text, Parquet encoding: layout.
* `Display` of events and the offline comparison report.
* The Python order book client and the Kalshi library code: no service in this
  repository starts them.
* Paging of the tracker's load and of its request for closed markets (each one
  step), outcomes and winners, the maximal length of the stream,
  stream entries that do not parse, markets that are not binary, the limit of
  60 000 markets of a preload.
* In the monitor: durations, event counters and the connection gauge.
* Startup and the statistics tasks of the services.
