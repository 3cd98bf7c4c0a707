-------------------------------- MODULE Pool ---------------------------------
(***************************************************************************)
(* ws/pool.rs: the pool of WebSocket connections.  Every asset of a        *)
(* subscribed market is placed on two different connections; connections   *)
(* are opened on demand, filled first-fit in a random order of the assets, *)
(* and closed when an unsubscribe leaves them empty.                       *)
(*                                                                         *)
(* A call holds the pool's mutex from start to end and is modelled one     *)
(* loop iteration per step: `pc' says which loop of the call runs.  The    *)
(* shuffles and the iteration order of hash maps are the free choice of    *)
(* the next element.  Connection tasks run between the steps: they take    *)
(* the commands of their mailbox in order (Receive).                       *)
(*                                                                         *)
(* Vector indices are 1-based here, 0-based in the code.                   *)
(***************************************************************************)
EXTENDS Integers, Sequences, FiniteSets

CONSTANTS Markets,     \* market hashes
          Copies,      \* how often a market may be listed in one batch: 1..n
          MaxAssets,   \* max_assets_per_conn
          MailboxSize, \* COMMAND_CHANNEL_SIZE
          MaxConns     \* bound: connections opened in a behaviour

ASSUME PoolAssumption == /\ MaxAssets \in Nat \ {0}
                         /\ MailboxSize \in Nat \ {0}
                         /\ MaxConns \in Nat
                         /\ IsFiniteSet(Markets) /\ IsFiniteSet(Copies)

Assets == Markets \X {1, 2}           \* the two outcome tokens of each market
Items  == Markets \X {1, 2} \X Copies \* entries of the vector new_assets
AssetOf(item) == <<item[1], item[2]>>
ConnIds == 0..(MaxConns - 1)
Commands == [op : {"subscribe", "unsubscribe"}, assets : SUBSET Assets]

Absent == <<0, 0>>                    \* no entry in asset_to_conns

VARIABLES
    connections,  \* Vec<ConnHandle>: the id and the assets of each handle
    markets,      \* keys of Pool.markets
    assetToConns, \* Pool.asset_to_conns: two indices into connections
    nextConnId,   \* Pool.next_conn_id
    monitorMap,   \* the map last sent to the health monitor
    mailbox,      \* per connection id: commands sent, not yet taken
    desired,      \* per connection id: the set the task keeps subscribed
    pc,           \* the loop of the running call, "idle" between calls
    todo,         \* items (pass1, pass2) still to be placed in this pass
    pending,      \* per index: items to subscribe, not yet sent
    firstConn,    \* per asset: the index chosen in pass 1, or 0
    overflow,     \* items that found no second connection
    unsubs,       \* per index: assets to unsubscribe, not yet sent
    toGc,         \* indices of empty connections still to be removed
    removed       \* removed_count > 0

poolVars == <<connections, markets, assetToConns, nextConnId, monitorMap>>
connVars == <<mailbox, desired>>
callVars == <<pc, todo, pending, firstConn, overflow, unsubs, toGc, removed>>
vars == <<poolVars, connVars, callVars>>

NoFirst == [a \in Assets |-> 0]

Init ==
    /\ connections = <<>>
    /\ markets = {}
    /\ assetToConns = [a \in Assets |-> Absent]
    /\ nextConnId = 0
    /\ monitorMap = assetToConns
    /\ mailbox = [id \in ConnIds |-> <<>>]
    /\ desired = [id \in ConnIds |-> {}]
    /\ pc = "idle"
    /\ todo = {} /\ pending = <<>> /\ firstConn = NoFirst /\ overflow = {}
    /\ unsubs = <<>> /\ toGc = {} /\ removed = FALSE

-----------------------------------------------------------------------------
(* Helpers *)

Tracked(a) == assetToConns[a] # Absent
Pair(a) == {assetToConns[a][1], assetToConns[a][2]}

Load(i) == Cardinality(connections[i].assets) + Cardinality(pending[i])

\* find_conn_with_capacity: the first connection, other than `exclude', with
\* room for one more asset.
\* (mutant of Fits: one asset too many is let in)
FitsOverfull(exclude) ==
    {i \in DOMAIN connections : i # exclude /\ Load(i) <= MaxAssets}
Fits(exclude) ==
    {i \in DOMAIN connections : i # exclude /\ Load(i) + 1 <= MaxAssets}

FirstFit(i, exclude) ==
    /\ i \in Fits(exclude)
    /\ \A j \in Fits(exclude) : i <= j

\* spawn_connection, n times.
NewHandles(n) == [k \in 1..n |-> [id |-> nextConnId + k - 1, assets |-> {}]]

\* (mutant of FreeSlots: the assets a connection already has are forgotten)
FreeSlotsIgnoringLoad == MaxAssets * Len(connections)
FreeSlots ==
    Cardinality({s \in (DOMAIN connections) \X (1..MaxAssets) :
                    s[2] > Cardinality(connections[s[1]].assets)})

AtLeastTwo(n) == IF Len(connections) + n < 2 THEN 2 - Len(connections) ELSE n

\* (mutant of ConnsNeeded: the division is rounded up once too often)
ConnsNeededRounded(items) ==
    LET demand == 2 * Cardinality(items)
    IN  AtLeastTwo(IF demand > FreeSlots
                   THEN (demand - FreeSlots + MaxAssets) \div MaxAssets
                   ELSE 0)
\* How many connections subscribe_markets opens before placing the items.
ConnsNeeded(items) ==
    LET demand == 2 * Cardinality(items)
    IN  AtLeastTwo(IF demand > FreeSlots
                   THEN (demand - FreeSlots + MaxAssets - 1) \div MaxAssets
                   ELSE 0)

\* (mutant of NoPending: sized before the connections are opened)
NoPendingTooShort(n) == [i \in 1..Len(connections) |-> {}]
NoPending(n) == [i \in 1..n |-> {}]

\* Vec::swap_remove(i): the last element takes the place of the i-th.
SwapRemove(s, i) ==
    [k \in 1..(Len(s) - 1) |-> IF k = i THEN s[Len(s)] ELSE s[k]]

Send(i, op, assets) ==
    LET id == connections[i].id
    IN  /\ Len(mailbox[id]) < MailboxSize
        /\ mailbox' = [mailbox EXCEPT ![id] =
                          Append(@, [op |-> op, assets |-> assets])]

-----------------------------------------------------------------------------
(* subscribe_markets *)

\* Known markets are skipped; the rest is registered and the connections it
\* needs are opened.  A batch of known markets only returns at once.
SubscribeMarkets(batch) ==
    LET new   == {l \in batch : l[1] \notin markets}
        items == {it \in Items : <<it[1], it[3]>> \in new}
    IN  /\ pc = "idle"
        /\ new # {}
        /\ markets' = markets \cup {l[1] : l \in new}
        /\ \E n \in 0..(MaxConns - nextConnId - 1) :  \* bound: MaxConns
              /\ n = ConnsNeeded(items)
              /\ connections' = connections \o NewHandles(n)
              /\ nextConnId' = nextConnId + n
              /\ pending' = NoPending(Len(connections) + n)
        /\ todo' = items
        /\ pc' = "pass1"
        /\ UNCHANGED <<assetToConns, monitorMap, connVars, firstConn, overflow,
                       unsubs, toGc, removed>>

Batch == UNION {pending[i] : i \in DOMAIN pending}

\* Shuffle pass 1: a first connection for the next item of the shuffled vector.
Place1(item) ==
    /\ pc = "pass1" /\ item \in todo
    /\ \E i \in DOMAIN connections :
          /\ FirstFit(i, 0)
          /\ pending' = [pending EXCEPT ![i] = @ \cup {item}]
          /\ firstConn' = [firstConn EXCEPT ![AssetOf(item)] = i]
    /\ IF todo = {item}
       THEN /\ pc' = "pass2"   \* the same items, shuffled again
            /\ todo' = Batch \cup {item}
       ELSE /\ todo' = todo \ {item}
            /\ UNCHANGED pc
    /\ UNCHANGED <<poolVars, connVars, overflow, unsubs, toGc, removed>>

AfterPass2(item, spilled) ==
    /\ todo' = todo \ {item}
    /\ pc' = IF todo # {item} THEN pc
             ELSE IF spilled = {} THEN "dispatch" ELSE "overflow"

\* Shuffle pass 2: a second connection, different from the first.
Place2(item) ==
    LET a == AssetOf(item)
    IN  /\ pc = "pass2" /\ item \in todo
        /\ \E i \in DOMAIN connections :
              /\ FirstFit(i, firstConn[a])
              /\ pending' = [pending EXCEPT ![i] = @ \cup {item}]
              /\ assetToConns' = [assetToConns EXCEPT ![a] = <<firstConn[a], i>>]
        /\ AfterPass2(item, overflow)
        /\ UNCHANGED <<connections, markets, nextConnId, monitorMap, connVars,
                       firstConn, overflow, unsubs, toGc, removed>>

\* Pass 2 finds every other connection full.
Spill(item) ==
    /\ pc = "pass2" /\ item \in todo
    /\ Fits(firstConn[AssetOf(item)]) = {}
    /\ overflow' = overflow \cup {item}
    /\ AfterPass2(item, overflow')
    /\ UNCHANGED <<poolVars, connVars, pending, firstConn, unsubs, toGc, removed>>

\* Pass 3: one extra connection takes all the overflow.
PlaceOverflow ==
    LET last == Len(connections) + 1
        assets == {AssetOf(it) : it \in overflow}
    IN  /\ pc = "overflow"
        /\ connections' = connections \o NewHandles(1)
        /\ nextConnId' = nextConnId + 1
        /\ pending' = Append(pending, overflow)
        /\ assetToConns' = [a \in Assets |->
                              IF a \in assets THEN <<firstConn[a], last>>
                              ELSE assetToConns[a]]
        /\ overflow' = {}
        /\ pc' = "dispatch"
        /\ UNCHANGED <<markets, monitorMap, connVars, todo, firstConn, unsubs,
                       toGc, removed>>

\* (mutant of Dispatch: the handle does not get the assets it sends)
DispatchUnrecorded(i) ==
    LET assets == {AssetOf(it) : it \in pending[i]}
    IN  /\ pc = "dispatch" /\ pending[i] # {}
        /\ Send(i, "subscribe", assets)
        /\ pending' = [pending EXCEPT ![i] = {}]
        /\ UNCHANGED <<poolVars, desired, pc, todo, firstConn, overflow,
                       unsubs, toGc, removed>>
\* The Subscribe command of one connection; waits while its mailbox is full.
Dispatch(i) ==
    LET assets == {AssetOf(it) : it \in pending[i]}
    IN  /\ pc = "dispatch" /\ pending[i] # {}
        /\ connections' = [connections EXCEPT ![i].assets = @ \cup assets]
        /\ Send(i, "subscribe", assets)
        /\ pending' = [pending EXCEPT ![i] = {}]
        /\ UNCHANGED <<markets, assetToConns, nextConnId, monitorMap, desired,
                       pc, todo, firstConn, overflow, unsubs, toGc, removed>>

\* update_monitor_mappings, and the call returns.
FinishSubscribe ==
    /\ pc = "dispatch" /\ \A i \in DOMAIN pending : pending[i] = {}
    /\ monitorMap' = assetToConns
    /\ pc' = "idle" /\ pending' = <<>> /\ firstConn' = NoFirst
    /\ UNCHANGED <<connections, markets, assetToConns, nextConnId, connVars,
                   todo, overflow, unsubs, toGc, removed>>

-----------------------------------------------------------------------------
(* unsubscribe_markets *)

AssetsGone(hashes) == {a \in Assets : a[1] \in hashes \cap markets}

\* The known markets among the hashes and the entries of their assets go.
UnsubscribeMarkets(hashes) ==
    LET gone == AssetsGone(hashes)
    IN  /\ pc = "idle"
        /\ markets' = markets \ hashes
        /\ removed' = (hashes \cap markets # {})
        /\ unsubs' = [i \in DOMAIN connections |->
                        {a \in gone : Tracked(a) /\ i \in Pair(a)}]
        /\ assetToConns' = [a \in Assets |->
                              IF a \in gone THEN Absent ELSE assetToConns[a]]
        /\ pc' = "unsub"
        /\ UNCHANGED <<connections, nextConnId, monitorMap, connVars, todo,
                       pending, firstConn, overflow, toGc>>

\* (mutant of SendUnsubscribe: the connection is not told)
SendUnsubscribeSilently(i) ==
    /\ pc = "unsub" /\ unsubs[i] # {}
    /\ connections' = [connections EXCEPT ![i].assets = @ \ unsubs[i]]
    /\ unsubs' = [unsubs EXCEPT ![i] = {}]
    /\ UNCHANGED <<markets, assetToConns, nextConnId, monitorMap, connVars, pc,
                   todo, pending, firstConn, overflow, toGc, removed>>
\* The Unsubscribe command of one connection; waits while its mailbox is full.
SendUnsubscribe(i) ==
    /\ pc = "unsub" /\ unsubs[i] # {}
    /\ connections' = [connections EXCEPT ![i].assets = @ \ unsubs[i]]
    /\ Send(i, "unsubscribe", unsubs[i])
    /\ unsubs' = [unsubs EXCEPT ![i] = {}]
    /\ UNCHANGED <<markets, assetToConns, nextConnId, monitorMap, desired, pc,
                   todo, pending, firstConn, overflow, toGc, removed>>

CollectEmpty ==
    /\ pc = "unsub" /\ \A i \in DOMAIN unsubs : unsubs[i] = {}
    /\ toGc' = {i \in DOMAIN connections : connections[i].assets = {}}
    /\ unsubs' = <<>>
    /\ pc' = "gc"
    /\ UNCHANGED <<poolVars, connVars, todo, pending, firstConn, overflow, removed>>

\* (mutant of Repointed: entries keep the index of the moved connection)
NotRepointed(j, last, i) == j
\* An index held in the reverse index after the last element moved to i.
Repointed(j, last, i) == IF j = last THEN i ELSE j

\* One empty connection, the highest index first: swap_remove, then the entries
\* that held the index of the moved connection are pointed to its new place.
\* Its sender is dropped with the handle, and its task ends on its own.
RemoveEmpty ==
    \E i \in toGc :
        /\ pc = "gc" /\ \A j \in toGc : j <= i
        /\ connections' = SwapRemove(connections, i)
        /\ LET last == Len(connections)
           IN  assetToConns' = [a \in Assets |->
                                  <<Repointed(assetToConns[a][1], last, i),
                                    Repointed(assetToConns[a][2], last, i)>>]
        /\ toGc' = toGc \ {i}
        /\ UNCHANGED <<markets, nextConnId, monitorMap, connVars, pc, todo,
                       pending, firstConn, overflow, unsubs, removed>>

\* The monitor is only told when a market was removed.
FinishUnsubscribe ==
    /\ pc = "gc" /\ toGc = {}
    /\ monitorMap' = IF removed THEN assetToConns ELSE monitorMap
    /\ removed' = FALSE
    /\ pc' = "idle"
    /\ UNCHANGED <<connections, markets, assetToConns, nextConnId, connVars,
                   todo, pending, firstConn, overflow, unsubs, toGc>>

-----------------------------------------------------------------------------
(* The connection tasks, as far as the pool sees them *)

\* (mutant of Receive: the command is looked at and not taken)
ReceivePeeking(id) ==
    /\ mailbox[id] # <<>>
    /\ LET cmd == Head(mailbox[id])
       IN  desired' = [desired EXCEPT ![id] =
                         IF cmd.op = "subscribe" THEN @ \cup cmd.assets
                         ELSE @ \ cmd.assets]
    /\ UNCHANGED <<poolVars, mailbox, callVars>>
\* run_session takes the next command and updates its desired set.  A task whose
\* sender was dropped still gets the commands sent before.
Receive(id) ==
    /\ mailbox[id] # <<>>
    /\ LET cmd == Head(mailbox[id])
       IN  desired' = [desired EXCEPT ![id] =
                         IF cmd.op = "subscribe" THEN @ \cup cmd.assets
                         ELSE @ \ cmd.assets]
    /\ mailbox' = [mailbox EXCEPT ![id] = Tail(@)]
    /\ UNCHANGED <<poolVars, callVars>>

-----------------------------------------------------------------------------

CallStep ==
    \/ \E item \in Items : Place1(item) \/ Place2(item) \/ Spill(item)
    \/ PlaceOverflow
    \/ \E i \in DOMAIN pending : Dispatch(i)
    \/ FinishSubscribe
    \/ \E i \in DOMAIN unsubs : SendUnsubscribe(i)
    \/ CollectEmpty
    \/ RemoveEmpty
    \/ FinishUnsubscribe

Next ==
    \/ \E batch \in SUBSET (Markets \X Copies) : SubscribeMarkets(batch)
    \/ \E hashes \in SUBSET Markets \ {{}} : UnsubscribeMarkets(hashes)
    \/ CallStep
    \/ \E id \in ConnIds : Receive(id)

Spec == Init /\ [][Next]_vars

\* The lock holder keeps running, and every task gets to take its commands:
\* true as long as each connection is eventually established.
FairSpec == /\ Spec
            /\ WF_vars(CallStep)
            /\ \A id \in ConnIds : WF_vars(Receive(id))

-----------------------------------------------------------------------------
(* Properties *)

Indices == DOMAIN connections

\* Type invariant; unsubs and pending are parallel to connections.
TypeOK ==
    /\ connections \in Seq([id : ConnIds, assets : SUBSET Assets])
    /\ markets \in SUBSET Markets
    /\ assetToConns \in [Assets -> Nat \X Nat]
    /\ monitorMap \in [Assets -> Nat \X Nat]
    /\ nextConnId \in 0..MaxConns
    /\ mailbox \in [ConnIds -> Seq(Commands)]
    /\ desired \in [ConnIds -> SUBSET Assets]
    /\ pc \in {"idle", "pass1", "pass2", "overflow", "dispatch", "unsub", "gc"}
    /\ todo \in SUBSET Items /\ overflow \in SUBSET Items
    /\ firstConn \in [Assets -> Nat]
    /\ pending \in Seq(SUBSET Items)
    /\ pc \in {"pass1", "pass2", "overflow", "dispatch"}
          => Len(pending) = Len(connections)
    /\ unsubs \in Seq(SUBSET Assets)
    /\ pc = "unsub" => Len(unsubs) = Len(connections)
    /\ toGc \in SUBSET Nat
    /\ removed \in BOOLEAN

\* pool.rs:6, "each asset is assigned to exactly two connections": at every
\* moment, also between the removals of a garbage collection, an entry of the
\* reverse index holds two different indices of live connections.
TwoConnections ==
    \A a \in Assets : Tracked(a) =>
        /\ assetToConns[a][1] \in Indices
        /\ assetToConns[a][2] \in Indices
        /\ assetToConns[a][1] # assetToConns[a][2]

\* The reverse index and the handles say the same once a call is over: a handle
\* holds exactly the assets whose entry names its index, so a garbage-collected
\* connection is one no asset needs; and the index has the assets of the
\* subscribed markets (pool.rs:284-289, 326-355).
HandlesMatchIndex ==
    pc \in {"idle", "gc"} =>
        /\ \A i \in Indices : connections[i].assets = {a \in Assets : i \in Pair(a)}
        /\ \A a \in Assets : Tracked(a) <=> a[1] \in markets

\* pool.rs:6, the same claim about the handles: after a call, every tracked asset
\* is held by exactly two connections.  False when a batch lists a market twice.
HeldByExactlyTwo ==
    pc = "idle" => \A a \in Assets :
        Tracked(a) => Cardinality({i \in Indices : a \in connections[i].assets}) = 2

\* No connection is given more than max_assets_per_conn assets.  Pass 3 does not
\* look at the capacity of the connection it fills: all overflow assets have the
\* same first connection, which then has as much room left as there is overflow
\* (pool.rs:273-282).
CapacityRespected ==
    \A i \in Indices :
        (IF pc \in {"idle", "unsub", "gc"}
         THEN Cardinality(connections[i].assets) ELSE Load(i)) <= MaxAssets

\* The number of connections opened is enough for pass 1: its expect(...)
\* never panics (pool.rs:209-223, 247-249).
Pass1AlwaysFits == pc = "pass1" => Fits(0) # {}

\* Between calls no connection is empty: a subscribe fills every connection it
\* opens, and an unsubscribe collects every one it empties.  This is why an
\* unsubscribe of unknown markets, which looks for empty connections but does not
\* tell the monitor, does no harm (pool.rs:209-223, 337-366).
NoEmptyConnection ==
    pc = "idle" => \A i \in Indices : connections[i].assets # {}

\* What a task will keep subscribed once it has taken all its commands.
WillHold(id, a) ==
    LET about == {k \in DOMAIN mailbox[id] : a \in mailbox[id][k].assets}
    IN  \/ about = {} /\ a \in desired[id]
        \/ \E k \in about : /\ \A j \in about : j <= k
                             /\ mailbox[id][k].op = "subscribe"

\* The commands in flight lead every task to what the pool believes it holds; a
\* task whose handle is gone ends up holding nothing (pool.rs:284-293, 326-335).
TasksConverge ==
    \A id \in 0..(nextConnId - 1) : \A a \in Assets :
        WillHold(id, a) <=>
            \E i \in Indices : connections[i].id = id /\ a \in connections[i].assets

ConnIdsOf(a) == {connections[j].id : j \in Pair(a) \cap Indices}

\* A tracked asset never migrates: whatever is subscribed, unsubscribed or
\* collected, the connections that carry it stay the same until it is
\* unsubscribed (pool.rs:343-355).
NoMigration ==
    [][\A a \in Assets :
          Tracked(a) /\ Tracked(a)' => ConnIdsOf(a)' = ConnIdsOf(a)]_vars

\* Every call returns, if the tasks go on taking their commands: a full mailbox
\* holds the caller, and with it the pool's mutex, only for a time.
CallsReturn == pc # "idle" ~> pc = "idle"
=============================================================================
