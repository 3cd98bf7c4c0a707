----------------------------- MODULE PoolMonitor -----------------------------
(***************************************************************************)
(* ws/pool.rs, run_health_monitor, composed with the pool of module Pool.  *)
(* Connection tasks publish their status under their connection id, on one *)
(* unbounded channel.  The pool publishes its reverse index, whose entries *)
(* are positions in its vector of connections, through a watch channel of  *)
(* which the monitor sees only the latest value.  The monitor derives the  *)
(* health of every asset from the two.                                     *)
(*                                                                         *)
(* Durations, event counters and log lines are left out.  The code counts  *)
(* positions and ids from 0; here positions start at 1, so position i is   *)
(* looked up as id i - 1.                                                  *)
(***************************************************************************)
EXTENDS Pool

CONSTANT MaxStatus     \* bound: status messages sent

VARIABLES
    live,        \* per connection id: a socket is open
    ended,       \* ids of tasks that returned
    statusQueue, \* status_event channel: <<id, connected>>
    statusSent,  \* bound: messages sent so far
    mapNew,      \* asset_conns_rx.changed() is ready
    connStatus,  \* per id: "unknown", "up" or "down"
    assetConns,  \* the monitor's copy of the map
    assetStates, \* per asset: "none", "healthy", "degraded" or "down"
    assetsDown,  \* HealthCounters.assets_down
    assetsDegraded, \* HealthCounters.assets_degraded
    startup      \* the startup phase is not over

taskVars == <<live, ended, statusQueue, statusSent>>
monitorVars == <<connStatus, assetConns, assetStates, assetsDown,
                 assetsDegraded, startup>>
allVars == <<vars, taskVars, mapNew, monitorVars>>

MonitorInit ==
    /\ Init
    /\ live = [id \in ConnIds |-> FALSE] /\ ended = {}
    /\ statusQueue = <<>> /\ statusSent = 0
    /\ mapNew = FALSE
    /\ connStatus = [id \in ConnIds |-> "unknown"]
    /\ assetConns = monitorMap
    /\ assetStates = [a \in Assets |-> "none"]
    /\ assetsDown = 0 /\ assetsDegraded = 0
    /\ startup = TRUE

-----------------------------------------------------------------------------
(* The pool and the connection tasks *)

\* update_monitor_mappings is called at the end of every subscribe, and of an
\* unsubscribe that removed a market.
MapSent == \/ pc = "dispatch" /\ pc' = "idle"
           \/ pc = "gc" /\ pc' = "idle" /\ removed

PoolStep ==
    /\ Next
    /\ mapNew' = (mapNew \/ MapSent)
    /\ UNCHANGED <<taskVars, monitorVars>>

Report(id, connected) ==
    /\ statusSent < MaxStatus
    /\ statusQueue' = Append(statusQueue, <<id, connected>>)
    /\ statusSent' = statusSent + 1
    /\ UNCHANGED <<vars, mapNew, monitorVars>>

Spawned(id) == id < nextConnId /\ id \notin ended
HasHandle(id) == \E i \in Indices : connections[i].id = id

\* A task that was already connecting when its handle went may still come up.
ConnUp(id) ==
    /\ Spawned(id) /\ ~live[id]
    /\ live' = [live EXCEPT ![id] = TRUE]
    /\ Report(id, TRUE)
    /\ UNCHANGED ended

ConnDown(id) ==
    /\ Spawned(id) /\ live[id]
    /\ live' = [live EXCEPT ![id] = FALSE]
    /\ Report(id, FALSE)
    /\ UNCHANGED ended

\* A connect fails: Disconnected again.
ConnFailed(id) ==
    /\ Spawned(id) /\ ~live[id]
    /\ Report(id, FALSE)
    /\ UNCHANGED <<live, ended>>

\* The sender is gone and the mailbox drained: the task says so and returns.
ConnEnds(id) ==
    /\ Spawned(id) /\ ~HasHandle(id) /\ mailbox[id] = <<>>
    /\ live' = [live EXCEPT ![id] = FALSE]
    /\ ended' = ended \cup {id}
    /\ Report(id, FALSE)

-----------------------------------------------------------------------------
(* The monitor *)

\* An id never heard of counts as disconnected.
Up(status, pos) == pos - 1 \in ConnIds /\ status[pos - 1] = "up"

StateOf(ups) == IF ups = {TRUE} THEN "healthy"
                ELSE IF ups = {FALSE} THEN "down" ELSE "degraded"

\* compute_asset_state
Derived(a, map, status) == StateOf({Up(status, map[a][1]), Up(status, map[a][2])})

\* conn_to_assets
AssetsAt(map, pos) == {a \in Assets : map[a] # Absent /\ pos \in {map[a][1], map[a][2]}}

\* (mutant of SetGauges: fetch_add in place of store)
AddToGauges(states) ==
    /\ assetsDown' = assetsDown + Cardinality({a \in Assets : states[a] = "down"})
    /\ assetsDegraded' =
          assetsDegraded + Cardinality({a \in Assets : states[a] = "degraded"})
\* update_aggregate_gauges
SetGauges(states) ==
    /\ assetsDown' = Cardinality({a \in Assets : states[a] = "down"})
    /\ assetsDegraded' = Cardinality({a \in Assets : states[a] = "degraded"})

\* Every position in the map is connected.
AllUp(status) ==
    /\ \E a \in Assets : assetConns[a] # Absent
    /\ \A a \in Assets : assetConns[a] # Absent =>
          Up(status, assetConns[a][1]) /\ Up(status, assetConns[a][2])

\* A status that repeats the last one (at first: Disconnected) is only noted.
StatusRepeated ==
    /\ statusQueue # <<>>
    /\ LET id == Head(statusQueue)[1]
           up == Head(statusQueue)[2]
       IN  /\ up = (connStatus[id] = "up")
           /\ connStatus' = [connStatus EXCEPT ![id] = IF up THEN "up" ELSE "down"]
    /\ statusQueue' = Tail(statusQueue)
    /\ UNCHANGED <<vars, live, ended, statusSent, mapNew, assetConns,
                   assetStates, assetsDown, assetsDegraded, startup>>

\* (mutant of StatusChanged: the status is noted after the assets are derived)
StatusChangedTooLate ==
    /\ statusQueue # <<>>
    /\ LET id == Head(statusQueue)[1]
           up == Head(statusQueue)[2]
           affected == AssetsAt(assetConns, id + 1)
       IN  /\ up # (connStatus[id] = "up")
           /\ connStatus' = [connStatus EXCEPT ![id] = IF up THEN "up" ELSE "down"]
           /\ assetStates' = [a \in Assets |->
                                IF a \in affected THEN Derived(a, assetConns, connStatus)
                                ELSE assetStates[a]]
    /\ SetGauges(assetStates')
    /\ startup' = (startup /\ ~AllUp(connStatus'))
    /\ statusQueue' = Tail(statusQueue)
    /\ UNCHANGED <<vars, live, ended, statusSent, mapNew, assetConns>>
\* A transition: the assets of that connection are derived anew.
StatusChanged ==
    /\ statusQueue # <<>>
    /\ LET id == Head(statusQueue)[1]
           up == Head(statusQueue)[2]
           affected == AssetsAt(assetConns, id + 1)
       IN  /\ up # (connStatus[id] = "up")
           /\ connStatus' = [connStatus EXCEPT ![id] = IF up THEN "up" ELSE "down"]
           /\ assetStates' = [a \in Assets |->
                                IF a \in affected THEN Derived(a, assetConns, connStatus')
                                ELSE assetStates[a]]
    /\ SetGauges(assetStates')
    /\ startup' = (startup /\ ~AllUp(connStatus'))
    /\ statusQueue' = Tail(statusQueue)
    /\ UNCHANGED <<vars, live, ended, statusSent, mapNew, assetConns>>

\* The latest map is taken and every asset of it derived (rebuild_derived).
MapChanged ==
    /\ mapNew
    /\ mapNew' = FALSE
    /\ assetConns' = monitorMap
    /\ assetStates' = [a \in Assets |->
                         IF monitorMap[a] = Absent THEN "none"
                         ELSE Derived(a, monitorMap, connStatus)]
    /\ SetGauges(assetStates')
    /\ UNCHANGED <<vars, taskVars, connStatus, startup>>

MonitorNext ==
    \/ PoolStep
    \/ \E id \in ConnIds : ConnUp(id) \/ ConnDown(id) \/ ConnFailed(id) \/ ConnEnds(id)
    \/ StatusRepeated \/ StatusChanged \/ MapChanged

MonitorSpec == MonitorInit /\ [][MonitorNext]_allVars

\* The fairness of FairSpec, with the monitor's copy of the map along.
MonitorFairSpec ==
    /\ MonitorSpec
    /\ WF_allVars(CallStep /\ PoolStep)
    /\ \A id \in ConnIds : WF_allVars(Receive(id) /\ PoolStep)

-----------------------------------------------------------------------------
(* Properties *)

MonitorTypeOK ==
    /\ live \in [ConnIds -> BOOLEAN] /\ ended \in SUBSET ConnIds
    /\ statusQueue \in Seq(ConnIds \X BOOLEAN)
    /\ mapNew \in BOOLEAN /\ startup \in BOOLEAN
    /\ connStatus \in [ConnIds -> {"unknown", "up", "down"}]
    /\ assetConns \in [Assets -> Nat \X Nat]
    /\ assetStates \in [Assets -> {"none", "healthy", "degraded", "down"}]
    /\ assetsDown = Cardinality({a \in Assets : assetStates[a] = "down"})
    /\ assetsDegraded = Cardinality({a \in Assets : assetStates[a] = "degraded"})

\* The monitor has taken everything it was sent, and no call runs.
Settled == statusQueue = <<>> /\ ~mapNew /\ pc = "idle"

TrueState(a) == StateOf({live[id] : id \in ConnIdsOf(a)})

AtOwnPosition(a) == \A i \in Pair(a) : connections[i].id = i - 1

\* Status messages and maps reach the monitor on two channels, in any relative
\* order.  Once it has taken them all it knows the health of every asset whose
\* connections sit at the position of their id (pool.rs:542-760).
HealthKnown ==
    Settled => \A a \in Assets :
        Tracked(a) /\ AtOwnPosition(a) => assetStates[a] = TrueState(a)

\* pool.rs:31-36, "down: both connections disconnected": once settled, an asset
\* is reported down exactly when both connections that carry it are down.  False
\* after a garbage collection, when positions and ids no longer agree.
DownMeansBothDown ==
    Settled => \A a \in Assets :
        Tracked(a) => (assetStates[a] = "down" <=> TrueState(a) = "down")
=============================================================================
