---------------------------- MODULE MonitorProofs ---------------------------
(* Theorems about the health monitor (module PoolMonitor), for any number   *)
(* of markets and connections, any number of status messages and any order  *)
(* in which statuses and maps reach the monitor.                            *)
EXTENDS PoolMonitor, PoolProofs

Statuses == ConnIds \X BOOLEAN

\* The last status still in the queue is what the task is; a task that has no
\* status there is what the monitor last noted of it.
Reported(id) ==
    /\ \A k \in DOMAIN statusQueue :
          /\ statusQueue[k][1] = id
          /\ \A j \in DOMAIN statusQueue : statusQueue[j][1] = id => j <= k
          => statusQueue[k][2] = live[id]
    /\ (\A k \in DOMAIN statusQueue : statusQueue[k][1] # id)
          => ((connStatus[id] = "up") <=> live[id])

AllReported == \A id \in ConnIds : Reported(id)

\* Every asset of the monitor's map is in the state the statuses noted give it.
AllDerived ==
    \A a \in Assets :
        assetStates[a] = IF assetConns[a] = Absent THEN "none"
                         ELSE Derived(a, assetConns, connStatus)

\* The monitor is told of every entry of the index that changed once the call is
\* over; a call that removes no market leaves the index as it is.
Told ==
    /\ pc = "idle" => monitorMap = assetToConns
    /\ pc \in {"unsub", "gc"} /\ ~removed => monitorMap = assetToConns
    /\ pc = "unsub" /\ ~removed => NoneBare /\ \A i \in DOMAIN unsubs : unsubs[i] = {}
    /\ pc = "gc" /\ ~removed => toGc = {}

\* No map is waiting to be taken that differs from the monitor's own.
Heard == ~mapNew => assetConns = monitorMap

MonitorInv == MonitorTypeOK /\ AllReported /\ AllDerived /\ Heard

-----------------------------------------------------------------------------
(* The pool's steps *)

LEMMA MonitorStepsPool == [MonitorNext]_allVars => [Next]_vars
  BY DEF MonitorNext, PoolStep, ConnUp, ConnDown, ConnFailed, ConnEnds, Report,
         StatusRepeated, StatusChanged, MapChanged, allVars

LEMMA UnsubscribeTells ==
    ASSUME FullInv, Told, NEW hashes \in SUBSET Markets, UnsubscribeMarkets(hashes)
    PROVE  Told'
<1>1. TypeOK /\ NoneBare /\ monitorMap = assetToConns
  BY DEF FullInv, PoolInv, TypeInv, Filled, Told, UnsubscribeMarkets
<1>2. /\ pc' = "unsub" /\ removed' = (hashes \cap markets # {})
      /\ UNCHANGED <<connections, monitorMap>>
  BY DEF UnsubscribeMarkets
<1>3. ASSUME ~removed'
      PROVE  /\ assetToConns' = assetToConns /\ NoneBare'
             /\ \A i \in DOMAIN unsubs' : unsubs'[i] = {}
  <2>1. AssetsGone(hashes) = {}
    BY <1>2, <1>3 DEF AssetsGone
  <2>2. assetToConns' = [a \in Assets |-> assetToConns[a]]
    BY <2>1 DEF UnsubscribeMarkets
  <2>3. unsubs' = [i \in DOMAIN connections |-> {}]
    BY <2>1 DEF UnsubscribeMarkets
  <2>4. QED
    BY <1>1, <1>2, <2>2, <2>3 DEF TypeOK, NoneBare, Indices
<1>4. QED
  BY <1>1, <1>2, <1>3 DEF Told

LEMMA NextTells ==
    ASSUME FullInv, Told, [Next]_vars
    PROVE  Told'
<1>1. ASSUME UNCHANGED <<poolVars, callVars>>
      PROVE  Told'
  BY <1>1 DEF Told, poolVars, callVars, NoneBare, Indices
<1>2. ASSUME pc' \notin {"idle", "unsub", "gc"}
      PROVE  Told'
  BY <1>2 DEF Told
<1>3. CASE UNCHANGED vars
  BY <1>1, <1>3 DEF vars
<1>4. ASSUME NEW batch \in SUBSET (Markets \X Copies), SubscribeMarkets(batch)
      PROVE  Told'
  BY <1>2, <1>4 DEF SubscribeMarkets
<1>5. ASSUME NEW item \in Items, Place1(item) \/ Place2(item) \/ Spill(item)
      PROVE  Told'
  BY <1>2, <1>5 DEF Place1, Place2, Spill, AfterPass2
<1>6. CASE PlaceOverflow
  BY <1>2, <1>6 DEF PlaceOverflow
<1>7. ASSUME NEW i \in DOMAIN pending, Dispatch(i)
      PROVE  Told'
  BY <1>2, <1>7 DEF Dispatch
<1>8. CASE FinishSubscribe
  BY <1>8 DEF FinishSubscribe, Told
<1>9. ASSUME NEW i \in DOMAIN unsubs, SendUnsubscribe(i)
      PROVE  Told'
  <2>1. pc = "unsub" /\ unsubs[i] # {} /\ pc' = "unsub" /\ removed' = removed
    BY <1>9 DEF SendUnsubscribe
  <2>2. QED
    BY <2>1 DEF Told
<1>10. CASE CollectEmpty
  <2>1. /\ pc = "unsub" /\ pc' = "gc" /\ UNCHANGED <<assetToConns, monitorMap, removed>>
        /\ toGc' = {i \in DOMAIN connections : connections[i].assets = {}}
    BY <1>10 DEF CollectEmpty, poolVars
  <2>2. QED
    BY <2>1 DEF Told, NoneBare, Indices
<1>11. CASE RemoveEmpty
  <2>1. pc = "gc" /\ toGc # {} /\ pc' = "gc" /\ removed' = removed
    BY <1>11 DEF RemoveEmpty
  <2>2. QED
    BY <2>1 DEF Told
<1>12. CASE FinishUnsubscribe
  <2>1. /\ pc = "gc" /\ pc' = "idle" /\ UNCHANGED assetToConns
        /\ monitorMap' = IF removed THEN assetToConns ELSE monitorMap
    BY <1>12 DEF FinishUnsubscribe
  <2>2. QED
    BY <2>1 DEF Told
<1>13. ASSUME NEW id \in ConnIds, Receive(id)
       PROVE  Told'
  BY <1>1, <1>13 DEF Receive
<1>14. ASSUME NEW hashes \in SUBSET Markets, UnsubscribeMarkets(hashes)
       PROVE  Told'
  BY <1>14, UnsubscribeTells
<1>15. QED
  BY <1>3, <1>4, <1>5, <1>6, <1>7, <1>8, <1>9, <1>10, <1>11, <1>12, <1>13, <1>14
     DEF Next, CallStep

\* The monitor learns of a new map whenever there is one.
LEMMA PoolHeard ==
    ASSUME MonitorInv, PoolStep
    PROVE  MonitorInv'
<1>1. UNCHANGED <<taskVars, monitorVars>> /\ mapNew' = (mapNew \/ MapSent)
  BY DEF PoolStep
<1>2. MonitorTypeOK' /\ AllReported' /\ AllDerived'
  <2>1. mapNew' \in BOOLEAN
    BY <1>1 DEF MapSent
  <2>2. QED
    BY <1>1, <2>1 DEF MonitorInv, MonitorTypeOK, AllReported, Reported, AllDerived, Derived, Up,
                      taskVars, monitorVars
<1>3. Heard'
  <2>1. ASSUME ~MapSent
        PROVE  monitorMap' = monitorMap
    <3>1. ~FinishSubscribe
      BY <2>1 DEF FinishSubscribe, MapSent
    <3>2. FinishUnsubscribe => monitorMap' = monitorMap
      BY <2>1 DEF FinishUnsubscribe, MapSent
    <3>3. QED
      BY <3>1, <3>2 DEF PoolStep, Next, CallStep, SubscribeMarkets, UnsubscribeMarkets, Place1,
         Place2, Spill, PlaceOverflow, Dispatch, SendUnsubscribe, CollectEmpty, RemoveEmpty,
         Receive, poolVars
  <2>2. QED
    BY <1>1, <2>1 DEF MonitorInv, Heard, monitorVars
<1>4. QED
  BY <1>2, <1>3 DEF MonitorInv

-----------------------------------------------------------------------------
(* Statuses *)

\* The status sent last is what the task is now; other tasks' are as they were.
LEMMA ReportKeeps ==
    ASSUME MonitorInv, NEW id \in ConnIds, NEW up \in BOOLEAN, Report(id, up),
           live' = [live EXCEPT ![id] = up], ended' \in SUBSET ConnIds
    PROVE  MonitorInv'
<1>1. /\ statusQueue' = Append(statusQueue, <<id, up>>)
      /\ UNCHANGED <<monitorMap, mapNew, connStatus, assetConns, assetStates, assetsDown,
                     assetsDegraded, startup>>
  BY DEF Report, vars, poolVars, monitorVars
<1>2. statusQueue \in Seq(Statuses) /\ <<id, up>> \in Statuses /\ live \in [ConnIds -> BOOLEAN]
  BY DEF MonitorInv, MonitorTypeOK, Statuses
<1>3. PICK n \in Nat : n = Len(statusQueue) /\ DOMAIN statusQueue = 1..n
  BY <1>2
<1>4. /\ statusQueue' \in Seq(Statuses) /\ DOMAIN statusQueue' = 1..(n + 1)
      /\ statusQueue'[n + 1] = <<id, up>> /\ \A k \in 1..n : statusQueue'[k] = statusQueue[k]
  BY <1>1, <1>2, <1>3, AppendProperties
<1>5. live'[id] = up /\ \A x \in ConnIds \ {id} : live'[x] = live[x]
  BY <1>2
<1>6. ASSUME NEW x \in ConnIds
      PROVE  Reported(x)'
  <2>1. CASE x = id
    <3>1. n + 1 \in DOMAIN statusQueue' /\ statusQueue'[n + 1][1] = x
      BY <1>3, <1>4, <2>1
    <3>2. \A k \in DOMAIN statusQueue' : n + 1 <= k => statusQueue'[k][2] = live'[x]
      BY <1>3, <1>4, <1>5, <2>1
    <3>3. QED
      BY <3>1, <3>2 DEF Reported
  <2>2. CASE x # id
    <3>1. \A k \in 1..(n + 1) : statusQueue'[k][1] = x => k \in 1..n
      BY <1>3, <1>4, <2>2
    <3>2. Reported(x) /\ live'[x] = live[x] /\ connStatus' = connStatus
      BY <1>1, <1>5, <2>2 DEF MonitorInv, AllReported
    <3>3. \A k \in 1..n : k \in 1..(n + 1)
      BY <1>3
    <3>4. QED
      BY <1>3, <1>4, <3>1, <3>2, <3>3 DEF Reported
  <2>3. QED
    BY <2>1, <2>2
<1>7. MonitorTypeOK'
  BY <1>1, <1>2, <1>4 DEF MonitorInv, MonitorTypeOK, Statuses
<1>8. AllDerived' /\ Heard'
  BY <1>1 DEF MonitorInv, AllDerived, Derived, Up, Heard
<1>9. QED
  BY <1>6, <1>7, <1>8 DEF MonitorInv, AllReported

\* What the first status says is noted of its task and no other.
Noted(id, up) ==
    /\ statusQueue # <<>> /\ Head(statusQueue) = <<id, up>>
    /\ statusQueue' = Tail(statusQueue)
    /\ connStatus' = [connStatus EXCEPT ![id] = IF up THEN "up" ELSE "down"]
    /\ UNCHANGED live

LEMMA FirstStatus ==
    ASSUME MonitorTypeOK, statusQueue # <<>>
    PROVE  \E id \in ConnIds, up \in BOOLEAN :
               Head(statusQueue) = <<id, up>> /\ id = Head(statusQueue)[1] /\ up = Head(statusQueue)[2]
  BY DEF MonitorTypeOK

LEMMA NotedKeeps ==
    ASSUME MonitorInv, NEW id \in ConnIds, NEW up \in BOOLEAN, Noted(id, up)
    PROVE  /\ AllReported' /\ statusQueue' \in Seq(Statuses)
           /\ connStatus' \in [ConnIds -> {"unknown", "up", "down"}]
           /\ (connStatus'[id] = "up") <=> up
           /\ \A x \in ConnIds \ {id} : connStatus'[x] = connStatus[x]
<1>1. /\ statusQueue \in Seq(Statuses) /\ live' = live
      /\ connStatus \in [ConnIds -> {"unknown", "up", "down"}]
  BY DEF MonitorInv, MonitorTypeOK, Statuses, Noted
<1>2. PICK n \in Nat : n = Len(statusQueue) /\ DOMAIN statusQueue = 1..n /\ n >= 1
  BY <1>1 DEF Noted
<1>3. /\ statusQueue' \in Seq(Statuses) /\ DOMAIN statusQueue' = 1..(n - 1)
      /\ statusQueue[1] = <<id, up>> /\ \A k \in 1..(n - 1) : statusQueue'[k] = statusQueue[k + 1]
  BY <1>1, <1>2 DEF Noted
<1>4. /\ connStatus' \in [ConnIds -> {"unknown", "up", "down"}]
      /\ (connStatus'[id] = "up") <=> up
      /\ \A x \in ConnIds \ {id} : connStatus'[x] = connStatus[x]
  BY <1>1 DEF Noted
<1>5. ASSUME NEW x \in ConnIds
      PROVE  Reported(x)'
  <2>1. Reported(x)
    BY DEF MonitorInv, AllReported
  <2>2. \A j \in 1..n : j # 1 => j - 1 \in 1..(n - 1) /\ statusQueue'[j - 1] = statusQueue[j]
    BY <1>2, <1>3
  <2>3. ASSUME NEW k \in DOMAIN statusQueue', statusQueue'[k][1] = x,
               \A j \in DOMAIN statusQueue' : statusQueue'[j][1] = x => j <= k
        PROVE  statusQueue'[k][2] = live'[x]
    <3>1. k \in 1..(n - 1) /\ k + 1 \in 1..n /\ statusQueue[k + 1] = statusQueue'[k]
      BY <1>2, <1>3, <2>3
    <3>2. ASSUME NEW j \in 1..n, statusQueue[j][1] = x
          PROVE  j <= k + 1
      <4>1. CASE j = 1
        BY <3>1, <4>1
      <4>2. CASE j # 1
        <5>1. j - 1 \in DOMAIN statusQueue' /\ statusQueue'[j - 1][1] = x
          BY <1>3, <2>2, <3>2, <4>2
        <5>2. j - 1 <= k
          BY <2>3, <5>1
        <5>3. QED
          BY <3>1, <3>2, <5>2
      <4>3. QED
        BY <4>1, <4>2
    <3>3. QED
      BY <1>1, <1>2, <2>1, <2>3, <3>1, <3>2 DEF Reported
  <2>4. ASSUME \A k \in DOMAIN statusQueue' : statusQueue'[k][1] # x
        PROVE  (connStatus'[x] = "up") <=> live'[x]
    <3>1. \A j \in 1..n : statusQueue[j][1] = x => j = 1
      BY <1>3, <2>2, <2>4
    <3>2. CASE x = id
      <4>1. 1 \in DOMAIN statusQueue /\ statusQueue[1][1] = x /\ statusQueue[1][2] = up
        BY <1>2, <1>3, <3>2
      <4>2. up = live[x]
        BY <1>2, <2>1, <3>1, <4>1 DEF Reported
      <4>3. QED
        BY <1>1, <1>4, <3>2, <4>2
    <3>3. CASE x # id
      <4>1. \A j \in DOMAIN statusQueue : statusQueue[j][1] # x
        BY <1>2, <1>3, <3>1, <3>3
      <4>2. QED
        BY <1>1, <1>4, <2>1, <3>3, <4>1 DEF Reported
    <3>4. QED
      BY <3>2, <3>3
  <2>5. QED
    BY <2>3, <2>4 DEF Reported
<1>6. QED
  BY <1>3, <1>4, <1>5 DEF AllReported

\* A position that is not the task's has the status it had.
LEMMA UpElsewhere ==
    ASSUME NEW id \in ConnIds, NEW pos \in Nat, connStatus \in [ConnIds -> {"unknown", "up", "down"}],
           \A x \in ConnIds \ {id} : connStatus'[x] = connStatus[x],
           pos # id + 1 \/ ((connStatus'[id] = "up") <=> (connStatus[id] = "up"))
    PROVE  Up(connStatus', pos) <=> Up(connStatus, pos)
  BY PoolAssumption DEF Up, ConnIds

LEMMA RepeatedKeeps ==
    ASSUME MonitorInv, StatusRepeated
    PROVE  MonitorInv'
<1>1. MonitorTypeOK /\ AllDerived
  BY DEF MonitorInv
<1>2. PICK id \in ConnIds, up \in BOOLEAN :
          Head(statusQueue) = <<id, up>> /\ id = Head(statusQueue)[1] /\ up = Head(statusQueue)[2]
  BY <1>1, FirstStatus DEF StatusRepeated
<1>3. /\ up <=> (connStatus[id] = "up")
      /\ Noted(id, up)
      /\ UNCHANGED <<monitorMap, mapNew, live, ended, assetConns, assetStates, assetsDown,
                     assetsDegraded, startup>>
  BY <1>2 DEF StatusRepeated, Noted, vars, poolVars
<1>4. /\ AllReported' /\ statusQueue' \in Seq(Statuses)
      /\ connStatus' \in [ConnIds -> {"unknown", "up", "down"}]
      /\ (connStatus'[id] = "up") <=> up
      /\ \A x \in ConnIds \ {id} : connStatus'[x] = connStatus[x]
  BY <1>3, NotedKeeps
<1>5. \A pos \in Nat : Up(connStatus', pos) <=> Up(connStatus, pos)
  BY <1>1, <1>3, <1>4, UpElsewhere DEF MonitorTypeOK
<1>6. ASSUME NEW a \in Assets
      PROVE  Derived(a, assetConns', connStatus') = Derived(a, assetConns, connStatus)
  <2>1. assetConns[a][1] \in Nat /\ assetConns[a][2] \in Nat /\ assetConns' = assetConns
    BY <1>1, <1>3 DEF MonitorTypeOK
  <2>2. /\ Up(connStatus', assetConns[a][1]) = Up(connStatus, assetConns[a][1])
        /\ Up(connStatus', assetConns[a][2]) = Up(connStatus, assetConns[a][2])
    BY <1>5, <2>1 DEF Up
  <2>3. QED
    BY <2>1, <2>2 DEF Derived
<1>7. AllDerived' /\ Heard'
  BY <1>1, <1>3, <1>6 DEF MonitorInv, AllDerived, Heard
<1>8. MonitorTypeOK'
  BY <1>1, <1>3, <1>4 DEF MonitorTypeOK, Statuses
<1>9. QED
  BY <1>4, <1>7, <1>8 DEF MonitorInv

\* A transition: only the assets at the position of the task can change state.
LEMMA ChangedKeeps ==
    ASSUME MonitorInv, StatusChanged
    PROVE  MonitorInv'
<1>1. MonitorTypeOK /\ AllDerived
  BY DEF MonitorInv
<1>2. PICK id \in ConnIds, up \in BOOLEAN :
          Head(statusQueue) = <<id, up>> /\ id = Head(statusQueue)[1] /\ up = Head(statusQueue)[2]
  BY <1>1, FirstStatus DEF StatusChanged
<1>3. /\ Noted(id, up)
      /\ UNCHANGED <<monitorMap, mapNew, live, ended, assetConns>>
      /\ SetGauges(assetStates') /\ startup' = (startup /\ ~AllUp(connStatus'))
      /\ assetStates' = [a \in Assets |->
                           IF a \in AssetsAt(assetConns, id + 1)
                           THEN Derived(a, assetConns, connStatus') ELSE assetStates[a]]
  BY <1>2 DEF StatusChanged, Noted, vars, poolVars
<1>4. /\ AllReported' /\ statusQueue' \in Seq(Statuses)
      /\ connStatus' \in [ConnIds -> {"unknown", "up", "down"}]
      /\ \A x \in ConnIds \ {id} : connStatus'[x] = connStatus[x]
  BY <1>3, NotedKeeps
<1>5. ASSUME NEW a \in Assets
      PROVE  assetStates'[a] = IF assetConns'[a] = Absent THEN "none"
                               ELSE Derived(a, assetConns', connStatus')
  <2>1. assetConns[a][1] \in Nat /\ assetConns[a][2] \in Nat /\ assetConns' = assetConns
    BY <1>1, <1>3 DEF MonitorTypeOK
  <2>2. assetStates[a] = IF assetConns[a] = Absent THEN "none"
                         ELSE Derived(a, assetConns, connStatus)
    BY <1>1 DEF AllDerived
  <2>3. CASE a \in AssetsAt(assetConns, id + 1)
    <3>1. assetConns[a] # Absent /\ assetStates'[a] = Derived(a, assetConns, connStatus')
      BY <1>3, <2>3 DEF AssetsAt
    <3>2. QED
      BY <2>1, <3>1
  <2>4. CASE a \notin AssetsAt(assetConns, id + 1)
    <3>1. assetStates'[a] = assetStates[a]
      BY <1>3, <2>4
    <3>2. CASE assetConns[a] = Absent
      BY <2>1, <2>2, <3>1, <3>2
    <3>3. CASE assetConns[a] # Absent
      <4>1. assetConns[a][1] # id + 1 /\ assetConns[a][2] # id + 1
        BY <2>4, <3>3 DEF AssetsAt
      <4>2. /\ Up(connStatus', assetConns[a][1]) = Up(connStatus, assetConns[a][1])
            /\ Up(connStatus', assetConns[a][2]) = Up(connStatus, assetConns[a][2])
        <5>1. \A pos \in Nat : pos # id + 1 => (Up(connStatus', pos) <=> Up(connStatus, pos))
          BY <1>1, <1>4, UpElsewhere DEF MonitorTypeOK
        <5>2. QED
          BY <2>1, <4>1, <5>1 DEF Up
      <4>3. QED
        BY <2>1, <2>2, <3>1, <3>3, <4>2 DEF Derived
    <3>4. QED
      BY <3>2, <3>3
  <2>5. QED
    BY <2>3, <2>4
<1>6. AllDerived' /\ Heard'
  BY <1>3, <1>5 DEF MonitorInv, AllDerived, Heard
<1>7. MonitorTypeOK'
  <2>1. assetStates' \in [Assets -> {"none", "healthy", "degraded", "down"}]
    BY <1>1, <1>3 DEF MonitorTypeOK, Derived, StateOf
  <2>2. startup' \in BOOLEAN
    BY <1>1, <1>3 DEF MonitorTypeOK, AllUp
  <2>3. QED
    BY <1>1, <1>3, <1>4, <2>1, <2>2 DEF MonitorTypeOK, SetGauges, Statuses
<1>8. QED
  BY <1>4, <1>6, <1>7 DEF MonitorInv

-----------------------------------------------------------------------------
(* Maps *)

LEMMA MapKeeps ==
    ASSUME MonitorInv, TypeOK, MapChanged
    PROVE  MonitorInv'
<1>1. MonitorTypeOK /\ AllReported
  BY DEF MonitorInv
<1>2. /\ mapNew' = FALSE /\ assetConns' = monitorMap /\ monitorMap' = monitorMap
      /\ SetGauges(assetStates')
      /\ assetStates' = [a \in Assets |-> IF monitorMap[a] = Absent THEN "none"
                                          ELSE Derived(a, monitorMap, connStatus)]
      /\ UNCHANGED <<live, ended, statusQueue, connStatus, startup>>
  BY DEF MapChanged, vars, poolVars, taskVars
<1>3. AllReported'
  BY <1>1, <1>2 DEF AllReported, Reported
<1>4. AllDerived' /\ Heard'
  BY <1>2 DEF AllDerived, Heard, Derived
<1>5. MonitorTypeOK'
  <2>1. assetStates' \in [Assets -> {"none", "healthy", "degraded", "down"}]
    BY <1>2 DEF Derived, StateOf
  <2>2. assetConns' \in [Assets -> Nat \X Nat]
    BY <1>2 DEF TypeOK
  <2>3. QED
    BY <1>1, <1>2, <2>1, <2>2 DEF MonitorTypeOK, SetGauges
<1>6. QED
  BY <1>3, <1>4, <1>5 DEF MonitorInv

LEMMA MonitorStarts ==
    ASSUME MonitorInit
    PROVE  MonitorInv /\ Told
<1>1. Init /\ TypeOK
  BY InitTypes DEF MonitorInit, TypeInv
<1>2. \A a \in Assets : assetConns[a] = Absent
  BY <1>1 DEF MonitorInit, Init
<1>3. MonitorTypeOK
  <2>1. /\ {a \in Assets : assetStates[a] = "down"} = {}
        /\ {a \in Assets : assetStates[a] = "degraded"} = {}
    BY DEF MonitorInit
  <2>2. Cardinality({}) = 0
    BY FS_EmptySet
  <2>3. assetConns \in [Assets -> Nat \X Nat]
    BY <1>1 DEF MonitorInit, TypeOK
  <2>4. statusQueue \in Seq(ConnIds \X BOOLEAN)
    BY DEF MonitorInit
  <2>5. /\ live \in [ConnIds -> BOOLEAN] /\ ended \in SUBSET ConnIds
        /\ mapNew \in BOOLEAN /\ startup \in BOOLEAN
        /\ connStatus \in [ConnIds -> {"unknown", "up", "down"}]
        /\ assetStates \in [Assets -> {"none", "healthy", "degraded", "down"}]
    BY DEF MonitorInit
  <2>6. assetsDown = 0 /\ assetsDegraded = 0
    BY DEF MonitorInit
  <2>7. QED
    BY <2>1, <2>2, <2>3, <2>4, <2>5, <2>6 DEF MonitorTypeOK
<1>4. AllReported
  BY DEF MonitorInit, AllReported, Reported
<1>5. AllDerived
  BY <1>2 DEF MonitorInit, AllDerived
<1>6. Heard /\ Told
  BY <1>1 DEF MonitorInit, Heard, Told, Init
<1>7. QED
  BY <1>3, <1>4, <1>5, <1>6 DEF MonitorInv

LEMMA MonitorKeeps ==
    ASSUME MonitorInv, TypeOK, [MonitorNext]_allVars
    PROVE  MonitorInv'
<1>1. CASE UNCHANGED allVars
  BY <1>1 DEF allVars, vars, poolVars, taskVars, monitorVars, MonitorInv, MonitorTypeOK,
              AllReported, Reported, AllDerived, Derived, Up, Heard
<1>2. CASE PoolStep
  BY <1>2, PoolHeard
<1>3. ASSUME NEW id \in ConnIds, ConnUp(id) \/ ConnDown(id) \/ ConnFailed(id) \/ ConnEnds(id)
      PROVE  MonitorInv'
  <2>1. live \in [ConnIds -> BOOLEAN] /\ ended \in SUBSET ConnIds
    BY DEF MonitorInv, MonitorTypeOK
  <2>2. CASE ConnUp(id)
    BY <2>1, <2>2, ReportKeeps DEF ConnUp
  <2>3. CASE ConnDown(id)
    BY <2>1, <2>3, ReportKeeps DEF ConnDown
  <2>4. CASE ConnFailed(id)
    <3>1. live' = [live EXCEPT ![id] = FALSE]
      BY <2>1, <2>4 DEF ConnFailed
    <3>2. QED
      BY <2>1, <2>4, <3>1, ReportKeeps DEF ConnFailed
  <2>5. CASE ConnEnds(id)
    BY <2>1, <2>5, ReportKeeps DEF ConnEnds
  <2>6. QED
    BY <1>3, <2>2, <2>3, <2>4, <2>5
<1>4. QED
  BY <1>1, <1>2, <1>3, RepeatedKeeps, ChangedKeeps, MapKeeps DEF MonitorNext

LEMMA MonitorHasPool == MonitorSpec => Spec
<1>1. MonitorInit => Init
  BY DEF MonitorInit
<1>2. QED
  BY <1>1, MonitorStepsPool, PTL DEF MonitorSpec, Spec

LEMMA AlwaysMonitored == MonitorSpec => []MonitorInv
<1>1. MonitorInit => MonitorInv
  BY MonitorStarts
<1>2. QED
  BY <1>1, MonitorKeeps, MonitorHasPool, TypeCorrect, PTL DEF MonitorSpec

\* The monitor's gauges always count the assets that are down and degraded, however
\* statuses and maps follow each other (pool.rs:640-760).
THEOREM MonitorTypeCorrect == MonitorSpec => []MonitorTypeOK
<1>1. MonitorInv => MonitorTypeOK
  BY DEF MonitorInv
<1>2. QED
  BY <1>1, AlwaysMonitored, PTL

-----------------------------------------------------------------------------
(* Health *)

LEMMA HealthFollows ==
    ASSUME MonitorInv, Told, PoolInv
    PROVE  HealthKnown
<1> SUFFICES ASSUME Settled, NEW a \in Assets, Tracked(a), AtOwnPosition(a)
             PROVE  assetStates[a] = TrueState(a)
  BY DEF HealthKnown
<1> DEFINE p1 == assetToConns[a][1]
           p2 == assetToConns[a][2]
<1>1. Pair(a) = {p1, p2}
  BY DEF Pair
<1>2. p1 \in Indices /\ p2 \in Indices
  BY DEF PoolInv, PlacedInv, Placed
<1>3. connections[p1].id = p1 - 1 /\ connections[p2].id = p2 - 1
  BY <1>1 DEF AtOwnPosition, p1, p2
<1>4. p1 - 1 \in ConnIds /\ p2 - 1 \in ConnIds
  <2>1. \A i \in Indices : connections[i].id \in ConnIds
    <3>1. \A i \in Indices : connections[i] \in Handles
      BY HandleOf DEF PoolInv, TypeInv, Indices
    <3>2. QED
      BY <3>1 DEF Handles
  <2>2. QED
    BY <1>2, <1>3, <2>1
<1>5. \A id \in ConnIds : (connStatus[id] = "up") = live[id]
  BY DEF MonitorInv, MonitorTypeOK, AllReported, Reported, Settled
<1>6. assetConns[a] = assetToConns[a] /\ assetConns[a] # Absent
  BY DEF MonitorInv, Heard, Told, Settled, Tracked
<1> HIDE DEF p1, p2
<1>7. assetStates[a] = StateOf({live[p1 - 1], live[p2 - 1]})
  <2>1. assetStates[a] = StateOf({Up(connStatus, p1), Up(connStatus, p2)})
    BY <1>6 DEF MonitorInv, AllDerived, Derived, p1, p2
  <2>2. Up(connStatus, p1) = live[p1 - 1] /\ Up(connStatus, p2) = live[p2 - 1]
    BY <1>4, <1>5 DEF Up
  <2>3. QED
    BY <2>1, <2>2
<1>8. ConnIdsOf(a) = {p1 - 1, p2 - 1}
  <2>1. Pair(a) \cap Indices = {p1, p2}
    BY <1>1, <1>2 DEF p1, p2
  <2>2. QED
    BY <1>3, <2>1 DEF ConnIdsOf
<1>9. {live[id] : id \in ConnIdsOf(a)} = {live[p1 - 1], live[p2 - 1]}
  BY <1>8
<1>10. QED
  BY <1>7, <1>9 DEF TrueState

\* Whatever the order in which statuses and maps reach it, once the monitor has
\* taken them it reports every asset that is tracked as its connections are, as
\* long as these sit at the position of their id (pool.rs:542-760).
THEOREM MonitorKnowsHealth == ASSUME OneCopy PROVE MonitorSpec => []HealthKnown
<1>1. MonitorSpec => []FullInv
  BY AlwaysFull, MonitorHasPool, PTL
<1>2. MonitorInit => Told
  BY MonitorStarts
<1>3. MonitorSpec => []Told
  BY <1>1, <1>2, MonitorStepsPool, NextTells, PTL DEF MonitorSpec
<1>4. MonitorInv /\ Told /\ FullInv => HealthKnown
  BY HealthFollows DEF FullInv
<1>5. QED
  BY <1>1, <1>3, <1>4, AlwaysMonitored, PTL
=============================================================================
