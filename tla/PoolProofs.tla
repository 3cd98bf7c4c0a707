------------------------------ MODULE PoolProofs -----------------------------
(* Theorems about the pool (module Pool), for any number of markets, any    *)
(* capacity of a connection and any order of calls, placements and commands *)
(* taken.  What is said about where an asset is placed, and about a         *)
(* connection always holding one, takes that no batch lists a market twice  *)
(* (OneCopy); what the tasks end up holding and the capacity do not.        *)
EXTENDS Pool, SequenceTheorems, FiniteSetTheorems, TLAPS

Handles == [id : ConnIds, assets : SUBSET Assets]

-----------------------------------------------------------------------------
(* Types *)

\* The next connection always has an id left while a call may still open one.
Opens == pc \in {"pass1", "pass2", "overflow"} => nextConnId < MaxConns

\* What is still to be collected is a connection of the pool.
Collectable == pc = "gc" => \A i \in toGc : i \in 1..Len(connections)

TypeInv == TypeOK /\ Opens /\ Collectable

LEMMA InitTypes == Init => TypeInv
<1> SUFFICES ASSUME Init PROVE TypeInv
  OBVIOUS
<1>1. /\ connections \in Seq(Handles) /\ pending \in Seq(SUBSET Items)
      /\ unsubs \in Seq(SUBSET Assets)
  BY DEF Init
<1>2. /\ assetToConns \in [Assets -> Nat \X Nat] /\ monitorMap \in [Assets -> Nat \X Nat]
  BY DEF Init, Absent
<1>3. /\ mailbox \in [ConnIds -> Seq(Commands)] /\ desired \in [ConnIds -> SUBSET Assets]
      /\ firstConn \in [Assets -> Nat]
  BY DEF Init, NoFirst
<1>4. /\ nextConnId \in 0..MaxConns /\ markets \in SUBSET Markets
      /\ todo \in SUBSET Items /\ overflow \in SUBSET Items /\ toGc \in SUBSET Nat
      /\ pc = "idle"
  BY PoolAssumption DEF Init
<1>5. removed \in BOOLEAN
  BY DEF Init
<1>6. QED
  BY <1>1, <1>2, <1>3, <1>4, <1>5 DEF TypeInv, TypeOK, Opens, Collectable, Handles

LEMMA Concatenated ==
    ASSUME NEW S, NEW s \in Seq(S), NEW t \in Seq(S)
    PROVE  /\ s \o t \in Seq(S) /\ Len(s \o t) = Len(s) + Len(t)
           /\ \A k \in 1..Len(s) : (s \o t)[k] = s[k]
           /\ \A k \in (Len(s) + 1)..(Len(s) + Len(t)) : (s \o t)[k] = t[k - Len(s)]
  BY ConcatProperties

LEMMA Replaced ==
    ASSUME NEW S, NEW s \in Seq(S), NEW i \in DOMAIN s, NEW e \in S
    PROVE  /\ [s EXCEPT ![i] = e] \in Seq(S) /\ Len([s EXCEPT ![i] = e]) = Len(s)
           /\ \A k \in 1..Len(s) : [s EXCEPT ![i] = e][k] = IF k = i THEN e ELSE s[k]
  OBVIOUS

LEMMA NewHandlesType ==
    ASSUME TypeOK, NEW n \in Nat, nextConnId + n <= MaxConns
    PROVE  /\ NewHandles(n) \in Seq(Handles) /\ Len(NewHandles(n)) = n
           /\ \A k \in 1..n : NewHandles(n)[k].assets = {}
           /\ connections \o NewHandles(n) \in Seq(Handles)
           /\ Len(connections \o NewHandles(n)) = Len(connections) + n
           /\ \A k \in 1..Len(connections) :
                 (connections \o NewHandles(n))[k] = connections[k]
           /\ \A k \in (Len(connections) + 1)..(Len(connections) + n) :
                 (connections \o NewHandles(n))[k].assets = {}
<1>1. /\ nextConnId \in Nat /\ connections \in Seq(Handles)
  BY DEF TypeOK, Handles
<1>2. \A k \in 1..n : nextConnId + k - 1 \in ConnIds
  BY <1>1, PoolAssumption DEF ConnIds
<1>3. NewHandles(n) \in [1..n -> Handles]
  BY <1>2 DEF NewHandles, Handles
<1>4. NewHandles(n) \in Seq(Handles) /\ Len(NewHandles(n)) = n
  BY <1>3
<1>5. \A k \in 1..n : NewHandles(n)[k].assets = {}
  BY DEF NewHandles
<1> DEFINE h == NewHandles(n)
<1> HIDE DEF h
<1>6. /\ connections \o h \in Seq(Handles)
      /\ Len(connections \o h) = Len(connections) + n
      /\ \A k \in 1..Len(connections) : (connections \o h)[k] = connections[k]
      /\ \A k \in (Len(connections) + 1)..(Len(connections) + n) :
            (connections \o h)[k] = h[k - Len(connections)]
  <2>1. h \in Seq(Handles) /\ Len(h) = n
    BY <1>4 DEF h
  <2>2. /\ connections \o h \in Seq(Handles)
        /\ Len(connections \o h) = Len(connections) + Len(h)
        /\ \A k \in 1..Len(connections) : (connections \o h)[k] = connections[k]
        /\ \A k \in (Len(connections) + 1)..(Len(connections) + Len(h)) :
              (connections \o h)[k] = h[k - Len(connections)]
    BY ONLY <1>1, <2>1, Concatenated
  <2>3. QED
    BY <2>1, <2>2, Zenon
<1>7. \A k \in (Len(connections) + 1)..(Len(connections) + n) :
            k - Len(connections) \in 1..n
  BY <1>1
<1>8. QED
  BY <1>4, <1>5, <1>6, <1>7 DEF h

LEMMA SubscribeTypes ==
    ASSUME TypeInv, NEW batch \in SUBSET (Markets \X Copies), SubscribeMarkets(batch)
    PROVE  TypeInv'
<1> DEFINE new   == {l \in batch : l[1] \notin markets}
           items == {it \in Items : <<it[1], it[3]>> \in new}
<1>1. PICK n \in 0..(MaxConns - nextConnId - 1) :
         /\ connections' = connections \o NewHandles(n)
         /\ nextConnId' = nextConnId + n
         /\ pending' = NoPending(Len(connections) + n)
  BY DEF SubscribeMarkets
<1>2. nextConnId \in Nat /\ MaxConns \in Nat /\ n \in Nat /\ nextConnId + n < MaxConns
      /\ Len(connections) \in Nat
  BY <1>1, PoolAssumption DEF TypeInv, TypeOK
<1>3. /\ connections' \in Seq(Handles) /\ Len(connections') = Len(connections) + n
  <2>1. TypeOK /\ nextConnId + n <= MaxConns
    BY <1>2 DEF TypeInv
  <2>2. QED
    BY <1>1, <1>2, <2>1, NewHandlesType
<1>4. pending' \in Seq(SUBSET Items) /\ Len(pending') = Len(connections) + n
  BY <1>1, <1>2 DEF NoPending
<1>5. markets' \in SUBSET Markets
  BY DEF SubscribeMarkets, TypeInv, TypeOK
<1>6. todo' \in SUBSET Items /\ pc' = "pass1"
  BY DEF SubscribeMarkets
<1>7. UNCHANGED <<assetToConns, monitorMap, connVars, firstConn, overflow, unsubs, toGc, removed>>
  BY DEF SubscribeMarkets
<1>8. nextConnId' \in 0..MaxConns /\ nextConnId' < MaxConns
  BY <1>1, <1>2
<1>9. QED
  BY <1>3, <1>4, <1>5, <1>6, <1>7, <1>8 DEF TypeInv, TypeOK, Opens, Collectable, connVars, Handles

LEMMA PlaceTypes ==
    ASSUME TypeInv, NEW item \in Items, Place1(item) \/ Place2(item) \/ Spill(item)
    PROVE  TypeInv'
<1> USE DEF TypeInv, TypeOK, Opens, Collectable, poolVars, connVars
<1>1. CASE Place1(item)
  <2>1. PICK i \in DOMAIN connections :
          /\ pending' = [pending EXCEPT ![i] = @ \cup {item}]
          /\ firstConn' = [firstConn EXCEPT ![AssetOf(item)] = i]
    BY <1>1 DEF Place1
  <2>2. pending' \in Seq(SUBSET Items) /\ Len(pending') = Len(pending)
    BY <1>1, <2>1 DEF Place1
  <2>3. firstConn' \in [Assets -> Nat]
    <3>1. i \in Nat /\ firstConn \in [Assets -> Nat]
      BY <2>1
    <3>2. QED
      BY <2>1, <3>1
  <2>4. todo' \in SUBSET Items
    <3>1. Batch \subseteq Items
      BY DEF Batch
    <3>2. QED
      BY <1>1, <3>1 DEF Place1
  <2>5. /\ pc = "pass1" /\ pc' \in {"pass1", "pass2"}
        /\ UNCHANGED <<poolVars, connVars, overflow, unsubs, toGc, removed>>
    BY <1>1 DEF Place1
  <2>6. QED
    BY <2>2, <2>3, <2>4, <2>5
<1>2. CASE Place2(item)
  <2>1. PICK i \in DOMAIN connections :
          /\ pending' = [pending EXCEPT ![i] = @ \cup {item}]
          /\ assetToConns' = [assetToConns EXCEPT ![AssetOf(item)] = <<firstConn[AssetOf(item)], i>>]
    BY <1>2 DEF Place2
  <2>2. pending' \in Seq(SUBSET Items) /\ Len(pending') = Len(pending)
    BY <1>2, <2>1 DEF Place2
  <2>3. assetToConns' \in [Assets -> Nat \X Nat]
    <3>1. AssetOf(item) \in Assets
      BY DEF AssetOf, Assets, Items
    <3>2. QED
      BY <2>1, <3>1
  <2>4. /\ pc = "pass2" /\ pc' \in {"pass2", "overflow", "dispatch"} /\ todo' \in SUBSET Items
        /\ UNCHANGED <<connections, markets, nextConnId, monitorMap, connVars,
                       firstConn, overflow, unsubs, toGc, removed>>
    BY <1>2 DEF Place2, AfterPass2
  <2>5. QED
    BY <2>2, <2>3, <2>4
<1>3. CASE Spill(item)
  <2>1. /\ pc = "pass2" /\ pc' \in {"pass2", "overflow", "dispatch"} /\ todo' \in SUBSET Items
        /\ overflow' \in SUBSET Items
        /\ UNCHANGED <<poolVars, connVars, pending, firstConn, unsubs, toGc, removed>>
    BY <1>3 DEF Spill, AfterPass2
  <2>2. QED
    BY <2>1
<1>4. QED
  BY <1>1, <1>2, <1>3

LEMMA OverflowTypes ==
    ASSUME TypeInv, PlaceOverflow
    PROVE  TypeInv'
<1>1. nextConnId + 1 <= MaxConns /\ nextConnId \in Nat /\ Len(connections) \in Nat
      /\ Len(pending) = Len(connections)
  BY PoolAssumption DEF TypeInv, TypeOK, Opens, PlaceOverflow
<1>2. connections' \in Seq(Handles) /\ Len(connections') = Len(connections) + 1
  BY <1>1, NewHandlesType DEF PlaceOverflow, TypeInv
<1>3. pending' \in Seq(SUBSET Items) /\ Len(pending') = Len(pending) + 1
  BY AppendProperties DEF PlaceOverflow, TypeInv, TypeOK
<1>4. assetToConns' \in [Assets -> Nat \X Nat]
  BY <1>1 DEF PlaceOverflow, TypeInv, TypeOK
<1>5. nextConnId' \in 0..MaxConns
  BY <1>1, PoolAssumption DEF PlaceOverflow
<1>6. /\ overflow' = {} /\ pc' = "dispatch"
      /\ UNCHANGED <<markets, monitorMap, connVars, todo, firstConn, unsubs, toGc, removed>>
  BY DEF PlaceOverflow
<1>7. QED
  BY <1>1, <1>2, <1>3, <1>4, <1>5, <1>6 DEF TypeInv, TypeOK, Opens, Collectable, connVars, Handles

LEMMA HandleOf ==
    ASSUME TypeOK, NEW i \in DOMAIN connections
    PROVE  connections[i] \in Handles
<1>1. connections \in Seq(Handles)
  BY DEF TypeOK, Handles
<1>2. QED
  BY <1>1

LEMMA HandleChanges ==
    ASSUME TypeOK, NEW i \in DOMAIN connections, NEW assets \in SUBSET Assets,
           connections' = [connections EXCEPT ![i].assets = assets]
    PROVE  /\ connections' \in Seq(Handles) /\ Len(connections') = Len(connections)
           /\ \A k \in 1..Len(connections) :
                 connections'[k].assets = IF k = i THEN assets ELSE connections[k].assets
<1>1. connections \in Seq(Handles)
  BY DEF TypeOK, Handles
<1> DEFINE h == [connections[i] EXCEPT !.assets = assets]
<1>2. h \in Handles /\ h.assets = assets
  <2>1. connections[i] \in Handles
    BY <1>1
  <2>2. QED
    BY <2>1 DEF Handles
<1>3. connections' = [connections EXCEPT ![i] = h]
  OBVIOUS
<1> HIDE DEF h
<1>4. QED
  BY <1>1, <1>2, <1>3, Replaced

LEMMA SendTypes ==
    ASSUME TypeOK, NEW i \in DOMAIN connections, NEW op \in {"subscribe", "unsubscribe"},
           NEW assets \in SUBSET Assets, Send(i, op, assets)
    PROVE  mailbox' \in [ConnIds -> Seq(Commands)]
<1>1. connections[i].id \in ConnIds
  <2>1. connections[i] \in Handles
    BY HandleOf
  <2>2. QED
    BY <2>1 DEF Handles
<1> DEFINE c == [op |-> op, assets |-> assets]
           id == connections[i].id
<1>2. c \in Commands
  BY DEF Commands
<1> HIDE DEF c, id
<1>3. mailbox' = [mailbox EXCEPT ![id] = Append(mailbox[id], c)]
  BY DEF Send, c, id
<1>4. id \in ConnIds /\ mailbox[id] \in Seq(Commands)
  BY <1>1 DEF TypeOK, id
<1>5. Append(mailbox[id], c) \in Seq(Commands)
  BY <1>2, <1>4, AppendProperties
<1>6. QED
  BY <1>3, <1>4, <1>5 DEF TypeOK

LEMMA SendingTypes ==
    ASSUME TypeInv, NEW i, \/ i \in DOMAIN pending /\ Dispatch(i)
                           \/ i \in DOMAIN unsubs /\ SendUnsubscribe(i)
    PROVE  TypeInv'
<1>1. CASE i \in DOMAIN pending /\ Dispatch(i)
  <2> DEFINE assets == {AssetOf(it) : it \in pending[i]}
  <2>1. assets \in SUBSET Assets
    BY <1>1 DEF TypeInv, TypeOK, AssetOf, Assets, Items
  <2>2. i \in DOMAIN connections
    BY <1>1 DEF TypeInv, TypeOK, Dispatch
  <2>3. Send(i, "subscribe", assets) /\ connections' = [connections EXCEPT ![i].assets = @ \cup assets]
    BY <1>1 DEF Dispatch
  <2> HIDE DEF assets
  <2>4. mailbox' \in [ConnIds -> Seq(Commands)]
    BY <2>1, <2>2, <2>3, SendTypes DEF TypeInv
  <2>5. connections' \in Seq(Handles) /\ Len(connections') = Len(connections)
    <3>1. connections' = [connections EXCEPT ![i].assets = connections[i].assets \cup assets]
      BY <2>3
    <3>2. connections[i] \in Handles
      BY <2>2, HandleOf DEF TypeInv
    <3>3. connections[i].assets \cup assets \in SUBSET Assets
      BY <2>1, <3>2 DEF Handles
    <3>4. QED
      BY <2>2, <3>1, <3>3, HandleChanges DEF TypeInv
  <2>6. pending' \in Seq(SUBSET Items) /\ Len(pending') = Len(pending)
    BY <1>1 DEF Dispatch, TypeInv, TypeOK
  <2>7. /\ pc = "dispatch" /\ pc' = pc
        /\ UNCHANGED <<markets, assetToConns, nextConnId, monitorMap, desired, todo, firstConn,
                       overflow, unsubs, toGc, removed>>
    BY <1>1 DEF Dispatch
  <2>8. QED
    BY <2>4, <2>5, <2>6, <2>7 DEF TypeInv, TypeOK, Opens, Collectable, Handles
<1>2. CASE i \in DOMAIN unsubs /\ SendUnsubscribe(i)
  <2>1. unsubs[i] \in SUBSET Assets
    BY <1>2 DEF TypeInv, TypeOK
  <2>2. i \in DOMAIN connections
    <3>1. pc = "unsub"
      BY <1>2 DEF SendUnsubscribe
    <3>2. /\ unsubs \in Seq(SUBSET Assets) /\ Len(unsubs) = Len(connections)
          /\ connections \in Seq(Handles)
      BY <3>1 DEF TypeInv, TypeOK, Handles
    <3>3. QED
      BY <1>2, <3>2
  <2>3. mailbox' \in [ConnIds -> Seq(Commands)]
    BY <1>2, <2>1, <2>2, SendTypes DEF TypeInv, SendUnsubscribe
  <2>4. connections' \in Seq(Handles) /\ Len(connections') = Len(connections)
    <3>1. connections' = [connections EXCEPT ![i].assets = connections[i].assets \ unsubs[i]]
      BY <1>2 DEF SendUnsubscribe
    <3>2. connections[i] \in Handles
      BY <2>2, HandleOf DEF TypeInv
    <3>3. connections[i].assets \ unsubs[i] \in SUBSET Assets
      BY <3>2 DEF Handles
    <3>4. QED
      BY <2>2, <3>1, <3>3, HandleChanges DEF TypeInv
  <2>5. unsubs' \in Seq(SUBSET Assets) /\ Len(unsubs') = Len(unsubs)
    <3>1. unsubs \in Seq(SUBSET Assets) /\ {} \in SUBSET Assets
      BY DEF TypeInv, TypeOK
    <3>2. unsubs' = [unsubs EXCEPT ![i] = {}]
      BY <1>2 DEF SendUnsubscribe
    <3>3. QED
      BY <1>2, <3>1, <3>2, Replaced
  <2>6. /\ pc = "unsub" /\ pc' = pc
        /\ UNCHANGED <<markets, assetToConns, nextConnId, monitorMap, desired, todo, pending,
                       firstConn, overflow, toGc, removed>>
    BY <1>2 DEF SendUnsubscribe
  <2>7. QED
    BY <2>3, <2>4, <2>5, <2>6 DEF TypeInv, TypeOK, Opens, Collectable, Handles
<1>3. QED
  BY <1>1, <1>2

LEMMA UnsubscribeTypes ==
    ASSUME TypeInv, NEW hashes \in SUBSET Markets, UnsubscribeMarkets(hashes)
    PROVE  TypeInv'
<1>1. unsubs' \in Seq(SUBSET Assets) /\ Len(unsubs') = Len(connections)
  <2>1. unsubs' \in [1..Len(connections) -> SUBSET Assets]
    BY DEF UnsubscribeMarkets, AssetsGone, TypeInv, TypeOK
  <2>2. Len(connections) \in Nat
    BY DEF TypeInv, TypeOK
  <2>3. QED
    BY <2>1, <2>2
<1>2. assetToConns' \in [Assets -> Nat \X Nat]
  BY DEF UnsubscribeMarkets, Absent, TypeInv, TypeOK
<1>3. removed' \in BOOLEAN
  BY DEF UnsubscribeMarkets
<1>4. /\ markets' \in SUBSET Markets /\ pc' = "unsub"
      /\ UNCHANGED <<connections, nextConnId, monitorMap, connVars, todo, pending, firstConn,
                     overflow, toGc>>
  BY DEF UnsubscribeMarkets, TypeInv, TypeOK
<1>5. QED
  BY <1>1, <1>2, <1>3, <1>4 DEF TypeInv, TypeOK, Opens, Collectable, connVars

\* swap_remove keeps the other elements, the last one at the place of the removed.
LEMMA SwapRemoved ==
    ASSUME NEW S, NEW s \in Seq(S), NEW i \in 1..Len(s)
    PROVE  /\ SwapRemove(s, i) \in Seq(S) /\ Len(SwapRemove(s, i)) = Len(s) - 1
           /\ \A k \in 1..(Len(s) - 1) :
                 SwapRemove(s, i)[k] = IF k = i THEN s[Len(s)] ELSE s[k]
<1>1. Len(s) \in Nat /\ Len(s) - 1 \in Nat /\ \A k \in 1..Len(s) : s[k] \in S
  OBVIOUS
<1>2. SwapRemove(s, i) \in [1..(Len(s) - 1) -> S]
  BY <1>1 DEF SwapRemove
<1>3. QED
  BY <1>1, <1>2 DEF SwapRemove

LEMMA CollectTypes ==
    ASSUME TypeInv, CollectEmpty \/ RemoveEmpty \/ FinishSubscribe \/ FinishUnsubscribe
    PROVE  TypeInv'
<1>1. CASE CollectEmpty
  <2>1. /\ toGc' \in SUBSET Nat /\ \A i \in toGc' : i \in 1..Len(connections)
        /\ unsubs' = <<>> /\ pc' = "gc"
        /\ UNCHANGED <<poolVars, connVars, todo, pending, firstConn, overflow, removed>>
    BY <1>1 DEF CollectEmpty, TypeInv, TypeOK
  <2>2. <<>> \in Seq(SUBSET Assets)
    OBVIOUS
  <2>3. QED
    BY <2>1, <2>2 DEF TypeInv, TypeOK, Opens, Collectable, poolVars, connVars
<1>2. CASE RemoveEmpty
  <2>1. PICK i \in toGc :
          /\ pc = "gc" /\ pc' = pc /\ \A j \in toGc : j <= i
          /\ connections' = SwapRemove(connections, i)
          /\ assetToConns' = [a \in Assets |->
                                  <<Repointed(assetToConns[a][1], Len(connections), i),
                                    Repointed(assetToConns[a][2], Len(connections), i)>>]
          /\ toGc' = toGc \ {i}
          /\ UNCHANGED <<markets, nextConnId, monitorMap, connVars, todo,
                       pending, firstConn, overflow, unsubs, removed>>
    BY <1>2 DEF RemoveEmpty
  <2>2. connections \in Seq(Handles) /\ i \in 1..Len(connections)
    BY <2>1 DEF TypeInv, TypeOK, Handles, Collectable
  <2>3. connections' \in Seq(Handles) /\ Len(connections') = Len(connections) - 1
    BY <2>1, <2>2, SwapRemoved
  <2>4. assetToConns' \in [Assets -> Nat \X Nat]
    BY <2>1, <2>2 DEF Repointed, TypeInv, TypeOK
  <2>5. \A j \in toGc' : j \in 1..Len(connections')
    BY <2>1, <2>2, <2>3 DEF TypeInv, Collectable
  <2>6. QED
    BY <2>1, <2>3, <2>4, <2>5 DEF TypeInv, TypeOK, Opens, Collectable, connVars, Handles
<1>3. CASE FinishSubscribe
  <2>1. /\ monitorMap' = assetToConns /\ pc' = "idle"
        /\ pending' \in Seq(SUBSET Items) /\ firstConn' \in [Assets -> Nat]
        /\ UNCHANGED <<connections, markets, assetToConns, nextConnId, connVars,
                       todo, overflow, unsubs, toGc, removed>>
    BY <1>3 DEF FinishSubscribe, NoFirst
  <2>2. QED
    BY <2>1 DEF TypeInv, TypeOK, Opens, Collectable, connVars
<1>4. CASE FinishUnsubscribe
  <2>1. removed' \in BOOLEAN
    BY <1>4 DEF FinishUnsubscribe
  <2>2. /\ monitorMap' \in [Assets -> Nat \X Nat] /\ pc' = "idle"
        /\ UNCHANGED <<connections, markets, assetToConns, nextConnId, connVars,
                       todo, pending, firstConn, overflow, unsubs, toGc>>
    BY <1>4 DEF FinishUnsubscribe, TypeInv, TypeOK
  <2>3. QED
    BY <2>1, <2>2 DEF TypeInv, TypeOK, Opens, Collectable, connVars
<1>5. QED
  BY <1>1, <1>2, <1>3, <1>4

LEMMA ReceiveTypes ==
    ASSUME TypeInv, NEW id \in ConnIds, Receive(id)
    PROVE  TypeInv'
<1>1. mailbox[id] \in Seq(Commands) /\ mailbox[id] # <<>>
  BY DEF TypeInv, TypeOK, Receive
<1>2. Head(mailbox[id]) \in Commands /\ Tail(mailbox[id]) \in Seq(Commands)
  BY <1>1, HeadTailProperties
<1>3. mailbox' \in [ConnIds -> Seq(Commands)]
  BY <1>2 DEF TypeInv, TypeOK, Receive
<1>4. Head(mailbox[id]).assets \in SUBSET Assets
  BY <1>2 DEF Commands
<1>5. desired' \in [ConnIds -> SUBSET Assets]
  BY <1>4 DEF TypeInv, TypeOK, Receive
<1>6. UNCHANGED <<poolVars, callVars>>
  BY DEF Receive
<1>7. QED
  BY <1>3, <1>5, <1>6 DEF TypeInv, TypeOK, Opens, Collectable, poolVars, callVars

LEMMA NextTypes ==
    ASSUME TypeInv, [Next]_vars
    PROVE  TypeInv'
<1>1. CASE UNCHANGED vars
  BY <1>1 DEF TypeInv, TypeOK, Opens, Collectable, vars, poolVars, connVars, callVars
<1>2. QED
  BY <1>1, SubscribeTypes, PlaceTypes, OverflowTypes, SendingTypes, UnsubscribeTypes,
     CollectTypes, ReceiveTypes DEF Next, CallStep

\* The vectors of a call stay as long as the vector of the connections, and every
\* index to be collected is one of it: no access is out of bounds (pool.rs:209-366).
THEOREM TypeCorrect == Spec => []TypeOK
<1>1. TypeInv => TypeOK
  BY DEF TypeInv
<1>2. QED
  BY <1>1, InitTypes, NextTypes, PTL DEF Spec

-----------------------------------------------------------------------------
(* Where the assets are *)

\* A market is listed at most once in a batch.
OneCopy == \A c, d \in Copies : c = d

\* The handle of connection i holds a, and no command to give it up is due.
On(i, a) == a \in connections[i].assets /\ ~(pc = "unsub" /\ a \in unsubs[i])

\* A subscription of a on connection i is due.
Due(i, a) == i \in DOMAIN pending /\ \E it \in pending[i] : AssetOf(it) = a

\* a waits for a connection: its first in pass 1, its second after it.
Waits(a) == \E it \in todo \cup overflow : AssetOf(it) = a

\* The handles, with what is due, say what the reverse index says.
Placed(a) ==
    IF Tracked(a)
    THEN /\ assetToConns[a][1] \in Indices /\ assetToConns[a][2] \in Indices
         /\ assetToConns[a][1] # assetToConns[a][2]
         /\ \A i \in Indices : On(i, a) \/ Due(i, a) <=> i \in Pair(a)
    ELSE /\ firstConn[a] \in Indices \cup {0}
         /\ \A i \in Indices : ~On(i, a) /\ (Due(i, a) <=> i = firstConn[a])

Registered(a) == a[1] \in markets <=> Tracked(a) \/ Waits(a) \/ firstConn[a] # 0

Awaited(a) ==
    IF pc = "pass1"
    THEN /\ Waits(a) => ~Tracked(a) /\ firstConn[a] = 0
         /\ Tracked(a) => firstConn[a] = 0 /\ \A i \in Indices : ~Due(i, a)
    ELSE Waits(a) <=> ~Tracked(a) /\ firstConn[a] # 0

Between ==
    /\ pc \in {"idle", "unsub", "gc"} => pending = <<>> /\ \A a \in Assets : firstConn[a] = 0
    /\ pc \notin {"pass1", "pass2"} => todo = {}
    /\ pc \notin {"pass2", "overflow"} => overflow = {}
    /\ todo \cap overflow = {}

Emptied == pc = "gc" => \A i \in toGc, a \in Assets : ~On(i, a)

PlacedInv == \A a \in Assets : Placed(a) /\ Registered(a) /\ Awaited(a)

PoolInv == TypeInv /\ Between /\ Emptied /\ PlacedInv

\* What the steps below take from the types.
LEMMA Shape ==
    ASSUME TypeInv
    PROVE  /\ Len(connections) \in Nat /\ Indices = 1..Len(connections)
           /\ DOMAIN pending = 1..Len(pending)
           /\ \A a \in Assets : /\ assetToConns[a] = <<assetToConns[a][1], assetToConns[a][2]>>
                                /\ assetToConns[a][1] \in Nat /\ assetToConns[a][2] \in Nat
                                /\ firstConn[a] \in Nat
<1>1. /\ connections \in Seq(Handles) /\ pending \in Seq(SUBSET Items)
      /\ assetToConns \in [Assets -> Nat \X Nat] /\ firstConn \in [Assets -> Nat]
  BY DEF TypeInv, TypeOK, Handles
<1>2. QED
  BY <1>1 DEF Indices

LEMMA InitPlaced == Init => PoolInv
<1> SUFFICES ASSUME Init PROVE PoolInv
  OBVIOUS
<1>1. TypeInv
  BY InitTypes
<1>2. Between /\ Emptied
  BY DEF Init, Between, Emptied, NoFirst
<1>3. ASSUME NEW a \in Assets
      PROVE  Placed(a) /\ Registered(a) /\ Awaited(a)
  <2>1. ~Tracked(a) /\ ~Waits(a) /\ firstConn[a] = 0 /\ Indices = {}
    BY DEF Init, Tracked, Waits, NoFirst, Indices
  <2>2. a[1] \notin markets /\ pc = "idle"
    BY DEF Init
  <2>3. QED
    BY <2>1, <2>2 DEF Placed, Registered, Awaited
<1>4. QED
  BY <1>1, <1>2, <1>3 DEF PoolInv, PlacedInv

LEMMA SubscribePlaces ==
    ASSUME PoolInv, TypeInv', NEW batch \in SUBSET (Markets \X Copies), SubscribeMarkets(batch)
    PROVE  PoolInv'
<1> DEFINE new   == {l \in batch : l[1] \notin markets}
           items == {it \in Items : <<it[1], it[3]>> \in new}
<1>1. PICK n \in 0..(MaxConns - nextConnId - 1) :
         /\ connections' = connections \o NewHandles(n)
         /\ nextConnId' = nextConnId + n
         /\ pending' = NoPending(Len(connections) + n)
  BY DEF SubscribeMarkets
<1>2. /\ pc = "idle" /\ pc' = "pass1" /\ todo' = items
      /\ markets' = markets \cup {l[1] : l \in new}
      /\ UNCHANGED <<assetToConns, firstConn, overflow>>
  BY DEF SubscribeMarkets
<1>3. /\ pending = <<>> /\ todo = {} /\ overflow = {}
      /\ \A a \in Assets : firstConn[a] = 0
  BY <1>2 DEF PoolInv, Between
<1>4. Between' /\ Emptied'
  BY <1>2, <1>3 DEF Between, Emptied
<1>5. n \in Nat /\ nextConnId + n <= MaxConns /\ TypeOK /\ Len(connections) \in Nat
  BY PoolAssumption, Shape DEF PoolInv, TypeInv, TypeOK
<1>6. /\ Indices' = 1..(Len(connections) + n)
      /\ \A k \in 1..Len(connections) : connections'[k] = connections[k]
      /\ \A k \in (Len(connections) + 1)..(Len(connections) + n) : connections'[k].assets = {}
  <2>1. connections' \in Seq(Handles) /\ Len(connections') = Len(connections) + n
    BY <1>1, <1>5, NewHandlesType
  <2>2. /\ \A k \in 1..Len(connections) : connections'[k] = connections[k]
        /\ \A k \in (Len(connections) + 1)..(Len(connections) + n) : connections'[k].assets = {}
    BY <1>1, <1>5, NewHandlesType
  <2>3. QED
    BY <2>1, <2>2 DEF Indices
<1>7. ASSUME NEW a \in Assets, NEW i \in Indices'
      PROVE  (On(i, a)' <=> i \in Indices /\ On(i, a)) /\ ~Due(i, a)'
  <2>1. On(i, a)' <=> i \in Indices /\ On(i, a)
    <3>1. Indices = 1..Len(connections)
      BY Shape DEF PoolInv
    <3>2. QED
      BY <1>2, <1>5, <1>6, <1>7, <3>1 DEF On
  <2>2. ~Due(i, a)'
    BY <1>1, <1>5 DEF Due, NoPending
  <2>3. QED
    BY <2>1, <2>2
<1>8. ASSUME NEW a \in Assets
      PROVE  /\ Waits(a)' <=> a[1] \in markets' /\ a[1] \notin markets
             /\ ~Waits(a)
             /\ Tracked(a)' <=> Tracked(a)
             /\ Pair(a)' = Pair(a)
             /\ assetToConns'[a] = assetToConns[a]
  <2>1. Waits(a)' <=> \E it \in items : AssetOf(it) = a
    BY <1>2, <1>3 DEF Waits
  <2>2. (\E it \in items : AssetOf(it) = a) <=> \E c \in Copies : <<a[1], c>> \in new
    <3>1. a = <<a[1], a[2]>> /\ a[1] \in Markets /\ a[2] \in {1, 2}
      BY DEF Assets
    <3>2. ASSUME NEW it \in items, AssetOf(it) = a
          PROVE  \E c \in Copies : <<a[1], c>> \in new
      <4>1. it[1] = a[1] /\ it[3] \in Copies /\ <<it[1], it[3]>> \in new
        BY <3>2 DEF AssetOf, Items
      <4>2. QED
        BY <4>1
    <3>3. ASSUME NEW c \in Copies, <<a[1], c>> \in new
          PROVE  \E it \in items : AssetOf(it) = a
      <4> DEFINE it == <<a[1], a[2], c>>
      <4>1. it \in Items /\ it[1] = a[1] /\ it[2] = a[2] /\ it[3] = c
        BY <3>1 DEF Items
      <4>2. it \in items
        BY <3>3, <4>1
      <4>3. AssetOf(it) = a
        BY <3>1, <4>1 DEF AssetOf
      <4>4. QED
        BY <4>2, <4>3
    <3>4. QED
      BY <3>2, <3>3
  <2>3. (\E c \in Copies : <<a[1], c>> \in new) <=> a[1] \in {l[1] : l \in new}
    <3>1. \A l \in new : l = <<l[1], l[2]>> /\ l[2] \in Copies
      OBVIOUS
    <3> HIDE DEF new
    <3>2. ASSUME NEW c \in Copies, <<a[1], c>> \in new
          PROVE  a[1] \in {l[1] : l \in new}
      <4>1. <<a[1], c>>[1] = a[1]
        OBVIOUS
      <4>2. QED
        BY <3>2, <4>1
    <3>3. ASSUME NEW l \in new, l[1] = a[1]
          PROVE  \E c \in Copies : <<a[1], c>> \in new
      <4>1. l = <<a[1], l[2]>> /\ l[2] \in Copies
        BY <3>1, <3>3
      <4>2. QED
        BY <4>1
    <3>4. QED
      BY <3>2, <3>3
  <2>4. a[1] \in {l[1] : l \in new} <=> a[1] \in markets' /\ a[1] \notin markets
    BY <1>2
  <2>5. ~Waits(a)
    BY <1>3 DEF Waits
  <2>6. QED
    BY <1>2, <2>1, <2>2, <2>3, <2>4, <2>5 DEF Tracked, Pair
<1>9. ASSUME NEW a \in Assets
      PROVE  Placed(a)' /\ Registered(a)' /\ Awaited(a)'
  <2>1. Placed(a) /\ Registered(a) /\ Awaited(a)
    BY DEF PoolInv, PlacedInv
  <2>2. /\ Indices \subseteq Indices' /\ Indices = 1..Len(connections) /\ 0 \notin Indices'
        /\ assetToConns[a][1] \in Nat /\ assetToConns[a][2] \in Nat
    BY <1>5, <1>6, Shape DEF PoolInv
  <2>3. firstConn'[a] = 0 /\ firstConn[a] = 0
    BY <1>2, <1>3
  <2>4. \A i \in Indices : ~Due(i, a)
    BY <1>3 DEF Due
  <2>5. Pair(a) = {assetToConns[a][1], assetToConns[a][2]} /\ markets \subseteq markets'
    BY <1>2 DEF Pair
  <2>6. Placed(a)'
    BY <1>7, <1>8, <2>1, <2>2, <2>3, <2>4, <2>5 DEF Placed
  <2>7. Registered(a)'
    BY <1>8, <2>1, <2>3, <2>5 DEF Registered
  <2>8. Awaited(a)'
    BY <1>2, <1>7, <1>8, <2>1, <2>3, <2>5 DEF Awaited, Registered
  <2>9. QED
    BY <2>6, <2>7, <2>8
<1>10. QED
  BY <1>4, <1>9 DEF PoolInv, PlacedInv

LEMMA OneItem ==
    ASSUME OneCopy, NEW it \in Items, NEW it2 \in Items, AssetOf(it) = AssetOf(it2)
    PROVE  it = it2
<1>1. /\ it = <<it[1], it[2], it[3]>> /\ it2 = <<it2[1], it2[2], it2[3]>>
      /\ it[3] \in Copies /\ it2[3] \in Copies
  BY DEF Items
<1>2. it[1] = it2[1] /\ it[2] = it2[2]
  BY DEF AssetOf
<1>3. it[3] = it2[3]
  BY <1>1 DEF OneCopy
<1>4. QED
  BY <1>1, <1>2, <1>3, Zenon

LEMMA ItemAsset ==
    ASSUME NEW it \in Items
    PROVE  AssetOf(it) \in Assets
  BY DEF AssetOf, Assets, Items

\* An item is put down for connection n.
LEMMA PutDown ==
    ASSUME TypeInv, pc \in {"pass1", "pass2"}, NEW item \in Items, NEW n \in Indices,
           pending' = [pending EXCEPT ![n] = @ \cup {item}]
    PROVE  \A i, a : Due(i, a)' <=> Due(i, a) \/ (i = n /\ a = AssetOf(item))
<1>1. n \in DOMAIN pending /\ DOMAIN pending' = DOMAIN pending
  BY Shape DEF TypeInv, TypeOK
<1>2. \A i \in DOMAIN pending : pending'[i] = IF i = n THEN pending[i] \cup {item} ELSE pending[i]
  BY <1>1
<1>3. QED
  BY <1>1, <1>2 DEF Due

LEMMA FirstPlaces ==
    ASSUME OneCopy, PoolInv, TypeInv', NEW item \in Items, Place1(item)
    PROVE  PoolInv'
<1> DEFINE b == AssetOf(item)
<1>1. PICK n \in Indices : /\ pending' = [pending EXCEPT ![n] = @ \cup {item}]
                           /\ firstConn' = [firstConn EXCEPT ![b] = n]
  BY DEF Place1, Indices
<1>2. /\ pc = "pass1" /\ item \in todo
      /\ UNCHANGED <<connections, markets, assetToConns, overflow>>
  BY DEF Place1, poolVars
<1>3. /\ todo \subseteq Items /\ overflow = {} /\ b \in Assets
      /\ firstConn \in [Assets -> Nat] /\ n \in Nat /\ n # 0 /\ 0 \notin Indices
      /\ TypeInv
  <2>1. overflow = {}
    BY <1>2 DEF PoolInv, Between
  <2>2. n \in Nat /\ n # 0 /\ 0 \notin Indices
    BY Shape DEF PoolInv
  <2>3. QED
    BY <2>1, <2>2, ItemAsset DEF PoolInv, TypeInv, TypeOK
<1>4. \A i, a : Due(i, a)' <=> Due(i, a) \/ (i = n /\ a = b)
  BY <1>1, <1>2, <1>3, PutDown
<1>5. /\ Indices' = Indices /\ pc' \in {"pass1", "pass2"}
      /\ \A a \in Assets : /\ firstConn'[a] = IF a = b THEN n ELSE firstConn[a]
                           /\ Tracked(a)' <=> Tracked(a)
                           /\ Pair(a)' = Pair(a)
                           /\ \A i \in Indices : On(i, a)' <=> On(i, a)
  <2>1. pc' \in {"pass1", "pass2"}
    BY <1>2 DEF Place1
  <2>2. QED
    BY <1>1, <1>2, <1>3, <2>1 DEF Indices, Tracked, Pair, On
<1>6. Waits(b)
  BY <1>2 DEF Waits
<1> HIDE DEF b
<1>7. Between' /\ Emptied'
  BY <1>2, <1>3, <1>5 DEF Between, Emptied
<1>8. ASSUME NEW a \in Assets
      PROVE  Placed(a)' /\ Registered(a)' /\ Awaited(a)'
  <2>1. Placed(a) /\ Registered(a) /\ Awaited(a) /\ Awaited(b) /\ Placed(b) /\ Registered(b)
    BY <1>3 DEF PoolInv, PlacedInv
  <2>2. ~Tracked(b) /\ firstConn[b] = 0
    BY <1>2, <1>6, <2>1 DEF Awaited
  <2>3. Placed(a)'
    BY <1>2, <1>3, <1>4, <1>5, <2>1, <2>2 DEF Placed
  <2>4. pc' = "pass1" => (Waits(a)' <=> Waits(a) /\ a # b)
    <3>1. SUFFICES ASSUME pc' = "pass1" PROVE Waits(a)' <=> Waits(a) /\ a # b
      OBVIOUS
    <3>2. todo' = todo \ {item}
      BY <1>2, <3>1 DEF Place1
    <3>3. \A it \in todo : AssetOf(it) = b => it = item
      BY <1>3, OneItem DEF b
    <3>4. QED
      BY <1>2, <1>3, <3>2, <3>3 DEF Waits, b
  <2>5. pc' = "pass2" => (Waits(a)' <=> a = b \/ \E i \in Indices : Due(i, a))
    <3>1. SUFFICES ASSUME pc' = "pass2"
                   PROVE  Waits(a)' <=> a = b \/ \E i \in Indices : Due(i, a)
      OBVIOUS
    <3>2. todo' = Batch \cup {item}
      BY <1>2, <3>1 DEF Place1
    <3>3. DOMAIN pending = Indices
      BY <1>2, Shape DEF PoolInv, TypeInv, TypeOK
    <3>4. (\E it \in Batch : AssetOf(it) = a) <=> \E i \in Indices : Due(i, a)
      BY <3>3 DEF Batch, Due
    <3>5. QED
      BY <1>2, <1>3, <3>2, <3>4 DEF Waits, b
  <2>6. pc' = "pass2" => (Waits(a) => a = b)
    <3>1. pc' = "pass2" => todo = {item}
      BY <1>2 DEF Place1
    <3>2. QED
      BY <1>3, <3>1 DEF Waits, b
  <2>7. Awaited(a)'
    <3>1. CASE pc' = "pass1"
      BY <1>2, <1>3, <1>4, <1>5, <2>1, <2>2, <2>4, <3>1 DEF Awaited
    <3>2. CASE pc' = "pass2"
      <4>1. Waits(a)' <=> a = b \/ \E i \in Indices : Due(i, a)
        BY <2>5, <3>2
      <4>2. (\E i \in Indices : Due(i, a)) <=> ~Tracked(a) /\ firstConn[a] # 0
        BY <1>2, <1>3, <2>1 DEF Placed, Awaited
      <4>3. QED
        BY <1>3, <1>5, <2>2, <3>2, <4>1, <4>2 DEF Awaited
    <3>3. QED
      BY <1>5, <3>1, <3>2
  <2>8. Registered(a)'
    <3>1. CASE pc' = "pass1"
      BY <1>2, <1>3, <1>5, <1>6, <2>1, <2>4, <3>1 DEF Registered
    <3>2. CASE pc' = "pass2"
      <4>1. Tracked(a)' \/ Waits(a)' \/ firstConn'[a] # 0 <=> Tracked(a) \/ a = b \/ firstConn[a] # 0
        BY <1>3, <1>5, <2>7, <3>2 DEF Awaited
      <4>2. QED
        BY <1>2, <1>6, <2>1, <2>6, <3>2, <4>1 DEF Registered
    <3>3. QED
      BY <1>5, <3>1, <3>2
  <2>9. QED
    BY <2>3, <2>7, <2>8
<1>9. QED
  BY <1>7, <1>8 DEF PoolInv, PlacedInv

LEMMA SecondPlaces ==
    ASSUME OneCopy, PoolInv, TypeInv', NEW item \in Items, Place2(item)
    PROVE  PoolInv'
<1> DEFINE b == AssetOf(item)
<1>1. PICK n \in Indices : /\ n # firstConn[b]
                           /\ pending' = [pending EXCEPT ![n] = @ \cup {item}]
                           /\ assetToConns' = [assetToConns EXCEPT ![b] = <<firstConn[b], n>>]
  BY DEF Place2, FirstFit, Fits, Indices
<1>2. /\ pc = "pass2" /\ item \in todo /\ todo' = todo \ {item}
      /\ UNCHANGED <<connections, markets, firstConn, overflow>>
      /\ pc' \in {"pass2", "overflow", "dispatch"}
      /\ pc' # "pass2" => todo' = {}
      /\ pc' = "dispatch" => overflow = {}
  BY DEF Place2, AfterPass2
<1>3. /\ todo \subseteq Items /\ overflow \subseteq Items /\ b \in Assets /\ TypeInv
      /\ assetToConns \in [Assets -> Nat \X Nat] /\ 0 \notin Indices /\ n # 0
      /\ todo \cap overflow = {}
  <2>1. 0 \notin Indices /\ n # 0
    BY Shape DEF PoolInv
  <2>2. /\ todo \subseteq Items /\ overflow \subseteq Items /\ TypeInv
        /\ assetToConns \in [Assets -> Nat \X Nat]
    BY DEF PoolInv, TypeInv, TypeOK
  <2>3. b \in Assets
    BY ItemAsset
  <2>4. todo \cap overflow = {}
    BY DEF PoolInv, Between
  <2>5. QED
    BY <2>1, <2>2, <2>3, <2>4
<1>4. \A i, a : Due(i, a)' <=> Due(i, a) \/ (i = n /\ a = b)
  BY <1>1, <1>2, <1>3, PutDown
<1>5. Waits(b)
  BY <1>2 DEF Waits
<1>6. Placed(b) /\ Awaited(b) /\ Registered(b)
  BY <1>3 DEF PoolInv, PlacedInv
<1>7. ~Tracked(b) /\ firstConn[b] \in Indices
  BY <1>2, <1>5, <1>6 DEF Awaited, Placed
<1>8. \A a \in Assets : Waits(a)' <=> Waits(a) /\ a # b
  <2>1. \A it \in todo \cup overflow : AssetOf(it) = b => it = item
    BY <1>3, OneItem
  <2>2. todo' \cup overflow' = (todo \cup overflow) \ {item}
    BY <1>2, <1>3
  <2>3. QED
    BY <2>1, <2>2 DEF Waits
<1> HIDE DEF b
<1>9. /\ Indices' = Indices
      /\ \A a \in Assets : /\ assetToConns'[a] = IF a = b THEN <<firstConn[b], n>> ELSE assetToConns[a]
                           /\ \A i \in Indices : On(i, a)' <=> On(i, a)
  BY <1>1, <1>2, <1>3 DEF Indices, On
<1>10. \A a \in Assets : /\ Tracked(a)' <=> Tracked(a) \/ a = b
                         /\ Pair(a)' = IF a = b THEN {firstConn[b], n} ELSE Pair(a)
  BY <1>3, <1>7, <1>9 DEF Tracked, Absent, Pair
<1>11. Between' /\ Emptied'
  BY <1>2, <1>3 DEF Between, Emptied
<1>12. ASSUME NEW a \in Assets
       PROVE  Placed(a)' /\ Registered(a)' /\ Awaited(a)'
  <2>1. Placed(a) /\ Registered(a) /\ Awaited(a)
    BY DEF PoolInv, PlacedInv
  <2>2. CASE a = b
    <3>1. Placed(a)'
      BY <1>1, <1>4, <1>6, <1>7, <1>9, <1>10, <2>2 DEF Placed
    <3>2. Registered(a)' /\ Awaited(a)'
      BY <1>2, <1>5, <1>6, <1>7, <1>8, <1>10, <2>2 DEF Registered, Awaited
    <3>3. QED
      BY <3>1, <3>2
  <2>3. CASE a # b
    <3>1. Placed(a)'
      BY <1>2, <1>4, <1>9, <1>10, <2>1, <2>3 DEF Placed
    <3>2. Registered(a)' /\ Awaited(a)'
      BY <1>2, <1>8, <1>10, <2>1, <2>3 DEF Registered, Awaited
    <3>3. QED
      BY <3>1, <3>2
  <2>4. QED
    BY <2>2, <2>3
<1>13. QED
  BY <1>11, <1>12 DEF PoolInv, PlacedInv

LEMMA SpillPlaces ==
    ASSUME PoolInv, TypeInv', NEW item \in Items, Spill(item)
    PROVE  PoolInv'
<1>1. /\ pc = "pass2" /\ item \in todo /\ todo' = todo \ {item}
      /\ overflow' = overflow \cup {item}
      /\ UNCHANGED <<connections, markets, assetToConns, pending, firstConn>>
      /\ pc' \in {"pass2", "overflow"}
      /\ pc' # "pass2" => todo' = {}
  BY DEF Spill, AfterPass2, poolVars
<1>2. \A a \in Assets : /\ Waits(a)' <=> Waits(a)
                        /\ Tracked(a)' <=> Tracked(a)
                        /\ Pair(a)' = Pair(a)
                        /\ \A i : (On(i, a)' <=> On(i, a)) /\ (Due(i, a)' <=> Due(i, a))
  BY <1>1 DEF Waits, Tracked, Pair, On, Due
<1>3. Indices' = Indices
  BY <1>1 DEF Indices
<1>4. Between' /\ Emptied'
  BY <1>1 DEF Between, Emptied, PoolInv
<1>5. ASSUME NEW a \in Assets
      PROVE  Placed(a)' /\ Registered(a)' /\ Awaited(a)'
  <2>1. Placed(a) /\ Registered(a) /\ Awaited(a)
    BY DEF PoolInv, PlacedInv
  <2>2. QED
    BY <1>1, <1>2, <1>3, <2>1 DEF Placed, Registered, Awaited
<1>6. QED
  BY <1>4, <1>5 DEF PoolInv, PlacedInv

LEMMA IndexRange == TypeInv => Len(connections) \in Nat /\ Indices = 1..Len(connections)
  BY Shape

LEMMA IndexRangeNext ==
    TypeInv' => (Len(connections) \in Nat /\ Indices = 1..Len(connections))'
  BY IndexRange, PTL

LEMMA OverflowPlaces ==
    ASSUME PoolInv, TypeInv', PlaceOverflow
    PROVE  PoolInv'
<1>0. PICK last \in Nat : last = Len(connections) + 1
  BY Shape DEF PoolInv
<1>1. /\ pc = "overflow" /\ pc' = "dispatch" /\ overflow' = {}
      /\ connections' = connections \o NewHandles(1)
      /\ pending' = Append(pending, overflow)
      /\ UNCHANGED <<markets, todo, firstConn>>
  BY DEF PlaceOverflow
<1>2. TypeInv /\ todo = {} /\ overflow \subseteq Items /\ pending \in Seq(SUBSET Items)
      /\ Len(pending) = Len(connections) /\ Len(connections) \in Nat
      /\ assetToConns \in [Assets -> Nat \X Nat]
  <2>1. TypeInv /\ todo = {} /\ Len(connections) \in Nat
    BY <1>1, Shape DEF PoolInv, Between
  <2>2. QED
    BY <1>1, <2>1 DEF TypeInv, TypeOK
<1>3. /\ Indices = 1..Len(connections) /\ Indices' = 1..last
      /\ \A k \in Indices : connections'[k] = connections[k]
      /\ connections'[last].assets = {}
  <2>1. nextConnId + 1 <= MaxConns /\ TypeOK
    BY <1>1, PoolAssumption DEF PoolInv, TypeInv, TypeOK, Opens
  <2>2. /\ connections' \in Seq(Handles) /\ Len(connections') = last
        /\ \A k \in 1..Len(connections) : connections'[k] = connections[k]
        /\ \A k \in last..last : connections'[k].assets = {}
    BY <1>0, <1>1, <2>1, NewHandlesType
  <2>3. QED
    BY <1>0, <1>2, <2>2, Shape DEF Indices
<1>4. /\ DOMAIN pending = 1..Len(connections) /\ DOMAIN pending' = 1..last
      /\ \A k \in 1..Len(connections) : pending'[k] = pending[k]
      /\ pending'[last] = overflow
  BY <1>0, <1>1, <1>2, AppendProperties
<1>5. last \notin Indices /\ last \in Nat /\ last # 0 /\ 0 \notin Indices /\ Indices' = Indices \cup {last}
  BY <1>0, <1>2, <1>3
<1>5a. /\ DOMAIN pending = Indices /\ DOMAIN pending' = Indices \cup {last}
       /\ \A k \in Indices : pending'[k] = pending[k]
  BY <1>0, <1>3, <1>4, <1>5
<1>6. \A a \in Assets : Waits(a) <=> \E it \in overflow : AssetOf(it) = a
  BY <1>2 DEF Waits
<1>7. ASSUME NEW a \in Assets
      PROVE  /\ \A i \in Indices : (On(i, a)' <=> On(i, a)) /\ (Due(i, a)' <=> Due(i, a))
             /\ ~On(last, a)' /\ (Due(last, a)' <=> Waits(a))
             /\ ~Waits(a)'
             /\ assetToConns'[a] = IF Waits(a) THEN <<firstConn[a], last>> ELSE assetToConns[a]
  <2>1. \A i \in Indices : On(i, a)' <=> On(i, a)
    BY <1>1, <1>3 DEF On
  <2>2. \A i \in Indices : Due(i, a)' <=> Due(i, a)
    BY <1>5a DEF Due
  <2>3. ~On(last, a)'
    <3>1. a \notin connections'[last].assets
      BY <1>3
    <3>2. QED
      BY <3>1 DEF On
  <2>4. Due(last, a)' <=> Waits(a)
    <3>1. last \in DOMAIN pending' /\ pending'[last] = overflow
      BY <1>4, <1>5
    <3>2. QED
      BY <1>6, <3>1 DEF Due
  <2>5. ~Waits(a)'
    BY <1>1, <1>2 DEF Waits
  <2>6. assetToConns'[a] = IF Waits(a) THEN <<firstConn[a], last>> ELSE assetToConns[a]
    <3>1. Waits(a) <=> a \in {AssetOf(it) : it \in overflow}
      BY <1>6
    <3>2. QED
      BY <1>0, <3>1 DEF PlaceOverflow
  <2>7. QED
    BY <2>1, <2>2, <2>3, <2>4, <2>5, <2>6
<1>8. Between' /\ Emptied'
  BY <1>1, <1>2 DEF Between, Emptied
<1>9. ASSUME NEW a \in Assets
      PROVE  Placed(a)' /\ Registered(a)' /\ Awaited(a)'
  <2>1. Placed(a) /\ Registered(a) /\ Awaited(a)
    BY DEF PoolInv, PlacedInv
  <2>2. CASE Waits(a)
    <3>1. ~Tracked(a) /\ firstConn[a] \in Indices /\ firstConn'[a] = firstConn[a]
      BY <1>1, <2>1, <2>2 DEF Awaited, Placed
    <3>2. Tracked(a)' /\ assetToConns'[a] = <<firstConn[a], last>> /\ Pair(a)' = {firstConn[a], last}
      <4>1. assetToConns'[a] = <<firstConn[a], last>>
        BY <1>7, <2>2
      <4>2. last # 0
        BY <1>5
      <4>3. QED
        BY <4>1, <4>2 DEF Tracked, Absent, Pair
    <3>3. Placed(a)'
      <4>1. /\ firstConn[a] \in Indices' /\ last \in Indices' /\ firstConn[a] # last
        BY <1>5, <3>1
      <4>2. \A i \in Indices : ~On(i, a) /\ (Due(i, a) <=> i = firstConn[a])
        BY <2>1, <3>1 DEF Placed
      <4>3. \A i \in Indices' : On(i, a)' \/ Due(i, a)' <=> i \in {firstConn[a], last}
        <5>1. \A i \in Indices : On(i, a)' \/ Due(i, a)' <=> i \in {firstConn[a], last}
          BY <1>5, <1>7, <4>2
        <5>2. On(last, a)' \/ Due(last, a)'
          BY <1>7, <2>2
        <5>3. QED
          BY <1>5, <5>1, <5>2
      <4>4. assetToConns'[a][1] = firstConn[a] /\ assetToConns'[a][2] = last
        BY <3>2
      <4>5. QED
        BY <3>2, <4>1, <4>3, <4>4 DEF Placed
    <3>4. Registered(a)' /\ Awaited(a)'
      BY <1>1, <1>7, <2>1, <2>2, <3>2 DEF Registered, Awaited
    <3>5. QED
      BY <3>3, <3>4
  <2>3. CASE ~Waits(a)
    <3>1. (Tracked(a)' <=> Tracked(a)) /\ Pair(a)' = Pair(a) /\ assetToConns'[a] = assetToConns[a]
      BY <1>7, <2>3 DEF Tracked, Pair
    <3>2. Pair(a) = {assetToConns[a][1], assetToConns[a][2]} /\ firstConn'[a] = firstConn[a]
      BY <1>1 DEF Pair
    <3>3. Tracked(a) \/ firstConn[a] = 0
      BY <1>1, <2>1, <2>3 DEF Awaited
    <3>4. Placed(a)'
      <4>1. CASE Tracked(a)
        <5>1. /\ assetToConns'[a][1] \in Indices' /\ assetToConns'[a][2] \in Indices'
              /\ assetToConns'[a][1] # assetToConns'[a][2]
              /\ \A i \in Indices : On(i, a) \/ Due(i, a) <=> i \in Pair(a)
              /\ last \notin Pair(a)
          BY <1>5, <2>1, <3>1, <3>2, <4>1 DEF Placed
        <5>2. \A i \in Indices : On(i, a)' \/ Due(i, a)' <=> i \in Pair(a)'
          BY <1>7, <3>1, <5>1
        <5>2a. ~On(last, a)' /\ ~Due(last, a)' /\ last \notin Pair(a)'
          BY <1>7, <2>3, <3>1, <5>1
        <5>2b. \A i \in Indices' : On(i, a)' \/ Due(i, a)' <=> i \in Pair(a)'
          BY <1>5, <5>2, <5>2a
        <5>3. QED
          BY <3>1, <4>1, <5>1, <5>2b DEF Placed
      <4>2. CASE ~Tracked(a)
        <5>1. /\ firstConn'[a] = 0 /\ \A i \in Indices : ~On(i, a) /\ ~Due(i, a)
          BY <1>5, <2>1, <3>2, <3>3, <4>2 DEF Placed
        <5>2. \A i \in Indices : ~On(i, a)' /\ ~Due(i, a)'
          BY <1>7, <5>1
        <5>2a. ~On(last, a)' /\ ~Due(last, a)' /\ 0 \notin Indices'
          BY <1>5, <1>7, <2>3
        <5>2b. \A i \in Indices' : ~On(i, a)' /\ ~Due(i, a)' /\ i # 0
          BY <1>5, <5>2, <5>2a
        <5>3. QED
          BY <3>1, <4>2, <5>1, <5>2b DEF Placed
      <4>3. QED
        BY <4>1, <4>2
    <3>5. Registered(a)' /\ Awaited(a)'
      BY <1>1, <1>7, <2>1, <2>3, <3>1, <3>2 DEF Registered, Awaited
    <3>6. QED
      BY <3>4, <3>5
  <2>4. QED
    BY <2>2, <2>3
<1>10. QED
  BY <1>8, <1>9 DEF PoolInv, PlacedInv

LEMMA DispatchPlaces ==
    ASSUME PoolInv, TypeInv', NEW n \in DOMAIN pending, Dispatch(n)
    PROVE  PoolInv'
<1> DEFINE assets == {AssetOf(it) : it \in pending[n]}
<1>1. /\ pc = "dispatch" /\ pc' = pc
      /\ connections' = [connections EXCEPT ![n].assets = connections[n].assets \cup assets]
      /\ pending' = [pending EXCEPT ![n] = {}]
      /\ UNCHANGED <<markets, assetToConns, todo, firstConn, overflow, toGc>>
  BY DEF Dispatch
<1>2. /\ TypeOK /\ TypeInv /\ todo = {} /\ overflow = {}
      /\ DOMAIN pending = Indices /\ Indices = 1..Len(connections)
  <2>1. TypeOK /\ TypeInv /\ todo = {} /\ overflow = {} /\ Indices = 1..Len(connections)
        /\ DOMAIN pending = 1..Len(pending)
    BY <1>1, Shape DEF PoolInv, TypeInv, Between
  <2>2. Len(pending) = Len(connections)
    BY <1>1, <2>1 DEF TypeOK
  <2>3. QED
    BY <2>1, <2>2
<1>3. assets \in SUBSET Assets
  BY ItemAsset DEF PoolInv, TypeInv, TypeOK
<1> HIDE DEF assets
<1>4. /\ Indices' = Indices
      /\ \A i \in Indices : connections'[i].assets =
                              IF i = n THEN connections[n].assets \cup assets ELSE connections[i].assets
  <2>1. connections[n].assets \cup assets \in SUBSET Assets
    <3>1. connections[n] \in Handles
      BY <1>2, HandleOf DEF Indices
    <3>2. QED
      BY <1>3, <3>1 DEF Handles
  <2>2. /\ connections' \in Seq(Handles) /\ Len(connections') = Len(connections)
        /\ \A k \in 1..Len(connections) :
              connections'[k].assets = IF k = n THEN connections[n].assets \cup assets
                                       ELSE connections[k].assets
    BY <1>1, <1>2, <2>1, HandleChanges DEF Indices
  <2>3. Indices' = Indices
    BY <1>2, <2>2, IndexRangeNext
  <2>4. QED
    BY <1>2, <2>2, <2>3
<1>5. \A a \in Assets : a \in assets <=> Due(n, a)
  BY DEF assets, Due
<1>6. /\ DOMAIN pending' = DOMAIN pending
      /\ \A i \in DOMAIN pending : pending'[i] = IF i = n THEN {} ELSE pending[i]
  BY <1>1
<1>7. ASSUME NEW a \in Assets
      PROVE  /\ \A i \in Indices : /\ On(i, a)' <=> On(i, a) \/ (i = n /\ Due(n, a))
                                   /\ Due(i, a)' <=> Due(i, a) /\ i # n
             /\ ~Waits(a) /\ ~Waits(a)'
             /\ (Tracked(a)' <=> Tracked(a)) /\ Pair(a)' = Pair(a)
  <2>1. ~Waits(a) /\ ~Waits(a)'
    BY <1>1, <1>2 DEF Waits
  <2>2. \A i \in Indices : On(i, a)' <=> On(i, a) \/ (i = n /\ Due(n, a))
    BY <1>1, <1>4, <1>5 DEF On
  <2>3. \A i \in Indices : Due(i, a)' <=> Due(i, a) /\ i # n
    BY <1>2, <1>6 DEF Due
  <2>4. QED
    BY <1>1, <2>1, <2>2, <2>3 DEF Tracked, Pair
<1>8. Between' /\ Emptied'
  BY <1>1, <1>2 DEF Between, Emptied
<1>9. ASSUME NEW a \in Assets
      PROVE  Placed(a)' /\ Registered(a)' /\ Awaited(a)'
  <2>1. Placed(a) /\ Registered(a) /\ Awaited(a)
    BY DEF PoolInv, PlacedInv
  <2>2. ~Tracked(a) => firstConn[a] = 0
    BY <1>1, <1>7, <2>1 DEF Awaited
  <2>3. 0 \notin Indices /\ n \in Indices
    BY <1>2
  <2>4. Placed(a)'
    BY <1>1, <1>4, <1>7, <2>1, <2>2, <2>3 DEF Placed
  <2>5. Registered(a)' /\ Awaited(a)'
    BY <1>1, <1>7, <2>1 DEF Registered, Awaited
  <2>6. QED
    BY <2>4, <2>5
<1>10. QED
  BY <1>8, <1>9 DEF PoolInv, PlacedInv

LEMMA SubscribeEnds ==
    ASSUME PoolInv, TypeInv', FinishSubscribe
    PROVE  PoolInv'
<1>1. /\ pc = "dispatch" /\ pc' = "idle" /\ pending' = <<>> /\ firstConn' = NoFirst
      /\ UNCHANGED <<connections, markets, assetToConns, todo, overflow>>
      /\ todo = {} /\ overflow = {} /\ \A i \in DOMAIN pending : pending[i] = {}
  BY DEF FinishSubscribe, PoolInv, Between
<1>2. \A a \in Assets : /\ firstConn'[a] = 0 /\ ~Waits(a) /\ ~Waits(a)'
                        /\ \A i : ~Due(i, a) /\ ~Due(i, a)' /\ (On(i, a)' <=> On(i, a))
                        /\ (Tracked(a)' <=> Tracked(a)) /\ Pair(a)' = Pair(a)
  BY <1>1 DEF NoFirst, Waits, Due, On, Tracked, Pair
<1>3. Indices' = Indices /\ 0 \notin Indices
  BY <1>1, Shape DEF Indices, PoolInv
<1>4. Between' /\ Emptied'
  BY <1>1, <1>2 DEF Between, Emptied
<1>5. ASSUME NEW a \in Assets
      PROVE  Placed(a)' /\ Registered(a)' /\ Awaited(a)'
  <2>1. Placed(a) /\ Registered(a) /\ Awaited(a)
    BY DEF PoolInv, PlacedInv
  <2>2. ~Tracked(a) => firstConn[a] = 0
    BY <1>1, <1>2, <2>1 DEF Awaited
  <2>3. Placed(a)'
    BY <1>1, <1>2, <1>3, <2>1, <2>2 DEF Placed
  <2>4. Registered(a)' /\ Awaited(a)'
    BY <1>1, <1>2, <2>1, <2>2 DEF Registered, Awaited
  <2>5. QED
    BY <2>3, <2>4
<1>6. QED
  BY <1>4, <1>5 DEF PoolInv, PlacedInv

LEMMA UnsubscribePlaces ==
    ASSUME PoolInv, TypeInv', NEW hashes \in SUBSET Markets, UnsubscribeMarkets(hashes)
    PROVE  PoolInv'
<1> DEFINE gone == AssetsGone(hashes)
<1>1. /\ pc = "idle" /\ pc' = "unsub" /\ markets' = markets \ hashes
      /\ unsubs' = [i \in DOMAIN connections |-> {a \in gone : Tracked(a) /\ i \in Pair(a)}]
      /\ assetToConns' = [a \in Assets |-> IF a \in gone THEN Absent ELSE assetToConns[a]]
      /\ UNCHANGED <<connections, todo, pending, firstConn, overflow>>
  BY DEF UnsubscribeMarkets
<1>2. todo = {} /\ overflow = {} /\ pending = <<>> /\ \A a \in Assets : firstConn[a] = 0
  BY <1>1 DEF PoolInv, Between
<1>3. Indices' = Indices /\ 0 \notin Indices
  BY <1>1, Shape DEF Indices, PoolInv
<1>4. \A a \in Assets : a \in gone <=> a[1] \in markets /\ a[1] \in hashes
  BY DEF AssetsGone
<1> HIDE DEF gone
<1>5. ASSUME NEW a \in Assets
      PROVE  /\ \A i \in Indices : On(i, a)' <=> On(i, a) /\ ~(a \in gone /\ Tracked(a) /\ i \in Pair(a))
             /\ \A i : ~Due(i, a) /\ ~Due(i, a)'
             /\ ~Waits(a) /\ ~Waits(a)' /\ firstConn[a] = 0 /\ firstConn'[a] = 0
  <2>1. \A i \in Indices : On(i, a)' <=> On(i, a) /\ ~(a \in gone /\ Tracked(a) /\ i \in Pair(a))
    BY <1>1 DEF On, Indices
  <2>2. \A i : ~Due(i, a) /\ ~Due(i, a)'
    BY <1>1, <1>2 DEF Due
  <2>3. QED
    BY <1>1, <1>2, <2>1, <2>2 DEF Waits
<1>6. Between' /\ Emptied'
  BY <1>1, <1>2 DEF Between, Emptied
<1>7. ASSUME NEW a \in Assets
      PROVE  Placed(a)' /\ Registered(a)' /\ Awaited(a)'
  <2>1. Placed(a) /\ Registered(a) /\ Awaited(a)
    BY DEF PoolInv, PlacedInv
  <2>2. CASE a \in gone
    <3>1. ~Tracked(a)'
      BY <1>1, <2>2 DEF Tracked
    <3>2. Placed(a)'
      BY <1>3, <1>5, <2>1, <2>2, <3>1 DEF Placed
    <3>3. Registered(a)' /\ Awaited(a)'
      BY <1>1, <1>4, <1>5, <2>2, <3>1 DEF Registered, Awaited
    <3>4. QED
      BY <3>2, <3>3
  <2>3. CASE a \notin gone
    <3>1. (Tracked(a)' <=> Tracked(a)) /\ Pair(a)' = Pair(a) /\ assetToConns'[a] = assetToConns[a]
      BY <1>1, <2>3 DEF Tracked, Pair
    <3>2. Placed(a)'
      BY <1>3, <1>5, <2>1, <2>3, <3>1 DEF Placed
    <3>3. Registered(a)' /\ Awaited(a)'
      BY <1>1, <1>4, <1>5, <2>1, <2>3, <3>1 DEF Registered, Awaited
    <3>4. QED
      BY <3>2, <3>3
  <2>4. QED
    BY <2>2, <2>3
<1>8. QED
  BY <1>6, <1>7 DEF PoolInv, PlacedInv

LEMMA SendUnsubscribePlaces ==
    ASSUME PoolInv, TypeInv', NEW n \in DOMAIN unsubs, SendUnsubscribe(n)
    PROVE  PoolInv'
<1>1. /\ pc = "unsub" /\ pc' = pc
      /\ connections' = [connections EXCEPT ![n].assets = connections[n].assets \ unsubs[n]]
      /\ unsubs' = [unsubs EXCEPT ![n] = {}]
      /\ UNCHANGED <<markets, assetToConns, todo, pending, firstConn, overflow>>
  BY DEF SendUnsubscribe
<1>2. /\ TypeOK /\ TypeInv /\ DOMAIN unsubs = Indices /\ Indices = 1..Len(connections)
  <2>1. TypeOK /\ TypeInv /\ Indices = 1..Len(connections)
    BY Shape DEF PoolInv, TypeInv
  <2>2. unsubs \in Seq(SUBSET Assets) /\ Len(unsubs) = Len(connections)
    BY <1>1, <2>1 DEF TypeOK
  <2>3. QED
    BY <2>1, <2>2
<1>3. /\ Indices' = Indices
      /\ \A i \in Indices : connections'[i].assets =
                              IF i = n THEN connections[n].assets \ unsubs[n] ELSE connections[i].assets
  <2>1. connections[n].assets \ unsubs[n] \in SUBSET Assets
    <3>1. connections[n] \in Handles
      BY <1>2, HandleOf DEF Indices
    <3>2. QED
      BY <3>1 DEF Handles
  <2>2. /\ connections' \in Seq(Handles) /\ Len(connections') = Len(connections)
        /\ \A k \in 1..Len(connections) :
              connections'[k].assets = IF k = n THEN connections[n].assets \ unsubs[n]
                                       ELSE connections[k].assets
    BY <1>1, <1>2, <2>1, HandleChanges DEF Indices
  <2>3. Indices' = Indices
    BY <1>2, <2>2, IndexRangeNext
  <2>4. QED
    BY <1>2, <2>2, <2>3
<1>4. \A i \in Indices : unsubs'[i] = IF i = n THEN {} ELSE unsubs[i]
  BY <1>1, <1>2
<1>5. \A a \in Assets : /\ \A i \in Indices : /\ On(i, a)' <=> On(i, a)
                                              /\ Due(i, a)' <=> Due(i, a)
                        /\ (Waits(a)' <=> Waits(a)) /\ (Tracked(a)' <=> Tracked(a))
                        /\ Pair(a)' = Pair(a)
  <2>1. \A a \in Assets, i \in Indices : On(i, a)' <=> On(i, a)
    BY <1>1, <1>3, <1>4 DEF On
  <2>2. QED
    BY <1>1, <2>1 DEF Due, Waits, Tracked, Pair
<1>6. Between' /\ Emptied'
  BY <1>1 DEF Between, Emptied, PoolInv
<1>7. ASSUME NEW a \in Assets
      PROVE  Placed(a)' /\ Registered(a)' /\ Awaited(a)'
  <2>1. Placed(a) /\ Registered(a) /\ Awaited(a)
    BY DEF PoolInv, PlacedInv
  <2>2. QED
    BY <1>1, <1>3, <1>5, <2>1 DEF Placed, Registered, Awaited
<1>8. QED
  BY <1>6, <1>7 DEF PoolInv, PlacedInv


LEMMA CollectPlaces ==
    ASSUME PoolInv, TypeInv', CollectEmpty
    PROVE  PoolInv'
<1>1. /\ pc = "unsub" /\ pc' = "gc" /\ \A i \in DOMAIN unsubs : unsubs[i] = {}
      /\ toGc' = {i \in Indices : connections[i].assets = {}}
      /\ UNCHANGED <<connections, markets, assetToConns, todo, pending, firstConn, overflow>>
  BY DEF CollectEmpty, poolVars, Indices
<1>2. DOMAIN unsubs = Indices /\ Indices' = Indices
  <2>1. Indices = 1..Len(connections)
    BY Shape DEF PoolInv
  <2>2. unsubs \in Seq(SUBSET Assets) /\ Len(unsubs) = Len(connections)
    BY <1>1 DEF PoolInv, TypeInv, TypeOK
  <2>3. QED
    BY <1>1, <2>1, <2>2 DEF Indices
<1>3. \A a \in Assets : /\ \A i \in Indices : /\ On(i, a)' <=> On(i, a)
                                              /\ Due(i, a)' <=> Due(i, a)
                        /\ (Waits(a)' <=> Waits(a)) /\ (Tracked(a)' <=> Tracked(a))
                        /\ Pair(a)' = Pair(a)
  <2>1. \A a \in Assets, i \in Indices : On(i, a)' <=> On(i, a)
    BY <1>1, <1>2 DEF On
  <2>2. QED
    BY <1>1, <2>1 DEF Due, Waits, Tracked, Pair
<1>4. Between'
  BY <1>1 DEF Between, PoolInv
<1>5. Emptied'
  BY <1>1 DEF Emptied, On
<1>6. ASSUME NEW a \in Assets
      PROVE  Placed(a)' /\ Registered(a)' /\ Awaited(a)'
  <2>1. Placed(a) /\ Registered(a) /\ Awaited(a)
    BY DEF PoolInv, PlacedInv
  <2>2. QED
    BY <1>1, <1>2, <1>3, <2>1 DEF Placed, Registered, Awaited
<1>7. QED
  BY <1>4, <1>5, <1>6 DEF PoolInv, PlacedInv

\* Between the calls, and while one collects, the entry of a tracked asset alone
\* says who holds it, and nobody holds another asset.
LEMMA SettledPlaces ==
    ASSUME PoolInv, pc \in {"idle", "gc"}, NEW a \in Assets
    PROVE  /\ ~Waits(a) /\ firstConn[a] = 0 /\ \A i : ~Due(i, a)
           /\ \A i \in Indices : On(i, a) <=> a \in connections[i].assets
           /\ \A i \in Indices : On(i, a) <=> Tracked(a) /\ i \in Pair(a)
           /\ Tracked(a) => /\ assetToConns[a][1] \in Indices /\ assetToConns[a][2] \in Indices
                            /\ assetToConns[a][1] # assetToConns[a][2]
           /\ Tracked(a) <=> a[1] \in markets
<1>1. firstConn[a] = 0 /\ pending = <<>> /\ todo = {} /\ overflow = {}
  BY DEF PoolInv, Between
<1>2. ~Waits(a) /\ \A i : ~Due(i, a)
  BY <1>1 DEF Waits, Due
<1>3. 0 \notin Indices
  BY Shape DEF PoolInv
<1>4. Placed(a) /\ Registered(a)
  BY DEF PoolInv, PlacedInv
<1>5. \A i \in Indices : On(i, a) <=> a \in connections[i].assets
  BY DEF On
<1>6. \A i \in Indices : On(i, a) <=> Tracked(a) /\ i \in Pair(a)
  BY <1>1, <1>2, <1>3, <1>4 DEF Placed
<1>7. Tracked(a) => /\ assetToConns[a][1] \in Indices /\ assetToConns[a][2] \in Indices
                    /\ assetToConns[a][1] # assetToConns[a][2]
  BY <1>4 DEF Placed
<1>8. Tracked(a) <=> a[1] \in markets
  BY <1>1, <1>2, <1>4 DEF Registered
<1>9. QED
  BY <1>1, <1>2, <1>5, <1>6, <1>7, <1>8

LEMMA RemovePlaces ==
    ASSUME PoolInv, TypeInv', RemoveEmpty
    PROVE  PoolInv'
<1>1. PICK i \in toGc :
          /\ pc = "gc" /\ pc' = pc /\ \A j \in toGc : j <= i
          /\ connections' = SwapRemove(connections, i)
          /\ assetToConns' = [a \in Assets |->
                                  <<Repointed(assetToConns[a][1], Len(connections), i),
                                    Repointed(assetToConns[a][2], Len(connections), i)>>]
          /\ toGc' = toGc \ {i}
          /\ UNCHANGED <<markets, todo, pending, firstConn, overflow>>
  BY DEF RemoveEmpty
<1>2. PICK n \in Nat : n = Len(connections)
  BY Shape DEF PoolInv
<1>3. /\ Indices = 1..n /\ i \in 1..n /\ connections \in Seq(Handles)
      /\ \A j \in toGc : j \in 1..n
  BY <1>1, <1>2, Shape DEF PoolInv, TypeInv, TypeOK, Handles, Collectable
<1>4. /\ Len(connections') = n - 1 /\ n - 1 \in Nat
      /\ \A k \in 1..(n - 1) :
            connections'[k] = IF k = i THEN connections[n] ELSE connections[k]
  <2>1. connections' = SwapRemove(connections, i) /\ i \in 1..Len(connections) /\ n - 1 \in Nat
    BY <1>1, <1>2, <1>3
  <2>2. /\ Len(SwapRemove(connections, i)) = Len(connections) - 1
        /\ \A k \in 1..(Len(connections) - 1) :
              SwapRemove(connections, i)[k] = IF k = i THEN connections[Len(connections)]
                                              ELSE connections[k]
    BY <1>3, <2>1, SwapRemoved
  <2>3. QED
    BY <1>2, <2>1, <2>2
<1>5. Indices' = 1..(n - 1)
  BY <1>4, IndexRangeNext
<1>6. ASSUME NEW a \in Assets
      PROVE  /\ ~On(i, a)
             /\ \A k \in 1..(n - 1) : On(k, a)' <=> IF k = i THEN On(n, a) ELSE On(k, a)
             /\ \A k : ~Due(k, a)'
             /\ ~Waits(a)' /\ firstConn'[a] = 0
  <2>1. ~On(i, a)
    BY <1>1 DEF PoolInv, Emptied
  <2>2. \A k \in 1..(n - 1) : On(k, a)' <=> IF k = i THEN On(n, a) ELSE On(k, a)
    BY <1>1, <1>4 DEF On
  <2>3. pending' = <<>> /\ ~Waits(a) /\ firstConn[a] = 0
    BY <1>1, SettledPlaces DEF PoolInv, Between
  <2>4. (\A k : ~Due(k, a)') /\ ~Waits(a)' /\ firstConn'[a] = 0
    BY <1>1, <2>3 DEF Due, Waits
  <2>5. QED
    BY <2>1, <2>2, <2>4
<1>7. Between'
  BY <1>1 DEF Between, PoolInv
<1>8. Emptied'
  <2>1. ASSUME NEW j \in toGc', NEW a \in Assets
        PROVE  ~On(j, a)'
    <3>1. j \in toGc /\ j \in 1..(n - 1) /\ j # i
      <4>1. j \in toGc /\ j # i
        BY <1>1
      <4>2. j \in 1..n /\ j <= i /\ i \in 1..n
        BY <1>1, <1>3, <4>1
      <4>3. QED
        BY <4>1, <4>2
    <3>2. ~On(j, a)
      BY <1>1, <3>1 DEF PoolInv, Emptied
    <3>3. QED
      BY <1>6, <3>1, <3>2
  <2>2. QED
    BY <2>1 DEF Emptied
<1>9. ASSUME NEW a \in Assets
      PROVE  Placed(a)' /\ Registered(a)' /\ Awaited(a)'
  <2>1. PICK x \in Nat, y \in Nat : x = assetToConns[a][1] /\ y = assetToConns[a][2]
    BY Shape DEF PoolInv
  <2>2. assetToConns'[a] = <<Repointed(x, n, i), Repointed(y, n, i)>>
    BY <1>1, <1>2, <2>1
  <2>3. /\ \A k \in Indices : On(k, a) <=> Tracked(a) /\ k \in {x, y}
        /\ Tracked(a) => x \in Indices /\ y \in Indices /\ x # y
        /\ Tracked(a) <=> a[1] \in markets
    BY <1>1, <2>1, SettledPlaces DEF Pair
  <2>4. CASE Tracked(a)
    <3>1. x \in 1..n /\ y \in 1..n /\ x # y /\ x # i /\ y # i
      BY <1>3, <1>6, <2>3, <2>4
    <3>2. PICK u \in 1..(n - 1), v \in 1..(n - 1) :
              u = Repointed(x, n, i) /\ v = Repointed(y, n, i)
      BY <1>3, <3>1 DEF Repointed
    <3>3. u # v
      BY <1>3, <3>1, <3>2 DEF Repointed
    <3>4. assetToConns'[a] = <<u, v>> /\ Tracked(a)' /\ Pair(a)' = {u, v}
      BY <2>2, <3>2 DEF Tracked, Absent, Pair
    <3>5. \A k \in 1..(n - 1) : On(k, a)' <=> k \in {u, v}
      <4>1. ASSUME NEW k \in 1..(n - 1), k = i
            PROVE  On(k, a)' <=> k \in {u, v}
        <5>1. On(k, a)' <=> n \in {x, y}
          BY <1>3, <1>6, <2>3, <2>4, <4>1
        <5>2. n \in {x, y} <=> i \in {u, v}
          BY <3>1, <3>2 DEF Repointed
        <5>3. QED
          BY <4>1, <5>1, <5>2
      <4>2. ASSUME NEW k \in 1..(n - 1), k # i
            PROVE  On(k, a)' <=> k \in {u, v}
        <5>1. On(k, a)' <=> k \in {x, y}
          BY <1>3, <1>6, <2>3, <2>4, <4>2
        <5>2. k \in {x, y} <=> k \in {u, v}
          BY <3>1, <3>2, <4>2 DEF Repointed
        <5>3. QED
          BY <5>1, <5>2
      <4>3. QED
        BY <4>1, <4>2
    <3>6. Placed(a)'
      <4>1. assetToConns'[a][1] = u /\ assetToConns'[a][2] = v
        BY <3>4
      <4>2. QED
        BY <1>5, <1>6, <3>3, <3>4, <3>5, <4>1 DEF Placed
    <3>7. Registered(a)' /\ Awaited(a)'
      BY <1>1, <1>6, <2>3, <2>4, <3>4 DEF Registered, Awaited
    <3>8. QED
      BY <3>6, <3>7
  <2>5. CASE ~Tracked(a)
    <3>1. x = 0 /\ y = 0 /\ n # 0
      <4>1. assetToConns[a] = <<0, 0>>
        BY <2>5 DEF Tracked, Absent
      <4>2. QED
        BY <1>3, <2>1, <4>1
    <3>2. ~Tracked(a)'
      BY <2>2, <3>1 DEF Repointed, Tracked, Absent
    <3>3. \A k \in 1..(n - 1) : ~On(k, a)'
      <4>1. \A k \in 1..n : ~On(k, a)
        BY <1>3, <2>3, <2>5
      <4>2. QED
        BY <1>3, <1>6, <4>1
    <3>4. Placed(a)'
      <4>1. \A k \in 1..(n - 1) : k # 0
        BY <1>4
      <4>2. QED
        BY <1>5, <1>6, <3>2, <3>3, <4>1 DEF Placed
    <3>5. Registered(a)' /\ Awaited(a)'
      BY <1>1, <1>6, <2>3, <2>5, <3>2 DEF Registered, Awaited
    <3>6. QED
      BY <3>4, <3>5
  <2>6. QED
    BY <2>4, <2>5
<1>10. QED
  BY <1>7, <1>8, <1>9 DEF PoolInv, PlacedInv

LEMMA UnsubscribeEnds ==
    ASSUME PoolInv, TypeInv', FinishUnsubscribe
    PROVE  PoolInv'
<1>1. /\ pc = "gc" /\ pc' = "idle"
      /\ UNCHANGED <<connections, markets, assetToConns, todo, pending, firstConn, overflow, unsubs>>
  BY DEF FinishUnsubscribe
<1>2. \A a \in Assets : /\ \A i : (On(i, a)' <=> On(i, a)) /\ (Due(i, a)' <=> Due(i, a))
                        /\ (Waits(a)' <=> Waits(a)) /\ (Tracked(a)' <=> Tracked(a))
                        /\ Pair(a)' = Pair(a)
  BY <1>1 DEF On, Due, Waits, Tracked, Pair
<1>3. Indices' = Indices
  BY <1>1 DEF Indices
<1>4. Between' /\ Emptied'
  BY <1>1 DEF Between, Emptied, PoolInv
<1>5. ASSUME NEW a \in Assets
      PROVE  Placed(a)' /\ Registered(a)' /\ Awaited(a)'
  <2>1. Placed(a) /\ Registered(a) /\ Awaited(a)
    BY DEF PoolInv, PlacedInv
  <2>2. QED
    BY <1>1, <1>2, <1>3, <2>1 DEF Placed, Registered, Awaited
<1>6. QED
  BY <1>4, <1>5 DEF PoolInv, PlacedInv

\* The tasks touch nothing of the pool.
LEMMA OthersPlace ==
    ASSUME PoolInv, TypeInv', UNCHANGED <<poolVars, callVars>>
    PROVE  PoolInv'
<1>1. UNCHANGED <<connections, markets, assetToConns, pc, todo, pending, firstConn, overflow,
                  unsubs, toGc>>
  BY DEF poolVars, callVars
<1>2. Between' /\ Emptied' /\ PlacedInv'
  BY <1>1 DEF PoolInv, Between, Emptied, PlacedInv, Placed, Registered, Awaited,
              On, Due, Waits, Tracked, Pair, Indices
<1>3. QED
  BY <1>2 DEF PoolInv

LEMMA NextPlaced ==
    ASSUME OneCopy, PoolInv, [Next]_vars
    PROVE  PoolInv'
<1>1. TypeInv'
  BY NextTypes DEF PoolInv
<1>2. CASE UNCHANGED vars
  BY <1>1, <1>2, OthersPlace DEF vars
<1>3. ASSUME NEW batch \in SUBSET (Markets \X Copies), SubscribeMarkets(batch)
      PROVE  PoolInv'
  BY <1>1, <1>3, SubscribePlaces
<1>4. ASSUME NEW hashes \in SUBSET Markets, UnsubscribeMarkets(hashes)
      PROVE  PoolInv'
  BY <1>1, <1>4, UnsubscribePlaces
<1>5. ASSUME NEW item \in Items, Place1(item) \/ Place2(item) \/ Spill(item)
      PROVE  PoolInv'
  BY <1>1, <1>5, FirstPlaces, SecondPlaces, SpillPlaces
<1>6. ASSUME NEW i \in DOMAIN pending, Dispatch(i)
      PROVE  PoolInv'
  BY <1>1, <1>6, DispatchPlaces
<1>7. ASSUME NEW i \in DOMAIN unsubs, SendUnsubscribe(i)
      PROVE  PoolInv'
  BY <1>1, <1>7, SendUnsubscribePlaces
<1>8. CASE PlaceOverflow \/ FinishSubscribe \/ CollectEmpty \/ RemoveEmpty \/ FinishUnsubscribe
  BY <1>1, <1>8, OverflowPlaces, SubscribeEnds, CollectPlaces, RemovePlaces, UnsubscribeEnds
<1>9. ASSUME NEW id \in ConnIds, Receive(id)
      PROVE  PoolInv'
  BY <1>1, <1>9, OthersPlace DEF Receive
<1>10. QED
  BY <1>2, <1>3, <1>4, <1>5, <1>6, <1>7, <1>8, <1>9 DEF Next, CallStep

LEMMA AlwaysPlaced == ASSUME OneCopy PROVE Spec => []PoolInv
  BY InitPlaced, NextPlaced, PTL DEF Spec

\* pool.rs:6, "each asset is assigned to exactly two connections": at every moment
\* a tracked asset's entry names two different connections of the pool, whatever
\* is placed, spilled, unsubscribed or collected in between.
THEOREM TwoConnectionsAlways == ASSUME OneCopy PROVE Spec => []TwoConnections
<1>1. PoolInv => TwoConnections
  BY DEF PoolInv, PlacedInv, Placed, TwoConnections
<1>2. QED
  BY <1>1, AlwaysPlaced, PTL

\* When a call is over, and from the moment its commands are sent, every handle
\* holds exactly the assets whose entry names it, and the reverse index has
\* exactly the assets of the subscribed markets (pool.rs:284-289, 326-355).
THEOREM HandlesMatchIndexAlways == ASSUME OneCopy PROVE Spec => []HandlesMatchIndex
<1>1. ASSUME PoolInv, pc \in {"idle", "gc"}
      PROVE  /\ \A i \in Indices : connections[i].assets = {a \in Assets : i \in Pair(a)}
             /\ \A a \in Assets : Tracked(a) <=> a[1] \in markets
  <2>1. ASSUME NEW i \in Indices
        PROVE  connections[i].assets = {a \in Assets : i \in Pair(a)}
    <3>1. connections[i].assets \subseteq Assets
      <4>1. connections[i] \in Handles
        BY <1>1, HandleOf DEF PoolInv, TypeInv, Indices
      <4>2. QED
        BY <4>1 DEF Handles
    <3>2. ASSUME NEW a \in Assets
          PROVE  a \in connections[i].assets <=> i \in Pair(a)
      <4>1. i # 0
        BY <1>1, Shape DEF PoolInv
      <4>2. ~Tracked(a) => Pair(a) = {0}
        BY DEF Tracked, Absent, Pair
      <4>3. QED
        BY <1>1, <4>1, <4>2, SettledPlaces
    <3>3. QED
      BY <3>1, <3>2
  <2>2. QED
    BY <1>1, <2>1, SettledPlaces
<1>2. PoolInv => HandlesMatchIndex
  BY <1>1 DEF HandlesMatchIndex
<1>3. QED
  BY <1>2, AlwaysPlaced, PTL

-----------------------------------------------------------------------------
(* No migration *)

\* Who carries an asset does not change when its entry and the handles it names
\* stay where they are.
LEMMA SameEntry ==
    ASSUME PoolInv, NEW a \in Assets, Tracked(a), assetToConns'[a] = assetToConns[a],
           \A j \in Indices : j \in Indices' /\ connections'[j].id = connections[j].id
    PROVE  ConnIdsOf(a)' = ConnIdsOf(a)
<1>1. Pair(a) \subseteq Indices /\ Pair(a)' = Pair(a)
  BY DEF PoolInv, PlacedInv, Placed, Pair
<1>2. Pair(a) \cap Indices = Pair(a) /\ Pair(a)' \cap Indices' = Pair(a)
  BY <1>1
<1>3. {connections'[j].id : j \in Pair(a)} = {connections[j].id : j \in Pair(a)}
  BY <1>1
<1>4. QED
  BY <1>2, <1>3 DEF ConnIdsOf

LEMMA IdsKept ==
    ASSUME TypeInv, TypeInv', NEW i \in DOMAIN connections, NEW assets,
           connections' = [connections EXCEPT ![i].assets = assets]
    PROVE  \A j \in Indices : j \in Indices' /\ connections'[j].id = connections[j].id
<1>1. connections \in Seq(Handles)
  BY DEF TypeInv, TypeOK, Handles
<1>2. DOMAIN connections' = DOMAIN connections
  OBVIOUS
<1>3. ASSUME NEW j \in Indices
      PROVE  connections'[j].id = connections[j].id
  <2>1. connections[j] \in Handles /\ connections[i] \in Handles
    BY <1>1 DEF Indices
  <2>2. connections'[j] = IF j = i THEN [connections[i] EXCEPT !.assets = assets] ELSE connections[j]
    BY DEF Indices
  <2>3. QED
    BY <2>1, <2>2 DEF Handles
<1>4. QED
  BY <1>2, <1>3 DEF Indices

\* Opening connections leaves the old handles where they are.
LEMMA PrefixKept ==
    ASSUME TypeInv, TypeInv', NEW n \in Nat, nextConnId + n <= MaxConns,
           connections' = connections \o NewHandles(n)
    PROVE  \A j \in Indices : j \in Indices' /\ connections'[j].id = connections[j].id
<1>1. /\ Len(connections') = Len(connections) + n
      /\ \A k \in 1..Len(connections) : connections'[k] = connections[k]
  BY NewHandlesType DEF TypeInv
<1>2. Indices = 1..Len(connections) /\ Indices' = 1..Len(connections') /\ Len(connections) \in Nat
  BY IndexRange, IndexRangeNext
<1>3. QED
  BY <1>1, <1>2

LEMMA CallKeepsIds ==
    ASSUME OneCopy, PoolInv, TypeInv', NEW a \in Assets, Tracked(a), Tracked(a)',
           \/ \E batch \in SUBSET (Markets \X Copies) : SubscribeMarkets(batch)
           \/ \E hashes \in SUBSET Markets : UnsubscribeMarkets(hashes)
           \/ \E item \in Items : Place1(item) \/ Place2(item) \/ Spill(item)
           \/ PlaceOverflow
           \/ \E i \in DOMAIN pending : Dispatch(i)
           \/ \E i \in DOMAIN unsubs : SendUnsubscribe(i)
    PROVE  ConnIdsOf(a)' = ConnIdsOf(a)
<1>1. TypeInv /\ TypeOK /\ Awaited(a)
  BY DEF PoolInv, TypeInv, PlacedInv
<1>2. CASE \E batch \in SUBSET (Markets \X Copies) : SubscribeMarkets(batch)
  <2>1. PICK n \in 0..(MaxConns - nextConnId - 1) : connections' = connections \o NewHandles(n)
    BY <1>2 DEF SubscribeMarkets
  <2>2. n \in Nat /\ nextConnId + n <= MaxConns
    BY <1>1, <2>1, PoolAssumption DEF TypeOK
  <2>3. assetToConns'[a] = assetToConns[a]
    BY <1>2 DEF SubscribeMarkets
  <2>4. QED
    BY <1>1, <2>1, <2>2, <2>3, PrefixKept, SameEntry
<1>3. CASE \E hashes \in SUBSET Markets : UnsubscribeMarkets(hashes)
  <2>1. UNCHANGED connections
    BY <1>3 DEF UnsubscribeMarkets
  <2>2. assetToConns'[a] = assetToConns[a]
    BY <1>3 DEF UnsubscribeMarkets, Tracked
  <2>3. \A j \in Indices : j \in Indices' /\ connections'[j].id = connections[j].id
    BY <2>1 DEF Indices
  <2>4. QED
    BY <2>2, <2>3, SameEntry
<1>4. CASE \E item \in Items : Place1(item) \/ Place2(item) \/ Spill(item)
  <2>1. PICK item \in Items : Place1(item) \/ Place2(item) \/ Spill(item)
    BY <1>4
  <2>2. UNCHANGED connections
    BY <2>1 DEF Place1, Place2, Spill, poolVars
  <2>3. assetToConns'[a] = assetToConns[a]
    <3>1. CASE Place1(item) \/ Spill(item)
      BY <3>1 DEF Place1, Spill, poolVars
    <3>2. CASE Place2(item)
      <4>1. pc = "pass2" /\ item \in todo
        BY <3>2 DEF Place2
      <4>2. AssetOf(item) # a
        BY <1>1, <4>1 DEF Awaited, Waits
      <4>3. \E i \in Indices : assetToConns' =
                [assetToConns EXCEPT ![AssetOf(item)] = <<firstConn[AssetOf(item)], i>>]
        BY <3>2 DEF Place2, Indices
      <4>4. QED
        BY <4>2, <4>3
    <3>3. QED
      BY <2>1, <3>1, <3>2
  <2>4. \A j \in Indices : j \in Indices' /\ connections'[j].id = connections[j].id
    BY <2>2 DEF Indices
  <2>5. QED
    BY <2>3, <2>4, SameEntry
<1>5. CASE PlaceOverflow
  <2>1. pc = "overflow" /\ connections' = connections \o NewHandles(1)
    BY <1>5 DEF PlaceOverflow
  <2>2. nextConnId + 1 <= MaxConns
    BY <1>1, <2>1, PoolAssumption DEF TypeInv, TypeOK, Opens
  <2>3. assetToConns'[a] = assetToConns[a]
    <3>1. a \notin {AssetOf(it) : it \in overflow}
      BY <1>1, <2>1 DEF Awaited, Waits
    <3>2. QED
      BY <1>5, <3>1 DEF PlaceOverflow
  <2>4. QED
    BY <1>1, <2>1, <2>2, <2>3, PrefixKept, SameEntry
<1>6. CASE \E i \in DOMAIN pending : Dispatch(i)
  <2>1. PICK i \in DOMAIN pending : Dispatch(i)
    BY <1>6
  <2>2. i \in DOMAIN connections
    BY <1>1, <2>1 DEF TypeOK, Dispatch
  <2>3. PICK assets : connections' = [connections EXCEPT ![i].assets = assets]
    BY <2>1 DEF Dispatch
  <2>4. assetToConns'[a] = assetToConns[a]
    BY <2>1 DEF Dispatch
  <2>5. QED
    BY <1>1, <2>2, <2>3, <2>4, IdsKept, SameEntry
<1>7. CASE \E i \in DOMAIN unsubs : SendUnsubscribe(i)
  <2>1. PICK i \in DOMAIN unsubs : SendUnsubscribe(i)
    BY <1>7
  <2>2. i \in DOMAIN connections
    BY <1>1, <2>1 DEF TypeOK, SendUnsubscribe
  <2>3. PICK assets : connections' = [connections EXCEPT ![i].assets = assets]
    BY <2>1 DEF SendUnsubscribe
  <2>4. assetToConns'[a] = assetToConns[a]
    BY <2>1 DEF SendUnsubscribe
  <2>5. QED
    BY <1>1, <2>2, <2>3, <2>4, IdsKept, SameEntry
<1>8. QED
  BY <1>2, <1>3, <1>4, <1>5, <1>6, <1>7

LEMMA RemovalKeepsIds ==
    ASSUME PoolInv, TypeInv', RemoveEmpty, NEW a \in Assets, Tracked(a)
    PROVE  ConnIdsOf(a)' = ConnIdsOf(a)
<1>1. PICK i \in toGc :
          /\ pc = "gc" /\ connections' = SwapRemove(connections, i)
          /\ assetToConns' = [b \in Assets |->
                                  <<Repointed(assetToConns[b][1], Len(connections), i),
                                    Repointed(assetToConns[b][2], Len(connections), i)>>]
  BY DEF RemoveEmpty
<1>2. PICK n \in Nat : n = Len(connections)
  BY Shape DEF PoolInv
<1>3. Indices = 1..n /\ i \in 1..n /\ connections \in Seq(Handles)
  BY <1>1, <1>2, Shape DEF PoolInv, TypeInv, TypeOK, Handles, Collectable
<1>4. /\ Len(connections') = n - 1 /\ n - 1 \in Nat
      /\ \A k \in 1..(n - 1) :
            connections'[k] = IF k = i THEN connections[n] ELSE connections[k]
  <2>1. connections' = SwapRemove(connections, i) /\ i \in 1..Len(connections) /\ n - 1 \in Nat
    BY <1>1, <1>2, <1>3
  <2>2. /\ Len(SwapRemove(connections, i)) = Len(connections) - 1
        /\ \A k \in 1..(Len(connections) - 1) :
              SwapRemove(connections, i)[k] = IF k = i THEN connections[Len(connections)]
                                              ELSE connections[k]
    BY <1>3, <2>1, SwapRemoved
  <2>3. QED
    BY <1>2, <2>1, <2>2
<1>5. Indices' = 1..(n - 1)
  BY <1>4, IndexRangeNext
<1>6. PICK x \in 1..n, y \in 1..n :
          /\ x = assetToConns[a][1] /\ y = assetToConns[a][2] /\ x # i /\ y # i
  <2>1. /\ assetToConns[a][1] \in Indices /\ assetToConns[a][2] \in Indices
        /\ \A k \in Indices : On(k, a) <=> k \in Pair(a)
    BY <1>1, SettledPlaces
  <2>2. ~On(i, a)
    BY <1>1 DEF PoolInv, Emptied
  <2>3. QED
    BY <1>3, <2>1, <2>2 DEF Pair
<1>7. PICK u \in 1..(n - 1), v \in 1..(n - 1) :
          u = Repointed(x, n, i) /\ v = Repointed(y, n, i)
  BY <1>3, <1>6 DEF Repointed
<1>8. connections'[u].id = connections[x].id /\ connections'[v].id = connections[y].id
  BY <1>4, <1>6, <1>7 DEF Repointed
<1>9. Pair(a) = {x, y} /\ Pair(a)' = {u, v}
  <2>1. assetToConns'[a] = <<u, v>>
    BY <1>1, <1>2, <1>6, <1>7
  <2>2. QED
    BY <1>6, <2>1 DEF Pair
<1>10. Pair(a) \cap Indices = {x, y} /\ Pair(a)' \cap Indices' = {u, v}
  BY <1>3, <1>5, <1>9
<1>11. QED
  BY <1>8, <1>10 DEF ConnIdsOf

\* A tracked asset never migrates: no step of any call, the removal of a
\* connection from the middle of the vector included, changes which connections
\* carry it (pool.rs:343-355).
THEOREM NoMigrationEver == ASSUME OneCopy PROVE Spec => NoMigration
<1>1. ASSUME PoolInv, TypeInv', [Next]_vars, NEW a \in Assets, Tracked(a), Tracked(a)'
      PROVE  ConnIdsOf(a)' = ConnIdsOf(a)
  <2>1. CASE RemoveEmpty
    BY <1>1, <2>1, RemovalKeepsIds
  <2>2. CASE UNCHANGED <<connections, assetToConns>>
    BY <2>2 DEF ConnIdsOf, Pair, Indices
  <2>3. CASE FinishSubscribe \/ CollectEmpty \/ FinishUnsubscribe
    BY <2>2, <2>3 DEF FinishSubscribe, CollectEmpty, FinishUnsubscribe, poolVars
  <2>4. CASE UNCHANGED vars \/ \E id \in ConnIds : Receive(id)
    BY <2>2, <2>4 DEF vars, Receive, poolVars
  <2>5. QED
    BY <1>1, <2>1, <2>3, <2>4, CallKeepsIds DEF Next, CallStep
<1>2. ASSUME PoolInv, PoolInv', [Next]_vars
      PROVE  [\A a \in Assets : Tracked(a) /\ Tracked(a)' => ConnIdsOf(a)' = ConnIdsOf(a)]_vars
  BY <1>1, <1>2 DEF PoolInv
<1>3. QED
  BY <1>2, AlwaysPlaced, PTL DEF Spec, NoMigration

-----------------------------------------------------------------------------
(* What the tasks will hold *)

\* WillHold of a task that has the commands q before it and holds d.
HoldsAfter(q, d, a) ==
    LET about == {k \in DOMAIN q : a \in q[k].assets}
    IN  \/ about = {} /\ a \in d
        \/ \E k \in about : /\ \A j \in about : j <= k
                            /\ q[k].op = "subscribe"

\* A command sent has the last word on its assets, and says nothing of others.
LEMMA AfterSent ==
    ASSUME NEW q \in Seq(Commands), NEW c \in Commands, NEW d, NEW a
    PROVE  HoldsAfter(Append(q, c), d, a)
               <=> IF a \in c.assets THEN c.op = "subscribe" ELSE HoldsAfter(q, d, a)
<1> DEFINE r == Append(q, c)
           n == Len(q)
<1>1. /\ n \in Nat /\ DOMAIN q = 1..n /\ DOMAIN r = 1..(n + 1)
      /\ r[n + 1] = c /\ \A k \in 1..n : r[k] = q[k]
  BY AppendProperties
<1> HIDE DEF r, n
<1>2. CASE a \in c.assets
  <2>1. n + 1 \in {k \in DOMAIN r : a \in r[k].assets}
    BY <1>1, <1>2
  <2>2. \A j \in DOMAIN r : j <= n + 1
    BY <1>1
  <2>3. \A k \in DOMAIN r : n + 1 <= k => k = n + 1
    BY <1>1
  <2>4. HoldsAfter(r, d, a) <=> r[n + 1].op = "subscribe"
    BY <2>1, <2>2, <2>3 DEF HoldsAfter
  <2>5. QED
    BY <1>1, <1>2, <2>4 DEF r
<1>3. CASE a \notin c.assets
  <2>1. {k \in DOMAIN r : a \in r[k].assets} = {k \in DOMAIN q : a \in q[k].assets}
    <3>1. ASSUME NEW k \in DOMAIN r, a \in r[k].assets
          PROVE  k \in DOMAIN q /\ a \in q[k].assets
      <4>1. k # n + 1
        BY <1>1, <1>3, <3>1
      <4>2. k \in 1..n
        BY <1>1, <4>1
      <4>3. QED
        BY <1>1, <3>1, <4>2
    <3>2. ASSUME NEW k \in DOMAIN q, a \in q[k].assets
          PROVE  k \in DOMAIN r /\ a \in r[k].assets
      BY <1>1, <3>2
    <3>3. QED
      BY <3>1, <3>2
  <2>2. \A k \in DOMAIN q : r[k] = q[k]
    BY <1>1
  <2>3. HoldsAfter(r, d, a) <=> HoldsAfter(q, d, a)
    BY <2>1, <2>2 DEF HoldsAfter
  <2>4. QED
    BY <1>3, <2>3 DEF r
<1>4. QED
  BY <1>2, <1>3

\* Taking a command does not change what it leads to.
LEMMA AfterTaken ==
    ASSUME NEW q \in Seq(Commands), q # <<>>, NEW d, NEW e, NEW a,
           a \in e <=> IF a \in Head(q).assets THEN Head(q).op = "subscribe" ELSE a \in d
    PROVE  HoldsAfter(Tail(q), e, a) <=> HoldsAfter(q, d, a)
<1> DEFINE t == Tail(q)
           n == Len(q)
           A == {k \in DOMAIN q : a \in q[k].assets}
           B == {k \in DOMAIN t : a \in t[k].assets}
<1>1. /\ n \in Nat /\ n >= 1 /\ DOMAIN q = 1..n /\ DOMAIN t = 1..(n - 1)
      /\ Head(q) = q[1] /\ \A k \in 1..(n - 1) : t[k] = q[k + 1]
  OBVIOUS
<1> HIDE DEF t, n
<1>2. A \subseteq 1..n /\ B \subseteq 1..(n - 1)
  BY <1>1
<1>3. \A k \in 1..(n - 1) : k \in B <=> k + 1 \in A
  BY <1>1
<1>4. 1 \in A <=> a \in Head(q).assets
  BY <1>1
<1>5. HoldsAfter(q, d, a) <=> \/ A = {} /\ a \in d
                              \/ \E k \in A : (\A j \in A : j <= k) /\ q[k].op = "subscribe"
  BY DEF HoldsAfter
<1>6. HoldsAfter(t, e, a) <=> \/ B = {} /\ a \in e
                              \/ \E k \in B : (\A j \in B : j <= k) /\ t[k].op = "subscribe"
  BY DEF HoldsAfter
<1> HIDE DEF A, B
<1>7. CASE B = {}
  <2>1. A \subseteq {1}
    <3>1. ASSUME NEW k \in A, k # 1
          PROVE  FALSE
      <4>1. k - 1 \in 1..(n - 1) /\ (k - 1) + 1 = k
        BY <1>1, <1>2, <3>1
      <4>2. k - 1 \in B
        BY <1>3, <3>1, <4>1
      <4>3. QED
        BY <1>7, <4>2
    <3>2. QED
      BY <3>1
  <2>2. HoldsAfter(t, e, a) <=> a \in e
    BY <1>6, <1>7
  <2>3. CASE 1 \in A
    <3>1. A = {1}
      BY <2>1, <2>3
    <3>2. HoldsAfter(q, d, a) <=> q[1].op = "subscribe"
      BY <1>5, <3>1
    <3>3. QED
      BY <1>1, <1>4, <2>2, <2>3, <3>2 DEF t
  <2>4. CASE 1 \notin A
    <3>1. A = {}
      BY <2>1, <2>4
    <3>2. HoldsAfter(q, d, a) <=> a \in d
      BY <1>5, <3>1
    <3>3. QED
      BY <1>4, <2>2, <2>4, <3>2 DEF t
  <2>5. QED
    BY <2>3, <2>4
<1>8. CASE B # {}
  <2>1. PICK b \in B : TRUE
    BY <1>8
  <2>2. b \in 1..(n - 1) /\ b + 1 \in A /\ b + 1 > 1
    BY <1>1, <1>2, <1>3, <2>1
  <2>3. ASSUME NEW k \in B, \A j \in B : j <= k, t[k].op = "subscribe"
        PROVE  \E i \in A : (\A j \in A : j <= i) /\ q[i].op = "subscribe"
    <3>1. k \in 1..(n - 1) /\ k + 1 \in A /\ q[k + 1] = t[k]
      BY <1>1, <1>2, <1>3, <2>3
    <3>2. ASSUME NEW j \in A
          PROVE  j <= k + 1
      <4>1. CASE j = 1
        BY <3>1, <4>1
      <4>2. CASE j # 1
        <5>1. j - 1 \in 1..(n - 1) /\ (j - 1) + 1 = j
          BY <1>1, <1>2, <3>2, <4>2
        <5>2. j - 1 \in B
          BY <1>3, <3>2, <5>1
        <5>3. QED
          BY <2>3, <3>1, <5>1, <5>2
      <4>3. QED
        BY <4>1, <4>2
    <3>3. QED
      BY <2>3, <3>1, <3>2
  <2>4. ASSUME NEW i \in A, \A j \in A : j <= i, q[i].op = "subscribe"
        PROVE  \E k \in B : (\A j \in B : j <= k) /\ t[k].op = "subscribe"
    <3>1. i \in 1..n /\ i # 1
      BY <1>2, <2>2, <2>4
    <3>2. i - 1 \in 1..(n - 1) /\ (i - 1) + 1 = i
      BY <1>1, <3>1
    <3>3. i - 1 \in B /\ t[i - 1] = q[i]
      BY <1>1, <1>3, <2>4, <3>2
    <3>4. ASSUME NEW j \in B
          PROVE  j <= i - 1
      <4>1. j \in 1..(n - 1) /\ j + 1 \in A
        BY <1>2, <1>3, <3>4
      <4>2. j + 1 <= i
        BY <2>4, <4>1
      <4>3. QED
        BY <3>1, <4>1, <4>2
    <3>5. QED
      BY <2>4, <3>3, <3>4
  <2>5. A # {}
    BY <2>2
  <2>6. HoldsAfter(t, e, a) <=> HoldsAfter(q, d, a)
    BY <1>5, <1>6, <1>8, <2>3, <2>4, <2>5
  <2>7. QED
    BY <2>6 DEF t
<1>9. QED
  BY <1>7, <1>8

-----------------------------------------------------------------------------
\* Every handle has an id of its own, out of those given away so far.
IdsInv ==
    /\ \A i \in Indices : connections[i].id < nextConnId
    /\ \A i, j \in Indices : connections[i].id = connections[j].id => i = j

\* The task of an id not given away yet was told nothing.
Untold ==
    \A id \in ConnIds : id >= nextConnId => mailbox[id] = <<>> /\ desired[id] = {}

Bare == pc = "gc" => \A i \in toGc : connections[i].assets = {}

HandleHolds(id, a) ==
    \E i \in Indices : connections[i].id = id /\ a \in connections[i].assets

ConvergeInv == TypeInv /\ IdsInv /\ Untold /\ Bare /\ TasksConverge

LEMMA WillHoldIs ==
    \A id, a : WillHold(id, a) <=> HoldsAfter(mailbox[id], desired[id], a)
  BY DEF WillHold, HoldsAfter

LEMMA WillHoldIsNext ==
    \A id, a : WillHold(id, a)' <=> HoldsAfter(mailbox[id]', desired[id]', a)
  BY DEF WillHold, HoldsAfter

LEMMA NewHandleIds ==
    ASSUME TypeOK, NEW n \in Nat, nextConnId + n <= MaxConns,
           NEW k \in (Len(connections) + 1)..(Len(connections) + n)
    PROVE  (connections \o NewHandles(n))[k].id = nextConnId + (k - Len(connections)) - 1
<1>1. Len(connections) \in Nat /\ k - Len(connections) \in 1..n
  BY DEF TypeOK
<1>2. NewHandles(n) \in Seq(Handles) /\ Len(NewHandles(n)) = n /\ connections \in Seq(Handles)
  BY NewHandlesType DEF TypeOK, Handles
<1>3. (connections \o NewHandles(n))[k] = NewHandles(n)[k - Len(connections)]
  BY ONLY <1>2, Concatenated, k \in (Len(connections) + 1)..(Len(connections) + n)
<1>4. NewHandles(n)[k - Len(connections)].id = nextConnId + (k - Len(connections)) - 1
  BY <1>1 DEF NewHandles
<1>5. QED
  BY <1>3, <1>4

HandlesTyped == \A i \in Indices : connections[i] \in Handles

LEMMA AllHandles == TypeOK => HandlesTyped
  BY HandleOf DEF HandlesTyped, Indices

LEMMA AllHandlesNext == TypeOK' => HandlesTyped'
  BY AllHandles, PTL

\* Numbering on from b keeps the numbers apart.
LEMMA FreshIds ==
    ASSUME NEW m \in Nat, NEW n \in Nat, NEW b \in Nat, NEW f \in [1..(m + n) -> Nat],
           \A k \in 1..m : f[k] < b,
           \A k, l \in 1..m : f[k] = f[l] => k = l,
           \A k \in (m + 1)..(m + n) : f[k] = b + (k - m) - 1
    PROVE  /\ \A k \in 1..(m + n) : f[k] < b + n
           /\ \A k, l \in 1..(m + n) : f[k] = f[l] => k = l
           /\ \A k \in (m + 1)..(m + n) : f[k] >= b
<1>1. \A k \in 1..(m + n) : f[k] \in Nat /\ (k \in 1..m \/ k \in (m + 1)..(m + n))
  OBVIOUS
<1>2. \A k \in (m + 1)..(m + n) : f[k] >= b /\ f[k] < b + n
  OBVIOUS
<1>3. \A k \in 1..(m + n) : f[k] < b + n
  BY <1>1, <1>2
<1>4. \A k, l \in (m + 1)..(m + n) : f[k] = f[l] => k = l
  OBVIOUS
<1>5. \A k \in 1..m, l \in (m + 1)..(m + n) : f[k] # f[l]
  <2> TAKE k \in 1..m, l \in (m + 1)..(m + n)
  <2>1. f[k] < b /\ f[l] >= b /\ f[k] \in Nat /\ f[l] \in Nat
    BY <1>1, <1>2
  <2>2. QED
    BY <2>1
<1>6. \A k, l \in 1..(m + n) : f[k] = f[l] => k = l
  BY <1>1, <1>4, <1>5
<1>7. QED
  BY <1>2, <1>3, <1>6

\* The connections opened have new ids and nothing to hold.
LEMMA Opening ==
    ASSUME ConvergeInv, TypeInv', NEW n \in Nat, nextConnId + n <= MaxConns,
           connections' = connections \o NewHandles(n), nextConnId' = nextConnId + n,
           UNCHANGED connVars
    PROVE  IdsInv' /\ Untold' /\ TasksConverge'
<1>1. TypeOK /\ IdsInv /\ Untold /\ TasksConverge
  BY DEF ConvergeInv, TypeInv
<1>2. PICK m \in Nat : m = Len(connections) /\ Indices = 1..m
  BY IndexRange DEF ConvergeInv
<1>3. PICK b \in Nat : b = nextConnId
  BY <1>1, PoolAssumption DEF TypeOK
<1>4. Indices' = 1..(m + n) /\ nextConnId' = b + n
  BY <1>1, <1>2, <1>3, NewHandlesType, IndexRangeNext
<1>5. \A k \in 1..m : connections'[k] = connections[k]
  BY <1>1, <1>2, NewHandlesType
<1>6. \A k \in (m + 1)..(m + n) :
          connections'[k].assets = {} /\ connections'[k].id = b + (k - m) - 1
  BY <1>1, <1>2, <1>3, NewHandlesType, NewHandleIds
<1>7. \A k \in 1..m : connections[k].id \in Nat /\ connections[k].id < b
  <2>1. \A k \in 1..m : connections[k] \in Handles
    BY <1>1, <1>2, HandleOf DEF Indices
  <2>2. QED
    BY <1>1, <1>2, <1>3, <2>1 DEF Handles, ConnIds, IdsInv
<1> DEFINE f == [k \in 1..(m + n) |-> connections'[k].id]
<1>14. f \in [1..(m + n) -> Nat]
  <2>1. \A k \in Indices' : connections'[k] \in Handles
    BY AllHandlesNext DEF TypeInv, HandlesTyped
  <2>2. QED
    BY ONLY <1>4, <2>1, PoolAssumption DEF Handles, ConnIds
<1>15. /\ \A k \in 1..m : f[k] = connections[k].id
       /\ \A k \in (m + 1)..(m + n) : f[k] = b + (k - m) - 1
  <2>1. \A k \in 1..m : k \in 1..(m + n)
    OBVIOUS
  <2>2. \A k \in (m + 1)..(m + n) : k \in 1..(m + n)
    OBVIOUS
  <2>3. QED
    BY ONLY <1>5, <1>6, <2>1, <2>2
<1>16. \A k \in 1..(m + n) : f[k] = connections'[k].id
  OBVIOUS
<1> HIDE DEF f
<1>17. /\ \A k \in 1..(m + n) : f[k] < b + n
       /\ \A k, l \in 1..(m + n) : f[k] = f[l] => k = l
       /\ \A k \in (m + 1)..(m + n) : f[k] >= b
  <2>1. /\ \A k \in 1..m : f[k] < b
        /\ \A k, l \in 1..m : f[k] = f[l] => k = l
    BY ONLY <1>1, <1>2, <1>7, <1>15 DEF IdsInv
  <2>2. QED
    BY <1>14, <1>15, <2>1, FreshIds
<1>8. IdsInv'
  BY ONLY <1>4, <1>16, <1>17, n \in Nat, m \in Nat DEF IdsInv
<1>9. Untold'
  <2>1. ASSUME NEW id \in ConnIds, id >= b + n
        PROVE  mailbox[id] = <<>> /\ desired[id] = {}
    <3>1. id >= b
      BY <2>1 DEF ConnIds
    <3>2. QED
      BY <1>1, <1>3, <3>1 DEF Untold
  <2>2. QED
    BY <1>4, <2>1 DEF Untold, connVars
<1>10. ASSUME NEW id \in 0..(b + n - 1), NEW a \in Assets
       PROVE  WillHold(id, a)' <=> HandleHolds(id, a)'
  <2>1. WillHold(id, a)' <=> WillHold(id, a)
    BY DEF WillHold, connVars
  <2>2. CASE id < b
    <3>1. WillHold(id, a) <=> HandleHolds(id, a)
      BY <1>1, <1>3, <2>2 DEF TasksConverge, HandleHolds
    <3>2. HandleHolds(id, a)' <=> HandleHolds(id, a)
      <4>1. \A i \in (m + 1)..(m + n) : a \notin connections'[i].assets
        BY <1>6
      <4>2. \A i \in 1..(m + n) : i \in 1..m \/ i \in (m + 1)..(m + n)
        OBVIOUS
      <4>3. 1..m \subseteq 1..(m + n)
        OBVIOUS
      <4>4. QED
        BY <1>2, <1>4, <1>5, <4>1, <4>2, <4>3 DEF HandleHolds
    <3>3. QED
      BY <2>1, <3>1, <3>2
  <2>3. CASE id >= b
    <3>1. id \in ConnIds /\ mailbox[id] = <<>> /\ desired[id] = {}
      <4>1. id \in ConnIds
        BY <1>3, PoolAssumption DEF ConnIds
      <4>2. QED
        BY <1>1, <1>3, <2>3, <4>1 DEF Untold
    <3>2. ~WillHold(id, a)
      BY <3>1 DEF WillHold
    <3>3. ~HandleHolds(id, a)'
      <4>1. \A i \in 1..m : connections'[i].id # id
        BY ONLY <1>5, <1>7, <2>3, <1>10, b \in Nat, n \in Nat
      <4>2. \A i \in (m + 1)..(m + n) : a \notin connections'[i].assets
        BY <1>6
      <4>3. \A i \in 1..(m + n) : i \in 1..m \/ i \in (m + 1)..(m + n)
        OBVIOUS
      <4>4. QED
        BY <1>4, <4>1, <4>2, <4>3 DEF HandleHolds
    <3>4. QED
      BY <2>1, <3>2, <3>3
  <2>4. QED
    BY <2>2, <2>3
<1>11. TasksConverge'
  <2>1. \A id \in 0..(nextConnId' - 1) : \A a \in Assets : WillHold(id, a)' <=> HandleHolds(id, a)'
    <3>1. 0..(nextConnId' - 1) = 0..(b + n - 1)
      BY ONLY <1>4
    <3>2. QED
      BY ONLY <1>10, <3>1, Zenon
  <2>2. QED
    BY <2>1 DEF TasksConverge, HandleHolds
<1>12. QED
  BY <1>8, <1>9, <1>11

\* A command and the assets of the handle that sends it change together.
LEMMA Sending ==
    ASSUME ConvergeInv, TypeInv', NEW i \in DOMAIN connections,
           NEW op \in {"subscribe", "unsubscribe"}, NEW told \in SUBSET Assets,
           NEW held \in SUBSET Assets, Send(i, op, told),
           connections' = [connections EXCEPT ![i].assets = held],
           \A a \in Assets : a \in held <=>
               IF a \in told THEN op = "subscribe" ELSE a \in connections[i].assets,
           UNCHANGED <<nextConnId, desired>>
    PROVE  IdsInv' /\ Untold' /\ TasksConverge'
<1> DEFINE c == [op |-> op, assets |-> told]
<1>1. TypeOK /\ IdsInv /\ Untold /\ TasksConverge
  BY DEF ConvergeInv, TypeInv
<1>2. PICK id \in ConnIds : id = connections[i].id /\ id < nextConnId
  <2>1. connections[i] \in Handles
    BY <1>1, HandleOf
  <2>2. QED
    BY <1>1, <2>1 DEF Handles, IdsInv, Indices
<1>3. /\ mailbox' = [mailbox EXCEPT ![id] = Append(mailbox[id], c)]
      /\ mailbox \in [ConnIds -> Seq(Commands)] /\ c \in Commands
      /\ c.op = op /\ c.assets = told
  BY <1>1, <1>2 DEF Send, TypeOK, Commands
<1> HIDE DEF c
<1>4. mailbox'[id] = Append(mailbox[id], c) /\ \A x \in ConnIds \ {id} : mailbox'[x] = mailbox[x]
  BY <1>3
<1>5. /\ Indices' = Indices /\ \A j \in Indices : connections'[j].id = connections[j].id
      /\ \A j \in Indices :
            connections'[j].assets = IF j = i THEN held ELSE connections[j].assets
  <2>1. Len(connections') = Len(connections) /\ \A k \in 1..Len(connections) :
            connections'[k].assets = IF k = i THEN held ELSE connections[k].assets
    BY <1>1, HandleChanges
  <2>2. Indices = 1..Len(connections) /\ Indices' = 1..Len(connections')
    BY IndexRange, IndexRangeNext DEF ConvergeInv
  <2>3. \A j \in Indices : connections'[j].id = connections[j].id
    BY IdsKept DEF ConvergeInv
  <2>4. QED
    BY <2>1, <2>2, <2>3
<1>6. IdsInv'
  BY <1>1, <1>5 DEF IdsInv
<1>7. Untold'
  <2>1. nextConnId \in Nat
    BY <1>1, PoolAssumption DEF TypeOK
  <2>2. \A x \in ConnIds : x >= nextConnId => x # id
    BY <1>2, <2>1 DEF ConnIds
  <2>3. QED
    BY <1>1, <1>4, <2>2 DEF Untold
<1>8. ASSUME NEW x \in 0..(nextConnId - 1), NEW a \in Assets
      PROVE  WillHold(x, a)' <=> HandleHolds(x, a)'
  <2>1. x \in ConnIds
    BY <1>1, PoolAssumption DEF TypeOK, ConnIds
  <2>2. WillHold(x, a) <=> HandleHolds(x, a)
    BY <1>1 DEF TasksConverge, HandleHolds
  <2>3. CASE x = id
    <3>1. WillHold(x, a)' <=> IF a \in told THEN op = "subscribe" ELSE WillHold(x, a)
      <4>1. mailbox[id] \in Seq(Commands)
        BY <1>3
      <4>2. HoldsAfter(Append(mailbox[id], c), desired[id], a)
               <=> IF a \in told THEN op = "subscribe" ELSE HoldsAfter(mailbox[id], desired[id], a)
        BY <1>3, <4>1, AfterSent
      <4>3. QED
        BY <1>4, <2>3, <4>2, WillHoldIs, WillHoldIsNext
    <3>2. \A j \in Indices : connections[j].id = id <=> j = i
      BY <1>1, <1>2 DEF IdsInv, Indices
    <3>3. HandleHolds(x, a) <=> a \in connections[i].assets
      BY <2>3, <3>2 DEF HandleHolds, Indices
    <3>4. HandleHolds(x, a)' <=> a \in held
      BY <1>5, <2>3, <3>2 DEF HandleHolds, Indices
    <3>5. QED
      BY <2>2, <3>1, <3>3, <3>4
  <2>4. CASE x # id
    <3>1. WillHold(x, a)' <=> WillHold(x, a)
      BY <1>4, <2>1, <2>4, WillHoldIs, WillHoldIsNext
    <3>2. HandleHolds(x, a)' <=> HandleHolds(x, a)
      BY <1>2, <1>5, <2>4 DEF HandleHolds
    <3>3. QED
      BY <2>2, <3>1, <3>2
  <2>5. QED
    BY <2>3, <2>4
<1>9. TasksConverge'
  BY <1>8 DEF TasksConverge, HandleHolds
<1>10. QED
  BY <1>6, <1>7, <1>9

\* Nothing that is proved here is touched.
LEMMA SameHolders ==
    ASSUME ConvergeInv, UNCHANGED <<connections, nextConnId, mailbox, desired>>
    PROVE  IdsInv' /\ Untold' /\ TasksConverge'
  BY DEF ConvergeInv, IdsInv, Untold, TasksConverge, WillHold, Indices

LEMMA Taking ==
    ASSUME ConvergeInv, TypeInv', NEW id \in ConnIds, Receive(id)
    PROVE  IdsInv' /\ Untold' /\ TasksConverge'
<1>1. TypeOK /\ IdsInv /\ Untold /\ TasksConverge
  BY DEF ConvergeInv, TypeInv
<1> DEFINE q == mailbox[id]
           h == Head(q)
           e == IF h.op = "subscribe" THEN desired[id] \cup h.assets ELSE desired[id] \ h.assets
<1>2. /\ q \in Seq(Commands) /\ q # <<>> /\ UNCHANGED <<connections, nextConnId>>
      /\ mailbox' = [mailbox EXCEPT ![id] = Tail(q)] /\ desired' = [desired EXCEPT ![id] = e]
  BY <1>1 DEF TypeOK, Receive, poolVars
<1>3. \A a : a \in e <=> IF a \in h.assets THEN h.op = "subscribe" ELSE a \in desired[id]
  OBVIOUS
<1> HIDE DEF e
<1>4. /\ mailbox'[id] = Tail(q) /\ desired'[id] = e
      /\ \A x \in ConnIds \ {id} : mailbox'[x] = mailbox[x] /\ desired'[x] = desired[x]
  BY <1>1, <1>2 DEF TypeOK
<1> HIDE DEF q
<1>5. \A a : HoldsAfter(Tail(q), e, a) <=> HoldsAfter(q, desired[id], a)
  BY <1>2, <1>3, AfterTaken
<1>6. \A x \in ConnIds, a \in Assets : WillHold(x, a)' <=> WillHold(x, a)
  <2> TAKE x \in ConnIds, a \in Assets
  <2>1. CASE x = id
    BY <1>4, <1>5, <2>1, WillHoldIs, WillHoldIsNext DEF q
  <2>2. CASE x # id
    BY <1>4, <2>2, WillHoldIs, WillHoldIsNext
  <2>3. QED
    BY <2>1, <2>2
<1>7. IdsInv'
  BY <1>1, <1>2 DEF IdsInv, Indices
<1>8. Untold'
  BY <1>1, <1>2, <1>4 DEF Untold, q
<1>9. TasksConverge'
  <2>1. 0..(nextConnId - 1) \subseteq ConnIds
    BY <1>1, PoolAssumption DEF TypeOK, ConnIds
  <2>2. \A x, a : HandleHolds(x, a)' <=> HandleHolds(x, a)
    BY <1>2 DEF HandleHolds, Indices
  <2>3. QED
    BY <1>1, <1>2, <1>6, <2>1, <2>2 DEF TasksConverge, HandleHolds
<1>10. QED
  BY <1>7, <1>8, <1>9

-----------------------------------------------------------------------------
\* The handle that goes is empty, so no task holds what only it had.
LEMMA RemovalConverges ==
    ASSUME ConvergeInv, TypeInv', RemoveEmpty
    PROVE  ConvergeInv'
<1>1. PICK i \in toGc :
          /\ pc = "gc" /\ pc' = pc /\ connections' = SwapRemove(connections, i)
          /\ \A j \in toGc : j <= i
          /\ toGc' = toGc \ {i}
          /\ UNCHANGED <<nextConnId, mailbox, desired>>
  BY DEF RemoveEmpty, connVars
<1>2. TypeInv /\ TypeOK /\ IdsInv /\ Untold /\ Bare /\ TasksConverge
  BY DEF ConvergeInv, TypeInv
<1>3. PICK n \in Nat : n = Len(connections) /\ Indices = 1..n /\ i \in 1..n
  BY <1>1, <1>2, IndexRange DEF TypeInv, Collectable
<1>4. connections \in Seq(Handles) /\ \A j \in toGc : j \in 1..n
  BY <1>1, <1>2, <1>3 DEF TypeInv, TypeOK, Handles, Collectable
<1>5. /\ Len(connections') = n - 1 /\ n - 1 \in Nat
      /\ \A k \in 1..(n - 1) :
            connections'[k] = IF k = i THEN connections[n] ELSE connections[k]
  <2>1. /\ Len(SwapRemove(connections, i)) = Len(connections) - 1
        /\ \A k \in 1..(Len(connections) - 1) :
              SwapRemove(connections, i)[k] = IF k = i THEN connections[Len(connections)]
                                              ELSE connections[k]
    BY <1>3, <1>4, SwapRemoved
  <2>2. QED
    BY <1>1, <1>3, <2>1
<1>6. Indices' = 1..(n - 1)
  BY <1>5, IndexRangeNext
<1>7. connections[i].assets = {}
  BY <1>1, <1>2 DEF Bare
<1>8. IdsInv'
  <2>1. \A k \in 1..(n - 1) : connections'[k].id < nextConnId
    BY ONLY <1>2, <1>3, <1>5 DEF IdsInv
  <2>2. \A k, l \in 1..(n - 1) : connections'[k].id = connections'[l].id => k = l
    BY ONLY <1>2, <1>3, <1>5 DEF IdsInv
  <2>3. QED
    BY ONLY <1>1, <1>6, <2>1, <2>2 DEF IdsInv
<1>9. Untold'
  BY <1>1, <1>2 DEF Untold
<1>10. Bare'
  <2>1. ASSUME NEW j \in toGc'
        PROVE  connections'[j].assets = {}
    <3>1. j \in toGc /\ j # i /\ j \in 1..n /\ j <= i
      BY <1>1, <1>4, <2>1
    <3>2. j \in 1..(n - 1)
      BY ONLY <1>3, <3>1
    <3>3. QED
      BY <1>1, <1>2, <1>5, <3>1, <3>2 DEF Bare
  <2>2. QED
    BY <2>1 DEF Bare
<1>11. ASSUME NEW id, NEW a
       PROVE  HandleHolds(id, a)' <=> HandleHolds(id, a)
  <2>1. ASSUME NEW k \in 1..n, connections[k].id = id, a \in connections[k].assets
        PROVE  \E l \in 1..(n - 1) : connections'[l].id = id /\ a \in connections'[l].assets
    <3>1. k # i
      BY ONLY <1>7, <2>1
    <3>2. CASE k = n
      <4>1. i \in 1..(n - 1)
        BY ONLY <1>3, <3>1, <3>2
      <4>2. connections'[i] = connections[k]
        BY ONLY <1>5, <3>2, <4>1
      <4>3. QED
        BY ONLY <2>1, <4>1, <4>2
    <3>3. CASE k # n
      <4>1. k \in 1..(n - 1)
        BY ONLY <1>3, <2>1, <3>3, n \in Nat
      <4>2. connections'[k] = connections[k]
        BY ONLY <1>5, <3>1, <4>1
      <4>3. QED
        BY ONLY <2>1, <4>1, <4>2
    <3>4. QED
      BY <3>2, <3>3
  <2>2. ASSUME NEW l \in 1..(n - 1), connections'[l].id = id, a \in connections'[l].assets
        PROVE  \E k \in 1..n : connections[k].id = id /\ a \in connections[k].assets
    <3>1. l \in 1..n /\ n \in 1..n
      BY ONLY <1>3, <2>2
    <3>2. connections'[l] = connections[n] \/ connections'[l] = connections[l]
      BY ONLY <1>5, <2>2
    <3>3. QED
      BY ONLY <2>2, <3>1, <3>2
  <2>3. QED
    BY ONLY <1>3, <1>6, <2>1, <2>2 DEF HandleHolds
<1>12. TasksConverge'
  <2>1. \A id, a : WillHold(id, a)' <=> WillHold(id, a)
    BY <1>1 DEF WillHold
  <2>2. \A id \in 0..(nextConnId - 1) : \A a \in Assets : WillHold(id, a) <=> HandleHolds(id, a)
    BY ONLY <1>2 DEF TasksConverge, HandleHolds
  <2>3. \A id \in 0..(nextConnId' - 1) : \A a \in Assets : WillHold(id, a)' <=> HandleHolds(id, a)'
    BY ONLY <1>1, <1>11, <2>1, <2>2
  <2>4. QED
    BY ONLY <2>3 DEF TasksConverge, HandleHolds
<1>13. QED
  BY <1>8, <1>9, <1>10, <1>12 DEF ConvergeInv

LEMMA NextConverges ==
    ASSUME ConvergeInv, [Next]_vars
    PROVE  ConvergeInv'
<1>1. TypeInv /\ TypeInv' /\ Bare /\ TypeOK
  BY NextTypes DEF ConvergeInv, TypeInv
<1>2. CASE UNCHANGED <<connections, nextConnId, mailbox, desired>> /\ pc' # "gc"
  BY <1>1, <1>2, SameHolders DEF ConvergeInv, Bare
<1>3. CASE UNCHANGED vars
  <2>1. Bare'
    BY <1>1, <1>3 DEF Bare, vars, poolVars, callVars
  <2>2. QED
    BY <1>1, <1>3, <2>1, SameHolders DEF ConvergeInv, vars, poolVars, connVars
<1>4. ASSUME NEW batch \in SUBSET (Markets \X Copies), SubscribeMarkets(batch)
      PROVE  ConvergeInv'
  <2>1. PICK n \in 0..(MaxConns - nextConnId - 1) :
           connections' = connections \o NewHandles(n) /\ nextConnId' = nextConnId + n
    BY <1>4 DEF SubscribeMarkets
  <2>2. n \in Nat /\ nextConnId + n <= MaxConns
    BY <1>1, <2>1, PoolAssumption DEF TypeOK
  <2>3. UNCHANGED connVars /\ Bare'
    BY <1>4 DEF SubscribeMarkets, Bare
  <2>4. QED
    BY <1>1, <2>1, <2>2, <2>3, Opening DEF ConvergeInv
<1>5. ASSUME NEW item \in Items, Place1(item) \/ Place2(item) \/ Spill(item)
      PROVE  ConvergeInv'
  <2>1. pc' # "gc"
    BY <1>5 DEF Place1, Place2, Spill, AfterPass2
  <2>2. UNCHANGED <<connections, nextConnId, mailbox, desired>>
    BY <1>5 DEF Place1, Place2, Spill, poolVars, connVars
  <2>3. QED
    BY <1>2, <2>1, <2>2
<1>6. CASE PlaceOverflow
  <2>1. nextConnId + 1 <= MaxConns
    BY <1>1, <1>6, PoolAssumption DEF PlaceOverflow, TypeInv, TypeOK, Opens
  <2>2. /\ connections' = connections \o NewHandles(1) /\ nextConnId' = nextConnId + 1
        /\ UNCHANGED connVars /\ Bare'
    BY <1>6 DEF PlaceOverflow, Bare
  <2>3. QED
    BY <1>1, <2>1, <2>2, Opening DEF ConvergeInv
<1>7. ASSUME NEW i \in DOMAIN pending, Dispatch(i)
      PROVE  ConvergeInv'
  <2> DEFINE told == {AssetOf(it) : it \in pending[i]}
             held == connections[i].assets \cup told
  <2>1. told \in SUBSET Assets
    BY <1>1 DEF TypeOK, AssetOf, Assets, Items
  <2>2. i \in DOMAIN connections
    BY <1>1, <1>7 DEF TypeOK, Dispatch
  <2>3. held \in SUBSET Assets
    BY <1>1, <2>1, <2>2, HandleOf DEF Handles
  <2>4. Send(i, "subscribe", told) /\ connections' = [connections EXCEPT ![i].assets = held]
    BY <1>7 DEF Dispatch
  <2>5. \A a \in Assets : a \in held <=>
               IF a \in told THEN "subscribe" = "subscribe" ELSE a \in connections[i].assets
    OBVIOUS
  <2>6. UNCHANGED <<nextConnId, desired>> /\ Bare'
    BY <1>7 DEF Dispatch, Bare
  <2> HIDE DEF told, held
  <2>7. QED
    BY <1>1, <2>1, <2>2, <2>3, <2>4, <2>5, <2>6, Sending DEF ConvergeInv
<1>8. ASSUME NEW i \in DOMAIN unsubs, SendUnsubscribe(i)
      PROVE  ConvergeInv'
  <2> DEFINE told == unsubs[i]
             held == connections[i].assets \ told
  <2>1. told \in SUBSET Assets
    BY <1>1, <1>8 DEF TypeOK
  <2>2. i \in DOMAIN connections
    <3>1. /\ unsubs \in Seq(SUBSET Assets) /\ Len(unsubs) = Len(connections)
          /\ connections \in Seq(Handles)
      BY <1>1, <1>8 DEF TypeOK, SendUnsubscribe, Handles
    <3>2. QED
      BY <1>8, <3>1
  <2>3. held \in SUBSET Assets
    BY <1>1, <2>2, HandleOf DEF Handles
  <2>4. Send(i, "unsubscribe", told) /\ connections' = [connections EXCEPT ![i].assets = held]
    BY <1>8 DEF SendUnsubscribe
  <2>5. \A a \in Assets : a \in held <=>
               IF a \in told THEN "unsubscribe" = "subscribe" ELSE a \in connections[i].assets
    OBVIOUS
  <2>6. UNCHANGED <<nextConnId, desired>> /\ Bare'
    BY <1>8 DEF SendUnsubscribe, Bare
  <2> HIDE DEF told, held
  <2>7. QED
    BY <1>1, <2>1, <2>2, <2>3, <2>4, <2>5, <2>6, Sending DEF ConvergeInv
<1>9. ASSUME NEW hashes \in SUBSET Markets, UnsubscribeMarkets(hashes)
      PROVE  ConvergeInv'
  BY <1>2, <1>9 DEF UnsubscribeMarkets, connVars
<1>10. CASE FinishSubscribe \/ FinishUnsubscribe
  BY <1>2, <1>10 DEF FinishSubscribe, FinishUnsubscribe, connVars
<1>11. CASE CollectEmpty
  <2>1. UNCHANGED <<connections, nextConnId, mailbox, desired>> /\ Bare'
    BY <1>11 DEF CollectEmpty, Bare, poolVars, connVars
  <2>2. QED
    BY <1>1, <2>1, SameHolders DEF ConvergeInv
<1>12. ASSUME NEW id \in ConnIds, Receive(id)
       PROVE  ConvergeInv'
  <2>1. Bare'
    BY <1>1, <1>12 DEF Receive, poolVars, callVars, Bare
  <2>2. QED
    BY <1>1, <1>12, <2>1, Taking DEF ConvergeInv
<1>13. QED
  BY <1>1, <1>3, <1>4, <1>5, <1>6, <1>7, <1>8, <1>9, <1>10, <1>11, <1>12, RemovalConverges
     DEF Next, CallStep

LEMMA AlwaysConverges == Spec => []ConvergeInv
<1>1. Init => ConvergeInv
  <2> SUFFICES ASSUME Init PROVE ConvergeInv
    OBVIOUS
  <2>1. Indices = {} /\ nextConnId = 0 /\ pc = "idle"
    BY DEF Init, Indices
  <2>2. \A id \in ConnIds : mailbox[id] = <<>> /\ desired[id] = {}
    BY DEF Init
  <2>3. IdsInv /\ Untold /\ Bare
    BY <2>1, <2>2 DEF IdsInv, Untold, Bare
  <2>4. TasksConverge
    BY <2>1 DEF TasksConverge
  <2>5. QED
    BY <2>3, <2>4, InitTypes DEF ConvergeInv
<1>2. QED
  BY <1>1, NextConverges, PTL DEF Spec

\* Whatever commands are still in a mailbox when others are sent, and whichever
\* handles have moved or gone since, each task ends up with exactly the assets the
\* pool has on record for it (pool.rs:284-293, 326-335).
THEOREM TasksEndUpAsRecorded == Spec => []TasksConverge
<1>1. ConvergeInv => TasksConverge
  BY DEF ConvergeInv
<1>2. QED
  BY <1>1, AlwaysConverges, PTL

-----------------------------------------------------------------------------
(* Counting *)

\* A set all of whose members are images of the members of S is no larger than S.
LEMMA ImageBound ==
    ASSUME NEW S, IsFiniteSet(S), NEW T, NEW f \in [S -> T], \A t \in T : \E s \in S : f[s] = t
    PROVE  IsFiniteSet(T) /\ Cardinality(T) <= Cardinality(S)
<1>1. f \in Surjection(S, T)
  BY DEF Surjection
<1>2. QED
  BY <1>1, FS_Surjection

LEMMA ItemsFinite == IsFiniteSet(Assets) /\ IsFiniteSet(Items)
<1>1. IsFiniteSet({1, 2})
  <2>1. {1, 2} = 1..2
    OBVIOUS
  <2>2. IsFiniteSet(1..2)
    <3>1. 1 \in Int /\ 2 \in Int
      OBVIOUS
    <3>2. QED
      BY ONLY <3>1, FS_Interval
  <2>3. QED
    BY <2>1, <2>2, Zenon
<1>2. IsFiniteSet(Assets)
  BY <1>1, PoolAssumption, FS_Product DEF Assets
<1>3. IsFiniteSet(Assets \X Copies)
  BY <1>2, PoolAssumption, FS_Product
<1> DEFINE f == [p \in Assets \X Copies |-> <<p[1][1], p[1][2], p[2]>>]
<1>4. f \in [Assets \X Copies -> Items]
  BY DEF Assets, Items
<1>5. ASSUME NEW it \in Items
      PROVE  \E p \in Assets \X Copies : f[p] = it
  <2> DEFINE p == <<<<it[1], it[2]>>, it[3]>>
  <2>1. it = <<it[1], it[2], it[3]>> /\ it[1] \in Markets /\ it[2] \in {1, 2} /\ it[3] \in Copies
    BY DEF Items
  <2>2. p \in Assets \X Copies /\ p[1][1] = it[1] /\ p[1][2] = it[2] /\ p[2] = it[3]
    BY <2>1 DEF Assets
  <2>3. f[p] = it
    BY <2>1, <2>2
  <2>4. QED
    BY <2>2, <2>3
<1> HIDE DEF f
<1>6. IsFiniteSet(Items)
  BY <1>3, <1>4, <1>5, ImageBound
<1>7. QED
  BY <1>2, <1>6

\* What a set of items asks for is not more assets than it has items.
LEMMA AssetsOfItems ==
    ASSUME NEW P \in SUBSET Items
    PROVE  /\ IsFiniteSet(P) /\ IsFiniteSet({AssetOf(it) : it \in P})
           /\ Cardinality({AssetOf(it) : it \in P}) <= Cardinality(P)
<1> DEFINE T == {AssetOf(it) : it \in P}
           f == [it \in P |-> AssetOf(it)]
<1>1. IsFiniteSet(P)
  BY ItemsFinite, FS_Subset
<1>2. f \in [P -> T] /\ \A t \in T : \E it \in P : f[it] = t
  OBVIOUS
<1> HIDE DEF f, T
<1>3. IsFiniteSet(T) /\ Cardinality(T) <= Cardinality(P)
  BY <1>1, <1>2, ImageBound
<1>4. QED
  BY <1>1, <1>3 DEF T

LEMMA Counted ==
    ASSUME NEW S, IsFiniteSet(S)
    PROVE  Cardinality(S) \in Nat /\ (Cardinality(S) = 0 <=> S = {})
  BY FS_CardinalityType, FS_EmptySet

LEMMA OneMore ==
    ASSUME NEW S, IsFiniteSet(S), NEW x
    PROVE  /\ IsFiniteSet(S \cup {x}) /\ Cardinality(S \cup {x}) \in Nat
           /\ Cardinality(S \cup {x}) <= Cardinality(S) + 1
           /\ x \notin S => Cardinality(S \cup {x}) = Cardinality(S) + 1
           /\ x \in S => Cardinality(S \cup {x}) = Cardinality(S)
<1>1. /\ IsFiniteSet(S \cup {x})
      /\ Cardinality(S \cup {x}) = IF x \in S THEN Cardinality(S) ELSE Cardinality(S) + 1
  BY FS_AddElement
<1>2. Cardinality(S \cup {x}) \in Nat /\ Cardinality(S) \in Nat
  BY <1>1, FS_CardinalityType
<1>3. QED
  BY <1>1, <1>2

LEMMA OneLess ==
    ASSUME NEW S, IsFiniteSet(S), NEW x \in S
    PROVE  /\ IsFiniteSet(S \ {x}) /\ Cardinality(S \ {x}) \in Nat
           /\ Cardinality(S) = Cardinality(S \ {x}) + 1
<1>1. IsFiniteSet(S \ {x}) /\ Cardinality(S \ {x}) = Cardinality(S) - 1
  BY FS_RemoveElement
<1>2. Cardinality(S \ {x}) \in Nat /\ Cardinality(S) \in Nat
  BY <1>1, FS_CardinalityType
<1>3. QED
  BY <1>1, <1>2

LEMMA UnionBound ==
    ASSUME NEW S, NEW T, IsFiniteSet(S), IsFiniteSet(T)
    PROVE  /\ IsFiniteSet(S \cup T) /\ Cardinality(S \cup T) \in Nat
           /\ Cardinality(S \cup T) <= Cardinality(S) + Cardinality(T)
           /\ S \cap T = {} => Cardinality(S \cup T) = Cardinality(S) + Cardinality(T)
           /\ Cardinality(S) <= Cardinality(S \cup T)
<1>1. IsFiniteSet(S \cup T)
      /\ Cardinality(S \cup T) = Cardinality(S) + Cardinality(T) - Cardinality(S \cap T)
  BY FS_Union
<1>2. IsFiniteSet(S \cap T) /\ (S \cap T = {} => Cardinality(S \cap T) = 0)
  <2>1. S \cap T \in SUBSET S
    OBVIOUS
  <2>2. QED
    BY <2>1, FS_Subset, FS_EmptySet
<1>3. /\ Cardinality(S) \in Nat /\ Cardinality(T) \in Nat
      /\ Cardinality(S \cup T) \in Nat /\ Cardinality(S \cap T) \in Nat
  BY <1>1, <1>2, FS_CardinalityType
<1>4. Cardinality(S) <= Cardinality(S \cup T)
  BY <1>1, FS_Subset
<1>5. QED
  BY <1>1, <1>2, <1>3, <1>4

-----------------------------------------------------------------------------
(* Room: the free places of connections that carry `load' *)

RoomOf(load) == {s \in (DOMAIN load) \X (1..MaxAssets) : s[2] > load[s[1]]}

LEMMA Grid ==
    ASSUME NEW n \in Nat, NEW k \in Nat
    PROVE  /\ IsFiniteSet(((n + 1)..(n + k)) \X (1..MaxAssets))
           /\ Cardinality(((n + 1)..(n + k)) \X (1..MaxAssets)) = k * MaxAssets
<1>1. MaxAssets \in Nat /\ MaxAssets >= 1
  BY PoolAssumption
<1>2. IsFiniteSet(1..MaxAssets) /\ Cardinality(1..MaxAssets) = MaxAssets
  <2>1. 1 \in Int /\ MaxAssets \in Int
    BY <1>1
  <2>2. /\ IsFiniteSet(1..MaxAssets)
        /\ Cardinality(1..MaxAssets) = IF 1 > MaxAssets THEN 0 ELSE MaxAssets - 1 + 1
    BY ONLY <2>1, FS_Interval
  <2>3. QED
    BY <1>1, <2>2
<1>3. IsFiniteSet((n + 1)..(n + k)) /\ Cardinality((n + 1)..(n + k)) = k
  <2>1. n + 1 \in Int /\ n + k \in Int
    OBVIOUS
  <2>2. /\ IsFiniteSet((n + 1)..(n + k))
        /\ Cardinality((n + 1)..(n + k)) = IF n + 1 > n + k THEN 0 ELSE (n + k) - (n + 1) + 1
    BY ONLY <2>1, FS_Interval
  <2>3. QED
    BY <2>2
<1>4. QED
  BY <1>2, <1>3, FS_Product

LEMMA RoomFinite ==
    ASSUME NEW n \in Nat, NEW load \in [1..n -> Nat]
    PROVE  IsFiniteSet(RoomOf(load)) /\ Cardinality(RoomOf(load)) \in Nat
<1>1. RoomOf(load) \in SUBSET ((1..n) \X (1..MaxAssets))
  BY DEF RoomOf
<1>2. IsFiniteSet((1..n) \X (1..MaxAssets))
  <2>1. (0 + 1)..(0 + n) = 1..n
    OBVIOUS
  <2>2. QED
    BY <2>1, Grid
<1>3. QED
  BY <1>1, <1>2, FS_Subset, FS_CardinalityType

\* One asset more takes one place at most.
LEMMA PlaceTaken ==
    ASSUME NEW n \in Nat, NEW load \in [1..n -> Nat], NEW i \in 1..n, NEW more \in [1..n -> Nat],
           load[i] + 1 <= MaxAssets, more[i] <= load[i] + 1, load[i] <= more[i],
           \A j \in 1..n : j # i => more[j] = load[j]
    PROVE  /\ RoomOf(more) \subseteq RoomOf(load)
           /\ Cardinality(RoomOf(more)) + 1 >= Cardinality(RoomOf(load))
           /\ more[i] = load[i] + 1 =>
                 Cardinality(RoomOf(load)) = Cardinality(RoomOf(more)) + 1
<1> DEFINE s == <<i, load[i] + 1>>
           R == RoomOf(load)
           Q == RoomOf(more)
<1>1. IsFiniteSet(R) /\ IsFiniteSet(Q) /\ Cardinality(R) \in Nat /\ Cardinality(Q) \in Nat
  BY RoomFinite
<1>2. \A t : t \in R <=> /\ t \in (1..n) \X (1..MaxAssets)
                         /\ t[2] > load[t[1]]
  BY DEF RoomOf
<1>3. \A t : t \in Q <=> /\ t \in (1..n) \X (1..MaxAssets)
                         /\ t[2] > more[t[1]]
  BY DEF RoomOf
<1>4. s \in R
  <2>1. MaxAssets \in Nat /\ load[i] \in Nat
    BY PoolAssumption
  <2>2. s \in (1..n) \X (1..MaxAssets) /\ s[1] = i /\ s[2] = load[i] + 1
    BY <2>1
  <2>3. load[i] + 1 > load[i]
    BY <2>1
  <2>4. QED
    BY ONLY <1>2, <2>2, <2>3
<1> HIDE DEF R, Q
<1>5. ASSUME NEW t \in (1..n) \X (1..MaxAssets)
      PROVE  /\ t[2] > more[t[1]] => t[2] > load[t[1]]
             /\ t # s /\ t[2] > load[t[1]] => t[2] > more[t[1]]
             /\ more[i] = load[i] + 1 /\ t = s => ~(t[2] > more[t[1]])
  <2>1. PICK j \in 1..n, k \in 1..MaxAssets : t = <<j, k>> /\ t[1] = j /\ t[2] = k
    OBVIOUS
  <2>2. load[j] \in Nat /\ more[j] \in Nat /\ k \in Nat /\ load[i] \in Nat /\ more[i] \in Nat
    BY PoolAssumption
  <2>3. CASE j = i
    <3>1. t # s => k # load[i] + 1
      BY <2>1, <2>3
    <3>2. t = s => k = load[i] + 1
      BY <2>1, <2>3
    <3>3. QED
      BY <2>1, <2>2, <2>3, <3>1, <3>2
  <2>4. CASE j # i
    BY <2>1, <2>2, <2>4
  <2>5. QED
    BY <2>3, <2>4
<1>6. Q \subseteq R /\ R \ {s} \subseteq Q /\ (more[i] = load[i] + 1 => s \notin Q)
  BY ONLY <1>2, <1>3, <1>5
<1>7. /\ IsFiniteSet(R \ {s}) /\ Cardinality(R \ {s}) \in Nat
      /\ Cardinality(R) = Cardinality(R \ {s}) + 1
  BY <1>1, <1>4, OneLess
<1>8. Cardinality(R \ {s}) <= Cardinality(Q)
  BY <1>1, <1>6, FS_Subset
<1>9. CASE more[i] = load[i] + 1
  <2>1. Q = R \ {s}
    BY <1>6, <1>9
  <2>2. Cardinality(R) = Cardinality(Q) + 1
    BY <1>7, <2>1
  <2>3. QED
    BY <1>1, <1>6, <2>2 DEF R, Q
<1>10. CASE more[i] # load[i] + 1
  <2>1. Cardinality(Q) + 1 >= Cardinality(R)
    BY <1>1, <1>7, <1>8
  <2>2. QED
    BY <1>6, <1>10, <2>1 DEF R, Q
<1>11. QED
  BY <1>9, <1>10

\* A new connection is all room.
LEMMA RoomAdded ==
    ASSUME NEW n \in Nat, NEW k \in Nat, NEW load \in [1..n -> Nat],
           NEW more \in [1..(n + k) -> Nat],
           \A j \in 1..n : more[j] = load[j],
           \A j \in (n + 1)..(n + k) : more[j] = 0
    PROVE  Cardinality(RoomOf(more)) = Cardinality(RoomOf(load)) + k * MaxAssets
<1> DEFINE R == RoomOf(load)
           G == ((n + 1)..(n + k)) \X (1..MaxAssets)
<1>1. IsFiniteSet(R) /\ Cardinality(R) \in Nat
  BY RoomFinite
<1>2. IsFiniteSet(G) /\ Cardinality(G) = k * MaxAssets
  BY Grid
<1>3. R \cap G = {}
  BY DEF RoomOf
<1>4. RoomOf(more) = R \cup G
  <2>1. ASSUME NEW j \in 1..(n + k), NEW p \in 1..MaxAssets
        PROVE  <<j, p>> \in RoomOf(more) <=> <<j, p>> \in R \cup G
    <3>1. <<j, p>> \in RoomOf(more) <=> p > more[j]
      BY DEF RoomOf
    <3>2. CASE j \in 1..n
      <4>1. <<j, p>> \in R <=> p > load[j]
        BY <3>2 DEF RoomOf
      <4>2. <<j, p>> \notin G
        BY <3>2
      <4>3. QED
        BY <3>1, <3>2, <4>1, <4>2
    <3>3. CASE j \in (n + 1)..(n + k)
      <4>1. <<j, p>> \in G
        BY <3>3
      <4>2. p > more[j]
        BY <3>3, PoolAssumption
      <4>3. QED
        BY <3>1, <4>1, <4>2
    <3>4. QED
      BY <3>2, <3>3
  <2>2. RoomOf(more) \subseteq (1..(n + k)) \X (1..MaxAssets)
    BY DEF RoomOf
  <2>3. R \cup G \subseteq (1..(n + k)) \X (1..MaxAssets)
    BY DEF RoomOf
  <2> HIDE DEF R, G
  <2>4. ASSUME NEW t \in (1..(n + k)) \X (1..MaxAssets)
        PROVE  t \in RoomOf(more) <=> t \in R \cup G
    <3>1. PICK j \in 1..(n + k), p \in 1..MaxAssets : t = <<j, p>>
      OBVIOUS
    <3>2. QED
      BY ONLY <2>1, <3>1
  <2>5. QED
    BY ONLY <2>2, <2>3, <2>4
<1> HIDE DEF R, G
<1>5. Cardinality(R \cup G) = Cardinality(R) + Cardinality(G)
  BY <1>1, <1>2, <1>3, UnionBound
<1>6. QED
  BY <1>2, <1>4, <1>5 DEF R

\* A connection without an asset has room for MaxAssets.
LEMMA EmptyIsRoom ==
    ASSUME NEW n \in Nat, NEW load \in [1..n -> Nat], NEW f \in 1..n, load[f] = 0
    PROVE  Cardinality(RoomOf(load)) >= MaxAssets
<1> DEFINE G == (((f - 1) + 1)..((f - 1) + 1)) \X (1..MaxAssets)
<1>1. IsFiniteSet(G) /\ Cardinality(G) = 1 * MaxAssets
  <2>1. f - 1 \in Nat /\ 1 \in Nat
    OBVIOUS
  <2> HIDE DEF G
  <2>2. QED
    BY ONLY <2>1, Grid DEF G
<1>2. G \subseteq RoomOf(load)
  BY PoolAssumption DEF RoomOf
<1> HIDE DEF G
<1>3. IsFiniteSet(RoomOf(load))
  BY RoomFinite
<1>4. Cardinality(G) <= Cardinality(RoomOf(load))
  BY <1>2, <1>3, FS_Subset
<1>5. MaxAssets \in Nat /\ Cardinality(RoomOf(load)) \in Nat
  BY PoolAssumption, RoomFinite
<1>6. QED
  BY <1>1, <1>4, <1>5

\* The room of one connection is MaxAssets at most.
LEMMA CornerRoom ==
    ASSUME NEW n \in Nat, NEW load \in [1..n -> Nat], NEW f \in Nat,
           \A s \in RoomOf(load) : s[1] = f
    PROVE  Cardinality(RoomOf(load)) <= MaxAssets
<1>1. CASE f = 0
  <2>1. RoomOf(load) = {}
    BY <1>1 DEF RoomOf
  <2>2. QED
    BY <2>1, FS_EmptySet, PoolAssumption
<1>2. CASE f # 0
  <2> DEFINE G == (((f - 1) + 1)..((f - 1) + 1)) \X (1..MaxAssets)
  <2>1. IsFiniteSet(G) /\ Cardinality(G) = 1 * MaxAssets
    <3>1. f - 1 \in Nat /\ 1 \in Nat
      BY <1>2
    <3> HIDE DEF G
    <3>2. QED
      BY ONLY <3>1, Grid DEF G
  <2>2. RoomOf(load) \subseteq G
    <3>1. \A s \in RoomOf(load) : s = <<s[1], s[2]>> /\ s[2] \in 1..MaxAssets
      BY DEF RoomOf
    <3>2. f \in ((f - 1) + 1)..((f - 1) + 1)
      BY <1>2
    <3>3. QED
      BY <3>1, <3>2
  <2> HIDE DEF G
  <2>3. Cardinality(RoomOf(load)) <= Cardinality(G)
    BY <2>1, <2>2, FS_Subset
  <2>4. MaxAssets \in Nat
    BY PoolAssumption
  <2>5. QED
    BY <2>1, <2>3, <2>4
<1>3. QED
  BY <1>1, <1>2

\* Rounded up, a division covers what is divided.
LEMMA RoundedUp ==
    ASSUME NEW d \in Nat, NEW M \in Nat \ {0}, d > 0
    PROVE  /\ (d + M - 1) \div M \in Nat
           /\ ((d + M - 1) \div M) * M >= d
           /\ ((d + M - 1) \div M) * M < d + M
<1> DEFINE q == (d + M - 1) \div M
           r == (d + M - 1) % M
<1>1. q \in Int /\ r \in 0..(M - 1) /\ d + M - 1 = M * q + r
  OBVIOUS
<1> HIDE DEF q, r
<1>2. q * M = M * q /\ q * M \in Int
  BY <1>1
<1>3. q * M >= d /\ q * M < d + M
  BY <1>1, <1>2
<1>4. q \in Nat
  <2>1. CASE q < 0
    <3>1. q <= -1
      BY <1>1, <2>1
    <3>2. q * M <= 0
      BY <1>1, <3>1
    <3>3. QED
      BY <1>2, <1>3, <3>2
  <2>2. QED
    BY <1>1, <2>1
<1>5. QED
  BY <1>3, <1>4 DEF q

-----------------------------------------------------------------------------
(* What the connections carry *)

Waiting(i) == IF i \in DOMAIN pending THEN pending[i] ELSE {}

\* What each connection carries and is about to be sent.
LoadAt == [i \in Indices |-> Cardinality(connections[i].assets) + Cardinality(Waiting(i))]

LoadsTyped ==
    /\ LoadAt \in [1..Len(connections) -> Nat]
    /\ \A i \in Indices :
          /\ IsFiniteSet(connections[i].assets) /\ IsFiniteSet(Waiting(i))
          /\ Cardinality(connections[i].assets) \in Nat /\ Cardinality(Waiting(i)) \in Nat
          /\ LoadAt[i] = Cardinality(connections[i].assets) + Cardinality(Waiting(i))

Within == \A i \in Indices : LoadAt[i] <= MaxAssets

\* Pass 1 has room for itself and for the pass after it, which has room for all
\* that it has still to place and all that it could not.
Enough ==
    /\ pc = "pass1" =>
          /\ todo # {}
          /\ Cardinality(RoomOf(LoadAt)) >= Cardinality(todo) + Cardinality(todo \cup Batch)
    /\ pc \in {"pass2", "overflow"} =>
          Cardinality(RoomOf(LoadAt)) >= Cardinality(todo \cup overflow)

\* An item only overflows when all the room there is is on its first connection.
Cornered == overflow # {} => \E f \in Nat : \A s \in RoomOf(LoadAt) : s[1] = f

Calm ==
    /\ pc \in {"idle", "unsub", "gc"} => pending = <<>>
    /\ pc \notin {"pass2", "overflow"} => overflow = {}
    /\ todo \cap overflow = {}

LoadInv == TypeInv /\ Calm /\ Within /\ Enough /\ Cornered

LEMMA LoadType == TypeInv => LoadsTyped
<1> SUFFICES ASSUME TypeInv PROVE LoadsTyped
  OBVIOUS
<1>1. TypeOK /\ Indices = 1..Len(connections) /\ pending \in Seq(SUBSET Items)
  BY IndexRange DEF TypeInv, TypeOK
<1>2. ASSUME NEW i \in Indices
      PROVE  /\ IsFiniteSet(connections[i].assets) /\ IsFiniteSet(Waiting(i))
             /\ Cardinality(connections[i].assets) \in Nat /\ Cardinality(Waiting(i)) \in Nat
  <2>1. connections[i].assets \in SUBSET Assets
    BY <1>1, <1>2, HandleOf DEF Indices, Handles
  <2>2. Waiting(i) \in SUBSET Items
    BY <1>1 DEF Waiting
  <2>3. IsFiniteSet(connections[i].assets) /\ IsFiniteSet(Waiting(i))
    BY <2>1, <2>2, ItemsFinite, FS_Subset
  <2>4. QED
    BY <2>3, FS_CardinalityType
<1>3. \A i \in Indices :
          LoadAt[i] = Cardinality(connections[i].assets) + Cardinality(Waiting(i))
  BY DEF LoadAt
<1>4. LoadAt \in [1..Len(connections) -> Nat]
  <2>1. \A i \in Indices : Cardinality(connections[i].assets) + Cardinality(Waiting(i)) \in Nat
    BY <1>2
  <2>2. QED
    BY <1>1, <2>1, Zenon DEF LoadAt
<1>5. QED
  BY <1>2, <1>3, <1>4 DEF LoadsTyped

LEMMA LoadTypeNext == TypeInv' => LoadsTyped'
  BY LoadType, PTL

\* While items are placed there is a queue for every connection.
LEMMA Queued ==
    ASSUME TypeInv, pc \in {"pass1", "pass2", "overflow", "dispatch"}
    PROVE  /\ DOMAIN pending = Indices /\ DOMAIN connections = Indices
           /\ \A i \in Indices : Waiting(i) = pending[i] /\ LoadAt[i] = Load(i)
<1>1. /\ pending \in Seq(SUBSET Items) /\ Len(pending) = Len(connections)
      /\ Indices = 1..Len(connections)
  BY IndexRange DEF TypeInv, TypeOK
<1>2. DOMAIN pending = Indices
  BY <1>1
<1>3. QED
  BY <1>2 DEF Indices, Waiting, LoadAt, Load

\* An item put down adds one to the load of one connection, or nothing.
LEMMA OneLoaded ==
    ASSUME TypeInv, TypeInv', pc \in {"pass1", "pass2"}, UNCHANGED connections,
           NEW item \in Items, NEW i \in Indices, LoadAt[i] + 1 <= MaxAssets,
           pending' = [pending EXCEPT ![i] = @ \cup {item}]
    PROVE  /\ RoomOf(LoadAt)' \subseteq RoomOf(LoadAt)
           /\ Cardinality(RoomOf(LoadAt)') + 1 >= Cardinality(RoomOf(LoadAt))
           /\ item \notin pending[i] =>
                 Cardinality(RoomOf(LoadAt)) = Cardinality(RoomOf(LoadAt)') + 1
           /\ Within => Within'
           /\ item \notin pending[i] => LoadAt'[i] = LoadAt[i] + 1
           /\ \A j \in Indices : LoadAt'[j] >= LoadAt[j]
<1>1. PICK n \in Nat : n = Len(connections) /\ Indices = 1..n /\ Indices' = 1..n
  BY IndexRange, IndexRangeNext
<1>2. LoadsTyped /\ LoadsTyped'
  BY LoadType, LoadTypeNext
<1>3. DOMAIN pending = Indices /\ \A j \in Indices : Waiting(j) = pending[j]
  BY Queued
<1>4. \A j \in Indices : Waiting(j)' = IF j = i THEN pending[i] \cup {item} ELSE Waiting(j)
  BY <1>3 DEF Waiting
<1>5. /\ Cardinality(pending[i] \cup {item}) \in Nat
      /\ Cardinality(pending[i] \cup {item}) <= Cardinality(pending[i]) + 1
      /\ item \notin pending[i] =>
             Cardinality(pending[i] \cup {item}) = Cardinality(pending[i]) + 1
      /\ Cardinality(pending[i]) <= Cardinality(pending[i] \cup {item})
      /\ Cardinality(pending[i]) \in Nat
  <2>1. IsFiniteSet(pending[i]) /\ Cardinality(pending[i]) \in Nat
    BY <1>2, <1>3 DEF LoadsTyped
  <2>2. QED
    BY <2>1, OneMore
<1> DEFINE load == LoadAt
           more == LoadAt'
<1>6. /\ load \in [1..n -> Nat] /\ more \in [1..n -> Nat]
      /\ \A j \in 1..n : load[j] = Cardinality(connections[j].assets) + Cardinality(Waiting(j))
      /\ \A j \in 1..n : more[j] = Cardinality(connections[j].assets) + Cardinality(Waiting(j)')
      /\ \A j \in 1..n : Cardinality(connections[j].assets) \in Nat
  BY <1>1, <1>2 DEF LoadsTyped
<1>7. /\ \A j \in 1..n : j # i => more[j] = load[j]
      /\ more[i] <= load[i] + 1 /\ load[i] <= more[i]
      /\ item \notin pending[i] => more[i] = load[i] + 1
      /\ load[i] + 1 <= MaxAssets /\ i \in 1..n
  <2>1. i \in 1..n /\ load[i] + 1 <= MaxAssets
    BY <1>1
  <2>2. \A j \in 1..n : j # i => Waiting(j)' = Waiting(j)
    BY <1>1, <1>4
  <2>3. Waiting(i)' = pending[i] \cup {item} /\ Waiting(i) = pending[i]
    BY <1>3, <1>4
  <2> HIDE DEF load, more
  <2>4. PICK c \in Nat, p \in Nat, q \in Nat :
            /\ c = Cardinality(connections[i].assets) /\ p = Cardinality(pending[i])
            /\ q = Cardinality(pending[i] \cup {item})
    BY ONLY <1>5, <1>6, <2>1
  <2>5. load[i] = c + p /\ more[i] = c + q
    BY ONLY <1>6, <2>1, <2>3, <2>4
  <2>6. q <= p + 1 /\ p <= q /\ (item \notin pending[i] => q = p + 1)
    BY ONLY <1>5, <2>4
  <2>7. \A j \in 1..n : j # i => more[j] = load[j]
    BY ONLY <1>6, <2>2
  <2>8. /\ more[i] <= load[i] + 1 /\ load[i] <= more[i]
        /\ item \notin pending[i] => more[i] = load[i] + 1
    BY ONLY <2>5, <2>6, c \in Nat, p \in Nat, q \in Nat
  <2>9. QED
    BY <2>1, <2>7, <2>8
<1>8. RoomOf(LoadAt)' = RoomOf(more)
  BY DEF RoomOf
<1> HIDE DEF load, more
<1>9. /\ RoomOf(more) \subseteq RoomOf(load)
      /\ Cardinality(RoomOf(more)) + 1 >= Cardinality(RoomOf(load))
      /\ more[i] = load[i] + 1 =>
             Cardinality(RoomOf(load)) = Cardinality(RoomOf(more)) + 1
  BY <1>6, <1>7, PlaceTaken
<1>10. \A j \in 1..n : more[j] >= load[j]
  <2> TAKE j \in 1..n
  <2>1. load[j] \in Nat /\ more[j] \in Nat
    BY ONLY <1>6, j \in 1..n
  <2>2. QED
    BY ONLY <1>7, <2>1, j \in 1..n
<1>11. Within => Within'
  <2>1. ASSUME \A j \in 1..n : load[j] <= MaxAssets
        PROVE  \A j \in 1..n : more[j] <= MaxAssets
    <3> TAKE j \in 1..n
    <3>1. load[j] \in Nat /\ more[j] \in Nat /\ load[i] \in Nat /\ more[i] \in Nat /\ MaxAssets \in Nat
      BY ONLY <1>6, <1>7, j \in 1..n, PoolAssumption
    <3>2. CASE j = i
      BY ONLY <1>7, <3>1, <3>2
    <3>3. CASE j # i
      BY ONLY <1>7, <2>1, <3>1, <3>3, j \in 1..n
    <3>4. QED
      BY <3>2, <3>3
  <2>2. QED
    BY <1>1, <2>1 DEF Within, load, more
<1>12. QED
  BY <1>1, <1>7, <1>8, <1>9, <1>10, <1>11 DEF load, more

LEMMA BatchGrows ==
    ASSUME NEW i \in DOMAIN pending, NEW item, pending' = [pending EXCEPT ![i] = @ \cup {item}]
    PROVE  Batch' = Batch \cup {item}
<1>1. DOMAIN pending' = DOMAIN pending
  OBVIOUS
<1>2. \A j \in DOMAIN pending : pending'[j] = IF j = i THEN pending[j] \cup {item} ELSE pending[j]
  OBVIOUS
<1>3. QED
  BY ONLY <1>1, <1>2, i \in DOMAIN pending DEF Batch

LEMMA FirstLoads ==
    ASSUME LoadInv, TypeInv', NEW item \in Items, Place1(item)
    PROVE  LoadInv'
<1>1. /\ pc = "pass1" /\ item \in todo /\ UNCHANGED <<connections, overflow>>
      /\ todo \in SUBSET Items /\ overflow = {}
      /\ Within /\ TypeInv /\ TypeOK
  BY DEF Place1, poolVars, LoadInv, TypeInv, TypeOK, Calm
<1>2. PICK i \in Indices : /\ i \in Fits(0)
                           /\ pending' = [pending EXCEPT ![i] = @ \cup {item}]
  BY DEF Place1, FirstFit, Indices
<1>3. LoadAt[i] + 1 <= MaxAssets /\ DOMAIN pending = Indices
  BY <1>1, <1>2, Queued DEF Fits
<1>4. /\ Cardinality(RoomOf(LoadAt)') + 1 >= Cardinality(RoomOf(LoadAt))
      /\ Within'
  BY <1>1, <1>2, <1>3, OneLoaded
<1>5. Batch' = Batch \cup {item}
  BY <1>2, <1>3, BatchGrows
<1>6. Batch \subseteq Items
  BY <1>1 DEF Batch, TypeOK
<1>7. /\ Cardinality(RoomOf(LoadAt)) \in Nat /\ Cardinality(RoomOf(LoadAt)') \in Nat
  <2>1. LoadsTyped /\ LoadsTyped' /\ Len(connections) \in Nat /\ Len(connections') \in Nat
    BY <1>1, LoadType, LoadTypeNext, IndexRange, IndexRangeNext
  <2>2. RoomOf(LoadAt)' = RoomOf(LoadAt')
    BY DEF RoomOf
  <2>3. QED
    BY <2>1, <2>2, RoomFinite DEF LoadsTyped
<1>8. Cardinality(RoomOf(LoadAt)) >= Cardinality(todo) + Cardinality(todo \cup Batch)
  BY <1>1 DEF LoadInv, Enough
<1>9. /\ Cardinality(todo) = Cardinality(todo \ {item}) + 1 /\ Cardinality(todo \ {item}) \in Nat
      /\ Cardinality(todo \cup Batch) \in Nat
  <2>1. IsFiniteSet(todo) /\ IsFiniteSet(todo \cup Batch)
    BY <1>1, <1>6, ItemsFinite, FS_Subset
  <2>2. QED
    BY <1>1, <2>1, OneLess, FS_CardinalityType
<1>10. Cardinality(RoomOf(LoadAt)') >= Cardinality(todo \ {item}) + Cardinality(todo \cup Batch)
  BY <1>4, <1>7, <1>8, <1>9
<1>11. CASE todo = {item}
  <2>1. pc' = "pass2" /\ todo' = Batch \cup {item}
    BY <1>11 DEF Place1
  <2>2. todo' \cup overflow' = todo \cup Batch
    BY <1>1, <1>11, <2>1
  <2>3. Cardinality(RoomOf(LoadAt)') >= Cardinality(todo' \cup overflow')
    BY <1>7, <1>9, <1>10, <2>2
  <2>4. Enough'
    BY <2>1, <2>3 DEF Enough
  <2>5. QED
    BY <1>1, <1>4, <2>1, <2>4 DEF LoadInv, Calm, Cornered
<1>12. CASE todo # {item}
  <2>1. pc' = "pass1" /\ todo' = todo \ {item}
    BY <1>1, <1>12 DEF Place1
  <2>2. todo' \cup Batch' = todo \cup Batch /\ todo' # {}
    BY <1>1, <1>5, <1>12, <2>1
  <2>3. Cardinality(RoomOf(LoadAt)') >= Cardinality(todo') + Cardinality(todo' \cup Batch')
    BY <1>10, <2>1, <2>2
  <2>4. Enough'
    BY <2>1, <2>2, <2>3 DEF Enough
  <2>5. QED
    BY <1>1, <1>4, <2>1, <2>4 DEF LoadInv, Calm, Cornered
<1>13. QED
  BY <1>11, <1>12

LEMMA RoomCounts ==
    ASSUME TypeInv
    PROVE  IsFiniteSet(RoomOf(LoadAt)) /\ Cardinality(RoomOf(LoadAt)) \in Nat
  BY LoadType, IndexRange, RoomFinite DEF LoadsTyped

RoomCounted == IsFiniteSet(RoomOf(LoadAt)) /\ Cardinality(RoomOf(LoadAt)) \in Nat

LEMMA RoomCountsNext == TypeInv' => RoomCounted'
<1>1. TypeInv => RoomCounted
  BY RoomCounts DEF RoomCounted
<1>2. QED
  BY <1>1, PTL

LEMMA SecondLoads ==
    ASSUME LoadInv, TypeInv', NEW item \in Items, Place2(item)
    PROVE  LoadInv'
<1>1. /\ pc = "pass2" /\ item \in todo /\ UNCHANGED <<connections, overflow>>
      /\ todo \in SUBSET Items /\ overflow \in SUBSET Items /\ todo \cap overflow = {}
      /\ Within /\ TypeInv /\ TypeOK
      /\ todo' = todo \ {item}
      /\ pc' = IF todo # {item} THEN "pass2" ELSE IF overflow = {} THEN "dispatch" ELSE "overflow"
  BY DEF Place2, AfterPass2, poolVars, LoadInv, TypeInv, TypeOK, Calm
<1>2. PICK i \in Indices : /\ i \in Fits(firstConn[AssetOf(item)])
                           /\ pending' = [pending EXCEPT ![i] = @ \cup {item}]
  BY DEF Place2, FirstFit, Indices
<1>3. LoadAt[i] + 1 <= MaxAssets
  BY <1>1, <1>2, Queued DEF Fits
<1>4. /\ Cardinality(RoomOf(LoadAt)') + 1 >= Cardinality(RoomOf(LoadAt))
      /\ Within' /\ RoomOf(LoadAt)' \subseteq RoomOf(LoadAt)
  BY <1>1, <1>2, <1>3, OneLoaded
<1>5. /\ Cardinality(RoomOf(LoadAt)) \in Nat /\ Cardinality(RoomOf(LoadAt)') \in Nat
  BY <1>1, RoomCounts, RoomCountsNext DEF RoomCounted
<1>6. Cardinality(RoomOf(LoadAt)) >= Cardinality(todo \cup overflow)
  BY <1>1 DEF LoadInv, Enough
<1>7. /\ Cardinality(todo \cup overflow) = Cardinality(todo' \cup overflow') + 1
      /\ Cardinality(todo' \cup overflow') \in Nat
  <2>1. IsFiniteSet(todo \cup overflow)
    BY <1>1, ItemsFinite, FS_Subset
  <2>2. todo' \cup overflow' = (todo \cup overflow) \ {item} /\ item \in todo \cup overflow
    BY <1>1
  <2>3. QED
    BY <2>1, <2>2, OneLess
<1>8. Cardinality(RoomOf(LoadAt)') >= Cardinality(todo' \cup overflow')
  BY <1>4, <1>5, <1>6, <1>7
<1>9. Enough'
  BY <1>1, <1>8 DEF Enough
<1>10. Cornered'
  BY <1>1, <1>4 DEF Cornered, LoadInv
<1>11. Calm'
  BY <1>1 DEF Calm
<1>12. QED
  BY <1>4, <1>9, <1>10, <1>11 DEF LoadInv

\* Loads depend on the handles and the queues only.
LEMMA SameLoads ==
    ASSUME UNCHANGED <<connections, pending>>
    PROVE  LoadAt' = LoadAt /\ RoomOf(LoadAt)' = RoomOf(LoadAt) /\ (Within => Within')
<1>1. LoadAt' = LoadAt
  BY DEF LoadAt, Waiting, Indices
<1>2. QED
  BY <1>1 DEF Within, Indices, RoomOf

LEMMA SpillLoads ==
    ASSUME LoadInv, TypeInv', NEW item \in Items, Spill(item)
    PROVE  LoadInv'
<1>1. /\ pc = "pass2" /\ item \in todo /\ UNCHANGED <<connections, pending>>
      /\ overflow' = overflow \cup {item} /\ todo' = todo \ {item}
      /\ todo \cap overflow = {} /\ TypeInv /\ TypeOK /\ Within
      /\ pc' = IF todo # {item} THEN "pass2" ELSE "overflow"
      /\ Fits(firstConn[AssetOf(item)]) = {}
  BY DEF Spill, AfterPass2, poolVars, LoadInv, TypeInv, Calm
<1>2. Within' /\ RoomOf(LoadAt)' = RoomOf(LoadAt)
  BY <1>1, SameLoads
<1>3. todo' \cup overflow' = todo \cup overflow
  BY <1>1
<1>4. Enough'
  BY <1>1, <1>2, <1>3 DEF Enough, LoadInv
<1>5. Calm'
  BY <1>1 DEF Calm
<1>6. Cornered'
  <2> DEFINE f == firstConn[AssetOf(item)]
  <2>1. f \in Nat
    BY <1>1 DEF TypeOK, AssetOf, Assets, Items
  <2>2. ASSUME NEW s \in RoomOf(LoadAt)
        PROVE  s[1] = f
    <3>1. /\ s[1] \in Indices /\ s[2] > LoadAt[s[1]] /\ s[2] \in Nat /\ s[2] <= MaxAssets
      BY PoolAssumption DEF RoomOf, LoadAt
    <3>2. LoadAt[s[1]] \in Nat
      BY <1>1, <3>1, LoadType, IndexRange DEF LoadsTyped
    <3>3. LoadAt[s[1]] + 1 <= MaxAssets
      BY <3>1, <3>2, PoolAssumption
    <3>4. s[1] # f => s[1] \in Fits(f)
      BY <1>1, <3>1, <3>3, Queued DEF Fits
    <3>5. QED
      BY <1>1, <3>4
  <2>3. QED
    BY <1>2, <2>1, <2>2 DEF Cornered
<1>7. QED
  BY <1>2, <1>4, <1>5, <1>6 DEF LoadInv

\* Pass 3 finds as much room on its new connection as there is overflow.
LEMMA OverflowLoads ==
    ASSUME LoadInv, TypeInv', PlaceOverflow
    PROVE  /\ LoadInv'
           /\ Indices' = Indices \cup {Len(connections) + 1}
           /\ \A k \in Indices : LoadAt'[k] = LoadAt[k]
           /\ LoadAt'[Len(connections) + 1] = Cardinality(overflow)
<1>1. /\ pc = "overflow" /\ pc' = "dispatch" /\ overflow' = {} /\ UNCHANGED todo
      /\ connections' = connections \o NewHandles(1) /\ pending' = Append(pending, overflow)
      /\ TypeInv /\ TypeOK /\ Within
  BY DEF PlaceOverflow, LoadInv, TypeInv
<1>2. PICK n \in Nat : n = Len(connections) /\ Indices = 1..n
  BY <1>1, IndexRange
<1>3. nextConnId + 1 <= MaxConns
  BY <1>1, PoolAssumption DEF TypeInv, TypeOK, Opens
<1>4. /\ Len(connections') = n + 1 /\ \A k \in 1..n : connections'[k] = connections[k]
      /\ connections'[n + 1].assets = {}
  <2>1. /\ Len(connections') = n + 1 /\ \A k \in 1..n : connections'[k] = connections[k]
        /\ \A k \in (n + 1)..(n + 1) : connections'[k].assets = {}
    BY <1>1, <1>2, <1>3, NewHandlesType
  <2>2. QED
    BY <2>1
<1>5. Indices' = 1..(n + 1)
  BY <1>4, IndexRangeNext
<1>6. /\ \A k \in 1..n : Waiting(k)' = Waiting(k)
      /\ Waiting(n + 1)' = overflow
  <2>1. pending \in Seq(SUBSET Items) /\ Len(pending) = n
    BY <1>1, <1>2 DEF TypeOK
  <2>2. /\ DOMAIN pending' = 1..(n + 1) /\ DOMAIN pending = 1..n
        /\ \A k \in 1..n : pending'[k] = pending[k]
        /\ pending'[n + 1] = overflow
    BY <1>1, <2>1, AppendProperties DEF TypeOK
  <2>3. \A k \in 1..n : k \in 1..(n + 1)
    OBVIOUS
  <2>4. n + 1 \in 1..(n + 1)
    OBVIOUS
  <2>5. ASSUME NEW k \in 1..n
        PROVE  Waiting(k)' = Waiting(k)
    BY <2>2, <2>3 DEF Waiting
  <2>6. Waiting(n + 1)' = overflow
    <3>1. n + 1 \in DOMAIN pending'
      BY <2>2, <2>4
    <3>2. QED
      BY <2>2, <3>1 DEF Waiting
  <2>7. QED
    BY <2>5, <2>6
<1>7. LoadsTyped /\ LoadsTyped'
  BY <1>1, LoadType, LoadTypeNext
<1>8. \A k \in 1..n : LoadAt'[k] = LoadAt[k]
  BY <1>2, <1>4, <1>5, <1>6 DEF LoadAt
<1>9. LoadAt'[n + 1] = Cardinality(overflow) /\ Cardinality(overflow) \in Nat
  <2>1. IsFiniteSet(overflow)
    BY <1>1, ItemsFinite, FS_Subset DEF TypeOK
  <2>2. Cardinality({}) = 0 /\ Cardinality(overflow) \in Nat
    BY <2>1, FS_EmptySet, FS_CardinalityType
  <2>3. LoadAt'[n + 1] = Cardinality({}) + Cardinality(overflow)
    <3>1. n + 1 \in Indices'
      BY <1>5
    <3>2. LoadAt'[n + 1] = Cardinality(connections'[n + 1].assets) + Cardinality(Waiting(n + 1)')
      BY <3>1, Zenon DEF LoadAt
    <3>3. QED
      BY <1>4, <1>6, <3>2
  <2>4. QED
    BY <2>2, <2>3
<1>10. Cardinality(overflow) <= MaxAssets
  <2>1. CASE overflow = {}
    BY <2>1, FS_EmptySet, PoolAssumption
  <2>2. CASE overflow # {}
    <3>1. PICK f \in Nat : \A s \in RoomOf(LoadAt) : s[1] = f
      BY <2>2 DEF LoadInv, Cornered
    <3>2. Cardinality(RoomOf(LoadAt)) <= MaxAssets
      BY <1>2, <1>7, <3>1, CornerRoom DEF LoadsTyped
    <3>3. Cardinality(RoomOf(LoadAt)) >= Cardinality(todo \cup overflow)
      BY <1>1 DEF LoadInv, Enough
    <3>4. Cardinality(overflow) <= Cardinality(todo \cup overflow)
      <4>1. IsFiniteSet(todo \cup overflow)
        BY <1>1, ItemsFinite, FS_Subset DEF TypeOK
      <4>2. QED
        BY <4>1, FS_Subset
    <3>5. /\ Cardinality(RoomOf(LoadAt)) \in Nat /\ Cardinality(todo \cup overflow) \in Nat
          /\ MaxAssets \in Nat
      <4>1. IsFiniteSet(todo \cup overflow)
        BY <1>1, ItemsFinite, FS_Subset DEF TypeOK
      <4>2. QED
        BY <1>1, <4>1, RoomCounts, FS_CardinalityType, PoolAssumption
    <3>6. QED
      BY <1>9, <3>2, <3>3, <3>4, <3>5
  <2>3. QED
    BY <2>1, <2>2
<1>11. Within'
  <2>1. \A k \in 1..n : LoadAt'[k] <= MaxAssets
    BY <1>1, <1>2, <1>8 DEF Within
  <2>2. \A k \in 1..(n + 1) : k \in 1..n \/ k = n + 1
    OBVIOUS
  <2>3. QED
    BY ONLY <1>5, <1>9, <1>10, <2>1, <2>2 DEF Within
<1>12. Enough' /\ Cornered' /\ Calm'
  BY <1>1 DEF Enough, Cornered, Calm
<1>13. Indices' = Indices \cup {n + 1}
  <2>1. 1..(n + 1) = (1..n) \cup {n + 1}
    OBVIOUS
  <2>2. QED
    BY <1>2, <1>5, <2>1
<1>14. QED
  BY <1>2, <1>8, <1>9, <1>11, <1>12, <1>13 DEF LoadInv

\* The connections opened give room for every item twice.
LEMMA OpenedRoom ==
    ASSUME TypeInv, TypeInv', pending = <<>>, NEW n \in Nat, nextConnId + n <= MaxConns,
           connections' = connections \o NewHandles(n), pending' = NoPending(Len(connections) + n)
    PROVE  /\ Cardinality(RoomOf(LoadAt)') = FreeSlots + n * MaxAssets
           /\ FreeSlots \in Nat
           /\ Within => Within'
           /\ Len(connections') = Len(connections) + n
           /\ \A k \in 1..Len(connections) : connections'[k] = connections[k]
<1>1. PICK m \in Nat : m = Len(connections) /\ Indices = 1..m
  BY IndexRange
<1>2. /\ Len(connections') = m + n /\ \A k \in 1..m : connections'[k] = connections[k]
      /\ \A k \in (m + 1)..(m + n) : connections'[k].assets = {}
  BY <1>1, NewHandlesType DEF TypeInv
<1>3. Indices' = 1..(m + n)
  BY <1>2, IndexRangeNext
<1>4. LoadsTyped /\ LoadsTyped'
  BY LoadType, LoadTypeNext
<1>5. /\ \A k \in 1..m : Waiting(k) = {}
      /\ \A k \in 1..(m + n) : Waiting(k)' = {}
  BY <1>1 DEF Waiting, NoPending
<1>6. Cardinality({}) = 0 /\ MaxAssets \in Nat
  BY FS_EmptySet, PoolAssumption
<1>7. \A k \in 1..m : /\ LoadAt[k] = Cardinality(connections[k].assets)
                      /\ Cardinality(connections[k].assets) \in Nat
  <2> TAKE k \in 1..m
  <2>1. /\ LoadAt[k] = Cardinality(connections[k].assets) + Cardinality({})
        /\ Cardinality(connections[k].assets) \in Nat
    BY <1>1, <1>4, <1>5 DEF LoadsTyped
  <2>2. QED
    BY <1>6, <2>1
<1>8. \A k \in 1..m : LoadAt'[k] = LoadAt[k]
  <2>1. \A k \in 1..m : k \in 1..(m + n)
    OBVIOUS
  <2>2. QED
    BY ONLY <1>1, <1>2, <1>3, <1>5, <2>1 DEF LoadAt
<1>9. \A k \in (m + 1)..(m + n) : LoadAt'[k] = 0
  <2> TAKE k \in (m + 1)..(m + n)
  <2>1. k \in 1..(m + n)
    OBVIOUS
  <2>2. LoadAt'[k] = Cardinality({}) + Cardinality({})
    BY ONLY <1>2, <1>3, <1>5, <2>1, k \in (m + 1)..(m + n) DEF LoadAt
  <2>3. QED
    BY <1>6, <2>2
<1> DEFINE load == LoadAt
           more == LoadAt'
<1>10. load \in [1..m -> Nat] /\ more \in [1..(m + n) -> Nat]
  BY <1>1, <1>2, <1>4 DEF LoadsTyped
<1>11. RoomOf(LoadAt)' = RoomOf(more)
  BY DEF RoomOf
<1>12. FreeSlots = Cardinality(RoomOf(load))
  <2>1. DOMAIN connections = 1..m /\ DOMAIN load = 1..m
    BY <1>1, <1>10 DEF Indices
  <2>2. {s \in (DOMAIN connections) \X (1..MaxAssets) : s[2] > Cardinality(connections[s[1]].assets)}
            = RoomOf(load)
    BY ONLY <1>7, <2>1 DEF RoomOf
  <2>3. QED
    BY <2>2 DEF FreeSlots
<1> HIDE DEF load, more
<1>13. Cardinality(RoomOf(more)) = Cardinality(RoomOf(load)) + n * MaxAssets
  <2>1. \A j \in 1..m : more[j] = load[j]
    BY <1>8 DEF load, more
  <2>2. \A j \in (m + 1)..(m + n) : more[j] = 0
    BY <1>9 DEF more
  <2>3. QED
    BY ONLY <1>10, <2>1, <2>2, RoomAdded, m \in Nat, n \in Nat
<1>14. Cardinality(RoomOf(load)) \in Nat
  BY <1>10, RoomFinite
<1>15. Within => Within'
  <2>1. ASSUME \A k \in 1..m : LoadAt[k] <= MaxAssets
        PROVE  \A k \in 1..(m + n) : LoadAt'[k] <= MaxAssets
    <3> TAKE k \in 1..(m + n)
    <3>1. CASE k \in 1..m
      BY <1>8, <2>1, <3>1
    <3>2. CASE k \in (m + 1)..(m + n)
      BY <1>6, <1>9, <3>2
    <3>3. QED
      BY <3>1, <3>2
  <2>2. QED
    BY <1>1, <1>3, <2>1 DEF Within
<1>16. QED
  BY <1>1, <1>2, <1>11, <1>12, <1>13, <1>14, <1>15

\* What is opened covers the demand.
LEMMA OpenedEnough ==
    ASSUME TypeInv, NEW items, IsFiniteSet(items), FreeSlots \in Nat
    PROVE  /\ ConnsNeeded(items) \in Nat
           /\ FreeSlots + ConnsNeeded(items) * MaxAssets
                  >= Cardinality(items) + Cardinality(items)
           /\ \/ ConnsNeeded(items) = 0
              \/ Len(connections) + ConnsNeeded(items) = 2
              \/ FreeSlots + ConnsNeeded(items) * MaxAssets
                    < Cardinality(items) + Cardinality(items) + MaxAssets
           /\ Len(connections) + ConnsNeeded(items) >= 2
<1>1. PICK c \in Nat, f \in Nat, M \in Nat \ {0}, m \in Nat :
          c = Cardinality(items) /\ f = FreeSlots /\ M = MaxAssets /\ m = Len(connections)
  BY FS_CardinalityType, PoolAssumption, IndexRange
<1> DEFINE div == IF 2 * c > f THEN (2 * c - f + M - 1) \div M ELSE 0
<1>2. ConnsNeeded(items) = IF m + div < 2 THEN 2 - m ELSE div
  BY <1>1 DEF ConnsNeeded, AtLeastTwo
<1>3. div \in Nat /\ f + div * M >= c + c /\ (div = 0 \/ f + div * M < c + c + M)
  <2>1. CASE 2 * c > f
    <3>1. PICK d \in Nat : d = 2 * c - f /\ d > 0
      BY <1>1, <2>1
    <3> DEFINE q == (d + M - 1) \div M
    <3>2. q \in Nat /\ q * M >= d /\ q * M < d + M
      BY <3>1, RoundedUp
    <3>3. div = q
      BY <2>1, <3>1
    <3> HIDE DEF q, div
    <3>4. q * M \in Nat
      BY <3>2
    <3>5. QED
      BY <3>1, <3>2, <3>3, <3>4
  <2>2. CASE ~(2 * c > f)
    BY <2>2
  <2>3. QED
    BY <2>1, <2>2
<1> HIDE DEF div
<1>4. CASE m + div < 2
  <2>1. ConnsNeeded(items) = 2 - m /\ 2 - m \in Nat /\ 2 - m >= div
    BY <1>2, <1>3, <1>4
  <2>2. PICK k \in Nat : k = 2 - m /\ k >= div
    BY <2>1
  <2>3. k * M >= div * M /\ k * M \in Nat /\ div * M \in Nat
    <3>1. PICK e \in Nat : k = div + e
      <4>1. k - div \in Nat /\ k = div + (k - div)
        BY <1>3, <2>2
      <4>2. QED
        BY <4>1
    <3>2. k * M = div * M + e * M /\ e * M \in Nat /\ div * M \in Nat
      BY <1>3, <3>1
    <3>3. QED
      BY <3>2
  <2>4. f + k * M >= c + c
    BY <1>3, <2>3
  <2>5. QED
    BY <1>1, <2>1, <2>2, <2>4
<1>5. CASE ~(m + div < 2)
  <2>1. ConnsNeeded(items) = div
    BY <1>2, <1>5
  <2>2. QED
    BY <1>1, <1>3, <1>5, <2>1
<1>6. QED
  BY <1>4, <1>5

LEMMA SubscribeLoads ==
    ASSUME LoadInv, TypeInv', NEW batch \in SUBSET (Markets \X Copies), SubscribeMarkets(batch)
    PROVE  LoadInv'
<1> DEFINE new   == {l \in batch : l[1] \notin markets}
           items == {it \in Items : <<it[1], it[3]>> \in new}
<1>1. PICK n \in 0..(MaxConns - nextConnId - 1) :
         /\ n = ConnsNeeded(items)
         /\ connections' = connections \o NewHandles(n)
         /\ pending' = NoPending(Len(connections) + n)
  BY DEF SubscribeMarkets
<1>2. /\ pc = "idle" /\ pc' = "pass1" /\ todo' = items /\ new # {} /\ overflow' = {}
      /\ pending = <<>> /\ TypeInv /\ TypeOK /\ Within
  BY DEF SubscribeMarkets, LoadInv, Calm, TypeInv
<1>3. n \in Nat /\ nextConnId + n <= MaxConns
  BY <1>1, <1>2, PoolAssumption DEF TypeOK
<1>4. /\ Cardinality(RoomOf(LoadAt)') = FreeSlots + n * MaxAssets
      /\ FreeSlots \in Nat /\ Within' /\ Len(connections) \in Nat
  BY <1>1, <1>2, <1>3, OpenedRoom, IndexRange
<1>5. IsFiniteSet(items)
  BY ItemsFinite, FS_Subset
<1>6. items # {}
  <2>1. PICK l \in new : TRUE
    BY <1>2
  <2>2. l[1] \in Markets /\ l[2] \in Copies /\ l = <<l[1], l[2]>>
    BY <2>1
  <2>3. <<l[1], 1, l[2]>> \in items
    BY <2>1, <2>2 DEF Items
  <2>4. QED
    BY <2>3
<1>7. Batch' = {}
  BY <1>1, <1>3, <1>4 DEF Batch, NoPending
<1> HIDE DEF items
<1>8. FreeSlots + n * MaxAssets >= Cardinality(items) + Cardinality(items)
  BY <1>1, <1>2, <1>4, <1>5, OpenedEnough
<1>9. todo' \cup Batch' = items
  BY <1>2, <1>7
<1>10. Enough'
  BY <1>2, <1>4, <1>6, <1>8, <1>9 DEF Enough
<1>11. Calm' /\ Cornered'
  BY <1>2 DEF Calm, Cornered
<1>12. QED
  BY <1>4, <1>10, <1>11 DEF LoadInv

\* The steps after the passes only take from the loads.
LEMMA LoadsFall ==
    ASSUME LoadInv, TypeInv', Calm',
           pc' \notin {"pass1", "pass2", "overflow"},
           \A i \in Indices' : \E j \in Indices : LoadAt'[i] <= LoadAt[j]
    PROVE  LoadInv'
<1>1. Enough' /\ Cornered'
  BY DEF Enough, Cornered, Calm
<1>2. Within'
  <2>1. ASSUME NEW i \in Indices'
        PROVE  LoadAt'[i] <= MaxAssets
    <3>1. PICK j \in Indices : LoadAt'[i] <= LoadAt[j]
      BY <2>1
    <3>2. LoadAt[j] <= MaxAssets
      BY DEF LoadInv, Within
    <3>3. LoadAt[j] \in Nat /\ LoadAt'[i] \in Nat /\ MaxAssets \in Nat
      <4>1. LoadsTyped /\ LoadsTyped' /\ Indices = 1..Len(connections) /\ Indices' = 1..Len(connections')
        BY LoadType, LoadTypeNext, IndexRange, IndexRangeNext DEF LoadInv
      <4>2. QED
        BY <2>1, <3>1, <4>1, PoolAssumption DEF LoadsTyped
    <3>4. QED
      BY <3>1, <3>2, <3>3
  <2>2. QED
    BY <2>1 DEF Within
<1>3. QED
  BY <1>1, <1>2 DEF LoadInv

LEMMA DispatchLoads ==
    ASSUME LoadInv, TypeInv', NEW i \in DOMAIN pending, Dispatch(i)
    PROVE  /\ LoadInv'
           /\ Indices' = Indices
           /\ \A j \in Indices \ {i} : LoadAt'[j] = LoadAt[j]
           /\ connections'[i].assets # {}
<1> DEFINE told == {AssetOf(it) : it \in pending[i]}
           held == connections[i].assets \cup told
<1>1. /\ pc = "dispatch" /\ pc' = "dispatch" /\ pending[i] # {}
      /\ connections' = [connections EXCEPT ![i].assets = held]
      /\ pending' = [pending EXCEPT ![i] = {}] /\ UNCHANGED <<todo, overflow>>
      /\ TypeInv /\ TypeOK
  BY DEF Dispatch, LoadInv, TypeInv
<1>2. /\ DOMAIN pending = Indices /\ DOMAIN connections = Indices /\ i \in Indices
      /\ \A j \in Indices : Waiting(j) = pending[j]
  BY <1>1, Queued
<1>3. /\ pending[i] \in SUBSET Items
      /\ connections[i].assets \in SUBSET Assets
  BY <1>1, <1>2, HandleOf DEF TypeOK, Handles
<1>4. /\ IsFiniteSet(pending[i]) /\ IsFiniteSet(told)
      /\ Cardinality(told) <= Cardinality(pending[i])
  <2>1. PICK P \in SUBSET Items : P = pending[i]
    BY <1>3
  <2>2. /\ IsFiniteSet(P) /\ IsFiniteSet({AssetOf(it) : it \in P})
        /\ Cardinality({AssetOf(it) : it \in P}) <= Cardinality(P)
    BY AssetsOfItems
  <2>3. QED
    BY <2>1, <2>2
<1>5. told \in SUBSET Assets /\ held \in SUBSET Assets /\ held # {}
  <2>1. told \in SUBSET Assets
    BY <1>3 DEF AssetOf, Assets, Items
  <2>2. told # {}
    BY <1>1
  <2> HIDE DEF told
  <2>3. QED
    BY <1>3, <2>1, <2>2
<1> HIDE DEF told
<1>6. /\ Indices = 1..Len(connections) /\ Indices' = Indices
      /\ \A j \in Indices : connections'[j].assets = IF j = i THEN held ELSE connections[j].assets
  <2>1. /\ Len(connections') = Len(connections)
        /\ \A j \in 1..Len(connections) :
              connections'[j].assets = IF j = i THEN held ELSE connections[j].assets
    BY <1>1, <1>2, <1>5, HandleChanges
  <2>2. Indices = 1..Len(connections) /\ Indices' = 1..Len(connections')
    BY <1>1, IndexRange, IndexRangeNext
  <2>3. QED
    BY <2>1, <2>2
<1>7. \A j \in Indices : Waiting(j)' = IF j = i THEN {} ELSE Waiting(j)
  <2>1. DOMAIN pending' = Indices
    BY <1>1, <1>2
  <2>2. QED
    BY <1>1, <1>2, <2>1 DEF Waiting
<1>8. \A j \in Indices : LoadAt'[j] = Cardinality(connections'[j].assets) + Cardinality(Waiting(j)')
  BY <1>6, Zenon DEF LoadAt
<1>9. \A j \in Indices \ {i} : LoadAt'[j] = LoadAt[j]
  BY <1>6, <1>7, <1>8 DEF LoadAt
<1>10. LoadAt'[i] <= LoadAt[i]
  <2>1. Cardinality(held) <= Cardinality(connections[i].assets) + Cardinality(told)
        /\ Cardinality(held) \in Nat
    <3>1. IsFiniteSet(connections[i].assets)
      BY <1>3, ItemsFinite, FS_Subset
    <3>2. QED
      BY <1>4, <3>1, UnionBound
  <2>2. Cardinality({}) = 0
    BY FS_EmptySet
  <2>3. LoadAt'[i] = Cardinality(held) + Cardinality({})
    BY <1>2, <1>6, <1>7, <1>8
  <2>4. LoadAt[i] = Cardinality(connections[i].assets) + Cardinality(pending[i])
    BY <1>2 DEF LoadAt
  <2>5. /\ Cardinality(connections[i].assets) \in Nat /\ Cardinality(told) \in Nat
        /\ Cardinality(pending[i]) \in Nat
    BY <1>3, <1>4, ItemsFinite, FS_Subset, FS_CardinalityType
  <2>6. QED
    BY <1>4, <2>1, <2>2, <2>3, <2>4, <2>5
<1>11. \A j \in Indices : LoadAt[j] \in Nat
  BY <1>1, <1>6, LoadType DEF LoadsTyped
<1>12. \A j \in Indices : LoadAt'[j] <= LoadAt[j]
  BY <1>9, <1>10, <1>11
<1>13. Calm'
  BY <1>1 DEF LoadInv, Calm
<1>14. QED
  BY <1>1, <1>2, <1>5, <1>6, <1>9, <1>12, <1>13, LoadsFall

LEMMA SendUnsubscribeLoads ==
    ASSUME LoadInv, TypeInv', NEW i \in DOMAIN unsubs, SendUnsubscribe(i)
    PROVE  LoadInv'
<1> DEFINE held == connections[i].assets \ unsubs[i]
<1>1. /\ pc = "unsub" /\ pc' = "unsub"
      /\ connections' = [connections EXCEPT ![i].assets = held]
      /\ UNCHANGED <<todo, pending, overflow>>
      /\ TypeInv /\ TypeOK
  BY DEF SendUnsubscribe, LoadInv, TypeInv
<1>2. i \in DOMAIN connections
  <2>1. /\ unsubs \in Seq(SUBSET Assets) /\ Len(unsubs) = Len(connections)
        /\ connections \in Seq(Handles)
    BY <1>1 DEF TypeOK, Handles
  <2>2. QED
    BY <2>1
<1>3. connections[i].assets \in SUBSET Assets /\ held \in SUBSET Assets
  BY <1>1, <1>2, HandleOf DEF Handles
<1>4. /\ Indices' = Indices /\ i \in Indices /\ Indices = 1..Len(connections)
      /\ \A j \in Indices : connections'[j].assets = IF j = i THEN held ELSE connections[j].assets
  <2>1. /\ Len(connections') = Len(connections)
        /\ \A j \in 1..Len(connections) :
              connections'[j].assets = IF j = i THEN held ELSE connections[j].assets
    BY <1>1, <1>2, <1>3, HandleChanges
  <2>2. Indices = 1..Len(connections) /\ Indices' = 1..Len(connections')
    BY <1>1, IndexRange, IndexRangeNext
  <2>3. QED
    BY <1>2, <2>1, <2>2 DEF Indices
<1>5. \A j \in Indices : Waiting(j)' = Waiting(j)
  BY <1>1 DEF Waiting
<1>6. \A j \in Indices :
          /\ LoadAt'[j] = Cardinality(connections'[j].assets) + Cardinality(Waiting(j)')
          /\ LoadAt[j] = Cardinality(connections[j].assets) + Cardinality(Waiting(j))
  BY <1>4, Zenon DEF LoadAt
<1>7. \A j \in Indices : LoadAt'[j] <= LoadAt[j]
  <2>1. LoadsTyped
    BY <1>1, LoadType
  <2>2. Cardinality(held) <= Cardinality(connections[i].assets) /\ Cardinality(held) \in Nat
    <3>1. IsFiniteSet(connections[i].assets) /\ held \in SUBSET connections[i].assets
      BY <1>4, <2>1 DEF LoadsTyped
    <3>2. QED
      BY <3>1, FS_Subset, FS_CardinalityType
  <2>3. \A j \in Indices : Cardinality(connections[j].assets) \in Nat /\ Cardinality(Waiting(j)) \in Nat
    BY <2>1 DEF LoadsTyped
  <2> TAKE j \in Indices
  <2>4. CASE j = i
    BY <1>4, <1>5, <1>6, <2>2, <2>3, <2>4
  <2>5. CASE j # i
    BY <1>4, <1>5, <1>6, <2>3, <2>5
  <2>6. QED
    BY <2>4, <2>5
<1>8. Calm'
  BY <1>1 DEF LoadInv, Calm
<1>9. QED
  BY <1>1, <1>4, <1>7, <1>8, LoadsFall

LEMMA RemovalLoads ==
    ASSUME LoadInv, TypeInv', RemoveEmpty
    PROVE  LoadInv'
<1>1. PICK i \in toGc :
          /\ pc = "gc" /\ pc' = pc /\ connections' = SwapRemove(connections, i)
          /\ UNCHANGED <<todo, pending, overflow>> /\ pending = <<>>
  BY DEF RemoveEmpty, LoadInv, Calm
<1>2. PICK n \in Nat : n = Len(connections) /\ Indices = 1..n /\ i \in 1..n
  BY <1>1, IndexRange DEF TypeInv, Collectable, LoadInv
<1>3. connections \in Seq(Handles)
  BY DEF TypeInv, TypeOK, Handles, LoadInv
<1>4. /\ Len(connections') = n - 1 /\ n - 1 \in Nat
      /\ \A k \in 1..(n - 1) :
            connections'[k] = IF k = i THEN connections[n] ELSE connections[k]
  <2>1. /\ Len(SwapRemove(connections, i)) = Len(connections) - 1
        /\ \A k \in 1..(Len(connections) - 1) :
              SwapRemove(connections, i)[k] = IF k = i THEN connections[Len(connections)]
                                              ELSE connections[k]
    BY <1>2, <1>3, SwapRemoved
  <2>2. QED
    BY <1>1, <1>2, <2>1
<1>5. Indices' = 1..(n - 1)
  BY <1>4, IndexRangeNext
<1>6. \A k \in Indices' : \E j \in Indices : connections'[k] = connections[j]
  <2> TAKE k \in Indices'
  <2>1. k \in 1..(n - 1) /\ k \in 1..n /\ n \in 1..n
    BY <1>2, <1>4, <1>5
  <2>2. CASE k = i
    BY <1>2, <1>4, <2>1, <2>2
  <2>3. CASE k # i
    BY <1>2, <1>4, <2>1, <2>3
  <2>4. QED
    BY <2>2, <2>3
<1>7. \A k : Waiting(k) = {} /\ Waiting(k)' = {}
  BY <1>1 DEF Waiting
<1>8. /\ \A j \in Indices : LoadAt[j] = Cardinality(connections[j].assets) + Cardinality({})
      /\ \A k \in Indices' : LoadAt'[k] = Cardinality(connections'[k].assets) + Cardinality({})
  BY <1>7, Zenon DEF LoadAt
<1>9. \A k \in Indices' : \E j \in Indices : LoadAt'[k] <= LoadAt[j]
  <2> TAKE k \in Indices'
  <2>1. PICK j \in Indices : connections'[k] = connections[j]
    BY <1>6
  <2>2. LoadAt'[k] = LoadAt[j]
    BY <1>8, <2>1
  <2>3. LoadAt[j] \in Nat
    BY <1>2, LoadType DEF LoadsTyped, LoadInv
  <2>4. QED
    BY <2>2, <2>3
<1>10. Calm'
  BY <1>1 DEF LoadInv, Calm
<1>11. QED
  BY <1>1, <1>9, <1>10, LoadsFall

\* A call that begins or ends, and the tasks, leave the loads alone.
LEMMA QuietLoads ==
    ASSUME LoadInv, TypeInv', UNCHANGED <<connections, todo, overflow>>,
           \/ UNCHANGED <<pending, pc>>
           \/ UNCHANGED pending /\ pc \in {"idle", "unsub", "gc"} /\ pc' \in {"idle", "unsub", "gc"}
           \/ FinishSubscribe
    PROVE  LoadInv' /\ LoadAt' = LoadAt
<1>1. CASE UNCHANGED <<pending, pc>>
  <2>1. /\ LoadAt' = LoadAt /\ RoomOf(LoadAt)' = RoomOf(LoadAt) /\ Within'
    BY <1>1, SameLoads DEF LoadInv
  <2>2. Batch' = Batch
    BY <1>1 DEF Batch
  <2>3. Enough' /\ Cornered' /\ Calm'
    BY <1>1, <2>1, <2>2 DEF LoadInv, Enough, Cornered, Calm
  <2>4. QED
    BY <2>1, <2>3 DEF LoadInv
<1>2. CASE UNCHANGED pending /\ pc \in {"idle", "unsub", "gc"} /\ pc' \in {"idle", "unsub", "gc"}
  <2>1. /\ LoadAt' = LoadAt /\ Within'
    BY <1>2, SameLoads DEF LoadInv
  <2>2. Enough' /\ Cornered' /\ Calm'
    BY <1>2 DEF LoadInv, Enough, Cornered, Calm
  <2>3. QED
    BY <2>1, <2>2 DEF LoadInv
<1>3. CASE FinishSubscribe
  <2>1. pc = "dispatch" /\ pc' = "idle" /\ pending' = <<>> /\ \A i \in DOMAIN pending : pending[i] = {}
    BY <1>3 DEF FinishSubscribe
  <2>2. \A i : Waiting(i)' = Waiting(i)
    BY <2>1 DEF Waiting
  <2>3. LoadAt' = LoadAt
    BY <2>2 DEF LoadAt, Indices
  <2>4. Within'
    BY <2>3 DEF Within, Indices, LoadInv
  <2>5. Enough' /\ Cornered' /\ Calm'
    BY <2>1 DEF LoadInv, Enough, Cornered, Calm
  <2>6. QED
    BY <2>3, <2>4, <2>5 DEF LoadInv
<1>4. QED
  BY <1>1, <1>2, <1>3

LEMMA NextLoads ==
    ASSUME LoadInv, [Next]_vars
    PROVE  LoadInv'
<1>1. TypeInv'
  BY NextTypes DEF LoadInv
<1>2. CASE UNCHANGED vars
  BY <1>1, <1>2, QuietLoads DEF vars, poolVars, callVars
<1>3. ASSUME NEW hashes \in SUBSET Markets, UnsubscribeMarkets(hashes)
      PROVE  LoadInv'
  BY <1>1, <1>3, QuietLoads DEF UnsubscribeMarkets
<1>4. CASE FinishSubscribe \/ CollectEmpty \/ FinishUnsubscribe
  <2>1. CASE FinishSubscribe
    BY <1>1, <2>1, QuietLoads DEF FinishSubscribe
  <2>2. CASE CollectEmpty
    BY <1>1, <2>2, QuietLoads DEF CollectEmpty, poolVars
  <2>3. CASE FinishUnsubscribe
    BY <1>1, <2>3, QuietLoads DEF FinishUnsubscribe
  <2>4. QED
    BY <1>4, <2>1, <2>2, <2>3
<1>5. ASSUME NEW id \in ConnIds, Receive(id)
      PROVE  LoadInv'
  BY <1>1, <1>5, QuietLoads DEF Receive, poolVars, callVars
<1>6. QED
  BY <1>1, <1>2, <1>3, <1>4, <1>5, SubscribeLoads, FirstLoads, SecondLoads, SpillLoads,
     OverflowLoads, DispatchLoads, SendUnsubscribeLoads, RemovalLoads DEF Next, CallStep

LEMMA AlwaysLoads == Spec => []LoadInv
<1>1. Init => LoadInv
  <2> SUFFICES ASSUME Init PROVE LoadInv
    OBVIOUS
  <2>1. Indices = {} /\ pc = "idle" /\ overflow = {} /\ pending = <<>>
    BY DEF Init, Indices
  <2>2. Within /\ Enough /\ Cornered /\ Calm
    BY <2>1 DEF Within, Enough, Cornered, Calm
  <2>3. QED
    BY <2>2, InitTypes DEF LoadInv
<1>2. QED
  BY <1>1, NextLoads, PTL DEF Spec

\* No connection ever carries more than max_assets_per_conn assets, the one that
\* pass 3 fills without a look at its capacity included (pool.rs:273-282).
THEOREM CapacityNeverExceeded == Spec => []CapacityRespected
<1>1. ASSUME LoadInv, NEW i \in Indices
      PROVE  (IF pc \in {"idle", "unsub", "gc"}
              THEN Cardinality(connections[i].assets) ELSE Load(i)) <= MaxAssets
  <2>1. LoadAt[i] <= MaxAssets
    BY <1>1 DEF LoadInv, Within
  <2>2. CASE pc \in {"idle", "unsub", "gc"}
    <3>1. LoadAt[i] = Cardinality(connections[i].assets) + Cardinality({})
      <4>1. Waiting(i) = {}
        BY <1>1, <2>2 DEF LoadInv, Calm, Waiting
      <4>2. QED
        BY <4>1, Zenon DEF LoadAt
    <3>2. Cardinality({}) = 0 /\ Cardinality(connections[i].assets) \in Nat
      BY <1>1, FS_EmptySet, LoadType DEF LoadInv, LoadsTyped
    <3>3. QED
      BY <2>1, <2>2, <3>1, <3>2
  <2>3. CASE pc \notin {"idle", "unsub", "gc"}
    <3>1. pc \in {"pass1", "pass2", "overflow", "dispatch"}
      BY <1>1, <2>3 DEF LoadInv, TypeInv, TypeOK
    <3>2. QED
      BY <1>1, <2>1, <2>3, <3>1, Queued DEF LoadInv
  <2>4. QED
    BY <2>2, <2>3
<1>2. LoadInv => CapacityRespected
  BY <1>1 DEF CapacityRespected
<1>3. QED
  BY <1>2, AlwaysLoads, PTL

\* However the earlier calls left the connections and in whatever order the items
\* come, pass 1 finds a place for each: its expect never panics
\* (pool.rs:209-223, 247-249).
THEOREM Pass1NeverPanics == Spec => []Pass1AlwaysFits
<1>1. ASSUME LoadInv, pc = "pass1"
      PROVE  Fits(0) # {}
  <2>1. TypeInv /\ TypeOK /\ todo # {} /\ todo \in SUBSET Items
        /\ Cardinality(RoomOf(LoadAt)) >= Cardinality(todo) + Cardinality(todo \cup Batch)
    BY <1>1 DEF LoadInv, TypeInv, TypeOK, Enough
  <2>2. Cardinality(todo) \in Nat /\ Cardinality(todo) # 0 /\ Cardinality(todo \cup Batch) \in Nat
    <3>1. IsFiniteSet(todo) /\ IsFiniteSet(todo \cup Batch)
      <4>1. todo \cup Batch \in SUBSET Items
        BY <2>1 DEF Batch, TypeOK
      <4>2. QED
        BY <2>1, <4>1, ItemsFinite, FS_Subset
    <3>2. QED
      BY <2>1, <3>1, Counted
  <2>3. Cardinality(RoomOf(LoadAt)) # 0 /\ IsFiniteSet(RoomOf(LoadAt))
    BY <2>1, <2>2, RoomCounts
  <2>4. PICK s \in RoomOf(LoadAt) : TRUE
    BY <2>3, FS_EmptySet
  <2>5. s[1] \in Indices /\ s[2] > LoadAt[s[1]] /\ s[2] \in Nat /\ s[2] <= MaxAssets
    BY <2>4, PoolAssumption DEF RoomOf, LoadAt
  <2>6. LoadAt[s[1]] \in Nat /\ s[1] # 0
    BY <2>1, <2>5, LoadType, IndexRange DEF LoadsTyped
  <2>7. LoadAt[s[1]] + 1 <= MaxAssets
    BY <2>5, <2>6, PoolAssumption
  <2>8. s[1] \in Fits(0)
    BY <1>1, <2>1, <2>5, <2>6, <2>7, Queued DEF Fits
  <2>9. QED
    BY <2>8
<1>2. LoadInv => Pass1AlwaysFits
  BY <1>1 DEF Pass1AlwaysFits
<1>3. QED
  BY <1>2, AlwaysLoads, PTL

-----------------------------------------------------------------------------
(* No connection without an asset *)

NoneBare == \A i \in Indices : connections[i].assets # {}
AllLoaded == \A i \in Indices : LoadAt[i] > 0

\* No more connections were opened than the items will reach.
Snug ==
    /\ pc = "pass1" =>
          \/ NoneBare
          \/ Len(connections) = 2
          \/ Cardinality(RoomOf(LoadAt))
                 < Cardinality(todo) + Cardinality(todo \cup Batch) + MaxAssets
    /\ pc = "pass2" =>
          \/ NoneBare
          \/ Len(connections) = 2
          \/ Cardinality(RoomOf(LoadAt)) < Cardinality(todo \cup overflow) + MaxAssets

Filled ==
    /\ pc \in {"overflow", "dispatch"} \/ overflow # {} => AllLoaded
    /\ pc = "overflow" => overflow # {}
    /\ pc = "idle" => NoneBare
    /\ pc = "gc" => \A i \in Indices \ toGc : connections[i].assets # {}

FullInv == PoolInv /\ LoadInv /\ Snug /\ Filled

\* An item of a pass is where its asset was put and nowhere else.
LEMMA Unplaced ==
    ASSUME PoolInv, NEW item \in todo
    PROVE  /\ pc = "pass1" => \A i \in Indices : item \notin pending[i]
           /\ pc = "pass2" =>
                 /\ firstConn[AssetOf(item)] \in Indices
                 /\ pending[firstConn[AssetOf(item)]] # {}
                 /\ \A i \in Indices :
                       i # firstConn[AssetOf(item)] => item \notin pending[i]
<1> DEFINE a == AssetOf(item)
<1>1. a \in Assets /\ Waits(a) /\ TypeInv
  BY DEF PoolInv, TypeInv, TypeOK, AssetOf, Assets, Items, Waits
<1>2. Placed(a) /\ Awaited(a) /\ 0 \notin Indices
  BY <1>1, Shape DEF PoolInv, PlacedInv
<1>3. CASE pc = "pass1"
  <2>1. ~Tracked(a) /\ firstConn[a] = 0 /\ DOMAIN pending = Indices
    BY <1>1, <1>2, <1>3, Queued DEF Awaited
  <2>2. \A i \in Indices : ~Due(i, a)
    BY <1>2, <2>1 DEF Placed
  <2>3. QED
    BY <1>3, <2>1, <2>2 DEF Due
<1>4. CASE pc = "pass2"
  <2>1. ~Tracked(a) /\ firstConn[a] # 0 /\ DOMAIN pending = Indices
    BY <1>1, <1>2, <1>4, Queued DEF Awaited
  <2>2. firstConn[a] \in Indices /\ \A i \in Indices : Due(i, a) <=> i = firstConn[a]
    BY <1>2, <2>1 DEF Placed
  <2>3. QED
    BY <1>4, <2>1, <2>2 DEF Due
<1>5. QED
  BY <1>3, <1>4

LEMMA SubscribeFills ==
    ASSUME FullInv, TypeInv', NEW batch \in SUBSET (Markets \X Copies), SubscribeMarkets(batch)
    PROVE  Snug' /\ Filled'
<1> DEFINE new   == {l \in batch : l[1] \notin markets}
           items == {it \in Items : <<it[1], it[3]>> \in new}
<1>1. PICK n \in 0..(MaxConns - nextConnId - 1) :
         /\ n = ConnsNeeded(items)
         /\ connections' = connections \o NewHandles(n)
         /\ pending' = NoPending(Len(connections) + n)
  BY DEF SubscribeMarkets
<1>2. /\ pc = "idle" /\ pc' = "pass1" /\ todo' = items /\ overflow' = {}
      /\ pending = <<>> /\ TypeInv /\ TypeOK /\ NoneBare
  BY DEF SubscribeMarkets, FullInv, LoadInv, Calm, TypeInv, Filled
<1>3. n \in Nat /\ nextConnId + n <= MaxConns
  BY <1>1, <1>2, PoolAssumption DEF TypeOK
<1>4. /\ Cardinality(RoomOf(LoadAt)') = FreeSlots + n * MaxAssets
      /\ FreeSlots \in Nat /\ Len(connections) \in Nat
      /\ Len(connections') = Len(connections) + n
      /\ \A k \in 1..Len(connections) : connections'[k] = connections[k]
  BY <1>1, <1>2, <1>3, OpenedRoom, IndexRange
<1>5. IsFiniteSet(items)
  BY ItemsFinite, FS_Subset
<1>6. Batch' = {}
  BY <1>1, <1>3, <1>4 DEF Batch, NoPending
<1> HIDE DEF items
<1>7. \/ n = 0
      \/ Len(connections) + n = 2
      \/ FreeSlots + n * MaxAssets < Cardinality(items) + Cardinality(items) + MaxAssets
  BY <1>1, <1>2, <1>4, <1>5, OpenedEnough
<1>8. todo' \cup Batch' = items
  BY <1>2, <1>6
<1>9. n = 0 => NoneBare'
  <2>1. Indices = 1..Len(connections) /\ Indices' = 1..Len(connections')
    BY <1>2, IndexRange, IndexRangeNext
  <2>2. QED
    BY <1>2, <1>4, <2>1 DEF NoneBare
<1>10. Snug'
  BY <1>2, <1>4, <1>7, <1>8, <1>9 DEF Snug
<1>11. Filled'
  BY <1>2 DEF Filled
<1>12. QED
  BY <1>10, <1>11

LEMMA FirstFills ==
    ASSUME FullInv, TypeInv', NEW item \in Items, Place1(item)
    PROVE  Snug' /\ Filled'
<1>1. /\ pc = "pass1" /\ item \in todo /\ UNCHANGED <<connections, overflow>>
      /\ todo \in SUBSET Items /\ overflow = {}
      /\ TypeInv /\ TypeOK /\ pc' \in {"pass1", "pass2"}
  BY DEF Place1, poolVars, FullInv, LoadInv, TypeInv, TypeOK, Calm
<1>2. PICK i \in Indices : /\ i \in Fits(0)
                           /\ pending' = [pending EXCEPT ![i] = @ \cup {item}]
  BY DEF Place1, FirstFit, Indices
<1>3. LoadAt[i] + 1 <= MaxAssets /\ DOMAIN pending = Indices /\ item \notin pending[i]
  BY <1>1, <1>2, Queued, Unplaced DEF Fits, FullInv
<1>4. Cardinality(RoomOf(LoadAt)) = Cardinality(RoomOf(LoadAt)') + 1
  BY <1>1, <1>2, <1>3, OneLoaded
<1>5. Batch' = Batch \cup {item} /\ Batch \subseteq Items
  <2>1. Batch' = Batch \cup {item}
    <3>1. i \in DOMAIN pending /\ pending' = [pending EXCEPT ![i] = @ \cup {item}]
      BY <1>2, <1>3
    <3>2. QED
      BY ONLY <3>1, BatchGrows
  <2>2. Batch \subseteq Items
    BY <1>1 DEF Batch, TypeOK
  <2>3. QED
    BY <2>1, <2>2
<1>6. /\ Cardinality(RoomOf(LoadAt)) \in Nat /\ Cardinality(RoomOf(LoadAt)') \in Nat
      /\ MaxAssets \in Nat
  BY <1>1, RoomCounts, RoomCountsNext, PoolAssumption DEF RoomCounted
<1>7. /\ Cardinality(todo) = Cardinality(todo \ {item}) + 1 /\ Cardinality(todo \ {item}) \in Nat
      /\ Cardinality(todo \cup Batch) \in Nat
  <2>1. IsFiniteSet(todo) /\ IsFiniteSet(todo \cup Batch)
    BY <1>1, <1>5, ItemsFinite, FS_Subset
  <2>2. QED
    BY <1>1, <2>1, OneLess, FS_CardinalityType
<1>8. \/ NoneBare
      \/ Len(connections) = 2
      \/ Cardinality(RoomOf(LoadAt)')
             < Cardinality(todo \ {item}) + Cardinality(todo \cup Batch) + MaxAssets
  BY <1>1, <1>4, <1>6, <1>7 DEF FullInv, Snug
<1>9. (NoneBare => NoneBare') /\ Len(connections') = Len(connections)
  BY <1>1 DEF NoneBare, Indices
<1>10. Snug'
  <2>1. CASE todo = {item}
    <3>1. pc' = "pass2" /\ todo' = Batch \cup {item} /\ todo \ {item} = {}
      BY <2>1 DEF Place1
    <3>2. todo' \cup overflow' = todo \cup Batch /\ Cardinality(todo \ {item}) = 0
      BY <1>1, <2>1, <3>1, FS_EmptySet
    <3>3. \/ NoneBare
          \/ Len(connections) = 2
          \/ Cardinality(RoomOf(LoadAt)') < Cardinality(todo' \cup overflow') + MaxAssets
      BY <1>6, <1>7, <1>8, <3>2
    <3>4. QED
      BY <1>9, <3>1, <3>3 DEF Snug
  <2>2. CASE todo # {item}
    <3>1. pc' = "pass1" /\ todo' = todo \ {item}
      BY <1>1, <2>2 DEF Place1
    <3>2. todo' \cup Batch' = todo \cup Batch
      BY <1>1, <1>5, <3>1
    <3>3. QED
      BY <1>8, <1>9, <3>1, <3>2 DEF Snug
  <2>3. QED
    BY <2>1, <2>2
<1>11. Filled'
  BY <1>1 DEF Filled
<1>12. QED
  BY <1>10, <1>11

\* What has an asset, held or waiting, carries something.
LEMMA Carries ==
    ASSUME TypeInv, NEW i \in Indices
    PROVE  LoadAt[i] > 0 <=> connections[i].assets # {} \/ Waiting(i) # {}
<1>1. /\ IsFiniteSet(connections[i].assets) /\ IsFiniteSet(Waiting(i))
      /\ Cardinality(connections[i].assets) \in Nat /\ Cardinality(Waiting(i)) \in Nat
      /\ LoadAt[i] = Cardinality(connections[i].assets) + Cardinality(Waiting(i))
  BY LoadType DEF LoadsTyped
<1>2. /\ Cardinality(connections[i].assets) = 0 <=> connections[i].assets = {}
      /\ Cardinality(Waiting(i)) = 0 <=> Waiting(i) = {}
  BY <1>1, Counted
<1>3. QED
  BY <1>1, <1>2

LEMMA CarriesNext ==
    TypeInv' => (\A i \in Indices : LoadAt[i] > 0 <=> connections[i].assets # {} \/ Waiting(i) # {})'
<1>1. TypeInv => \A i \in Indices : LoadAt[i] > 0 <=> connections[i].assets # {} \/ Waiting(i) # {}
  BY Carries
<1>2. QED
  BY <1>1, PTL

LEMMA SecondFills ==
    ASSUME FullInv, TypeInv', NEW item \in Items, Place2(item)
    PROVE  Snug' /\ Filled'
<1> DEFINE f == firstConn[AssetOf(item)]
<1>1. /\ pc = "pass2" /\ item \in todo /\ UNCHANGED <<connections, overflow, firstConn>>
      /\ todo \in SUBSET Items /\ overflow \in SUBSET Items /\ todo \cap overflow = {}
      /\ TypeInv /\ TypeOK
      /\ todo' = todo \ {item}
      /\ pc' = IF todo # {item} THEN "pass2" ELSE IF overflow = {} THEN "dispatch" ELSE "overflow"
  BY DEF Place2, AfterPass2, poolVars, FullInv, LoadInv, TypeInv, TypeOK, Calm
<1>2. PICK i \in Indices : /\ i \in Fits(f)
                           /\ pending' = [pending EXCEPT ![i] = @ \cup {item}]
  BY DEF Place2, FirstFit, Indices
<1>3. /\ LoadAt[i] + 1 <= MaxAssets /\ DOMAIN pending = Indices /\ item \notin pending[i]
      /\ i # f /\ f \in Indices /\ pending[f] # {}
  BY <1>1, <1>2, Queued, Unplaced DEF Fits, FullInv
<1>4. /\ Cardinality(RoomOf(LoadAt)) = Cardinality(RoomOf(LoadAt)') + 1
      /\ LoadAt'[i] = LoadAt[i] + 1
      /\ \A j \in Indices : LoadAt'[j] >= LoadAt[j]
  BY <1>1, <1>2, <1>3, OneLoaded
<1>5. /\ Cardinality(RoomOf(LoadAt)) \in Nat /\ Cardinality(RoomOf(LoadAt)') \in Nat
      /\ MaxAssets \in Nat /\ MaxAssets >= 1
  BY <1>1, RoomCounts, RoomCountsNext, PoolAssumption DEF RoomCounted
<1>6. /\ Cardinality(todo \cup overflow) = Cardinality(todo' \cup overflow') + 1
      /\ Cardinality(todo' \cup overflow') \in Nat
  <2>1. IsFiniteSet(todo \cup overflow)
    BY <1>1, ItemsFinite, FS_Subset
  <2>2. todo' \cup overflow' = (todo \cup overflow) \ {item} /\ item \in todo \cup overflow
    BY <1>1
  <2>3. QED
    BY <2>1, <2>2, OneLess
<1>7. \/ NoneBare'
      \/ Len(connections') = 2
      \/ Cardinality(RoomOf(LoadAt)') < Cardinality(todo' \cup overflow') + MaxAssets
  <2>1. \/ NoneBare
        \/ Len(connections) = 2
        \/ Cardinality(RoomOf(LoadAt)) < Cardinality(todo \cup overflow) + MaxAssets
    BY <1>1 DEF FullInv, Snug
  <2>2. NoneBare' <=> NoneBare
    BY <1>1 DEF NoneBare, Indices
  <2>3. QED
    BY <1>1, <1>4, <1>5, <1>6, <2>1, <2>2
<1>8. Snug'
  BY <1>1, <1>7 DEF Snug
<1>9. Indices' = Indices /\ Indices = 1..Len(connections) /\ Len(connections) \in Nat
  BY <1>1, IndexRange DEF Indices
<1>10. \A j \in Indices : LoadAt[j] \in Nat /\ LoadAt'[j] \in Nat
  BY <1>1, <1>9, LoadType, LoadTypeNext DEF LoadsTyped
<1>11. \A j \in Indices : LoadAt[j] > 0 => LoadAt'[j] > 0
  BY <1>4, <1>10
<1>12. LoadAt'[i] > 0 /\ LoadAt'[f] > 0
  <2>1. LoadAt'[i] > 0
    BY <1>4, <1>10
  <2>2. Waiting(f) # {}
    BY <1>3 DEF Waiting
  <2>3. LoadAt[f] > 0
    BY <1>1, <1>3, <2>2, Carries
  <2>4. QED
    BY <1>3, <1>11, <2>1, <2>3
<1>13. overflow # {} => AllLoaded'
  BY <1>9, <1>11 DEF FullInv, Filled, AllLoaded
<1>14. ASSUME overflow = {}, todo = {item}
       PROVE  AllLoaded'
  <2>1. CASE NoneBare'
    BY <2>1, CarriesNext DEF NoneBare, AllLoaded
  <2>2. CASE Len(connections') = 2
    <3>1. \A j \in Indices : j = i \/ j = f
      BY <1>1, <1>3, <1>9, <2>2
    <3>2. QED
      BY <1>9, <1>12, <3>1 DEF AllLoaded
  <2>3. CASE Cardinality(RoomOf(LoadAt)') < Cardinality(todo' \cup overflow') + MaxAssets
    <3>1. Cardinality(todo' \cup overflow') = 0
      <4>1. todo' \cup overflow' = {}
        BY <1>1, <1>14
      <4>2. QED
        BY <4>1, FS_EmptySet
    <3>2. Cardinality(RoomOf(LoadAt)') < MaxAssets
      BY <1>5, <2>3, <3>1
    <3>3. ASSUME NEW j \in Indices, LoadAt'[j] = 0
          PROVE  FALSE
      <4>1. LoadAt' \in [1..Len(connections) -> Nat] /\ j \in 1..Len(connections)
        BY <1>1, <1>9, <3>3, LoadTypeNext DEF LoadsTyped
      <4>2. Cardinality(RoomOf(LoadAt')) >= MaxAssets
        BY <1>9, <3>3, <4>1, EmptyIsRoom
      <4>3. RoomOf(LoadAt)' = RoomOf(LoadAt')
        BY DEF RoomOf
      <4>4. QED
        BY <1>5, <3>2, <4>2, <4>3
    <3>4. QED
      BY <1>9, <1>10, <3>3 DEF AllLoaded
  <2>4. QED
    BY <1>7, <2>1, <2>2, <2>3
<1>15. Filled'
  BY <1>1, <1>13, <1>14 DEF Filled
<1>16. QED
  BY <1>8, <1>15

LEMMA SpillFills ==
    ASSUME FullInv, TypeInv', NEW item \in Items, Spill(item)
    PROVE  Snug' /\ Filled'
<1> DEFINE f == firstConn[AssetOf(item)]
<1>1. /\ pc = "pass2" /\ item \in todo /\ UNCHANGED <<connections, pending>>
      /\ overflow' = overflow \cup {item} /\ todo' = todo \ {item}
      /\ TypeInv /\ TypeOK
      /\ pc' \in {"pass2", "overflow"} /\ Fits(f) = {}
  BY DEF Spill, AfterPass2, poolVars, FullInv, LoadInv, TypeInv
<1>2. /\ RoomOf(LoadAt)' = RoomOf(LoadAt) /\ LoadAt' = LoadAt /\ Indices' = Indices
  BY <1>1, SameLoads DEF Indices
<1>3. todo' \cup overflow' = todo \cup overflow
  BY <1>1
<1>4. Snug'
  <2>1. NoneBare' <=> NoneBare
    BY <1>1 DEF NoneBare, Indices
  <2>2. \/ NoneBare
        \/ Len(connections) = 2
        \/ Cardinality(RoomOf(LoadAt)) < Cardinality(todo \cup overflow) + MaxAssets
    BY <1>1 DEF FullInv, Snug
  <2>3. QED
    BY <1>1, <1>2, <1>3, <2>1, <2>2 DEF Snug
<1>5. f \in Indices /\ pending[f] # {} /\ DOMAIN pending = Indices
  BY <1>1, Unplaced, Queued DEF FullInv
<1>6. LoadAt[f] > 0
  BY <1>1, <1>5, Carries DEF Waiting
<1>7. \A j \in Indices : j # f => LoadAt[j] > 0
  <2> TAKE j \in Indices
  <2>1. LoadAt[j] \in Nat /\ MaxAssets \in Nat /\ MaxAssets >= 1
    BY <1>1, LoadType, IndexRange, PoolAssumption DEF LoadsTyped
  <2>2. j # f => ~(LoadAt[j] + 1 <= MaxAssets)
    BY <1>1, Queued DEF Fits
  <2>3. QED
    BY <2>1, <2>2
<1>8. AllLoaded'
  BY <1>2, <1>6, <1>7 DEF AllLoaded
<1>9. Filled'
  BY <1>1, <1>8 DEF Filled
<1>10. QED
  BY <1>4, <1>9

LEMMA OverflowFills ==
    ASSUME FullInv, TypeInv', PlaceOverflow
    PROVE  Snug' /\ Filled'
<1>1. pc = "overflow" /\ pc' = "dispatch" /\ overflow # {} /\ AllLoaded /\ TypeOK /\ overflow' = {}
  BY DEF PlaceOverflow, FullInv, Filled, LoadInv, TypeInv
<1>2. /\ Indices' = Indices \cup {Len(connections) + 1}
      /\ \A k \in Indices : LoadAt'[k] = LoadAt[k]
      /\ LoadAt'[Len(connections) + 1] = Cardinality(overflow)
  BY OverflowLoads DEF FullInv
<1>3. Cardinality(overflow) > 0
  <2>1. IsFiniteSet(overflow)
    BY <1>1, ItemsFinite, FS_Subset DEF TypeOK
  <2>2. QED
    BY <1>1, <2>1, Counted
<1>4. AllLoaded'
  BY <1>1, <1>2, <1>3 DEF AllLoaded
<1>5. QED
  BY <1>1, <1>4 DEF Snug, Filled

LEMMA DispatchFills ==
    ASSUME FullInv, TypeInv', NEW i \in DOMAIN pending, Dispatch(i)
    PROVE  Snug' /\ Filled'
<1>1. /\ pc = "dispatch" /\ pc' = "dispatch" /\ UNCHANGED overflow /\ AllLoaded
  BY DEF Dispatch, FullInv, Filled
<1>2. /\ Indices' = Indices
      /\ \A j \in Indices \ {i} : LoadAt'[j] = LoadAt[j]
      /\ connections'[i].assets # {}
  BY DispatchLoads DEF FullInv
<1>3. i \in Indices => LoadAt'[i] > 0
  BY <1>2, CarriesNext
<1>4. AllLoaded'
  BY <1>1, <1>2, <1>3 DEF AllLoaded
<1>5. QED
  BY <1>1, <1>4 DEF Snug, Filled, FullInv, LoadInv, Calm

LEMMA FinishFills ==
    ASSUME FullInv, TypeInv', FinishSubscribe
    PROVE  Snug' /\ Filled'
<1>1. /\ pc = "dispatch" /\ pc' = "idle" /\ overflow' = {} /\ AllLoaded /\ UNCHANGED connections
      /\ \A i \in DOMAIN pending : pending[i] = {}
  BY DEF FinishSubscribe, FullInv, Filled, LoadInv, Calm
<1>2. NoneBare
  <2>1. ASSUME NEW i \in Indices
        PROVE  connections[i].assets # {}
    <3>1. LoadAt[i] > 0 /\ Waiting(i) = {}
      BY <1>1 DEF AllLoaded, Waiting
    <3>2. QED
      BY <3>1, Carries DEF FullInv, LoadInv
  <2>2. QED
    BY <2>1 DEF NoneBare
<1>3. NoneBare'
  BY <1>1, <1>2 DEF NoneBare, Indices
<1>4. QED
  BY <1>1, <1>3 DEF Snug, Filled

LEMMA RemovalFills ==
    ASSUME FullInv, TypeInv', RemoveEmpty
    PROVE  Snug' /\ Filled'
<1>1. PICK i \in toGc :
          /\ pc = "gc" /\ pc' = "gc" /\ connections' = SwapRemove(connections, i)
          /\ \A j \in toGc : j <= i
          /\ toGc' = toGc \ {i} /\ overflow' = {}
          /\ \A j \in Indices \ toGc : connections[j].assets # {}
  BY DEF RemoveEmpty, FullInv, Filled, LoadInv, Calm
<1>2. PICK n \in Nat : n = Len(connections) /\ Indices = 1..n /\ i \in 1..n
  BY <1>1, IndexRange DEF TypeInv, Collectable, FullInv, LoadInv
<1>3. connections \in Seq(Handles) /\ \A j \in toGc : j \in Nat
  BY DEF TypeInv, TypeOK, Handles, FullInv, LoadInv
<1>4. /\ Len(connections') = n - 1 /\ n - 1 \in Nat
      /\ \A k \in 1..(n - 1) :
            connections'[k] = IF k = i THEN connections[n] ELSE connections[k]
  <2>1. /\ Len(SwapRemove(connections, i)) = Len(connections) - 1
        /\ \A k \in 1..(Len(connections) - 1) :
              SwapRemove(connections, i)[k] = IF k = i THEN connections[Len(connections)]
                                              ELSE connections[k]
    BY <1>2, <1>3, SwapRemoved
  <2>2. QED
    BY <1>1, <1>2, <2>1
<1>5. Indices' = 1..(n - 1)
  BY <1>4, IndexRangeNext
<1>6. ASSUME NEW k \in Indices' \ toGc'
      PROVE  connections'[k].assets # {}
  <2>1. k \in 1..(n - 1) /\ k \in 1..n /\ n \in 1..n /\ k < n
    BY <1>2, <1>4, <1>5, <1>6
  <2>2. CASE k = i
    <3>1. n \notin toGc
      BY <1>1, <1>2, <1>3, <2>1, <2>2
    <3>2. connections[n].assets # {}
      BY <1>1, <1>2, <2>1, <3>1
    <3>3. QED
      BY <1>4, <2>1, <2>2, <3>2
  <2>3. CASE k # i
    <3>1. k \notin toGc
      BY <1>1, <1>6, <2>3
    <3>2. connections[k].assets # {}
      BY <1>1, <1>2, <2>1, <3>1
    <3>3. QED
      BY <1>4, <2>1, <2>3, <3>2
  <2>4. QED
    BY <2>2, <2>3
<1>7. QED
  BY <1>1, <1>6 DEF Snug, Filled

LEMMA NextFull ==
    ASSUME OneCopy, FullInv, [Next]_vars
    PROVE  FullInv'
<1>1. PoolInv' /\ LoadInv' /\ TypeInv'
  BY NextPlaced, NextLoads DEF FullInv, PoolInv
<1>2. CASE UNCHANGED <<connections, pending, todo, overflow, pc, toGc>>
  <2>1. /\ RoomOf(LoadAt)' = RoomOf(LoadAt) /\ LoadAt' = LoadAt /\ Indices' = Indices
    BY <1>2, SameLoads DEF Indices
  <2>2. /\ Batch' = Batch /\ (NoneBare' <=> NoneBare) /\ (AllLoaded' <=> AllLoaded)
    BY <1>2, <2>1 DEF Batch, NoneBare, AllLoaded, Indices
  <2>3. Snug' /\ Filled'
    BY <1>2, <2>1, <2>2 DEF FullInv, Snug, Filled
  <2>4. QED
    BY <1>1, <2>3 DEF FullInv
<1>3. CASE UNCHANGED vars
  BY <1>2, <1>3 DEF vars, poolVars, callVars
<1>4. ASSUME NEW batch \in SUBSET (Markets \X Copies), SubscribeMarkets(batch)
      PROVE  FullInv'
  BY <1>1, <1>4, SubscribeFills DEF FullInv
<1>5. ASSUME NEW hashes \in SUBSET Markets, UnsubscribeMarkets(hashes)
      PROVE  FullInv'
  <2>1. pc' = "unsub" /\ overflow' = {}
    BY <1>5 DEF UnsubscribeMarkets, FullInv, LoadInv, Calm
  <2>2. QED
    BY <1>1, <2>1 DEF FullInv, Snug, Filled
<1>6. ASSUME NEW item \in Items, Place1(item) \/ Place2(item) \/ Spill(item)
      PROVE  FullInv'
  BY <1>1, <1>6, FirstFills, SecondFills, SpillFills DEF FullInv
<1>7. CASE PlaceOverflow
  BY <1>1, <1>7, OverflowFills DEF FullInv
<1>8. ASSUME NEW i \in DOMAIN pending, Dispatch(i)
      PROVE  FullInv'
  BY <1>1, <1>8, DispatchFills DEF FullInv
<1>9. CASE FinishSubscribe
  BY <1>1, <1>9, FinishFills DEF FullInv
<1>10. ASSUME NEW i \in DOMAIN unsubs, SendUnsubscribe(i)
       PROVE  FullInv'
  <2>1. pc' = "unsub" /\ overflow' = {}
    BY <1>10 DEF SendUnsubscribe, FullInv, LoadInv, Calm
  <2>2. QED
    BY <1>1, <2>1 DEF FullInv, Snug, Filled
<1>11. CASE CollectEmpty
  <2>1. /\ pc' = "gc" /\ overflow' = {} /\ UNCHANGED connections
        /\ toGc' = {i \in DOMAIN connections : connections[i].assets = {}}
    BY <1>11 DEF CollectEmpty, FullInv, LoadInv, Calm, poolVars
  <2>2. \A i \in Indices' \ toGc' : connections'[i].assets # {}
    BY <2>1 DEF Indices
  <2>3. QED
    BY <1>1, <2>1, <2>2 DEF FullInv, Snug, Filled
<1>12. CASE RemoveEmpty
  BY <1>1, <1>12, RemovalFills DEF FullInv
<1>13. CASE FinishUnsubscribe
  <2>1. pc = "gc" /\ pc' = "idle" /\ overflow' = {} /\ toGc = {} /\ UNCHANGED connections
    BY <1>13 DEF FinishUnsubscribe, FullInv, LoadInv, Calm
  <2>2. NoneBare'
    BY <2>1 DEF FullInv, Filled, NoneBare, Indices
  <2>3. QED
    BY <1>1, <2>1, <2>2 DEF FullInv, Snug, Filled
<1>14. ASSUME NEW id \in ConnIds, Receive(id)
       PROVE  FullInv'
  BY <1>2, <1>14 DEF Receive, poolVars, callVars
<1>15. QED
  BY <1>3, <1>4, <1>5, <1>6, <1>7, <1>8, <1>9, <1>10, <1>11, <1>12, <1>13, <1>14
     DEF Next, CallStep

LEMMA InitFull == Init => FullInv
<1> SUFFICES ASSUME Init PROVE FullInv
  OBVIOUS
<1>1. Indices = {} /\ pc = "idle" /\ overflow = {} /\ pending = <<>>
  BY DEF Init, Indices
<1>2. Within /\ Enough /\ Cornered /\ Calm
  BY <1>1 DEF Within, Enough, Cornered, Calm
<1>3. Snug /\ Filled
  BY <1>1 DEF Snug, Filled, NoneBare
<1>4. QED
  BY <1>2, <1>3, InitTypes, InitPlaced DEF FullInv, LoadInv

LEMMA AlwaysFull == ASSUME OneCopy PROVE Spec => []FullInv
  BY InitFull, NextFull, PTL DEF Spec

\* A subscribe opens no connection that stays empty, whichever way its passes go,
\* and an unsubscribe leaves none: between calls every connection has an asset
\* (pool.rs:209-223, 337-366).
THEOREM NoConnectionIdle == ASSUME OneCopy PROVE Spec => []NoEmptyConnection
<1>1. FullInv => NoEmptyConnection
  BY DEF FullInv, Filled, NoneBare, NoEmptyConnection
<1>2. QED
  BY <1>1, AlwaysFull, PTL
=============================================================================
