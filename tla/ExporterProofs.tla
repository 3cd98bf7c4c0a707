--------------------------- MODULE ExporterProofs ----------------------------
(* Theorems about the exporter (module Exporter), for every lag, every      *)
(* number of hours and rows, failures and restarts.                         *)
EXTENDS Exporter, TLAPS

USE ExporterAssumption DEF None, Hours

\* Hour h is over and no insert stamped with it can still be committed.
Settled(h) == h < hour /\ insert # h /\ (hour = h + 1 => late)

\* n is the number of rows hour h will ever have, unless it was read too early.
Final(h, n) == h \notin early => Settled(h) /\ rows[h] = n

\* An insert in flight belongs to this hour, or to the last one while
\* EXPORT_DELAY_MINUTES have not passed; all hours in hand are over.
ClockInv ==
    /\ insert # None => /\ insert = hour \/ (insert = hour - 1 /\ ~late)
                        /\ rows[insert] < MaxRows
    /\ hour >= Lag - 1
    /\ latest < hour /\ listedTo < hour
    /\ \A h \in missing : h < hour

\* What lies in R2 is all there is, but for hours read too early.
StoredInv == \A h \in Hours : objects[h] # None => objects[h] > 0 /\ Final(h, objects[h])

\* So are the rows in hand.
InHandInv ==
    /\ phase = "backfill_upload" =>
          fetched > 0 /\ \A h \in Hours : First(h, missing) => Final(h, fetched)
    /\ phase = "upload" =>
          nextHour <= latest /\ fetched > 0 /\ Final(nextHour, fetched)
    /\ phase \in {"sleep", "wake", "export", "upload"} => nextHour \in Hours

\* An hour that the backfill listed is exported, given up, still to be tried,
\* or for ever empty.
ListedInv ==
    /\ phase \notin {"backfill", "backfill_upload"} => missing = {}
    /\ earliest # None =>
          \A h \in earliest..listedTo :
              objects[h] # None \/ h \in failed \cup missing \/ Final(h, 0)

IInv == TypeOK /\ ClockInv /\ StoredInv /\ InHandInv /\ ListedInv /\ LoopLeavesNoHole

-----------------------------------------------------------------------------
\* Rows are read late enough, or the hour is marked as read early.
LEMMA ReadIsFinal ==
    ASSUME TypeOK, ClockInv, NEW h \in Hours, h < hour, Read(h), UNCHANGED world
    PROVE  /\ Final(h, fetched)'
           /\ fetched' \in 0..MaxRows /\ early' \in SUBSET Hours /\ early \subseteq early'
  BY DEF TypeOK, ClockInv, Read, world, Final, Settled

\* What is final stays final.
LEMMA FinalStays ==
    ASSUME TypeOK, ClockInv, NEW h \in Hours, NEW n, Final(h, n),
           \/ UNCHANGED world /\ early \subseteq early'
           \/ (Insert \/ Commit \/ ClockStep) /\ UNCHANGED early
    PROVE  Final(h, n)'
<1>1. CASE h \in early
  BY <1>1 DEF Final
<1>2. CASE h \notin early /\ UNCHANGED world
  BY <1>2 DEF Final, Settled, world
<1>3. CASE h \notin early /\ Insert
  BY <1>3 DEF Final, Settled, Insert, TypeOK
<1>4. CASE h \notin early /\ Commit
  BY <1>4 DEF Final, Settled, Commit, TypeOK
<1>5. CASE h \notin early /\ ClockStep
  BY <1>5 DEF Final, Settled, ClockStep, TypeOK
<1>6. QED
  BY <1>1, <1>2, <1>3, <1>4, <1>5

-----------------------------------------------------------------------------
LEMMA InitInv == Init => IInv
<1> SUFFICES ASSUME Init
             PROVE  IInv
  OBVIOUS
<1>1. TypeOK
  <2>1. /\ rows \in [Hours -> 0..MaxRows]
        /\ objects \in [Hours -> {None} \cup 0..MaxRows]
    BY DEF Init
  <2>2. hour \in Hours
    BY DEF Init
  <2>3. fetched \in 0..MaxRows /\ phase \in Phases
    BY DEF Init, Phases
  <2>4. QED
    BY <2>1, <2>2, <2>3 DEF Init, TypeOK
<1>2. ClockInv
  BY DEF Init, ClockInv
<1>3. StoredInv /\ InHandInv /\ ListedInv /\ LoopLeavesNoHole
  BY DEF Init, StoredInv, InHandInv, ListedInv, LoopLeavesNoHole
<1>4. QED
  BY <1>1, <1>2, <1>3 DEF IInv

\* The backfill's steps.
LEMMA BackfillInv ==
    ASSUME IInv, List \/ BackfillFetch \/ BackfillUpload \/ BackfillFail \/ BackfillEnd
    PROVE  IInv'
<1> USE DEF IInv
<1>1. CASE List
  <2>1. TypeOK' /\ ClockInv'
    <3>1. CASE WithRows = {} /\ phase' = "enter_loop" /\ UNCHANGED <<earliest, listedTo, missing>>
      BY <1>1, <3>1 DEF List, TypeOK, ClockInv, world, loop, read, Phases
    <3>2. CASE /\ \E h \in Hours : First(h, WithRows) /\ earliest' = h
               /\ phase' = "backfill"
               /\ listedTo' = LatestExportable
               /\ missing' = {h \in earliest'..LatestExportable : objects[h] = None}
      <4>1. earliest' \in Hours
        BY <3>2
      <4>2. hour \in Hours /\ hour >= Lag - 1
        BY DEF TypeOK, ClockInv
      <4>3. listedTo' \in {None} \cup Hours /\ listedTo' < hour
        BY <3>2, <4>2 DEF LatestExportable
      <4>4. missing' \subseteq Hours /\ \A h \in missing' : h < hour
        BY <3>2, <4>1, <4>2 DEF LatestExportable
      <4>5. UNCHANGED <<world, objects, failed, loop, read>> /\ phase' \in Phases
        BY <1>1, <3>2 DEF List, Phases
      <4>6. QED
        BY <4>1, <4>3, <4>4, <4>5 DEF TypeOK, ClockInv, world, loop, read
    <3>3. QED
      BY <1>1, <3>1, <3>2 DEF List
  <2>2. UNCHANGED <<world, early, objects>>
    BY <1>1 DEF List, read
  <2>3. StoredInv'
    BY <2>2, FinalStays DEF StoredInv
  <2>4. InHandInv' /\ LoopLeavesNoHole'
    BY <1>1 DEF List, InHandInv, loop, LoopLeavesNoHole
  <2>5. ListedInv'
    <3>1. CASE WithRows = {} /\ phase' = "enter_loop" /\ UNCHANGED <<earliest, listedTo, missing>>
      <4>1. missing' = {} /\ UNCHANGED failed
        BY <1>1, <3>1 DEF List, ListedInv
      <4>2. ASSUME earliest # None, NEW g \in earliest..listedTo
            PROVE  objects'[g] # None \/ g \in failed' \cup missing' \/ Final(g, 0)'
        BY <2>2, <3>1, <4>1, <4>2, FinalStays DEF TypeOK, ListedInv
      <4>3. QED
        BY <3>1, <4>1, <4>2 DEF ListedInv
    <3>2. CASE /\ phase' = "backfill"
               /\ missing' = {h \in earliest'..listedTo' : objects[h] = None}
      BY <2>2, <3>2 DEF ListedInv
    <3>3. QED
      BY <1>1, <3>1, <3>2 DEF List
  <2>6. QED
    BY <2>1, <2>3, <2>4, <2>5
<1>2. CASE BackfillFetch
  <2>1. PICK h \in Hours : /\ First(h, missing)
                           /\ Read(h)
                           /\ IF fetched' = 0
                              THEN missing' = missing \ {h} /\ UNCHANGED phase
                              ELSE phase' = "backfill_upload" /\ UNCHANGED missing
    BY <1>2 DEF BackfillFetch
  <2>2. h < hour /\ UNCHANGED world
    BY <1>2, <2>1 DEF BackfillFetch, First, ClockInv
  <2>3. /\ Final(h, fetched)'
        /\ fetched' \in 0..MaxRows /\ early' \in SUBSET Hours /\ early \subseteq early'
    BY <2>1, <2>2, ReadIsFinal
  <2>4. TypeOK' /\ ClockInv'
    BY <1>2, <2>1, <2>3 DEF BackfillFetch, TypeOK, ClockInv, world, loop, Phases
  <2>5. StoredInv'
    BY <1>2, <2>2, <2>3, FinalStays DEF BackfillFetch, StoredInv
  <2>6. InHandInv'
    BY <1>2, <2>1, <2>3, <2>4 DEF BackfillFetch, InHandInv, First, TypeOK
  <2>7. LoopLeavesNoHole'
    BY <1>2 DEF BackfillFetch, LoopLeavesNoHole, loop
  <2>8. ListedInv'
    <3>1. phase' \in {"backfill", "backfill_upload"}
      BY <1>2, <2>1 DEF BackfillFetch
    <3>2. fetched' = 0 => Final(h, 0)'
      BY <2>3
    <3>3. UNCHANGED <<objects, earliest, listedTo, failed>>
      BY <1>2 DEF BackfillFetch
    <3>4. ASSUME earliest # None, NEW g \in earliest..listedTo
          PROVE  objects[g] # None \/ g \in failed \cup missing' \/ Final(g, 0)'
      <4>1. g \in Hours
        BY <3>4 DEF TypeOK
      <4>2. CASE g = h
        <5>1. CASE fetched' = 0
          BY <3>2, <4>2, <5>1
        <5>2. CASE fetched' # 0
          BY <2>1, <4>2, <5>2 DEF First
        <5>3. QED
          BY <5>1, <5>2
      <4>3. CASE g # h
        BY <2>1, <2>2, <2>3, <3>4, <4>1, <4>3, FinalStays DEF ListedInv
      <4>4. QED
        BY <4>2, <4>3
    <3>5. QED
      BY <3>1, <3>3, <3>4 DEF ListedInv
  <2>9. QED
    BY <2>4, <2>5, <2>6, <2>7, <2>8
<1>3. CASE BackfillUpload
  <2>1. PICK h \in Hours : /\ First(h, missing)
                           /\ objects' = [objects EXCEPT ![h] = fetched]
                           /\ missing' = missing \ {h}
    BY <1>3 DEF BackfillUpload
  <2>2. UNCHANGED <<world, early>> /\ fetched > 0 /\ Final(h, fetched)
    BY <1>3, <2>1 DEF BackfillUpload, InHandInv, read
  <2>3. TypeOK' /\ ClockInv'
    BY <1>3, <2>1 DEF BackfillUpload, TypeOK, ClockInv, world, loop, read, Phases
  <2>4. StoredInv'
    BY <2>1, <2>2, FinalStays DEF StoredInv, TypeOK
  <2>5. InHandInv'
    BY <1>3 DEF BackfillUpload, InHandInv
  <2>6. LoopLeavesNoHole'
    BY <1>3, <2>1, <2>2 DEF BackfillUpload, LoopLeavesNoHole, loop, TypeOK
  <2>7. ListedInv'
    BY <1>3, <2>1, <2>2, FinalStays DEF BackfillUpload, ListedInv, TypeOK
  <2>8. QED
    BY <2>3, <2>4, <2>5, <2>6, <2>7
<1>4. CASE BackfillFail
  <2>1. TypeOK' /\ ClockInv'
    BY <1>4 DEF BackfillFail, TypeOK, ClockInv, world, loop, read, Phases
  <2>2. UNCHANGED <<world, early, objects>>
    BY <1>4 DEF BackfillFail, read
  <2>3. StoredInv'
    BY <2>2, FinalStays DEF StoredInv
  <2>4. InHandInv' /\ LoopLeavesNoHole'
    BY <1>4 DEF BackfillFail, InHandInv, loop, LoopLeavesNoHole
  <2>5. ListedInv'
    BY <1>4, <2>2, FinalStays DEF BackfillFail, ListedInv, TypeOK
  <2>6. QED
    BY <2>1, <2>3, <2>4, <2>5
<1>5. CASE BackfillEnd
  <2>1. TypeOK' /\ ClockInv'
    BY <1>5 DEF BackfillEnd, TypeOK, ClockInv, world, back, loop, read, Phases
  <2>2. UNCHANGED <<world, early, objects>>
    BY <1>5 DEF BackfillEnd, read
  <2>3. StoredInv'
    BY <2>2, FinalStays DEF StoredInv
  <2>4. InHandInv' /\ LoopLeavesNoHole'
    BY <1>5 DEF BackfillEnd, InHandInv, loop, LoopLeavesNoHole
  <2>5. ListedInv'
    BY <1>5, <2>2, FinalStays DEF BackfillEnd, ListedInv, TypeOK, back
  <2>6. QED
    BY <2>1, <2>3, <2>4, <2>5
<1>6. QED
  BY <1>1, <1>2, <1>3, <1>4, <1>5

\* The loop's steps.
LEMMA LoopInv ==
    ASSUME IInv, \/ EnterLoop \/ ReadClock \/ Wake \/ GoToSleep
                 \/ Fetch \/ Upload \/ LoopFail
    PROVE  IInv'
<1> USE DEF IInv
<1>1. UNCHANGED <<world, back>> /\ phase \notin {"start", "backfill", "backfill_upload"}
                /\ phase' \in {"sleep", "wake", "export", "upload"}
  BY DEF EnterLoop, ReadClock, Wake, GoToSleep, Fetch, Upload, LoopFail
<1>2. CASE EnterLoop \/ ReadClock \/ Wake \/ GoToSleep \/ LoopFail
  <2> UNCHANGED <<objects, read>>
    BY <1>2 DEF EnterLoop, ReadClock, Wake, GoToSleep, LoopFail
  <2>1. StoredInv'
    BY <1>1, FinalStays DEF StoredInv, read
  <2>2. ListedInv'
    BY <1>1, FinalStays DEF ListedInv, TypeOK, back, read
  <2>3. CASE EnterLoop
    <3>1. nextHour' \in Hours /\ firstHour' = nextHour'
      BY <2>3 DEF EnterLoop, LatestExportable, TypeOK, ClockInv
    <3>2. QED
      BY <1>1, <1>2, <2>1, <2>2, <2>3, <3>1
      DEF EnterLoop, TypeOK, ClockInv, InHandInv, LoopLeavesNoHole, world, back, read,
          LatestExportable, Phases
  <2>4. CASE ReadClock \/ GoToSleep \/ LoopFail
    BY <1>1, <1>2, <2>1, <2>2, <2>4
    DEF ReadClock, GoToSleep, LoopFail, TypeOK, ClockInv, InHandInv,
        LoopLeavesNoHole, world, back, loop, read, Phases
  <2>5. CASE Wake
    <3>1. latest' \in {None} \cup Hours /\ latest' < hour'
      BY <1>1, <2>5 DEF Wake, LatestExportable, TypeOK, ClockInv, world
    <3>2. QED
      BY <1>1, <1>2, <2>1, <2>2, <2>5, <3>1
      DEF Wake, TypeOK, ClockInv, InHandInv, LoopLeavesNoHole, world, back, read, Phases
  <2>6. QED
    BY <1>2, <2>3, <2>4, <2>5
<1>3. CASE Fetch
  <2>1. nextHour \in Hours /\ nextHour < hour /\ nextHour <= latest /\ Read(nextHour)
    BY <1>3 DEF Fetch, InHandInv, ClockInv, TypeOK
  <2>2. /\ Final(nextHour, fetched)'
        /\ fetched' \in 0..MaxRows /\ early' \in SUBSET Hours /\ early \subseteq early'
    BY <1>1, <1>3, <2>1, ReadIsFinal DEF Fetch, loop, Final, Settled
  <2>3. TypeOK' /\ ClockInv'
    BY <1>1, <1>3, <2>2 DEF Fetch, TypeOK, ClockInv, world, back, loop, Phases
  <2>4. StoredInv'
    BY <1>1, <1>3, <2>2, FinalStays DEF Fetch, StoredInv
  <2>5. InHandInv' /\ LoopLeavesNoHole'
    BY <1>3, <2>1, <2>2, <2>3 DEF Fetch, InHandInv, LoopLeavesNoHole, loop
  <2>6. ListedInv'
    BY <1>1, <1>3, <2>2, FinalStays DEF Fetch, ListedInv, TypeOK, back
  <2>7. QED
    BY <2>3, <2>4, <2>5, <2>6
<1>4. CASE Upload
  <2>1. /\ nextHour \in Hours /\ nextHour <= latest /\ fetched > 0
        /\ Final(nextHour, fetched) /\ UNCHANGED early
    BY <1>4 DEF Upload, InHandInv, read
  <2>2. TypeOK' /\ ClockInv' /\ InHandInv'
    BY <1>1, <1>4, <2>1 DEF Upload, TypeOK, ClockInv, InHandInv, world, back, read, Phases
  <2>3. StoredInv'
    BY <1>1, <1>4, <2>1, FinalStays DEF Upload, StoredInv, TypeOK
  <2>4. LoopLeavesNoHole'
    BY <1>4, <2>1 DEF Upload, LoopLeavesNoHole, TypeOK
  <2>5. ListedInv'
    BY <1>1, <1>4, <2>1, FinalStays DEF Upload, ListedInv, TypeOK, back
  <2>6. QED
    BY <2>2, <2>3, <2>4, <2>5
<1>5. QED
  BY <1>2, <1>3, <1>4

\* The steps of ClickHouse and the clock, and a restart.
LEMMA WorldInv ==
    ASSUME IInv, Crash \/ Insert \/ Commit \/ ClockStep \/ UNCHANGED vars
    PROVE  IInv'
<1> USE DEF IInv
<1>1. /\ UNCHANGED <<objects, early>>
      /\ UNCHANGED world \/ Insert \/ Commit \/ ClockStep
  BY DEF Crash, Insert, Commit, ClockStep, vars, read
<1>2. TypeOK' /\ ClockInv'
  <2>1. CASE Crash
    BY <2>1 DEF Crash, TypeOK, ClockInv, world, Phases
  <2>2. CASE Insert
    BY <2>2 DEF Insert, TypeOK, ClockInv, back, loop, read
  <2>3. CASE Commit
    <3>1. rows' \in [Hours -> 0..MaxRows]
      BY <2>3 DEF Commit, TypeOK, ClockInv
    <3>2. QED
      BY <2>3, <3>1 DEF Commit, TypeOK, ClockInv, back, loop, read
  <2>4. CASE ClockStep
    <3>1. UNCHANGED <<rows, insert, phase, back, loop, read, objects>>
      BY <2>4 DEF ClockStep
    <3>2. hour' \in Hours /\ late' \in BOOLEAN /\ hour <= hour'
      <4>1. hour \in Hours /\ late \in BOOLEAN
        BY DEF TypeOK
      <4>2. \/ late' = TRUE /\ hour' = hour
            \/ hour < MaxHour /\ hour' = hour + 1 /\ late' = FALSE
        BY <2>4 DEF ClockStep
      <4>3. late' \in BOOLEAN
        BY <4>2
      <4>4. hour' \in Hours /\ hour <= hour'
        BY <4>1, <4>2
      <4>5. QED
        BY <4>3, <4>4
    <3>3. insert # None => insert = hour' \/ (insert = hour' - 1 /\ ~late')
      BY <2>4 DEF ClockStep, TypeOK, ClockInv
    <3>4. ClockInv'
      <4>1. hour \in Hours /\ latest \in {None} \cup Hours /\ listedTo \in {None} \cup Hours
            /\ missing \subseteq Hours
        BY DEF TypeOK
      <4>2. insert' = insert /\ rows' = rows /\ latest' = latest /\ listedTo' = listedTo
            /\ missing' = missing
        BY <3>1 DEF back, loop
      <4>3. insert # None => rows[insert] < MaxRows
        BY DEF ClockInv
      <4>4. hour >= Lag - 1 /\ latest < hour /\ listedTo < hour /\ \A h \in missing : h < hour
        BY DEF ClockInv
      <4>5. hour' >= Lag - 1 /\ latest' < hour' /\ listedTo' < hour'
            /\ \A h \in missing' : h < hour'
        BY <3>2, <4>1, <4>2, <4>4
      <4>6. QED
        BY <3>3, <4>2, <4>3, <4>5 DEF ClockInv
    <3>5. TypeOK'
      BY <3>1, <3>2 DEF TypeOK, back, loop, read
    <3>6. QED
      BY <3>4, <3>5
  <2>5. CASE UNCHANGED vars
    BY <2>5 DEF vars, TypeOK, ClockInv, world, back, loop, read
  <2>6. QED
    BY <2>1, <2>2, <2>3, <2>4, <2>5
<1>3. StoredInv'
  BY <1>1, FinalStays DEF StoredInv
<1>4. CASE Crash
  BY <1>2, <1>3, <1>4 DEF Crash, InHandInv, ListedInv, LoopLeavesNoHole
<1>5. CASE ~Crash
  <2>1. UNCHANGED <<phase, back, loop, read>>
    BY <1>5 DEF Insert, Commit, ClockStep, vars
  <2>2. InHandInv'
    BY <1>1, <2>1, FinalStays DEF InHandInv, First, back, loop, read
  <2>3. ListedInv'
    BY <1>1, <2>1, FinalStays DEF ListedInv, TypeOK, back
  <2>4. QED
    BY <1>1, <1>2, <1>3, <2>1, <2>2, <2>3 DEF LoopLeavesNoHole, loop
<1>6. QED
  BY <1>4, <1>5

\* IInv is an invariant: it is what the four theorems below follow from.
THEOREM Inductive == Spec => []IInv
<1>1. IInv /\ [Next]_vars => IInv'
  BY BackfillInv, LoopInv, WorldInv DEF Next, Work
<1>2. QED
  BY InitInv, <1>1, PTL DEF Spec

-----------------------------------------------------------------------------
\* Type correctness: the loop's nextHour and the hours of the backfill stay within
\* the hours of the clock (run.py:406-458).
THEOREM TypeCorrect == Spec => []TypeOK
<1>1. IInv => TypeOK
  BY DEF IInv
<1>2. QED
  BY <1>1, Inductive, PTL

\* Every object holds all rows its hour will ever have, however inserts, clock,
\* failures and restarts fall, unless the hour was read within
\* EXPORT_DELAY_MINUTES of its end; and none is empty (run.py:413-455).
THEOREM ObjectsAreComplete == Spec => []ObjectsComplete
<1>1. IInv => ObjectsComplete
  BY DEF IInv, StoredInv, Final, ObjectsComplete
<1>2. QED
  BY <1>1, Inductive, PTL

\* All hours the loop has passed are exported (run.py:451-458).
THEOREM NoHoleIsLeft == Spec => []LoopLeavesNoHole
<1>1. IInv => LoopLeavesNoHole
  BY DEF IInv
<1>2. QED
  BY <1>1, Inductive, PTL

\* The backfill has exported what it listed and did not give up
\* (run.py:406-433).
THEOREM BackfillIsDone == Spec => []BackfillExports
<1>1. IInv => BackfillExports
  BY DEF IInv, ListedInv, Final, TypeOK, BackfillExports
<1>2. QED
  BY <1>1, Inductive, PTL
=============================================================================
