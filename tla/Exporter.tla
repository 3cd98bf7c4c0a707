------------------------------- MODULE Exporter -------------------------------
(***************************************************************************)
(* services/r2-archive/exporter/run.py: one object per complete hour, from *)
(* the rows in ClickHouse to R2.  The process first lists what is missing  *)
(* and exports it hour by hour (backfill), then follows the clock          *)
(* (run_loop).  It keeps nothing across a restart but the objects.         *)
(*                                                                         *)
(* A row belongs to the hour ClickHouse stamps on its insert               *)
(* (timestamp_received DEFAULT now64, sink.rs:382,395); a query sees it     *)
(* when the insert is committed, which may be in the next hour, but not    *)
(* more than EXPORT_DELAY_MINUTES into it.  The sink has one insert in     *)
(* flight at a time (sink.rs:239-279).                                     *)
(***************************************************************************)
EXTENDS Integers

CONSTANTS Lag,         \* EXPORT_LAG_HOURS
          MaxHour,     \* bound: the clock stops in this hour
          MaxRows,     \* bound: rows inserted in one hour
          MaxFailures, \* bound: queries and uploads that fail
          MaxCrashes   \* bound: restarts of the process

ASSUME ExporterAssumption ==
    /\ Lag \in Nat \ {0} /\ MaxHour \in Nat /\ Lag <= MaxHour + 1
    /\ MaxRows \in Nat /\ MaxFailures \in Nat /\ MaxCrashes \in Nat

None == -1
Hours == 0..MaxHour

VARIABLES
    hour,      \* the current hour
    late,      \* EXPORT_DELAY_MINUTES of it have passed
    rows,      \* per hour: rows in ClickHouse
    insert,    \* the hour of the insert in flight, or None
    objects,   \* per hour: rows of its object in R2, None without one
    phase,     \* where the process is, see Phases
    earliest,  \* query_earliest_hour() of this run, or None
    listedTo,  \* backfill: latest
    missing,   \* backfill: hours not exported yet, tried in ascending order
    failed,    \* history: hours this run's backfill gave up
    firstHour, \* history: the first next_hour of this run's loop, or None
    nextHour,  \* run_loop: next_hour
    latest,    \* run_loop: latest
    fetched,   \* rows read for the hour in hand
    early,     \* history: hours read less than EXPORT_DELAY_MINUTES after their end
    failures,  \* bound: failures so far
    crashes    \* bound: restarts so far

world == <<hour, late, rows, insert>>
back  == <<earliest, listedTo, missing, failed>>
loop  == <<firstHour, nextHour, latest>>
read  == <<fetched, early>>
vars  == <<world, objects, phase, back, loop, read, failures, crashes>>

Phases == {"start", "backfill", "backfill_upload", "enter_loop",
           "sleep", "wake", "export", "upload"}

\* Hour 0 can be exported at the next turn of the clock.
Init ==
    /\ hour = Lag - 1 /\ late = FALSE /\ rows = [h \in Hours |-> 0] /\ insert = None
    /\ objects = [h \in Hours |-> None]
    /\ phase = "start"
    /\ earliest = None /\ listedTo = None /\ missing = {} /\ failed = {}
    /\ firstHour = None /\ nextHour = None /\ latest = None
    /\ fetched = 0 /\ early = {} /\ failures = 0 /\ crashes = 0

LatestExportable == hour - Lag

WithRows == {h \in Hours : rows[h] > 0}

\* fetch_hour_parquet: the rows of hour h that are visible now.
Read(h) ==
    /\ fetched' = rows[h]
    /\ early' = IF hour = h + 1 /\ ~late THEN early \cup {h} ELSE early

-----------------------------------------------------------------------------
(* backfill *)

First(h, S) == h \in S /\ \A g \in S : h <= g

\* query_earliest_hour, latest_exportable_hour and list_keys.
List ==
    /\ phase = "start"
    /\ \/ WithRows = {} /\ phase' = "enter_loop" /\ UNCHANGED <<earliest, listedTo, missing>>
       \/ /\ \E h \in Hours : First(h, WithRows) /\ earliest' = h
          /\ phase' = "backfill"
          /\ listedTo' = LatestExportable
          /\ missing' = {h \in earliest'..LatestExportable : objects[h] = None}
    /\ UNCHANGED <<world, objects, failed, loop, read, failures, crashes>>

\* An hour without rows is skipped.
BackfillFetch ==
    /\ phase = "backfill"
    /\ \E h \in Hours :
        /\ First(h, missing)
        /\ Read(h)
        /\ IF fetched' = 0
           THEN missing' = missing \ {h} /\ UNCHANGED phase
           ELSE phase' = "backfill_upload" /\ UNCHANGED missing
    /\ UNCHANGED <<world, objects, earliest, listedTo, failed, loop, failures, crashes>>

BackfillUpload ==
    /\ phase = "backfill_upload"
    /\ \E h \in Hours :
        /\ First(h, missing)
        /\ objects' = [objects EXCEPT ![h] = fetched]
        /\ missing' = missing \ {h}
    /\ phase' = "backfill"
    /\ UNCHANGED <<world, earliest, listedTo, failed, loop, read, failures, crashes>>

\* (mutant of BackfillFail: one failure ends the backfill)
BackfillFailStops ==
    /\ phase \in {"backfill", "backfill_upload"}
    /\ failures < MaxFailures
    /\ failures' = failures + 1
    /\ \E h \in Hours : First(h, missing) /\ failed' = failed \cup {h}
    /\ missing' = {}
    /\ phase' = "backfill"
    /\ UNCHANGED <<world, objects, earliest, listedTo, loop, read, crashes>>
\* The query or the upload raises: logged, and on to the next hour.
BackfillFail ==
    /\ phase \in {"backfill", "backfill_upload"}
    /\ failures < MaxFailures
    /\ failures' = failures + 1
    /\ \E h \in Hours :
        First(h, missing) /\ failed' = failed \cup {h} /\ missing' = missing \ {h}
    /\ phase' = "backfill"
    /\ UNCHANGED <<world, objects, earliest, listedTo, loop, read, crashes>>

BackfillEnd ==
    /\ phase = "backfill" /\ missing = {}
    /\ phase' = "enter_loop"
    /\ UNCHANGED <<world, objects, back, loop, read, failures, crashes>>

-----------------------------------------------------------------------------
(* run_loop *)

EnterLoop ==
    /\ phase = "enter_loop"
    /\ nextHour' = LatestExportable + 1
    /\ firstHour' = nextHour'
    /\ phase' = "sleep"
    /\ UNCHANGED <<world, objects, back, latest, read, failures, crashes>>

\* LOOP_CHECK_INTERVAL_SECONDS are over and the clock reads EXPORT_DELAY_MINUTES
\* or more; with less, the loop goes back to sleep.
ReadClock ==
    /\ phase = "sleep"
    /\ late
    /\ phase' = "wake"
    /\ UNCHANGED <<world, objects, back, loop, read, failures, crashes>>

\* latest_exportable_hour() reads the clock once more: the hour may have turned.
Wake ==
    /\ phase = "wake"
    /\ latest' = LatestExportable
    /\ phase' = "export"
    /\ UNCHANGED <<world, objects, back, firstHour, nextHour, read, failures, crashes>>

GoToSleep ==
    /\ phase = "export" /\ nextHour > latest
    /\ phase' = "sleep"
    /\ UNCHANGED <<world, objects, back, loop, read, failures, crashes>>

\* (mutant of Fetch: an empty hour is uploaded)
FetchEmptyToo ==
    /\ phase = "export" /\ nextHour <= latest
    /\ Read(nextHour)
    /\ phase' = "upload"
    /\ UNCHANGED <<world, objects, back, loop, failures, crashes>>
\* An hour without rows is tried again after the next sleep.
Fetch ==
    /\ phase = "export" /\ nextHour <= latest
    /\ Read(nextHour)
    /\ phase' = IF fetched' = 0 THEN "sleep" ELSE "upload"
    /\ UNCHANGED <<world, objects, back, loop, failures, crashes>>

\* (mutant of Upload: the next hour is the one after latest)
UploadJumping ==
    /\ phase = "upload"
    /\ objects' = [objects EXCEPT ![nextHour] = fetched]
    /\ nextHour' = latest + 1
    /\ phase' = "export"
    /\ UNCHANGED <<world, back, firstHour, latest, read, failures, crashes>>
Upload ==
    /\ phase = "upload"
    /\ objects' = [objects EXCEPT ![nextHour] = fetched]
    /\ nextHour' = nextHour + 1
    /\ phase' = "export"
    /\ UNCHANGED <<world, back, firstHour, latest, read, failures, crashes>>

\* (mutant of LoopFail: the failed hour is passed over)
LoopFailSkipping ==
    /\ phase \in {"export", "upload"} /\ nextHour <= latest
    /\ failures < MaxFailures
    /\ failures' = failures + 1
    /\ nextHour' = nextHour + 1
    /\ phase' = "sleep"
    /\ UNCHANGED <<world, objects, back, firstHour, latest, read, crashes>>
\* The query or the upload raises: tried again after the next sleep.
LoopFail ==
    /\ phase \in {"export", "upload"} /\ nextHour <= latest
    /\ failures < MaxFailures
    /\ failures' = failures + 1
    /\ phase' = "sleep"
    /\ UNCHANGED <<world, objects, back, loop, read, crashes>>

-----------------------------------------------------------------------------
(* The process, the sink and the clock *)

Crash ==
    /\ phase # "start"
    /\ crashes < MaxCrashes
    /\ crashes' = crashes + 1
    /\ phase' = "start"
    /\ earliest' = None /\ listedTo' = None /\ missing' = {} /\ failed' = {}
    /\ firstHour' = None /\ nextHour' = None /\ latest' = None
    /\ fetched' = 0
    /\ UNCHANGED <<world, objects, early, failures>>

\* An insert is stamped with the hour it starts in.
Insert ==
    /\ insert = None
    /\ rows[hour] < MaxRows
    /\ insert' = hour
    /\ UNCHANGED <<hour, late, rows, objects, phase, back, loop, read, failures, crashes>>

Commit ==
    /\ insert # None
    /\ rows' = [rows EXCEPT ![insert] = @ + 1]
    /\ insert' = None
    /\ UNCHANGED <<hour, late, objects, phase, back, loop, read, failures, crashes>>

\* EXPORT_DELAY_MINUTES into an hour no insert of the last one is in flight.
ClockStep ==
    /\ \/ ~late /\ insert \in {None, hour} /\ late' = TRUE /\ UNCHANGED hour
       \/ late /\ hour < MaxHour /\ hour' = hour + 1 /\ late' = FALSE
    /\ UNCHANGED <<rows, insert, objects, phase, back, loop, read, failures, crashes>>

Work == \/ List \/ BackfillFetch \/ BackfillUpload \/ BackfillEnd
        \/ EnterLoop \/ ReadClock \/ Wake \/ GoToSleep \/ Fetch \/ Upload

Next == Work \/ BackfillFail \/ LoopFail \/ Crash \/ Insert \/ Commit \/ ClockStep

Spec == Init /\ [][Next]_vars

\* The single thread keeps running, ClickHouse commits, and the clock does not stop
\* before MaxHour.
FairSpec == Spec /\ WF_vars(Work) /\ WF_vars(Commit) /\ WF_vars(ClockStep)

-----------------------------------------------------------------------------
(* Properties *)

TypeOK ==
    /\ hour \in Hours /\ late \in BOOLEAN
    /\ rows \in [Hours -> 0..MaxRows] /\ insert \in {None} \cup Hours
    /\ objects \in [Hours -> {None} \cup 0..MaxRows]
    /\ phase \in Phases
    /\ earliest \in {None} \cup Hours /\ listedTo \in {None} \cup Hours
    /\ missing \subseteq Hours /\ failed \in SUBSET Hours
    /\ firstHour \in {None} \cup Hours /\ nextHour \in {None} \cup Hours
    /\ latest \in {None} \cup Hours
    /\ fetched \in 0..MaxRows /\ early \in SUBSET Hours

\* No object is empty ("gaps never produce zero-row objects", run.py:439-440), and
\* one that was not read too early holds every row its hour will ever have.  The
\* backfill does read early, having no EXPORT_DELAY_MINUTES (run.py:413-429), and so
\* does a loop that wakes up just before the hour turns (run.py:447-449).
ObjectsComplete ==
    \A h \in Hours : objects[h] # None =>
        /\ objects[h] > 0
        /\ h \notin early => objects[h] = rows[h]

\* The loop leaves no hole: whatever failed or was empty in between, all hours it
\* has passed are exported (run.py:451-458).
LoopLeavesNoHole ==
    firstHour # None => \A h \in firstHour..(nextHour - 1) : objects[h] # None

\* When the loop starts, every hour with rows that the backfill listed is exported,
\* but for those whose export failed or that were read too early (run.py:406-433).
BackfillExports ==
    phase \in {"enter_loop", "sleep"} /\ earliest # None =>
        \A h \in earliest..listedTo :
            rows[h] > 0 => objects[h] # None \/ h \in failed \cup early

\* The hours the loop will have to pass to reach h.
Reachable(h) == firstHour # None /\ \A g \in firstHour..h : rows[g] > 0

\* An hour of the loop is exported at last, if every hour before it since the
\* start of the loop has rows; a failed export is tried again.  An hour without
\* rows holds the loop for good (run.py:436-458).
NewHourExported ==
    \A h \in Hours :
        (h + Lag <= hour /\ Reachable(h)) ~> (objects[h] # None \/ ~Reachable(h)
                                              \/ h < firstHour)

\* run.py:407 and 437, "Export every missing hour", "export each new hour
\* shortly after it completes": no complete hour is left behind.  False even
\* without a failure: an hour that completes while the backfill runs is in
\* neither the backfill's list nor the loop's range.
NoHourForgotten ==
    phase = "sleep" /\ failures = 0 =>
        \A h \in Hours : h < nextHour /\ rows[h] > 0 => objects[h] # None
=============================================================================
