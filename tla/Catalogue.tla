------------------------------ MODULE Catalogue ------------------------------
(***************************************************************************)
(* From Gamma to the pool: the tracker, the cache and stream in Redis, and *)
(* the collector, which preloads its pool from the cache (main.rs) and     *)
(* follows the stream as a member of a consumer group (markets/stream.rs). *)
(***************************************************************************)
EXTENDS MarketTracker, SequencesExt

CONSTANT ReadCount

ASSUME CatalogueAssumption == ReadCount \in Nat \ {0}

VARIABLES
    stream,      \* STREAM_MARKET_EVENTS: the entries no reader has had yet
    pool,        \* the markets the pool is subscribed to
    listener,    \* "down", "starting"; stream::run: "reading", "acking" or "dead"
    pendingDone, \* pending_done
    pending,     \* entries Redis has delivered to the group, not acknowledged
    next,        \* last_pending_id: where in pending the listener goes on
    left,        \* how many entries of the last reply are still to be handled
    lost         \* history: the markets each of Losses has come across

collectorVars == <<pool, listener, pendingDone, pending, next, left>>
vars == <<trackerVars, stream, collectorVars, lost>>

Word(type, m) == [type |-> type, market |-> m]

\* Why the pool may hold something else of a market than the stream says, until the
\* stream says something new of it:
\*   "stale"     the preload did, and nothing unread was about it: the cache is older
\*               than what was acknowledged, Gamma is ahead of the tracker or its
\*               pages have shifted, or nothing was preloaded;
\*   "undone"    the dispatch failed, which is logged, and the entry acknowledged;
\*   "replayed"  an entry could not be acknowledged, the listener went on, and the
\*               entry came again after a restart;
\*   "skipped"   the entry was passed over by --skip-backlog.
\* Only the second and third need a fault.
Losses == {"stale", "undone", "replayed", "skipped"}
Lost == UNION {lost[c] : c \in Losses}
Lose(cause, set) == lost' = [lost EXCEPT ![cause] = @ \cup set]

Init ==
    /\ TrackerInit
    /\ stream = <<>> /\ lost = [c \in Losses |-> {}]
    /\ pool = {} /\ listener = "down" /\ pendingDone = FALSE
    /\ pending = <<>> /\ next = 1 /\ left = 0

\* publish: the XADD of an announcement.
XAdd(type, set) ==
    \E m \in set :
        /\ stream' = Append(stream, Word(type, m))
        /\ lost' = [c \in Losses |-> lost[c] \ {m}]

TrackerStep ==
    /\ \/ ResolvedExecute /\ XAdd("market_resolved", resolver.now)
       \/ NewExecute /\ XAdd("new_market", newcomer.now)
       \/ TrackerQuiet /\ UNCHANGED <<stream, lost>>
    /\ UNCHANGED collectorVars

\* A fault of the collector.
CollectorFault ==
    /\ Fault
    /\ UNCHANGED <<gamma, start, cache, phase, active, watermark, resolver, newcomer,
                   told, missed>>

\* What the listener will have: the entries delivered and not acknowledged, and
\* those to come.
Unread == pending \o stream
Silent(m) == \A k \in 1..Len(Unread) : Unread[k].market # m

Preload(loaded) ==
    /\ listener = "down"
    /\ pool' = loaded
    /\ listener' = "starting"
    /\ lost' = [lost EXCEPT !["stale"] = {m \in SymDiff(loaded, told) : Silent(m)},
                            !["undone"] = {}]
    /\ UNCHANGED <<stream, pendingDone, pending, next, left>>

\* preload_markets, from the cache; not at all under --new-only.
PreloadCache == Preload(cache) /\ UNCHANGED trackerVars
PreloadNothing == Preload({}) /\ UNCHANGED trackerVars

\* fetch_active_markets, page by page: a market is passed over when the pages
\* shift between two requests.
PreloadGamma ==
    \/ /\ Preload(ActiveOnGamma) /\ UNCHANGED trackerVars
    \/ /\ CollectorFault
       /\ \E loaded \in (SUBSET ActiveOnGamma) \ {ActiveOnGamma} : Preload(loaded)

\* (mutant of Listen: the group starts at the end of the stream)
ListenFromTheEnd ==
    /\ listener = "starting"
    /\ listener' = "reading"
    /\ stream' = <<>>
    /\ UNCHANGED <<trackerVars, pool, pendingDone, pending, next, left, lost>>

\* The listener finds or creates its consumer group, which stands where it stood,
\* or before the first entry.
Listen ==
    /\ listener = "starting"
    /\ listener' = "reading"
    /\ UNCHANGED <<trackerVars, stream, pool, pendingDone, pending, next, left, lost>>

\* The same with --skip-backlog: what was never delivered never will be; what was
\* delivered and not acknowledged stays pending.
ListenSkipping ==
    /\ listener = "starting" /\ stream # <<>>
    /\ listener' = "reading"
    /\ stream' = <<>>
    /\ Lose("skipped", {stream[k].market : k \in 1..Len(stream)})
    /\ UNCHANGED <<trackerVars, pool, pendingDone, pending, next, left>>

\* (mutant of Reply: more entries are expected than were sent)
FullReply(length) == ReadCount

Reply(length) == Min({ReadCount, length})

\* The entries this consumer has not acknowledged, after the last one it had; an
\* empty reply ends the pass.
ReadPending ==
    /\ listener = "reading" /\ left = 0 /\ ~pendingDone
    /\ left' = Reply(Len(pending) - next + 1)
    /\ pendingDone' = (left' = 0)
    /\ UNCHANGED <<trackerVars, stream, pool, listener, pending, next, lost>>

\* The entries never delivered to the group; they are pending from now on.
ReadNew ==
    /\ listener = "reading" /\ left = 0 /\ pendingDone /\ stream # <<>>
    /\ left' = Reply(Len(stream))
    /\ pending' = pending \o SubSeq(stream, 1, left')
    /\ stream' = SubSeq(stream, left' + 1, Len(stream))
    /\ next' = Len(pending) + 1
    /\ UNCHANGED <<trackerVars, pool, listener, pendingDone, lost>>

\* The group or an xreadgroup fails: run returns, and nobody notices before the
\* shutdown.
ReadFail ==
    /\ \/ listener = "starting"
       \/ listener = "reading" /\ left = 0
    /\ CollectorFault
    /\ listener' = "dead"
    /\ UNCHANGED <<stream, pool, pendingDone, pending, next, left, lost>>

Dispatch ==
    /\ listener = "reading" /\ left > 0
    /\ LET word == pending[next] IN
        pool' = IF word.type = "new_market" THEN pool \cup {word.market}
                                            ELSE pool \ {word.market}
    /\ listener' = "acking"
    /\ UNCHANGED <<trackerVars, stream, pendingDone, pending, next, left, lost>>

\* The dispatch fails; that is logged, and the entry is acknowledged all the same.
DispatchFail ==
    /\ listener = "reading" /\ left > 0
    /\ CollectorFault
    /\ Lose("undone", {pending[next].market})
    /\ listener' = "acking"
    /\ UNCHANGED <<stream, pool, pendingDone, pending, next, left>>

Ack ==
    /\ listener = "acking"
    /\ pending' = RemoveAt(pending, next)
    /\ left' = left - 1 /\ listener' = "reading"
    /\ UNCHANGED <<trackerVars, stream, pool, pendingDone, next, lost>>

\* The entry stays pending; the process does not come back to it.
AckFail ==
    /\ listener = "acking"
    /\ CollectorFault
    /\ next' = next + 1
    /\ left' = left - 1 /\ listener' = "reading"
    /\ UNCHANGED <<stream, pool, pendingDone, pending, lost>>

\* The collector crashes or is stopped.  What it passed over will come again.
CollectorEnds ==
    /\ listener # "down"
    /\ CollectorFault
    /\ listener' = "down" /\ pool' = {} /\ pendingDone' = FALSE
    /\ next' = 1 /\ left' = 0
    /\ Lose("replayed", {pending[k].market : k \in 1..(next - 1)})
    /\ UNCHANGED <<stream, pending>>

ListenerStep == ReadPending \/ ReadNew \/ Dispatch \/ Ack

Next ==
    \/ TrackerStep
    \/ PreloadCache \/ PreloadGamma \/ PreloadNothing
    \/ Listen \/ ListenSkipping \/ ListenerStep
    \/ ReadFail \/ DispatchFail \/ AckFail \/ CollectorEnds

Spec == Init /\ [][Next]_vars

-----------------------------------------------------------------------------
\* Type invariant; what is left of a reply is pending.
TypeOK ==
    /\ TrackerTypeOK
    /\ stream \in Seq([type : {"new_market", "market_resolved"}, market : Markets])
    /\ pool \subseteq Markets /\ lost \in [Losses -> SUBSET Markets]
    /\ listener \in {"down", "starting", "reading", "acking", "dead"}
    /\ pendingDone \in BOOLEAN
    /\ pending \in Seq([type : {"new_market", "market_resolved"}, market : Markets])
    /\ next \in 1..(Len(pending) + 1) /\ left \in 0..(Len(pending) - next + 1)

\* When the listener has read everything, the pool holds the markets that were
\* announced and not resolved: whenever the collector ended, between the delivery, the
\* dispatch and the acknowledgement of an entry, and whether what it preloads is ahead
\* of the entries that come again or behind (stream.rs:68-108).  The exceptions are
\* those of Losses, one by one; with --skip-backlog what is pending comes again all
\* the same, though stream.rs:11-12 would drop it.
CaughtUp == listener = "reading" /\ pendingDone /\ left = 0 /\ stream = <<>>
PoolFollowsStream == CaughtUp => SymDiff(pool, told) \subseteq Lost

\* When the pollers would find nothing new and the listener has read everything, the
\* pool holds the markets that are active on Gamma.  In between lie a watermark, two
\* pollers that work on answers given before their awaits, and replays of the stream
\* (run.py:305-309).  A market may be in the pool and gone from Gamma because its
\* announcement was overtaken, nobody asked for its closing in time, or no tracker
\* ran; it may be active and not in the pool because it was late, a page passed it
\* over, its announcement failed, or no tracker ran; and both for a cause of Losses.
PoolFollowsGamma ==
    TrackerSettled /\ CaughtUp =>
        /\ pool \ ActiveOnGamma \subseteq Lost \cup Missed(StillTold)
        /\ ActiveOnGamma \ pool \subseteq Lost \cup Missed(NeverTold)
=============================================================================
