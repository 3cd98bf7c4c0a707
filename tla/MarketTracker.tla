---------------------------- MODULE MarketTracker ----------------------------
(***************************************************************************)
(* polymarket-active-markets/run.py: the tracker of active markets.  It    *)
(* loads the active markets from Gamma, then two coroutines poll Gamma,    *)
(* one for markets that were closed and one for new ones.  They share the  *)
(* dictionary of active markets, announce changes on a Redis stream and    *)
(* save the dictionary in a Redis key.  Of the stream this module keeps    *)
(* what it says in the end (told); module Catalogue has its entries.       *)
(*                                                                         *)
(* A step runs from one await to the next.  A command is sent at the end   *)
(* of a step; Redis executes it in a step of its own, so that commands of  *)
(* the two coroutines, which travel on connections of their own, may       *)
(* overtake each other.                                                    *)
(***************************************************************************)
EXTENDS Integers, FiniteSets, FiniteSetsExt

CONSTANTS Markets,
          Listed,    \* the markets active on Gamma at the beginning
          PageSize,  \* FETCH_BATCH_SIZE
          MaxStart,  \* bound: start dates are 1..MaxStart
          MaxFaults  \* bound: failures and crashes

ASSUME MarketTrackerAssumption ==
    /\ IsFiniteSet(Markets) /\ Listed \subseteq Markets
    /\ PageSize \in Nat \ {0} /\ MaxStart \in Nat \ {0} /\ MaxFaults \in Nat

VARIABLES
    gamma,     \* per market: "unborn", "active", "closed", or "old": closed
               \* for longer than CLOSED_TIME_OVERLAP
    start,     \* per market: startDate, 0 while unborn
    cache,     \* KEY_ACTIVE_MARKETS
    phase,     \* of the process: "down", "loaded" or "running"
    active,    \* active_markets
    watermark, \* current_max
    resolver,  \* _resolution_poller
    newcomer,  \* _new_markets_poller
    told,      \* history: the markets the stream says to be active
    missed,    \* history: the markets each of Causes has come across
    faults     \* bound: faults so far

trackerVars == <<gamma, start, cache, phase, active, watermark, resolver,
                 newcomer, told, missed, faults>>

ActiveOnGamma == {m \in Markets : gamma[m] = "active"}
Newest(S) == Max({start[m] : m \in S} \cup {0})

\* Why the stream may say something else of a market than Gamma does:
\*   "late"         the tracker had one with a later startDate when Gamma showed it;
\*   "shifted"      no page had it, though one had a market with a later startDate;
\*   "overtaken"    its announcement was executed after that of its resolution;
\*   "unpublished"  its announcement failed, and it is in the dictionary;
\*   "aged"         its closing was not asked for within CLOSED_TIME_OVERLAP;
\*   "down"         it opened or closed while no tracker ran.
\* The first three need no fault at all.
Causes == {"late", "shifted", "overtaken", "unpublished", "aged", "down"}
PassedOver == {"late", "shifted", "unpublished"}
Missed(causes) == UNION {missed[c] : c \in causes}
Note(cause, set) == missed' = [missed EXCEPT ![cause] = @ \cup set]

\* A poller waiting for its interval.  pc is "fetch", "paging" (some pages have
\* come), "fetched" (the last one has), "publishing" (XADD sent), "published"
\* (executed) or "saving"; now is the market being published, todo what is left of
\* the answer, snap the set being saved, offset, max and added as in the code.
Asleep == [pc |-> "fetch", now |-> {}, todo |-> {}, snap |-> {}, offset |-> 0,
           max |-> 0, added |-> FALSE]
Publishing(m, rest, max) ==
    [Asleep EXCEPT !.pc = "publishing", !.now = {m}, !.todo = rest, !.max = max,
                   !.added = TRUE]
Saving(set) == [Asleep EXCEPT !.pc = "saving", !.snap = set]

TrackerInit ==
    /\ gamma = [m \in Markets |-> IF m \in Listed THEN "active" ELSE "unborn"]
    /\ start = [m \in Markets |-> IF m \in Listed THEN 1 ELSE 0]
    /\ cache = {}
    /\ phase = "loaded" /\ active = Listed /\ watermark = Newest(Listed)
    /\ resolver = Asleep /\ newcomer = Asleep
    /\ told = Listed /\ missed = [c \in Causes |-> {}] /\ faults = 0

Fault == faults < MaxFaults /\ faults' = faults + 1

-----------------------------------------------------------------------------
(* Gamma *)

\* A market becomes visible, at any time after its startDate.
Open(m) ==
    /\ gamma[m] = "unborn"
    /\ gamma' = [gamma EXCEPT ![m] = "active"]
    /\ \E s \in 1..MaxStart :
        /\ start' = [start EXCEPT ![m] = s]
        /\ Note("late", IF s < Max({watermark, newcomer.max}) THEN {m} ELSE {})
    /\ UNCHANGED <<cache, phase, active, watermark, resolver, newcomer,
                   told, faults>>

\* It matters no longer why it was not announced.
Close(m) ==
    /\ gamma[m] = "active"
    /\ gamma' = [gamma EXCEPT ![m] = "closed"]
    /\ missed' = [c \in Causes |-> IF c \in PassedOver THEN missed[c] \ {m} ELSE missed[c]]
    /\ UNCHANGED <<start, cache, phase, active, watermark, resolver,
                   newcomer, told, faults>>

\* The tracker did not ask for closed markets for CLOSED_TIME_OVERLAP.
Age(m) ==
    /\ gamma[m] = "closed" /\ m \in active
    /\ Fault
    /\ gamma' = [gamma EXCEPT ![m] = "old"]
    /\ Note("aged", {m})
    /\ UNCHANGED <<start, cache, phase, active, watermark, resolver,
                   newcomer, told>>

-----------------------------------------------------------------------------
(* The process *)

\* fetch_active_markets_from_gamma; without a market the process ends.  What
\* changed while no tracker ran is never announced.
Load ==
    /\ phase = "down" /\ ActiveOnGamma # {}
    /\ active' = ActiveOnGamma /\ watermark' = Newest(ActiveOnGamma)
    /\ Note("down", SymDiff(told, ActiveOnGamma))
    /\ phase' = "loaded"
    /\ UNCHANGED <<gamma, start, cache, resolver, newcomer, told, faults>>

\* The first snapshot is saved, and the pollers start.
Begin ==
    /\ phase = "loaded"
    /\ cache' = active
    /\ phase' = "running"
    /\ UNCHANGED <<gamma, start, active, watermark, resolver, newcomer,
                   told, missed, faults>>

\* A crash, or a cancellation of a process that runs, which saves at the end.
TrackerEnds ==
    /\ phase # "down"
    /\ Fault
    /\ phase' = "down" /\ active' = {} /\ watermark' = 0
    /\ resolver' = Asleep /\ newcomer' = Asleep
    /\ \/ cache' = cache
       \/ phase = "running" /\ cache' = active
    /\ UNCHANGED <<gamma, start, told, missed>>

-----------------------------------------------------------------------------
(* _resolution_poller *)

\* (mutant of ResolverGoesOn: nothing is saved when nothing was resolved)
ResolverGoesOnUnsaved(todo, act) ==
    \/ \E m \in todo \cap act : resolver' = Publishing(m, todo \ {m}, 0)
    \/ todo \cap act = {} /\ resolver' = IF resolver.added THEN Saving(act) ELSE Asleep

\* The loop up to its next await: the next market that is still active is
\* published; after the last one the dictionary is saved.
ResolverGoesOn(todo, act) ==
    \/ \E m \in todo \cap act : resolver' = Publishing(m, todo \ {m}, 0)
    \/ todo \cap act = {} /\ resolver' = Saving(act)

\* The markets closed within the overlap that are active here.
ResolvedFetch ==
    /\ phase = "running" /\ resolver.pc = "fetch"
    /\ ResolverGoesOn({m \in active : gamma[m] = "closed"}, active)
    /\ UNCHANGED <<gamma, start, cache, phase, active, watermark, newcomer,
                   told, missed, faults>>

ResolvedExecute ==
    /\ resolver.pc = "publishing"
    /\ told' = told \ resolver.now
    /\ resolver' = [resolver EXCEPT !.pc = "published"]
    /\ UNCHANGED <<gamma, start, cache, phase, active, watermark, newcomer, missed,
                   faults>>

ResolvedAnswer ==
    /\ resolver.pc = "published"
    /\ active' = active \ resolver.now
    /\ ResolverGoesOn(resolver.todo, active')
    /\ UNCHANGED <<gamma, start, cache, phase, watermark, newcomer, told,
                   missed, faults>>

\* (mutant of ResolvedFail: the market leaves the dictionary all the same)
ResolvedFailDropping ==
    /\ resolver.pc \in {"publishing", "published"}
    /\ Fault
    /\ active' = active \ resolver.now
    /\ resolver' = Asleep
    /\ UNCHANGED <<gamma, start, cache, phase, watermark, newcomer, told,
                   missed>>

\* (mutant of ResolvedFail: the error ends the poller)
ResolvedFailEnding ==
    /\ resolver.pc \in {"publishing", "published"}
    /\ Fault
    /\ resolver' = [Asleep EXCEPT !.pc = "fetched"]
    /\ UNCHANGED <<gamma, start, cache, phase, active, watermark, newcomer,
                   told, missed>>

\* publish raises, the XADD executed or not: the cycle is over, nothing is saved.
ResolvedFail ==
    /\ resolver.pc \in {"publishing", "published"}
    /\ Fault
    /\ resolver' = Asleep
    /\ UNCHANGED <<gamma, start, cache, phase, active, watermark, newcomer,
                   told, missed>>

ResolvedSave ==
    /\ resolver.pc = "saving"
    /\ cache' = resolver.snap
    /\ resolver' = Asleep
    /\ UNCHANGED <<gamma, start, phase, active, watermark, newcomer, told,
                   missed, faults>>

ResolvedSaveFail ==
    /\ resolver.pc = "saving"
    /\ Fault
    /\ resolver' = Asleep
    /\ UNCHANGED <<gamma, start, cache, phase, active, watermark, newcomer,
                   told, missed>>

-----------------------------------------------------------------------------
(* _new_markets_poller *)

\* (mutant of NewcomerGoesOn: the watermark moves past the newest market)
NewcomerGoesPast(todo) ==
    \/ \E m \in todo \ active :
        /\ active' = active \cup {m}
        /\ newcomer' = Publishing(m, todo \ {m}, newcomer.max)
        /\ UNCHANGED watermark
    \/ /\ todo \subseteq active
       /\ watermark' = Max({watermark, newcomer.max + 1})
       /\ newcomer' = IF newcomer.added THEN Saving(active) ELSE Asleep
       /\ UNCHANGED active

\* The loop up to its next await: the next unknown market enters the dictionary
\* and is published; after the last one the watermark moves on, and the
\* dictionary is saved if it has grown.
NewcomerGoesOn(todo) ==
    \/ \E m \in todo \ active :
        /\ active' = active \cup {m}
        /\ newcomer' = Publishing(m, todo \ {m}, newcomer.max)
        /\ UNCHANGED watermark
    \/ /\ todo \subseteq active
       /\ watermark' = Max({watermark, newcomer.max})
       /\ newcomer' = IF newcomer.added THEN Saving(active) ELSE Asleep
       /\ UNCHANGED active

\* What Gamma is asked for, the latest startDate first; it lists markets of one
\* startDate always in the same order.  A page is PageSize of them after offset.
Matching == {m \in ActiveOnGamma : start[m] >= watermark}
Rank == CHOOSE r \in [Markets -> 1..Cardinality(Markets)] :
            \A m, n \in Markets : m # n => r[m] # r[n]
Ahead(m) == {n \in Matching : \/ start[n] > start[m]
                              \/ start[n] = start[m] /\ Rank[n] < Rank[m]}
Page(offset) == {m \in Matching : Cardinality(Ahead(m)) \in offset..(offset + PageSize - 1)}

\* One more page.  Between two requests markets close, and what follows moves up.
NewPage ==
    /\ phase = "running" /\ newcomer.pc \in {"fetch", "paging"}
    /\ LET page == Page(newcomer.offset)
       IN  /\ page # {}
           /\ newcomer' = [newcomer EXCEPT !.pc = "paging", !.todo = @ \cup page,
                               !.offset = @ + Cardinality(page),
                               !.max = Max({@, Newest(page)})]
    /\ UNCHANGED <<gamma, start, cache, phase, active, watermark, resolver, told,
                   missed, faults>>

\* An empty page ends the answer; it is handled when the coroutine runs again.
NewLastPage ==
    /\ phase = "running" /\ newcomer.pc \in {"fetch", "paging"}
    /\ Page(newcomer.offset) = {}
    /\ newcomer' = [newcomer EXCEPT !.pc = "fetched", !.offset = 0]
    /\ Note("shifted", {m \in Matching \ newcomer.todo : start[m] < newcomer.max})
    /\ UNCHANGED <<gamma, start, cache, phase, active, watermark, resolver, told,
                   faults>>

\* A page cannot be had: the cycle is over.
NewFetchFail ==
    /\ newcomer.pc = "paging"
    /\ Fault
    /\ newcomer' = Asleep
    /\ UNCHANGED <<gamma, start, cache, phase, active, watermark, resolver, told,
                   missed>>

NewProcess ==
    /\ newcomer.pc = "fetched"
    /\ NewcomerGoesOn(newcomer.todo)
    /\ UNCHANGED <<gamma, start, cache, phase, resolver, told, missed,
                   faults>>

\* The announcement may be overtaken by that of the resolution.
NewExecute ==
    /\ newcomer.pc = "publishing"
    /\ Note("overtaken",
            newcomer.now \ IF resolver.pc = "published" THEN active \ resolver.now
                                                      ELSE active)
    /\ told' = told \cup newcomer.now
    /\ newcomer' = [newcomer EXCEPT !.pc = "published"]
    /\ UNCHANGED <<gamma, start, cache, phase, active, watermark, resolver, faults>>

NewAnswer ==
    /\ newcomer.pc = "published"
    /\ NewcomerGoesOn(newcomer.todo)
    /\ UNCHANGED <<gamma, start, cache, phase, resolver, told, missed,
                   faults>>

\* publish raises: the cycle is over.  The market stays in the dictionary and is
\* not announced again.
NewFail ==
    /\ newcomer.pc \in {"publishing", "published"}
    /\ Fault
    /\ Note("unpublished", IF newcomer.pc = "publishing" THEN newcomer.now ELSE {})
    /\ newcomer' = Asleep
    /\ UNCHANGED <<gamma, start, cache, phase, active, watermark, resolver,
                   told>>

NewSave ==
    /\ newcomer.pc = "saving"
    /\ cache' = newcomer.snap
    /\ newcomer' = Asleep
    /\ UNCHANGED <<gamma, start, phase, active, watermark, resolver, told,
                   missed, faults>>

NewSaveFail ==
    /\ newcomer.pc = "saving"
    /\ Fault
    /\ newcomer' = Asleep
    /\ UNCHANGED <<gamma, start, cache, phase, active, watermark, resolver,
                   told, missed>>

-----------------------------------------------------------------------------
(* A step is an announcement that is executed, or does not touch the stream *)

ResolverStep == ResolvedFetch \/ ResolvedExecute \/ ResolvedAnswer \/ ResolvedSave
NewcomerStep == NewPage \/ NewLastPage \/ NewProcess \/ NewExecute \/ NewAnswer
                \/ NewSave
TrackerFault == ResolvedFail \/ ResolvedSaveFail \/ NewFetchFail \/ NewFail
                \/ NewSaveFail \/ TrackerEnds

TrackerQuiet ==
    \/ \E m \in Markets : Open(m) \/ Close(m) \/ Age(m)
    \/ Load \/ Begin
    \/ ResolvedFetch \/ ResolvedAnswer \/ ResolvedSave
    \/ NewPage \/ NewLastPage \/ NewProcess \/ NewAnswer \/ NewSave
    \/ TrackerFault

TrackerNext == TrackerQuiet \/ ResolvedExecute \/ NewExecute

TrackerSpec == TrackerInit /\ [][TrackerNext]_trackerVars

\* The process is started again, and a coroutine whose turn it is runs.
TrackerFairSpec ==
    /\ TrackerSpec
    /\ WF_trackerVars(Load) /\ WF_trackerVars(Begin)
    /\ WF_trackerVars(ResolverStep) /\ WF_trackerVars(NewcomerStep)

-----------------------------------------------------------------------------
PollerType == [pc : {"fetch", "paging", "fetched", "publishing", "published", "saving"},
               now : SUBSET Markets, todo : SUBSET Markets, snap : SUBSET Markets,
               offset : Nat, max : Nat, added : BOOLEAN]

\* Type invariant of the tracker.
TrackerTypeOK ==
    /\ gamma \in [Markets -> {"unborn", "active", "closed", "old"}]
    /\ start \in [Markets -> 0..MaxStart]
    /\ cache \subseteq Markets /\ active \subseteq Markets
    /\ told \subseteq Markets /\ missed \in [Causes -> SUBSET Markets]
    /\ phase \in {"down", "loaded", "running"}
    /\ watermark \in Nat /\ faults \in 0..MaxFaults
    /\ resolver \in PollerType /\ newcomer \in PollerType

\* A market that is not in the dictionary of a running tracker is not active for
\* the readers of the stream either: whatever the pollers do in between their
\* awaits, and whichever publication fails, a market leaves the dictionary only
\* after its resolution was announced.  Two exceptions: its announcement as a new
\* one, sent on another connection, was executed after that (no fault is needed,
\* and nobody takes it back), or it closed while no tracker ran (run.py:267, 393).
DroppedIsTold ==
    phase = "running" => told \subseteq active \cup Missed({"overtaken", "down"})

\* Neither poller has anything in its hands, or would find anything to do.
TrackerSettled ==
    /\ phase = "running"
    /\ resolver.pc \in {"fetch", "saving"} /\ newcomer.pc \in {"fetch", "saving"}
    /\ \A m \in active : gamma[m] # "closed"
    /\ \A m \in ActiveOnGamma : start[m] >= watermark => m \in active

\* Redis ends up with the set the process has in memory, although both pollers
\* save snapshots of it and a save may be overtaken by an older one, may fail,
\* or may fall to a process that dies: the resolution poller saves at the end of
\* every cycle, whether anything was resolved or not (run.py:290-291, 401-402).
CacheCatchesUp == <>[](phase = "running" => cache = active)

\* The stream ends up saying what Gamma says: an announcement that failed before a
\* market left the dictionary is made again, and no error ends a poller.  The
\* exceptions are those of Causes.  A market the stream still says to be active was
\* announced too late, or closed when nobody asked; one it does not know was passed
\* over, late on Gamma's side or by its pages, or not announced (run.py:262-305).
StillTold == {"overtaken", "aged", "down"}
NeverTold == PassedOver \cup {"down"}
AnnouncementsCatchUp ==
    <>[](phase = "running" => /\ told \ ActiveOnGamma \subseteq Missed(StillTold)
                              /\ ActiveOnGamma \ told \subseteq Missed(NeverTold))
=============================================================================
