--------------------------- MODULE CatalogueProofs ---------------------------
(* Theorems about the tracker (module MarketTracker) and the collector that *)
(* follows it (module Catalogue), for every set of markets, every number of *)
(* faults and every size of a reply.                                        *)
EXTENDS Catalogue, FiniteSetTheorems, SequenceTheorems, WellFoundedInduction, TLAPS

\* What a poller is made of.
IsPoller(p) ==
    p = [pc |-> p.pc, now |-> p.now, todo |-> p.todo, snap |-> p.snap,
         offset |-> p.offset, max |-> p.max, added |-> p.added]

\* A market leaves the dictionary between the resolution's publication and its
\* answer; until then no announcement may follow unnoticed.
TellingInv ==
    /\ IsPoller(resolver) /\ IsPoller(newcomer) /\ newcomer.todo \subseteq Markets
    /\ active \subseteq Markets /\ told \subseteq Markets /\ cache \subseteq Markets
    /\ resolver.snap \subseteq Markets /\ newcomer.snap \subseteq Markets
    /\ resolver.pc = "publishing" => \E m \in Markets : resolver.now = {m}
    /\ missed \in [Causes -> SUBSET Markets]
    /\ phase # "down" => told \subseteq active \cup missed["overtaken"] \cup missed["down"]
    /\ resolver.pc = "published" => resolver.now \cap told \subseteq missed["overtaken"]
    /\ newcomer.pc = "publishing" => \E m \in Markets : newcomer.now = {m}

-----------------------------------------------------------------------------
\* The loops of the pollers end up asleep, saving or publishing one market.
LEMMA ResolverSteps ==
    ASSUME NEW todo, NEW act, act \subseteq Markets, ResolverGoesOn(todo, act)
    PROVE  /\ IsPoller(resolver') /\ resolver'.pc # "published"
           /\ resolver'.snap \subseteq Markets
           /\ resolver'.pc = "publishing" => \E m \in Markets : resolver'.now = {m}
  BY DEF ResolverGoesOn, Publishing, Saving, Asleep, IsPoller

LEMMA NewcomerSteps ==
    ASSUME NEW todo, todo \subseteq Markets, active \subseteq Markets, NewcomerGoesOn(todo)
    PROVE  /\ IsPoller(newcomer') /\ newcomer'.todo \subseteq Markets
           /\ active \subseteq active' /\ active' \subseteq Markets
           /\ newcomer'.snap \subseteq Markets
           /\ newcomer'.pc = "publishing" => \E m \in Markets : newcomer'.now = {m}
<1>1. CASE \E m \in todo \ active :
              /\ active' = active \cup {m}
              /\ newcomer' = Publishing(m, todo \ {m}, newcomer.max)
  BY <1>1 DEF Publishing, Asleep, IsPoller
<1>2. CASE /\ newcomer' = IF newcomer.added THEN Saving(active) ELSE Asleep
           /\ UNCHANGED active
  BY <1>2 DEF Saving, Asleep, IsPoller
<1>3. QED
  BY <1>1, <1>2 DEF NewcomerGoesOn

\* What a note changes.
LEMMA NoteIs ==
    ASSUME missed \in [Causes -> SUBSET Markets], NEW cause \in Causes,
           NEW set \in SUBSET Markets, Note(cause, set)
    PROVE  /\ missed' \in [Causes -> SUBSET Markets]
           /\ missed'[cause] = missed[cause] \cup set
           /\ \A c \in Causes \ {cause} : missed'[c] = missed[c]
           /\ \A c \in Causes : missed[c] \subseteq missed'[c]
  BY DEF Note

LEMMA MissedIs ==
    /\ Missed({"overtaken", "down"}) = missed["overtaken"] \cup missed["down"]
    /\ Missed(StillTold) = missed["overtaken"] \cup missed["aged"] \cup missed["down"]
    /\ Missed(NeverTold) = missed["late"] \cup missed["shifted"] \cup missed["unpublished"]
                           \cup missed["down"]
  BY DEF Missed, StillTold, NeverTold, PassedOver

\* Other notes than these do not matter to it.
LEMMA TellingStays ==
    ASSUME TellingInv, UNCHANGED <<cache, phase, active, told, resolver, newcomer>>,
           missed' \in [Causes -> SUBSET Markets],
           \A c \in {"overtaken", "down"} : missed[c] \subseteq missed'[c]
    PROVE  TellingInv'
<1>1. missed["overtaken"] \subseteq missed'["overtaken"] /\ missed["down"] \subseteq missed'["down"]
  OBVIOUS
<1>2. QED
  BY <1>1 DEF TellingInv, IsPoller

LEMMA TellingStep == TellingInv /\ [TrackerNext]_trackerVars => TellingInv'
<1> SUFFICES ASSUME TellingInv, [TrackerNext]_trackerVars
             PROVE  TellingInv'
  OBVIOUS
<1>0. missed \in [Causes -> SUBSET Markets] /\ {"late", "aged", "down", "shifted", "overtaken",
                                                  "unpublished"} = Causes
  BY DEF TellingInv, Causes
<1>1. ASSUME NEW m \in Markets, Open(m) \/ Close(m) \/ Age(m)
      PROVE  TellingInv'
  <2>1. UNCHANGED <<cache, phase, active, told, resolver, newcomer>>
    BY <1>1 DEF Open, Close, Age
  <2>2. CASE Open(m)
    <3>1. PICK set \in SUBSET {m} : Note("late", set)
      BY <2>2 DEF Open
    <3>2. QED
      BY <1>0, <2>1, <3>1, NoteIs, TellingStays
  <2>3. CASE Close(m)
    <3>1. missed' = [c \in Causes |-> IF c \in PassedOver THEN missed[c] \ {m} ELSE missed[c]]
      BY <2>3 DEF Close
    <3>2. QED
      BY <1>0, <2>1, <3>1, TellingStays DEF PassedOver
  <2>4. CASE Age(m)
    <3>1. Note("aged", {m})
      BY <2>4 DEF Age
    <3>2. QED
      BY <1>0, <2>1, <3>1, NoteIs, TellingStays
  <2>5. QED
    BY <1>1, <2>2, <2>3, <2>4
<1>2. CASE Load
  <2>1. SymDiff(told, ActiveOnGamma) \in SUBSET Markets
    BY DEF TellingInv, ActiveOnGamma, SymDiff
  <2>2. /\ missed' \in [Causes -> SUBSET Markets]
        /\ missed'["down"] = missed["down"] \cup SymDiff(told, ActiveOnGamma)
        /\ missed'["overtaken"] = missed["overtaken"]
    BY <1>0, <1>2, <2>1, NoteIs DEF Load
  <2>3. told \subseteq active' \cup missed'["down"]
    BY <1>2, <2>2 DEF Load, SymDiff
  <2>4. QED
    BY <1>2, <2>2, <2>3 DEF Load, ActiveOnGamma, TellingInv, IsPoller
<1>3. CASE Begin \/ TrackerEnds
  BY <1>3 DEF Begin, TrackerEnds, TellingInv, IsPoller, Asleep
<1>4. CASE ResolvedFetch
  BY <1>4, ResolverSteps DEF ResolvedFetch, TellingInv, IsPoller
<1>5. CASE ResolvedExecute
  BY <1>5 DEF ResolvedExecute, TellingInv, IsPoller
<1>6. CASE ResolvedAnswer
  <2>1. resolver.pc = "published" /\ active' = active \ resolver.now
    BY <1>6 DEF ResolvedAnswer
  <2>2. /\ IsPoller(resolver') /\ resolver'.pc # "published"
        /\ resolver'.snap \subseteq Markets
        /\ resolver'.pc = "publishing" => \E m \in Markets : resolver'.now = {m}
    BY <1>6, ResolverSteps DEF ResolvedAnswer, TellingInv
  <2>3. UNCHANGED <<cache, phase, told, missed, newcomer>>
    BY <1>6 DEF ResolvedAnswer
  <2>4. QED
    BY <2>1, <2>2, <2>3 DEF TellingInv, IsPoller
<1>7. CASE ResolvedFail \/ ResolvedSave \/ ResolvedSaveFail
  BY <1>7 DEF ResolvedFail, ResolvedSave, ResolvedSaveFail, TellingInv, IsPoller, Asleep
<1>8. CASE NewPage \/ NewLastPage \/ NewFetchFail
  <2>1. CASE NewPage
    BY <2>1 DEF NewPage, Page, Matching, ActiveOnGamma, TellingInv, IsPoller
  <2>2. CASE NewLastPage
    <3>1. /\ {m \in Matching \ newcomer.todo : start[m] < newcomer.max} \in SUBSET Markets
          /\ newcomer' = [newcomer EXCEPT !.pc = "fetched", !.offset = 0]
          /\ UNCHANGED <<cache, phase, active, resolver, told>>
      BY <2>2 DEF NewLastPage, Matching, ActiveOnGamma
    <3>2. /\ missed' \in [Causes -> SUBSET Markets]
          /\ missed'["overtaken"] = missed["overtaken"] /\ missed'["down"] = missed["down"]
      BY <1>0, <2>2, <3>1, NoteIs DEF NewLastPage
    <3>3. QED
      BY <3>1, <3>2 DEF TellingInv, IsPoller
  <2>3. CASE NewFetchFail
    BY <2>3 DEF NewFetchFail, TellingInv, IsPoller, Asleep
  <2>4. QED
    BY <1>8, <2>1, <2>2, <2>3
<1>9. CASE NewProcess \/ NewAnswer
  <2>1. NewcomerGoesOn(newcomer.todo) /\ UNCHANGED <<cache, phase, told, missed, resolver>>
    BY <1>9 DEF NewProcess, NewAnswer
  <2>2. /\ IsPoller(newcomer') /\ newcomer'.todo \subseteq Markets
        /\ active \subseteq active' /\ active' \subseteq Markets
        /\ newcomer'.snap \subseteq Markets
        /\ newcomer'.pc = "publishing" => \E m \in Markets : newcomer'.now = {m}
    BY <2>1, NewcomerSteps DEF TellingInv
  <2>3. QED
    BY <2>1, <2>2 DEF TellingInv, IsPoller
<1>10. CASE NewExecute
  <2>1. PICK m \in Markets : newcomer.now = {m}
    BY <1>10 DEF NewExecute, TellingInv
  <2>2. /\ told' = told \cup {m} /\ newcomer' = [newcomer EXCEPT !.pc = "published"]
        /\ UNCHANGED <<cache, phase, active, resolver>>
    BY <1>10, <2>1 DEF NewExecute
  <2>3. PICK set \in SUBSET {m} :
            /\ Note("overtaken", set)
            /\ m \notin active \/ (resolver.pc = "published" /\ m \in resolver.now) => m \in set
    BY <1>10, <2>1 DEF NewExecute
  <2>4. /\ missed' \in [Causes -> SUBSET Markets]
        /\ missed'["overtaken"] = missed["overtaken"] \cup set /\ missed'["down"] = missed["down"]
    BY <1>0, <2>3, NoteIs
  <2>5. QED
    BY <2>1, <2>2, <2>3, <2>4 DEF TellingInv, IsPoller
<1>11. CASE NewFail \/ NewSave \/ NewSaveFail
  <2>1. CASE NewFail
    <3>1. PICK set \in SUBSET Markets : Note("unpublished", set)
      <4>1. newcomer.pc = "publishing" => newcomer.now \subseteq Markets
        BY DEF TellingInv
      <4>2. QED
        BY <2>1, <4>1 DEF NewFail
    <3>2. /\ missed' \in [Causes -> SUBSET Markets]
          /\ missed'["overtaken"] = missed["overtaken"] /\ missed'["down"] = missed["down"]
      BY <1>0, <3>1, NoteIs
    <3>3. QED
      BY <2>1, <3>2 DEF NewFail, TellingInv, IsPoller, Asleep
  <2>2. CASE NewSave \/ NewSaveFail
    BY <2>2 DEF NewSave, NewSaveFail, TellingInv, IsPoller, Asleep
  <2>3. QED
    BY <1>11, <2>1, <2>2
<1>12. CASE UNCHANGED trackerVars
  BY <1>0, <1>12, TellingStays DEF trackerVars
<1>13. QED
  BY <1>1, <1>2, <1>3, <1>4, <1>5, <1>6, <1>7, <1>8, <1>9, <1>10, <1>11, <1>12
  DEF TrackerNext, TrackerQuiet, TrackerFault

LEMMA TellingInit == TrackerInit => TellingInv
  BY MarketTrackerAssumption DEF TrackerInit, TellingInv, IsPoller, Asleep

\* A market that is active for the readers of the stream is in the dictionary of a
\* running tracker, whatever the pollers do in between their awaits and whichever
\* publication fails, except that its announcement as a new one was executed after
\* that of its resolution, or that it closed while no tracker ran (run.py:267, 393).
THEOREM TrackerDropsNothingUntold == TrackerSpec => []DroppedIsTold
<1>1. TellingInv => DroppedIsTold
  BY MissedIs DEF TellingInv, DroppedIsTold
<1>2. QED
  BY TellingInit, TellingStep, <1>1, PTL DEF TrackerSpec

-----------------------------------------------------------------------------
Words == [type : {"new_market", "market_resolved"}, market : Markets]

\* Whether m is in the set when the messages from i on have been applied to it:
\* the last one about m decides.
After(u, i, set, m) ==
    LET about == {k \in i..Len(u) : u[k].market = m}
    IN  \/ about = {} /\ m \in set
        \/ \E k \in about : (\A j \in about : j <= k) /\ u[k].type = "new_market"

\* What the listener still has to handle of a reply is pending; when the pass
\* over the old entries is done, nothing but such entries is ahead of it.
ReadingInv ==
    /\ pending \in Seq(Words) /\ stream \in Seq(Words) /\ pool \subseteq Markets
    /\ next \in 1..(Len(pending) + 1) /\ left \in 0..(Len(pending) - next + 1)
    /\ listener \in {"down", "starting"} => next = 1 /\ left = 0 /\ ~pendingDone
    /\ listener = "acking" => left > 0
    /\ pendingDone => next + left = Len(pending) + 1
    /\ lost \in [Losses -> SUBSET Markets]

\* The last entry about a market, of those ahead of the listener, says what the stream
\* says; so it will when they come again, but for what was passed over.
AgreeInv ==
    \A m \in Markets \ (lost["replayed"] \cup lost["skipped"]) :
        /\ After(Unread, next, {}, m) => m \in told
        /\ m \in told => After(Unread, next, Markets, m)

\* What is ahead of the listener leads the pool to what the stream says; the entry
\* being acknowledged has been applied.
FollowInv ==
    /\ listener \in {"starting", "reading", "acking"} =>
          \A m \in Markets \ Lost : After(Unread, next, pool, m) <=> m \in told
    /\ listener = "acking" =>
          \A m \in Markets \ Lost : After(Unread, next + 1, pool, m) <=> m \in told

\* A message at the end decides.
LEMMA AfterAppend ==
    ASSUME NEW u \in Seq(Words), NEW w \in Words, NEW i \in 1..(Len(u) + 1),
           NEW set, NEW m
    PROVE  After(Append(u, w), i, set, m) <=>
               IF w.market = m THEN w.type = "new_market" ELSE After(u, i, set, m)
<1> DEFINE v == Append(u, w)
<1>1. /\ Len(v) = Len(u) + 1 /\ v[Len(u) + 1] = w
      /\ \A k \in 1..Len(u) : v[k] = u[k]
  OBVIOUS
<1>2. CASE w.market = m
  <2>1. Len(v) \in {k \in i..Len(v) : v[k].market = m}
    BY <1>1, <1>2
  <2>2. ASSUME w.type = "new_market" PROVE After(v, i, set, m)
    BY <1>1, <2>1, <2>2 DEF After
  <2>3. ASSUME After(v, i, set, m) PROVE w.type = "new_market"
    BY <1>1, <2>1, <2>3 DEF After
  <2>4. QED
    BY <1>2, <2>2, <2>3
<1>3. CASE w.market # m
  <2>1. {k \in i..Len(v) : v[k].market = m} = {k \in i..Len(u) : u[k].market = m}
    BY <1>1, <1>3
  <2>2. QED
    BY <1>1, <1>3, <2>1 DEF After
<1>4. QED
  BY <1>2, <1>3

\* A message may be applied once more.
LEMMA AfterApplied ==
    ASSUME NEW u \in Seq(Words), NEW i \in 1..Len(u), NEW set, NEW m
    PROVE  LET applied == IF u[i].type = "new_market" THEN set \cup {u[i].market}
                                                     ELSE set \ {u[i].market}
           IN  After(u, i, applied, m) <=> After(u, i, set, m)
<1>1. CASE u[i].market = m
  <2>1. i \in {k \in i..Len(u) : u[k].market = m}
    BY <1>1
  <2>2. QED
    BY <2>1 DEF After
<1>2. CASE u[i].market # m
  BY <1>2 DEF After
<1>3. QED
  BY <1>1, <1>2

\* One that has been applied may be passed over,
LEMMA AfterPassed ==
    ASSUME NEW u \in Seq(Words), NEW i \in 1..Len(u), NEW set, NEW m,
           u[i].market = m => (m \in set <=> u[i].type = "new_market")
    PROVE  After(u, i + 1, set, m) <=> After(u, i, set, m)
<1> DEFINE S == {k \in i..Len(u) : u[k].market = m}
           T == {k \in (i + 1)..Len(u) : u[k].market = m}
<1>1. CASE u[i].market # m
  <2>1. S = T
    BY <1>1
  <2>2. QED
    BY <2>1 DEF After
<1>2. CASE u[i].market = m /\ T = {}
  <2>1. S = {i}
    BY <1>2
  <2>2. QED
    BY <1>2, <2>1 DEF After
<1>3. CASE u[i].market = m /\ T # {}
  <2>1. S = T \cup {i} /\ \A k \in T : k > i
    BY <1>3
  <2>2. (\E k \in S : (\A j \in S : j <= k) /\ u[k].type = "new_market") <=>
        (\E k \in T : (\A j \in T : j <= k) /\ u[k].type = "new_market")
    BY <1>3, <2>1
  <2>3. QED
    BY <1>3, <2>1, <2>2 DEF After
<1>4. QED
  BY <1>1, <1>2, <1>3

\* and one that has not, for a set without the market or one that has them all,
LEMMA AfterPassedBy ==
    ASSUME NEW u \in Seq(Words), NEW i \in 1..Len(u), NEW m \in Markets
    PROVE  /\ After(u, i + 1, {}, m) => After(u, i, {}, m)
           /\ After(u, i, Markets, m) => After(u, i + 1, Markets, m)
<1> DEFINE S == {k \in i..Len(u) : u[k].market = m}
           T == {k \in (i + 1)..Len(u) : u[k].market = m}
<1>1. T # {} => /\ S \ {i} = T /\ \A k \in T : k > i
                /\ \A k \in S : (\A j \in S : j <= k) <=> k \in T /\ (\A j \in T : j <= k)
  OBVIOUS
<1>2. CASE T = {}
  BY <1>2 DEF After
<1>3. CASE T # {}
  <2>1. (\E k \in S : (\A j \in S : j <= k) /\ u[k].type = "new_market") <=>
        (\E k \in T : (\A j \in T : j <= k) /\ u[k].type = "new_market")
    BY <1>1, <1>3
  <2>2. S # {}
    BY <1>1, <1>3
  <2>3. QED
    BY <1>3, <2>1, <2>2 DEF After
<1>4. QED
  BY <1>2, <1>3

\* and removed.
LEMMA AfterRemoved ==
    ASSUME NEW u \in Seq(Words), NEW v \in Seq(Words), NEW i \in 1..Len(u),
           NEW set, NEW m,
           Len(v) = Len(u) - 1, \A k \in i..Len(v) : v[k] = u[k + 1]
    PROVE  After(v, i, set, m) <=> After(u, i + 1, set, m)
<1> DEFINE S == {k \in i..Len(v) : v[k].market = m}
           T == {k \in (i + 1)..Len(u) : u[k].market = m}
<1>1. \A k \in S : k + 1 \in T
  OBVIOUS
<1>2. \A k \in T : k - 1 \in S
  OBVIOUS
<1>3. S = {} <=> T = {}
  BY <1>1, <1>2
<1>4. ASSUME NEW k \in S, \A j \in S : j <= k, v[k].type = "new_market"
      PROVE  k + 1 \in T /\ (\A j \in T : j <= k + 1) /\ u[k + 1].type = "new_market"
  BY <1>1, <1>2, <1>4
<1>5. ASSUME NEW k \in T, \A j \in T : j <= k, u[k].type = "new_market"
      PROVE  k - 1 \in S /\ (\A j \in S : j <= k - 1) /\ v[k - 1].type = "new_market"
  BY <1>1, <1>2, <1>5
<1>6. QED
  BY <1>3, <1>4, <1>5 DEF After

-----------------------------------------------------------------------------
LEMMA WordsAssociative ==
    ASSUME NEW x \in Seq(Words), NEW y \in Seq(Words), NEW z \in Seq(Words)
    PROVE  (x \o y) \o z = x \o (y \o z)
  BY ConcatAssociative

\* Entries that are delivered move from the stream to the pending list.
LEMMA Delivered ==
    ASSUME NEW p \in Seq(Words), NEW s \in Seq(Words), NEW n \in 0..Len(s)
    PROVE  /\ SubSeq(s, n + 1, Len(s)) \in Seq(Words)
           /\ p \o SubSeq(s, 1, n) \in Seq(Words) /\ Len(p \o SubSeq(s, 1, n)) = Len(p) + n
           /\ (p \o SubSeq(s, 1, n)) \o SubSeq(s, n + 1, Len(s)) = p \o s
<1>1. SubSeq(s, n + 1, Len(s)) \in Seq(Words)
  BY SubSeqProperties
<1>2. SubSeq(s, 1, n) \in Seq(Words) /\ Len(SubSeq(s, 1, n)) = n
  BY SubSeqProperties
<1>3. SubSeq(s, 1, n) \o SubSeq(s, n + 1, Len(s)) = s
  <2>1. Len(s) \in Nat /\ 1 \in 1..(Len(s) + 1) /\ n \in (1 - 1)..Len(s) /\ Len(s) \in n..Len(s)
    OBVIOUS
  <2>2. SubSeq(s, 1, n) \o SubSeq(s, n + 1, Len(s)) = SubSeq(s, 1, Len(s))
    BY <2>1, ConcatAdjacentSubSeq
  <2>3. QED
    BY <2>2, SubSeqFull
<1> DEFINE a == SubSeq(s, 1, n)
           b == SubSeq(s, n + 1, Len(s))
<1> HIDE DEF a, b
<1>4. /\ a \in Seq(Words) /\ Len(a) = n /\ b \in Seq(Words) /\ a \o b = s
  BY <1>1, <1>2, <1>3 DEF a, b
<1>5. p \o a \in Seq(Words) /\ Len(p \o a) = Len(p) + n
  BY <1>4, ConcatProperties
<1>6. (p \o a) \o b = p \o s
  <2>1. (p \o a) \o b = p \o (a \o b)
    BY <1>4, WordsAssociative, Zenon
  <2>2. QED
    BY <1>4, <2>1, Zenon
<1>7. QED
  BY <1>4, <1>5, <1>6 DEF a, b

\* One that is acknowledged leaves it.
LEMMA Removed ==
    ASSUME NEW p \in Seq(Words), NEW s \in Seq(Words), NEW i \in 1..Len(p)
    PROVE  LET q == RemoveAt(p, i) IN
           /\ q \in Seq(Words) /\ Len(q) = Len(p) - 1
           /\ q \o s \in Seq(Words) /\ Len(q \o s) = Len(p \o s) - 1
           /\ \A k \in i..Len(q \o s) : (q \o s)[k] = (p \o s)[k + 1]
<1> DEFINE a == SubSeq(p, 1, i - 1)
           b == SubSeq(p, i + 1, Len(p))
           q == a \o b
<1>1. a \in Seq(Words) /\ Len(a) = i - 1
  BY SubSeqProperties
<1>2. /\ b \in Seq(Words) /\ Len(b) = Len(p) - i
      /\ \A k \in 1..Len(b) : b[k] = p[i + k]
  <2>1. /\ b \in Seq(Words) /\ Len(b) = IF i + 1 <= Len(p) THEN Len(p) - (i + 1) + 1 ELSE 0
        /\ \A k \in 1..(Len(p) - (i + 1) + 1) : b[k] = p[i + 1 + k - 1]
    BY SubSeqProperties
  <2>2. QED
    BY <2>1
<1> HIDE DEF a, b
<1>3. /\ q \in Seq(Words) /\ Len(q) = Len(p) - 1
      /\ \A k \in i..Len(q) : q[k] = p[k + 1]
  <2>1. /\ q \in Seq(Words) /\ Len(q) = Len(a) + Len(b)
        /\ \A k \in 1..(Len(a) + Len(b)) : q[k] = IF k <= Len(a) THEN a[k] ELSE b[k - Len(a)]
    BY <1>1, <1>2, ConcatProperties
  <2>2. i \in 1..Len(p) /\ Len(p) \in Nat
    OBVIOUS
  <2>3. Len(q) = Len(p) - 1
    BY <1>1, <1>2, <2>1, <2>2
  <2>4. ASSUME NEW k \in i..Len(q)
        PROVE  q[k] = p[k + 1]
    <3>1. q[k] = b[k - (i - 1)] /\ k - (i - 1) \in 1..Len(b)
      BY <1>1, <1>2, <2>1, <2>2, <2>3
    <3>2. i + (k - (i - 1)) = k + 1
      BY <2>2
    <3>3. QED
      BY <1>2, <3>1, <3>2
  <2>5. QED
    BY <2>1, <2>3, <2>4
<1> HIDE DEF q
<1>4. /\ q \o s \in Seq(Words) /\ Len(q \o s) = Len(q) + Len(s)
      /\ \A k \in 1..(Len(q) + Len(s)) : (q \o s)[k] = IF k <= Len(q) THEN q[k] ELSE s[k - Len(q)]
  BY <1>3, ConcatProperties
<1>5. /\ Len(p \o s) = Len(p) + Len(s)
      /\ \A k \in 1..(Len(p) + Len(s)) : (p \o s)[k] = IF k <= Len(p) THEN p[k] ELSE s[k - Len(p)]
  BY ConcatProperties
<1>6. \A k \in i..Len(q \o s) : (q \o s)[k] = (p \o s)[k + 1]
  BY <1>3, <1>4, <1>5
<1>7. RemoveAt(p, i) = q
  BY DEF RemoveAt, a, b, q
<1>8. QED
  BY <1>3, <1>4, <1>5, <1>6, <1>7

-----------------------------------------------------------------------------
\* The tracker adds one message at a time and tells what it says.
LEMMA TrackerTells ==
    ASSUME TellingInv, TrackerStep
    PROVE  /\ TrackerNext
           /\ UNCHANGED collectorVars
           /\ \/ UNCHANGED <<stream, lost, told>>
              \/ \E w \in Words :
                    /\ stream' = Append(stream, w)
                    /\ told' = IF w.type = "new_market" THEN told \cup {w.market}
                                                       ELSE told \ {w.market}
                    /\ lost' = [c \in Losses |-> lost[c] \ {w.market}]
<1>1. CASE ResolvedExecute /\ XAdd("market_resolved", resolver.now)
  <2>1. PICK m \in Markets : resolver.now = {m}
    BY <1>1 DEF ResolvedExecute, TellingInv
  <2>2. /\ stream' = Append(stream, Word("market_resolved", m))
        /\ told' = told \ {m} /\ lost' = [c \in Losses |-> lost[c] \ {m}]
    BY <1>1, <2>1 DEF ResolvedExecute, XAdd
  <2>3. QED
    BY <1>1, <2>2 DEF Word, Words, TrackerStep, TrackerNext
<1>2. CASE NewExecute /\ XAdd("new_market", newcomer.now)
  <2>1. PICK m \in Markets : newcomer.now = {m}
    BY <1>2 DEF NewExecute, TellingInv
  <2>2. /\ stream' = Append(stream, Word("new_market", m))
        /\ told' = told \cup {m} /\ lost' = [c \in Losses |-> lost[c] \ {m}]
    BY <1>2, <2>1 DEF NewExecute, XAdd
  <2>3. QED
    BY <1>2, <2>2 DEF Word, Words, TrackerStep, TrackerNext
<1>3. CASE TrackerQuiet /\ UNCHANGED <<stream, lost>>
  <2>1. UNCHANGED told
    <3>1. CASE \E m \in Markets : Open(m) \/ Close(m) \/ Age(m)
      BY <3>1 DEF Open, Close, Age
    <3>2. CASE Load \/ Begin \/ TrackerEnds
      BY <3>2 DEF Load, Begin, TrackerEnds
    <3>3. CASE \/ ResolvedFetch \/ ResolvedAnswer \/ ResolvedSave
               \/ ResolvedFail \/ ResolvedSaveFail
      BY <3>3 DEF ResolvedFetch, ResolvedAnswer, ResolvedSave, ResolvedFail, ResolvedSaveFail
    <3>4. CASE \/ NewPage \/ NewLastPage \/ NewFetchFail \/ NewProcess \/ NewAnswer
               \/ NewSave \/ NewFail \/ NewSaveFail
      BY <3>4 DEF NewPage, NewLastPage, NewFetchFail, NewProcess, NewAnswer, NewSave, NewFail,
                  NewSaveFail
    <3>5. QED
      BY <1>3, <3>1, <3>2, <3>3, <3>4 DEF TrackerQuiet, TrackerFault
  <2>2. QED
    BY <1>3, <2>1 DEF TrackerStep, TrackerNext
<1>4. QED
  BY <1>1, <1>2, <1>3 DEF TrackerStep

LEMMA FollowTracker ==
    ASSUME TellingInv, ReadingInv, AgreeInv, FollowInv, TrackerStep
    PROVE  ReadingInv' /\ AgreeInv' /\ FollowInv'
<1>1. UNCHANGED <<pool, listener, pendingDone, pending, next, left>>
  BY TrackerTells DEF collectorVars
<1>2. CASE UNCHANGED <<stream, lost, told>>
  BY <1>1, <1>2 DEF ReadingInv, AgreeInv, FollowInv, Unread, Lost
<1>3. ASSUME NEW w \in Words, stream' = Append(stream, w),
             told' = IF w.type = "new_market" THEN told \cup {w.market}
                                              ELSE told \ {w.market},
             lost' = [c \in Losses |-> lost[c] \ {w.market}]
      PROVE  ReadingInv' /\ AgreeInv' /\ FollowInv'
  <2>1. ReadingInv'
    BY <1>1, <1>3 DEF ReadingInv
  <2>2. /\ Unread \in Seq(Words) /\ Unread' = Append(Unread, w)
        /\ next \in 1..(Len(Unread) + 1)
        /\ listener = "acking" => next + 1 \in 1..(Len(Unread) + 1)
    BY <1>1, <1>3 DEF ReadingInv, Unread
  <2>3. \A set, m : After(Unread', next, set, m) <=>
               IF w.market = m THEN w.type = "new_market" ELSE After(Unread, next, set, m)
    BY <2>2, AfterAppend
  <2>4. listener = "acking" => \A set, m : After(Unread', next + 1, set, m) <=>
               IF w.market = m THEN w.type = "new_market" ELSE After(Unread, next + 1, set, m)
    BY <2>2, AfterAppend
  <2>5. Lost' = Lost \ {w.market}
    BY <1>3 DEF Lost, Losses
  <2>6. lost'["replayed"] = lost["replayed"] \ {w.market}
        /\ lost'["skipped"] = lost["skipped"] \ {w.market}
    BY <1>3 DEF Losses
  <2>7. AgreeInv'
    BY <1>1, <1>3, <2>3, <2>6 DEF AgreeInv
  <2>8. FollowInv'
    BY <1>1, <1>3, <2>3, <2>4, <2>5 DEF FollowInv
  <2>9. QED
    BY <2>1, <2>7, <2>8
<1>4. QED
  BY <1>2, <1>3, TrackerTells

\* What a loss changes.
LEMMA LoseIs ==
    ASSUME lost \in [Losses -> SUBSET Markets], NEW cause \in Losses,
           NEW set \in SUBSET Markets, Lose(cause, set)
    PROVE  /\ lost' \in [Losses -> SUBSET Markets]
           /\ lost'[cause] = lost[cause] \cup set
           /\ \A c \in Losses \ {cause} : lost'[c] = lost[c]
           /\ Lost' = Lost \cup set
  BY DEF Lose, Lost

\* Nothing, or the last of some entries, is about a market.
LEMMA AfterSilent ==
    ASSUME NEW u \in Seq(Words), NEW m \in Markets, NEW set
    PROVE  /\ (\A k \in 1..Len(u) : u[k].market # m) => (After(u, 1, set, m) <=> m \in set)
           /\ ~(\A k \in 1..Len(u) : u[k].market # m) =>
                 (After(u, 1, set, m) <=> After(u, 1, {}, m))
                 /\ (After(u, 1, set, m) <=> After(u, 1, Markets, m))
  BY DEF After

\* The collector starts.
LEMMA FollowPreload ==
    ASSUME ReadingInv, AgreeInv, told \subseteq Markets, NEW loaded \in SUBSET Markets,
           Preload(loaded), UNCHANGED told
    PROVE  ReadingInv' /\ AgreeInv' /\ FollowInv'
<1>1. /\ listener = "down" /\ listener' = "starting" /\ pool' = loaded
      /\ UNCHANGED <<stream, told, pendingDone, pending, next, left>> /\ Unread' = Unread
      /\ next = 1 /\ Unread \in Seq(Words)
  BY DEF Preload, ReadingInv, Unread
<1> DEFINE stale == {m \in SymDiff(loaded, told) : Silent(m)}
<1>2. /\ stale \subseteq Markets
      /\ lost' = [lost EXCEPT !["stale"] = stale, !["undone"] = {}]
  BY DEF Preload, SymDiff
<1>3. \A m \in Markets : m \in stale <=> Silent(m) /\ ~(m \in loaded <=> m \in told)
  BY DEF SymDiff
<1> HIDE DEF stale
<1>4. /\ lost' \in [Losses -> SUBSET Markets]
      /\ lost'["replayed"] = lost["replayed"] /\ lost'["skipped"] = lost["skipped"]
      /\ Lost' = stale \cup lost["replayed"] \cup lost["skipped"]
  BY <1>2 DEF ReadingInv, Losses, Lost
<1>5. ReadingInv'
  BY <1>1, <1>4 DEF ReadingInv
<1>6. AgreeInv'
  BY <1>1, <1>4 DEF AgreeInv
<1>7. ASSUME NEW m \in Markets \ Lost'
      PROVE  After(Unread, 1, loaded, m) <=> m \in told
  <2>1. /\ m \in Markets /\ m \notin stale
        /\ After(Unread, 1, {}, m) => m \in told
        /\ m \in told => After(Unread, 1, Markets, m)
    BY <1>1, <1>4, <1>7 DEF AgreeInv
  <2>2. CASE Silent(m)
    BY <1>1, <1>3, <2>1, <2>2, AfterSilent DEF Silent
  <2>3. CASE ~Silent(m)
    BY <1>1, <2>1, <2>3, AfterSilent DEF Silent
  <2>4. QED
    BY <2>2, <2>3
<1>8. FollowInv'
  BY <1>1, <1>7 DEF FollowInv
<1>9. QED
  BY <1>5, <1>6, <1>8

LEMMA FollowStart ==
    ASSUME ReadingInv, AgreeInv, FollowInv, cache \subseteq Markets, told \subseteq Markets,
           PreloadCache \/ PreloadNothing \/ PreloadGamma \/ Listen \/ ListenSkipping
    PROVE  ReadingInv' /\ AgreeInv' /\ FollowInv'
<1>1. CASE PreloadCache \/ PreloadNothing \/ PreloadGamma
  <2>1. \E loaded \in SUBSET Markets : Preload(loaded) /\ UNCHANGED told
    BY <1>1 DEF PreloadCache, PreloadNothing, PreloadGamma, ActiveOnGamma, CollectorFault,
                trackerVars
  <2>2. QED
    BY <2>1, FollowPreload
<1>2. CASE Listen
  BY <1>2 DEF Listen, trackerVars, ReadingInv, AgreeInv, FollowInv, Unread, Lost
<1>3. CASE ListenSkipping
  <2> DEFINE skipped == {stream[k].market : k \in 1..Len(stream)}
  <2>1. /\ listener = "starting" /\ listener' = "reading" /\ stream' = <<>>
        /\ Lose("skipped", skipped)
        /\ UNCHANGED <<told, pool, pendingDone, pending, next, left>>
    BY <1>3 DEF ListenSkipping, trackerVars
  <2>2. /\ pending \in Seq(Words) /\ stream \in Seq(Words) /\ next = 1
        /\ Unread' = pending
    BY <2>1 DEF ReadingInv, Unread
  <2>3. skipped \in SUBSET Markets
    <3>1. \A k \in 1..Len(stream) : stream[k] \in Words
      BY <2>2
    <3>2. QED
      BY <3>1 DEF Words
  <2>4. ASSUME NEW set, NEW m \in Markets \ skipped
        PROVE  After(Unread', next, set, m) <=> After(Unread, next, set, m)
    <3>1. {k \in next..Len(Unread') : Unread'[k].market = m} =
          {k \in next..Len(Unread) : Unread[k].market = m}
      BY <2>1, <2>2, <2>4 DEF Unread
    <3>2. \A k \in next..Len(Unread') : Unread'[k] = Unread[k]
      BY <2>2 DEF Unread
    <3>3. QED
      BY <3>1, <3>2 DEF After
  <2> HIDE DEF skipped
  <2>5. /\ lost' \in [Losses -> SUBSET Markets] /\ Lost' = Lost \cup skipped
        /\ lost'["skipped"] = lost["skipped"] \cup skipped
        /\ lost'["replayed"] = lost["replayed"]
    BY <2>1, <2>3, LoseIs DEF ReadingInv, Losses
  <2>6. ReadingInv'
    BY <2>1, <2>5 DEF ReadingInv
  <2>7. AgreeInv'
    BY <2>1, <2>4, <2>5 DEF AgreeInv
  <2>8. FollowInv'
    BY <2>1, <2>4, <2>5 DEF FollowInv
  <2>9. QED
    BY <2>6, <2>7, <2>8
<1>4. QED
  BY <1>1, <1>2, <1>3

\* A reply is as long as what is asked for, up to ReadCount.
LEMMA ReplySize ==
    ASSUME NEW n \in Nat
    PROVE  Reply(n) \in 0..n /\ (Reply(n) = 0 => n = 0)
<1>1. Reply(n) \in {ReadCount, n} /\ \A k \in {ReadCount, n} : Reply(n) <= k
  <2>1. \E x \in {ReadCount, n} : \A k \in {ReadCount, n} : x <= k
    BY CatalogueAssumption
  <2>2. QED
    BY <2>1 DEF Reply, Min
<1>2. QED
  BY <1>1, CatalogueAssumption

\* The listener reads.
LEMMA FollowRead ==
    ASSUME ReadingInv, AgreeInv, FollowInv, ReadPending \/ ReadNew
    PROVE  ReadingInv' /\ AgreeInv' /\ FollowInv'
<1>1. CASE ReadPending
  <2>1. UNCHANGED <<stream, told, lost, pool, listener, pending, next>>
    BY <1>1 DEF ReadPending, trackerVars
  <2>2. /\ left' \in 0..(Len(pending) - next + 1)
        /\ left' = 0 => next = Len(pending) + 1
    <3>1. Len(pending) - next + 1 \in Nat /\ next \in Nat /\ Len(pending) \in Nat
      BY DEF ReadingInv
    <3>2. left' = Reply(Len(pending) - next + 1)
      BY <1>1 DEF ReadPending
    <3>3. QED
      BY <3>1, <3>2, ReplySize
  <2>3. /\ listener = "reading" /\ ~pendingDone
        /\ pendingDone' => left' = 0
    BY <1>1 DEF ReadPending
  <2>4. ReadingInv'
    BY <2>1, <2>2, <2>3 DEF ReadingInv
  <2>5. QED
    BY <2>1, <2>3, <2>4 DEF AgreeInv, FollowInv, Unread, Lost
<1>2. CASE ReadNew
  <2>1. UNCHANGED <<told, lost, pool, listener, pendingDone>> /\ listener = "reading"
    BY <1>2 DEF ReadNew, trackerVars
  <2>2. /\ pending \in Seq(Words) /\ stream \in Seq(Words)
        /\ pendingDone /\ next = Len(pending) + 1 /\ next' = next
        /\ left' \in 0..Len(stream)
        /\ pending' = pending \o SubSeq(stream, 1, left')
        /\ stream' = SubSeq(stream, left' + 1, Len(stream))
    BY <1>2, ReplySize DEF ReadNew, ReadingInv
  <2>3. /\ stream' \in Seq(Words)
        /\ pending' \in Seq(Words) /\ Len(pending') = Len(pending) + left'
        /\ Unread' = Unread
    BY <2>2, Delivered DEF Unread
  <2>4. /\ next' \in 1..(Len(pending') + 1) /\ left' \in 0..(Len(pending') - next' + 1)
        /\ next' + left' = Len(pending') + 1
    <3>1. Len(pending) \in Nat /\ left' \in Nat /\ next' = Len(pending) + 1
      BY <2>2
    <3>2. Len(pending') = Len(pending) + left'
      BY <2>3
    <3>3. QED
      BY ONLY <3>1, <3>2
  <2>5. ReadingInv'
    BY <2>1, <2>3, <2>4 DEF ReadingInv
  <2>6. QED
    BY <2>1, <2>2, <2>3, <2>5 DEF AgreeInv, FollowInv, Lost
<1>3. QED
  BY <1>1, <1>2

\* The listener dispatches the next entry, or fails to.
LEMMA FollowDispatch ==
    ASSUME ReadingInv, AgreeInv, FollowInv, Dispatch \/ DispatchFail
    PROVE  ReadingInv' /\ AgreeInv' /\ FollowInv'
<1>1. /\ listener = "reading" /\ listener' = "acking" /\ left > 0
      /\ UNCHANGED <<stream, told, pendingDone, pending, next, left>> /\ Unread' = Unread
  BY DEF Dispatch, DispatchFail, trackerVars, CollectorFault, Unread
<1>2. /\ next \in 1..Len(pending) /\ pending[next] \in Words
      /\ Unread \in Seq(Words) /\ next \in 1..Len(Unread) /\ Unread[next] = pending[next]
  BY <1>1 DEF ReadingInv, Unread
<1>3. pool' \subseteq Markets
  BY <1>2 DEF Dispatch, DispatchFail, ReadingInv, Words
<1>4. CASE Dispatch
  <2>1. /\ pool' = IF Unread[next].type = "new_market" THEN pool \cup {Unread[next].market}
                                                      ELSE pool \ {Unread[next].market}
        /\ lost' = lost /\ Lost' = Lost
    BY <1>2, <1>4 DEF Dispatch, Lost
  <2>2. \A m : After(Unread, next, pool', m) <=> After(Unread, next, pool, m)
    BY <1>2, <2>1, AfterApplied
  <2>3. ASSUME NEW m \in Markets
        PROVE  After(Unread, next + 1, pool', m) <=> After(Unread, next, pool', m)
    <3>1. Unread[next].market = m => (m \in pool' <=> Unread[next].type = "new_market")
      BY <2>1
    <3>2. QED
      BY <1>2, <3>1, AfterPassed
  <2>4. QED
    BY <1>1, <1>3, <2>1, <2>2, <2>3 DEF ReadingInv, AgreeInv, FollowInv
<1>5. CASE DispatchFail
  <2>1. pool' = pool /\ Lose("undone", {pending[next].market})
    BY <1>5 DEF DispatchFail
  <2>2. /\ lost' \in [Losses -> SUBSET Markets] /\ Lost' = Lost \cup {pending[next].market}
        /\ lost'["replayed"] = lost["replayed"] /\ lost'["skipped"] = lost["skipped"]
    BY <1>2, <2>1, LoseIs DEF ReadingInv, Words, Losses
  <2>3. ASSUME NEW m \in Markets \ Lost'
        PROVE  After(Unread, next + 1, pool, m) <=> After(Unread, next, pool, m)
    BY <1>2, <2>2, <2>3, AfterPassed
  <2>4. ReadingInv' /\ AgreeInv'
    BY <1>1, <1>3, <2>2 DEF ReadingInv, AgreeInv
  <2>5. FollowInv'
    BY <1>1, <2>1, <2>2, <2>3 DEF FollowInv
  <2>6. QED
    BY <2>4, <2>5
<1>6. QED
  BY <1>4, <1>5

\* The listener acknowledges it, or fails to.
LEMMA FollowAck ==
    ASSUME ReadingInv, AgreeInv, FollowInv, Ack \/ AckFail
    PROVE  ReadingInv' /\ AgreeInv' /\ FollowInv'
<1>1. /\ listener = "acking" /\ listener' = "reading" /\ left' = left - 1 /\ left > 0
      /\ UNCHANGED <<stream, told, lost, pool, pendingDone>> /\ Lost' = Lost
  BY DEF Ack, AckFail, trackerVars, CollectorFault, ReadingInv, Lost
<1>2. /\ pending \in Seq(Words) /\ stream \in Seq(Words) /\ next \in 1..Len(pending)
      /\ Unread \in Seq(Words) /\ next \in 1..Len(Unread) /\ Unread[next] = pending[next]
  BY <1>1 DEF ReadingInv, Unread
<1>3. \A m \in Markets \ Lost : After(Unread, next + 1, pool, m) <=> m \in told
  BY <1>1 DEF FollowInv
<1>4. \A m \in Markets \ (lost["replayed"] \cup lost["skipped"]) :
          /\ After(Unread, next + 1, {}, m) => m \in told
          /\ m \in told => After(Unread, next + 1, Markets, m)
  BY <1>2, AfterPassedBy DEF AgreeInv
<1>5. CASE Ack
  <2>1. pending' = RemoveAt(pending, next) /\ next' = next
    BY <1>5 DEF Ack
  <2>2. /\ pending' \in Seq(Words) /\ Len(pending') = Len(pending) - 1
        /\ Unread' \in Seq(Words) /\ Len(Unread') = Len(Unread) - 1
        /\ \A k \in next..Len(Unread') : Unread'[k] = Unread[k + 1]
    BY <1>1, <1>2, <2>1, Removed DEF Unread
  <2>3. ReadingInv'
    BY <1>1, <2>1, <2>2 DEF ReadingInv
  <2>4. \A set, m : After(Unread', next, set, m) <=> After(Unread, next + 1, set, m)
    BY <1>2, <2>2, AfterRemoved
  <2>5. QED
    BY <1>1, <1>3, <1>4, <2>1, <2>3, <2>4 DEF AgreeInv, FollowInv
<1>6. CASE AckFail
  <2>1. pending' = pending /\ next' = next + 1
    BY <1>6 DEF AckFail
  <2>2. /\ next' \in 1..(Len(pending') + 1) /\ left' \in 0..(Len(pending') - next' + 1)
        /\ next + left = Len(pending) + 1 => next' + left' = Len(pending') + 1
    <3>1. left \in 0..(Len(pending) - next + 1)
      BY DEF ReadingInv
    <3>2. QED
      BY <1>1, <1>2, <2>1, <3>1
  <2>3. ReadingInv'
    BY <1>1, <2>1, <2>2 DEF ReadingInv
  <2>4. QED
    BY <1>1, <1>3, <1>4, <2>1, <2>3 DEF AgreeInv, FollowInv, Unread
<1>7. QED
  BY <1>5, <1>6

\* The collector ends; what it could not acknowledge is ahead of it again.
LEMMA FollowEnd ==
    ASSUME ReadingInv, AgreeInv, CollectorEnds
    PROVE  ReadingInv' /\ AgreeInv' /\ FollowInv'
<1> DEFINE again == {pending[k].market : k \in 1..(next - 1)}
<1>1. /\ listener' = "down" /\ pool' = {} /\ ~pendingDone' /\ next' = 1 /\ left' = 0
      /\ Lose("replayed", again) /\ UNCHANGED <<stream, pending, told>> /\ Unread' = Unread
  BY DEF CollectorEnds, CollectorFault, Unread
<1>2. /\ pending \in Seq(Words) /\ stream \in Seq(Words) /\ next \in 1..(Len(pending) + 1)
      /\ Unread \in Seq(Words) /\ next \in 1..(Len(Unread) + 1)
      /\ \A k \in 1..(next - 1) : pending[k] \in Words /\ Unread[k] = pending[k]
  BY DEF ReadingInv, Unread
<1>3. again \in SUBSET Markets
  BY <1>2 DEF Words
<1>4. ASSUME NEW set, NEW m \in Markets \ again
      PROVE  After(Unread, 1, set, m) <=> After(Unread, next, set, m)
  <2>1. {k \in 1..Len(Unread) : Unread[k].market = m} =
        {k \in next..Len(Unread) : Unread[k].market = m}
    BY <1>2, <1>4
  <2>2. QED
    BY <2>1 DEF After
<1> HIDE DEF again
<1>5. /\ lost' \in [Losses -> SUBSET Markets]
      /\ lost'["replayed"] = lost["replayed"] \cup again /\ lost'["skipped"] = lost["skipped"]
  BY <1>1, <1>3, LoseIs DEF ReadingInv, Losses
<1>6. AgreeInv'
  BY <1>1, <1>4, <1>5 DEF AgreeInv
<1>7. QED
  BY <1>1, <1>5, <1>6 DEF ReadingInv, FollowInv

-----------------------------------------------------------------------------
CatalogueInv == TellingInv /\ ReadingInv /\ AgreeInv /\ FollowInv

\* What a step of the collector leaves alone.
LEMMA CollectorSteps ==
    ASSUME Next, ~TrackerStep
    PROVE  UNCHANGED <<gamma, start, cache, phase, active, watermark, resolver, newcomer,
                       told, missed>>
<1>1. CASE PreloadCache \/ PreloadNothing \/ PreloadGamma \/ Listen \/ ListenSkipping
  BY <1>1 DEF PreloadCache, PreloadNothing, PreloadGamma, Listen, ListenSkipping,
              CollectorFault, trackerVars
<1>2. CASE ListenerStep
  BY <1>2 DEF ListenerStep, ReadPending, ReadNew, Dispatch, Ack, trackerVars
<1>3. CASE ReadFail \/ DispatchFail \/ AckFail \/ CollectorEnds
  BY <1>3 DEF ReadFail, DispatchFail, AckFail, CollectorEnds, CollectorFault
<1>4. QED
  BY <1>1, <1>2, <1>3 DEF Next

\* CatalogueInv is an invariant: the tracker has told the stream what it dropped,
\* the pending entries and the unread ones are what the consumer group has not
\* acknowledged, they say in the end what the stream says, and the pool follows them,
\* but for the markets of Lost (run.py:267, stream.rs:68-108).
THEOREM CatalogueInvariant == Spec => []CatalogueInv
<1>1. Init => CatalogueInv
  <2>1. ASSUME Init PROVE TellingInv
    BY <2>1, TellingInit DEF Init
  <2>2. ASSUME Init PROVE ReadingInv /\ FollowInv
    BY <2>2 DEF Init, TrackerInit, ReadingInv, FollowInv
  <2>3. ASSUME Init PROVE AgreeInv
    <3>1. Unread = <<>> /\ next = 1
      BY <2>3 DEF Init, Unread
    <3>2. QED
      BY <3>1 DEF AgreeInv, After
  <2>4. QED
    BY <2>1, <2>2, <2>3 DEF CatalogueInv
<1>2. CatalogueInv /\ [Next]_vars => CatalogueInv'
  <2> SUFFICES ASSUME CatalogueInv, [Next]_vars
               PROVE  CatalogueInv'
    OBVIOUS
  <2> USE DEF CatalogueInv
  <2>1. CASE TrackerStep
    BY <2>1, TrackerTells, TellingStep, FollowTracker
  <2>2. CASE Next /\ ~TrackerStep
    <3>1. TellingInv'
      BY <2>2, CollectorSteps, TellingStays DEF TellingInv
    <3>2. CASE PreloadCache \/ PreloadNothing \/ PreloadGamma \/ Listen \/ ListenSkipping
      BY <3>1, <3>2, FollowStart DEF TellingInv
    <3>3. CASE ReadPending \/ ReadNew
      BY <3>1, <3>3, FollowRead
    <3>4. CASE Dispatch \/ DispatchFail
      BY <3>1, <3>4, FollowDispatch
    <3>5. CASE Ack \/ AckFail
      BY <3>1, <3>5, FollowAck
    <3>6. CASE ReadFail
      BY <3>1, <3>6 DEF ReadFail, CollectorFault, ReadingInv, AgreeInv, FollowInv, Unread, Lost
    <3>7. CASE CollectorEnds
      BY <3>1, <3>7, FollowEnd
    <3>8. QED
      BY <2>2, <3>2, <3>3, <3>4, <3>5, <3>6, <3>7 DEF Next, ListenerStep
  <2>3. CASE UNCHANGED vars
    BY <2>3, TellingStays DEF vars, trackerVars, collectorVars, TellingInv, ReadingInv,
                              AgreeInv, FollowInv, Unread, Lost
  <2>4. QED
    BY <2>1, <2>2, <2>3
<1>3. QED
  BY <1>1, <1>2, PTL DEF Spec

\* A listener that has read everything has a pool that says what the stream says,
\* whenever the collector ended between delivery, dispatch and acknowledgement and
\* whatever it preloads, but for the four causes of Losses: a preload that says
\* something else where the stream has nothing unread, a dispatch that failed, an entry
\* that was not acknowledged, passed over and comes again after a restart, and a
\* skipped backlog (stream.rs:68-108).
THEOREM PoolEndsUpAsToldTo == Spec => []PoolFollowsStream
<1>1. CatalogueInv => PoolFollowsStream
  <2>1. SUFFICES ASSUME CatalogueInv, CaughtUp, NEW m \in SymDiff(pool, told)
                 PROVE  m \in Lost
    BY DEF PoolFollowsStream
  <2>2. next = Len(pending) + 1 /\ pending \in Seq(Words) /\ Unread = pending
    BY <2>1 DEF CatalogueInv, ReadingInv, CaughtUp, Unread
  <2>3. After(Unread, next, pool, m) <=> m \in pool
    BY <2>2 DEF After
  <2>4. QED
    BY <2>1, <2>3 DEF CatalogueInv, TellingInv, ReadingInv, FollowInv, CaughtUp, SymDiff
<1>2. QED
  BY <1>1, CatalogueInvariant, PTL

-----------------------------------------------------------------------------
(* The greatest of some numbers *)

LEMMA GreatestNumber ==
    ASSUME NEW n \in Nat, NEW T \in SUBSET (0..n), T # {}
    PROVE  \E x \in T : \A y \in T : x >= y
<1> DEFINE R == OpToRel(<, Nat)
           U == {n - x : x \in T}
<1>1. IsWellFoundedOn(R, Nat)
  BY NatLessThanWellFounded
<1>2. \A x, y \in Nat : <<y, x>> \in R <=> y < x
  BY DEF OpToRel
<1> HIDE DEF R
<1>3. U \subseteq Nat /\ U # {}
  <2>1. \A x \in T : n - x \in Nat
    OBVIOUS
  <2>2. QED
    BY <2>1
<1> HIDE DEF U
<1>4. \E k \in U : \A j \in U : ~(<<j, k>> \in R)
  BY <1>1, <1>3, WFMin
<1>5. PICK k \in U : \A j \in U : ~(<<j, k>> \in R)
  BY <1>4
<1>6. \A j \in U : ~(j < k)
  BY <1>2, <1>3, <1>5
<1>7. PICK x \in T : k = n - x
  BY DEF U
<1>8. \A y \in T : n - y \in U
  BY DEF U
<1>9. \A y \in T : x >= y
  BY <1>6, <1>7, <1>8
<1>10. QED
  BY <1>9

LEMMA MaxIs ==
    ASSUME NEW n \in Nat, NEW T \in SUBSET (0..n), T # {}
    PROVE  Max(T) \in T /\ \A y \in T : Max(T) >= y
<1>1. \E x \in T : \A y \in T : x >= y
  BY GreatestNumber
<1>2. QED
  BY <1>1 DEF Max

LEMMA MaxOfTwo ==
    ASSUME NEW a \in Nat, NEW b \in Nat
    PROVE  Max({a, b}) \in {a, b} /\ Max({a, b}) >= a /\ Max({a, b}) >= b
<1>1. \E x \in {a, b} : \A y \in {a, b} : x >= y
  OBVIOUS
<1>2. Max({a, b}) \in {a, b} /\ \A y \in {a, b} : Max({a, b}) >= y
  BY <1>1 DEF Max
<1>3. QED
  BY <1>2

\* The latest of the start dates f of a set of markets.
Latest(f, S) == Max({f[m] : m \in S} \cup {0})

LEMMA LatestIs ==
    ASSUME NEW f \in [Markets -> 0..MaxStart], NEW S \in SUBSET Markets
    PROVE  /\ Latest(f, S) \in 0..MaxStart /\ \A m \in S : f[m] <= Latest(f, S)
           /\ Latest(f, S) = 0 \/ \E m \in S : Latest(f, S) = f[m]
<1> DEFINE T == {f[m] : m \in S} \cup {0}
<1>1. T \in SUBSET (0..MaxStart) /\ T # {} /\ MaxStart \in Nat
  BY MarketTrackerAssumption
<1>2. Max(T) \in T /\ \A y \in T : Max(T) >= y
  BY <1>1, MaxIs
<1>3. Latest(f, S) = Max(T)
  BY DEF Latest
<1>4. Max(T) = 0 \/ \E m \in S : Max(T) = f[m]
  BY <1>2
<1>5. \A m \in S : f[m] <= Max(T)
  BY <1>1, <1>2
<1>6. QED
  BY <1>1, <1>2, <1>3, <1>4, <1>5

-----------------------------------------------------------------------------
(* The watermark *)

Gone(m) == gamma[m] \in {"closed", "old"}

\* The pollers work on what they have been told: the one on markets that are gone,
\* the other on markets that have been there.
PollersInv ==
    /\ phase # "running" => resolver = Asleep /\ newcomer = Asleep
    /\ \A m \in Markets : gamma[m] = "unborn" => m \notin told /\ m \notin active
    /\ \A m \in Markets : gamma[m] = "old" => m \in missed["aged"]
    /\ \A m \in resolver.now \cup resolver.todo : Gone(m)
    /\ \A m \in newcomer.now \cup newcomer.todo : gamma[m] # "unborn"

\* What is active and was not passed over is announced when it is in the dictionary;
\* otherwise it is not older than the watermark, nor, unless it is in the answer being
\* worked on, than the newest market of that answer.
Working == newcomer.pc \in {"fetched", "publishing", "published"}
WatermarkInv ==
    phase # "down" => \A m \in ActiveOnGamma \ Missed(NeverTold) :
        /\ m \in active => m \in told \/ (newcomer.pc = "publishing" /\ m \in newcomer.now)
        /\ m \notin active =>
              /\ start[m] >= watermark
              /\ Working => m \in newcomer.todo \/ start[m] >= newcomer.max

GammaInv == PollersInv /\ WatermarkInv

-----------------------------------------------------------------------------
(* Types of the tracker *)

LEMMA NewestIsLatest == \A S : Newest(S) = Latest(start, S)
  BY DEF Newest, Latest

LEMMA PollerTypes ==
    /\ Asleep \in PollerType
    /\ \A m \in Markets, rest \in SUBSET Markets, max \in Nat :
           Publishing(m, rest, max) \in PollerType
    /\ \A set \in SUBSET Markets : Saving(set) \in PollerType
  BY DEF Asleep, Publishing, Saving, PollerType

LEMMA PollerFields ==
    /\ Asleep.pc = "fetch" /\ Asleep.now = {} /\ Asleep.todo = {} /\ Asleep.max = 0
    /\ \A m, rest, max :
          LET p == Publishing(m, rest, max)
          IN  p.pc = "publishing" /\ p.now = {m} /\ p.todo = rest /\ p.max = max
    /\ \A set : LET p == Saving(set)
                IN  p.pc = "saving" /\ p.now = {} /\ p.todo = {} /\ p.max = 0
  BY DEF Asleep, Publishing, Saving

LEMMA ResolverTypes ==
    ASSUME NEW todo \in SUBSET Markets, NEW act \in SUBSET Markets, ResolverGoesOn(todo, act)
    PROVE  resolver' \in PollerType
<1>1. CASE \E m \in todo \cap act : resolver' = Publishing(m, todo \ {m}, 0)
  BY <1>1, PollerTypes
<1>2. CASE resolver' = Saving(act)
  BY <1>2, PollerTypes
<1>3. QED
  BY <1>1, <1>2 DEF ResolverGoesOn

LEMMA NewcomerTypes ==
    ASSUME TrackerTypeOK, NEW todo \in SUBSET Markets, NewcomerGoesOn(todo)
    PROVE  newcomer' \in PollerType /\ active' \subseteq Markets /\ watermark' \in Nat
<1>1. newcomer.max \in Nat /\ watermark \in Nat /\ active \subseteq Markets
  BY DEF TrackerTypeOK, PollerType
<1>2. CASE \E m \in todo \ active :
              /\ active' = active \cup {m}
              /\ newcomer' = Publishing(m, todo \ {m}, newcomer.max)
              /\ UNCHANGED watermark
  BY <1>1, <1>2, PollerTypes
<1>3. CASE /\ watermark' = Max({watermark, newcomer.max})
           /\ newcomer' = IF newcomer.added THEN Saving(active) ELSE Asleep
           /\ UNCHANGED active
  <2>1. watermark' \in Nat
    BY <1>1, <1>3, MaxOfTwo
  <2>2. newcomer' \in PollerType
    BY <1>1, <1>3, PollerTypes
  <2>3. QED
    BY <1>1, <1>3, <2>1, <2>2
<1>4. QED
  BY <1>2, <1>3 DEF NewcomerGoesOn

\* The next page of an answer.
LEMMA PageTypes ==
    ASSUME TrackerTypeOK, NewPage
    PROVE  /\ newcomer' \in PollerType /\ newcomer'.pc = "paging"
           /\ newcomer'.now = newcomer.now
           /\ newcomer'.todo \subseteq newcomer.todo \cup ActiveOnGamma
<1> DEFINE page == Page(newcomer.offset)
<1>1. page \in SUBSET ActiveOnGamma /\ page \in SUBSET Markets
  BY DEF Page, Matching, ActiveOnGamma
<1>2. newcomer' = [newcomer EXCEPT !.pc = "paging", !.todo = newcomer.todo \cup page,
                       !.offset = newcomer.offset + Cardinality(page),
                       !.max = Max({newcomer.max, Newest(page)})]
  BY DEF NewPage
<1> HIDE DEF page
<1>3. Cardinality(page) \in Nat
  BY <1>1, MarketTrackerAssumption, FS_Subset, FS_CardinalityType
<1>4. newcomer \in PollerType /\ newcomer.max \in Nat /\ newcomer.offset \in Nat
  BY DEF TrackerTypeOK, PollerType
<1>5. Newest(page) \in Nat
  BY <1>1, NewestIsLatest, LatestIs DEF TrackerTypeOK
<1>6. Max({newcomer.max, Newest(page)}) \in Nat /\ newcomer.offset + Cardinality(page) \in Nat
  BY <1>3, <1>4, <1>5, MaxOfTwo
<1>7. QED
  BY <1>1, <1>2, <1>4, <1>6 DEF PollerType

LEMMA TrackerTypeStep ==
    ASSUME TrackerTypeOK, TellingInv', [TrackerNext]_trackerVars
    PROVE  TrackerTypeOK'
<1>0. cache' \subseteq Markets /\ active' \subseteq Markets /\ told' \subseteq Markets
      /\ missed' \in [Causes -> SUBSET Markets]
  BY DEF TellingInv
<1>1. Fault => faults' \in 0..MaxFaults
  BY MarketTrackerAssumption DEF Fault, TrackerTypeOK
<1> DEFINE Rest == /\ gamma' \in [Markets -> {"unborn", "active", "closed", "old"}]
                   /\ start' \in [Markets -> 0..MaxStart]
                   /\ phase' \in {"down", "loaded", "running"}
                   /\ watermark' \in Nat /\ faults' \in 0..MaxFaults
                   /\ resolver' \in PollerType /\ newcomer' \in PollerType
<1> SUFFICES Rest
  BY <1>0 DEF TrackerTypeOK
<1> USE DEF TrackerTypeOK
<1>2. CASE \E m \in Markets : Open(m) \/ Close(m) \/ Age(m)
  BY <1>1, <1>2 DEF Open, Close, Age
<1>3. CASE Load
  <2>1. ActiveOnGamma \in SUBSET Markets
    BY DEF ActiveOnGamma
  <2>2. watermark' \in Nat
    BY <1>3, <2>1, NewestIsLatest, LatestIs DEF Load
  <2>3. QED
    BY <1>3, <2>2 DEF Load
<1>4. CASE Begin \/ TrackerEnds
  BY <1>1, <1>4, PollerTypes DEF Begin, TrackerEnds
<1>5. CASE ResolvedFetch
  <2>1. resolver' \in PollerType
    BY <1>5, ResolverTypes DEF ResolvedFetch
  <2>2. QED
    BY <1>5, <2>1 DEF ResolvedFetch
<1>6. CASE ResolvedExecute \/ NewExecute
  BY <1>6 DEF ResolvedExecute, NewExecute, PollerType
<1>7. CASE ResolvedAnswer
  <2>1. resolver.todo \in SUBSET Markets /\ active' \in SUBSET Markets
    BY <1>7 DEF ResolvedAnswer, PollerType
  <2>2. resolver' \in PollerType
    BY <1>7, <2>1, ResolverTypes DEF ResolvedAnswer
  <2>3. QED
    BY <1>7, <2>2 DEF ResolvedAnswer
<1>8. CASE ResolvedSave \/ NewSave
  BY <1>8, PollerTypes DEF ResolvedSave, NewSave
<1>9. CASE ResolvedFail \/ ResolvedSaveFail \/ NewFail \/ NewSaveFail \/ NewFetchFail
  BY <1>1, <1>9, PollerTypes DEF ResolvedFail, ResolvedSaveFail, NewFail, NewSaveFail, NewFetchFail
<1>10. CASE NewPage
  BY <1>10, PageTypes DEF NewPage
<1>11. CASE NewLastPage
  BY <1>11 DEF NewLastPage, PollerType
<1>12. CASE NewProcess \/ NewAnswer
  <2>1. NewcomerGoesOn(newcomer.todo) /\ newcomer.todo \in SUBSET Markets
    BY <1>12 DEF NewProcess, NewAnswer, PollerType
  <2>2. newcomer' \in PollerType /\ watermark' \in Nat
    BY <2>1, NewcomerTypes
  <2>3. QED
    BY <1>12, <2>2 DEF NewProcess, NewAnswer
<1>13. CASE UNCHANGED trackerVars
  BY <1>13 DEF trackerVars
<1>14. QED
  BY <1>2, <1>3, <1>4, <1>5, <1>6, <1>7, <1>8, <1>9, <1>10, <1>11, <1>12, <1>13
  DEF TrackerNext, TrackerQuiet, TrackerFault

-----------------------------------------------------------------------------
(* The tracker and Gamma *)

LEMMA GammaStays ==
    ASSUME GammaInv,
           UNCHANGED <<gamma, start, phase, active, watermark, resolver, newcomer, told, missed>>
    PROVE  GammaInv'
  BY DEF GammaInv, PollersInv, WatermarkInv, Gone, ActiveOnGamma, Working, Missed

LEMMA GammaInit == TrackerInit => GammaInv
<1> SUFFICES ASSUME TrackerInit
             PROVE  GammaInv
  OBVIOUS
<1>1. PollersInv
  BY MarketTrackerAssumption DEF TrackerInit, PollersInv, Asleep, Gone
<1>2. \A m \in ActiveOnGamma : m \in active /\ m \in told
  BY DEF TrackerInit, ActiveOnGamma
<1>3. QED
  BY <1>1, <1>2 DEF GammaInv, WatermarkInv

\* A market that opens.
LEMMA GammaOpens ==
    ASSUME GammaInv, TrackerTypeOK, NEW m \in Markets, Open(m)
    PROVE  GammaInv'
<1>1. /\ gamma[m] = "unborn" /\ gamma' = [gamma EXCEPT ![m] = "active"]
      /\ UNCHANGED <<phase, active, watermark, resolver, newcomer, told>>
  BY DEF Open
<1>2. PICK s \in 1..MaxStart :
          /\ start' = [start EXCEPT ![m] = s]
          /\ Note("late", IF s < Max({watermark, newcomer.max}) THEN {m} ELSE {})
  BY DEF Open
<1>3. /\ gamma \in [Markets -> {"unborn", "active", "closed", "old"}]
      /\ start \in [Markets -> 0..MaxStart] /\ watermark \in Nat /\ newcomer.max \in Nat
      /\ MaxStart \in Nat
  BY MarketTrackerAssumption DEF TrackerTypeOK, PollerType
<1>4. /\ missed'["aged"] = missed["aged"]
      /\ Missed(NeverTold) \subseteq Missed(NeverTold)'
      /\ s < Max({watermark, newcomer.max}) => m \in Missed(NeverTold)'
  <2> DEFINE set == IF s < Max({watermark, newcomer.max}) THEN {m} ELSE {}
  <2>1. /\ set \in SUBSET Markets
        /\ s < Max({watermark, newcomer.max}) => m \in set
    OBVIOUS
  <2> HIDE DEF set
  <2>2. Note("late", set)
    BY <1>2 DEF set
  <2>3. missed'["late"] = missed["late"] \cup set /\ \A c \in Causes \ {"late"} : missed'[c] = missed[c]
    BY <2>1, <2>2, NoteIs DEF TrackerTypeOK, Causes
  <2>4. QED
    BY <2>1, <2>3, MissedIs DEF Causes, Missed, NeverTold, PassedOver
<1>5. \A q \in Markets : /\ gamma'[q] = "unborn" => gamma[q] = "unborn" /\ q # m
                         /\ gamma'[q] = "old" => gamma[q] = "old"
                         /\ q # m => start'[q] = start[q] /\ gamma'[q] = gamma[q]
                         /\ gamma[q] # "unborn" => gamma'[q] = gamma[q]
  BY <1>1, <1>2, <1>3
<1>6. PollersInv'
  <2>1. \A q : Gone(q) /\ q \in Markets => Gone(q)'
    BY <1>5 DEF Gone
  <2>2. resolver.now \cup resolver.todo \cup newcomer.now \cup newcomer.todo \subseteq Markets
    BY DEF TrackerTypeOK, PollerType
  <2>3. QED
    BY <1>1, <1>4, <1>5, <2>1, <2>2 DEF GammaInv, PollersInv
<1>7. ASSUME phase # "down", NEW q \in Markets, gamma'[q] = "active", q \notin Missed(NeverTold)'
      PROVE  /\ q \in active =>
                   q \in told \/ (newcomer.pc = "publishing" /\ q \in newcomer.now)
             /\ q \notin active =>
                   /\ start'[q] >= watermark
                   /\ Working => q \in newcomer.todo \/ start'[q] >= newcomer.max
  <2>1. CASE q = m
    <3>1. start'[q] = s /\ ~(s < Max({watermark, newcomer.max}))
      BY <1>2, <1>3, <1>4, <1>7, <2>1
    <3>2. s >= watermark /\ s >= newcomer.max
      BY <1>3, <3>1, MaxOfTwo
    <3>3. m \notin active
      BY <1>1 DEF GammaInv, PollersInv
    <3>4. QED
      BY <2>1, <3>1, <3>2, <3>3
  <2>2. CASE q # m
    <3>1. q \in ActiveOnGamma \ Missed(NeverTold) /\ start'[q] = start[q]
      BY <1>4, <1>5, <1>7, <2>2 DEF ActiveOnGamma
    <3>2. QED
      BY <1>7, <3>1 DEF GammaInv, WatermarkInv
  <2>3. QED
    BY <2>1, <2>2
<1>8. WatermarkInv'
  BY <1>1, <1>7 DEF WatermarkInv, ActiveOnGamma, Working
<1>9. QED
  BY <1>6, <1>8 DEF GammaInv

\* One that closes, or has been closed for so long that nobody asks for it.
LEMMA GammaCloses ==
    ASSUME GammaInv, TrackerTypeOK, NEW m \in Markets, Close(m) \/ Age(m)
    PROVE  GammaInv'
<1>1. /\ gamma[m] \in {"active", "closed"} /\ Gone(m)'
      /\ \A q \in Markets \ {m} : gamma'[q] = gamma[q]
      /\ UNCHANGED <<start, phase, active, watermark, resolver, newcomer, told>>
  BY DEF Close, Age, Gone, TrackerTypeOK
<1>2. /\ missed["aged"] \subseteq missed'["aged"]
      /\ gamma'[m] = "old" => m \in missed'["aged"]
      /\ Missed(NeverTold) \subseteq Missed(NeverTold)' \cup {m}
  <2>1. CASE Close(m)
    <3>1. /\ missed' = [c \in Causes |-> IF c \in PassedOver THEN missed[c] \ {m} ELSE missed[c]]
          /\ gamma'[m] = "closed"
      BY <2>1 DEF Close, TrackerTypeOK
    <3>2. QED
      BY <3>1 DEF Missed, NeverTold, PassedOver, Causes
  <2>2. CASE Age(m)
    <3>1. Note("aged", {m})
      BY <2>2 DEF Age
    <3>2. missed'["aged"] = missed["aged"] \cup {m} /\ \A c \in Causes \ {"aged"} : missed'[c] = missed[c]
      BY <3>1, NoteIs DEF TrackerTypeOK, Causes
    <3>3. QED
      BY <3>2 DEF Missed, NeverTold, PassedOver, Causes
  <2>3. QED
    BY <2>1, <2>2
<1>3. resolver.now \cup resolver.todo \cup newcomer.now \cup newcomer.todo \subseteq Markets
  BY DEF TrackerTypeOK, PollerType
<1>4. \A q \in Markets : (gamma'[q] = "unborn" => gamma[q] = "unborn")
                         /\ (gamma'[q] = "old" => gamma[q] = "old" \/ q = m)
                         /\ (gamma'[q] = "active" => gamma[q] = "active" /\ q # m)
                         /\ (Gone(q) => Gone(q)')
  BY <1>1 DEF Gone
<1>5. PollersInv'
  BY <1>1, <1>2, <1>3, <1>4 DEF GammaInv, PollersInv
<1>6. (ActiveOnGamma \ Missed(NeverTold))' \subseteq ActiveOnGamma \ Missed(NeverTold)
  BY <1>2, <1>4 DEF ActiveOnGamma
<1>7. WatermarkInv'
  BY <1>1, <1>6 DEF GammaInv, WatermarkInv, Working
<1>8. QED
  BY <1>5, <1>7 DEF GammaInv

\* The process.
LEMMA GammaLoad ==
    ASSUME GammaInv, TrackerTypeOK, Load
    PROVE  GammaInv'
<1>1. /\ active' = ActiveOnGamma /\ phase = "down" /\ Note("down", SymDiff(told, ActiveOnGamma))
      /\ UNCHANGED <<gamma, start, resolver, newcomer, told>>
  BY DEF Load
<1>2. resolver = Asleep /\ newcomer = Asleep
  BY <1>1 DEF GammaInv, PollersInv
<1>3. ActiveOnGamma' = ActiveOnGamma
  BY <1>1 DEF ActiveOnGamma
<1>4. /\ missed'["down"] = missed["down"] \cup SymDiff(told, ActiveOnGamma)
      /\ missed'["aged"] = missed["aged"]
  <2>1. SymDiff(told, ActiveOnGamma) \in SUBSET Markets
    BY DEF TrackerTypeOK, ActiveOnGamma, SymDiff
  <2>2. QED
    BY <1>1, <2>1, NoteIs DEF TrackerTypeOK, Causes
<1>5. PollersInv'
  BY <1>1, <1>2, <1>4 DEF GammaInv, PollersInv, Gone, ActiveOnGamma, Asleep
<1>6. \A m \in ActiveOnGamma : m \in told \/ m \in missed'["down"]
  BY <1>4 DEF SymDiff
<1>7. missed'["down"] \subseteq Missed(NeverTold)'
  BY DEF Missed, NeverTold
<1>8. WatermarkInv'
  BY <1>1, <1>3, <1>6, <1>7 DEF WatermarkInv
<1>9. QED
  BY <1>5, <1>8 DEF GammaInv

LEMMA GammaBegins ==
    ASSUME GammaInv, Begin
    PROVE  GammaInv'
  BY DEF Begin, GammaInv, PollersInv, WatermarkInv, Gone, ActiveOnGamma, Working, Missed

LEMMA GammaEnds ==
    ASSUME GammaInv, TrackerEnds
    PROVE  GammaInv'
<1>1. /\ phase' = "down" /\ active' = {}
      /\ resolver' = Asleep /\ newcomer' = Asleep
      /\ UNCHANGED <<gamma, start, told, missed>>
  BY DEF TrackerEnds
<1>2. PollersInv'
  BY <1>1 DEF GammaInv, PollersInv, Gone, Asleep
<1>3. QED
  BY <1>1, <1>2 DEF GammaInv, WatermarkInv

\* What the resolution poller works on is gone, so it takes nothing from the
\* dictionary that is active on Gamma.
ResolverActs == \/ ResolvedFetch \/ ResolvedExecute \/ ResolvedAnswer \/ ResolvedSave
                \/ ResolvedFail \/ ResolvedSaveFail

LEMMA GammaResolver ==
    ASSUME GammaInv, TrackerTypeOK, ResolverActs
    PROVE  GammaInv'
<1>1. UNCHANGED <<gamma, start, phase, watermark, newcomer, missed>>
  BY DEF ResolverActs, ResolvedFetch, ResolvedExecute, ResolvedAnswer, ResolvedSave,
         ResolvedFail, ResolvedSaveFail
<1>2. phase = "running"
  BY DEF ResolverActs, ResolvedFetch, ResolvedExecute, ResolvedAnswer, ResolvedSave,
         ResolvedFail, ResolvedSaveFail, GammaInv, PollersInv, Asleep
<1>3. ASSUME NEW todo, NEW act, ResolverGoesOn(todo, act), \A m \in todo : Gone(m)
      PROVE  \A m \in resolver'.now \cup resolver'.todo : Gone(m)
  <2>1. \/ \E m \in todo : resolver' = Publishing(m, todo \ {m}, 0)
        \/ resolver' = Saving(act)
    BY <1>3 DEF ResolverGoesOn
  <2>2. CASE resolver' = Saving(act)
    BY <2>2, PollerFields
  <2>3. ASSUME NEW m \in todo, resolver' = Publishing(m, todo \ {m}, 0)
        PROVE  resolver'.now = {m} /\ resolver'.todo = todo \ {m}
    BY <2>3, PollerFields
  <2>4. QED
    BY <1>3, <2>1, <2>2, <2>3
<1>4. \A m \in resolver.now \cup resolver.todo : Gone(m)
  BY DEF GammaInv, PollersInv
<1>5. \A m \in resolver'.now \cup resolver'.todo : Gone(m)
  <2>1. CASE ResolvedFetch
    BY <1>3, <2>1 DEF ResolvedFetch, Gone
  <2>2. CASE ResolvedAnswer
    BY <1>3, <1>4, <2>2 DEF ResolvedAnswer
  <2>3. CASE ResolvedExecute
    BY <1>4, <2>3 DEF ResolvedExecute, TrackerTypeOK, PollerType
  <2>4. CASE resolver' = Asleep
    BY <2>4 DEF Asleep
  <2>5. QED
    BY <2>1, <2>2, <2>3, <2>4 DEF ResolverActs, ResolvedSave, ResolvedFail, ResolvedSaveFail
<1>6. /\ active' \subseteq active /\ told' \subseteq told
      /\ \A m \in ActiveOnGamma : (m \in active => m \in active') /\ (m \in told => m \in told')
  <2>1. \A m \in ActiveOnGamma : m \notin resolver.now
    BY <1>4 DEF ActiveOnGamma, Gone
  <2>2. QED
    BY <2>1 DEF ResolverActs, ResolvedFetch, ResolvedExecute, ResolvedAnswer, ResolvedSave,
                ResolvedFail, ResolvedSaveFail
<1>7. PollersInv'
  BY <1>1, <1>2, <1>5, <1>6 DEF GammaInv, PollersInv, Gone
<1>8. WatermarkInv'
  <2>1. /\ ActiveOnGamma' = ActiveOnGamma /\ Working' = Working
        /\ Missed(NeverTold)' = Missed(NeverTold)
    BY <1>1 DEF ActiveOnGamma, Working, Missed
  <2>2. QED
    BY <1>1, <1>6, <2>1 DEF GammaInv, WatermarkInv
<1>9. QED
  BY <1>7, <1>8 DEF GammaInv

\* The other poller: what it takes up, in the end it has announced, and when its
\* answer is done with, what it has not taken up is not older than the answer's
\* newest market.
LEMMA GammaNewcomerGoesOn ==
    ASSUME GammaInv, TrackerTypeOK, NewcomerGoesOn(newcomer.todo), phase = "running",
           newcomer.pc \in {"fetched", "published"},
           UNCHANGED <<gamma, start, phase, resolver, told, missed>>
    PROVE  GammaInv'
<1>1. /\ newcomer \in PollerType /\ watermark \in Nat /\ newcomer.max \in Nat
      /\ start \in [Markets -> 0..MaxStart] /\ newcomer.todo \subseteq Markets
  BY DEF TrackerTypeOK, PollerType
<1>2. /\ \A q \in newcomer.now \cup newcomer.todo : gamma[q] # "unborn"
      /\ \A q \in ActiveOnGamma \ Missed(NeverTold) :
            /\ q \in active => q \in told
            /\ q \notin active =>
                  /\ start[q] >= watermark
                  /\ q \in newcomer.todo \/ start[q] >= newcomer.max
  BY DEF GammaInv, PollersInv, WatermarkInv, Working
<1>3. ActiveOnGamma' = ActiveOnGamma /\ Missed(NeverTold)' = Missed(NeverTold)
  BY DEF ActiveOnGamma, Missed
<1>4. \A q : Gone(q)' <=> Gone(q)
  BY DEF Gone
<1>5. ASSUME NEW m \in newcomer.todo \ active, active' = active \cup {m},
             newcomer' = Publishing(m, newcomer.todo \ {m}, newcomer.max), UNCHANGED watermark
      PROVE  GammaInv'
  <2>1. /\ newcomer'.pc = "publishing" /\ newcomer'.now = {m}
        /\ newcomer'.todo = newcomer.todo \ {m} /\ newcomer'.max = newcomer.max
    BY <1>5 DEF Publishing, Asleep
  <2>2. PollersInv'
    BY <1>2, <1>4, <1>5, <2>1 DEF GammaInv, PollersInv
  <2>3. WatermarkInv'
    BY <1>2, <1>3, <1>5, <2>1 DEF WatermarkInv
  <2>4. QED
    BY <2>2, <2>3 DEF GammaInv
<1>6. ASSUME newcomer.todo \subseteq active, watermark' = Max({watermark, newcomer.max}),
             newcomer' = Saving(active) \/ newcomer' = Asleep, UNCHANGED active
      PROVE  GammaInv'
  <2>1. newcomer'.pc \in {"saving", "fetch"} /\ newcomer'.now = {} /\ newcomer'.todo = {}
    BY <1>6, PollerFields
  <2>2. watermark' \in {watermark, newcomer.max}
    BY <1>1, <1>6, MaxOfTwo
  <2>3. PollersInv'
    BY <1>4, <1>6, <2>1 DEF GammaInv, PollersInv
  <2>4. \A q \in ActiveOnGamma \ Missed(NeverTold) : q \notin active => start[q] >= watermark'
    BY <1>2, <1>6, <2>2
  <2>5. WatermarkInv'
    BY <1>2, <1>3, <1>6, <2>1, <2>4 DEF WatermarkInv, Working
  <2>6. QED
    BY <2>3, <2>5 DEF GammaInv
<1>7. QED
  BY <1>5, <1>6 DEF NewcomerGoesOn

NewcomerActs == \/ NewPage \/ NewLastPage \/ NewFetchFail \/ NewProcess \/ NewExecute
                \/ NewAnswer \/ NewFail \/ NewSave \/ NewSaveFail

\* A note of one cause keeps those of the others.
LEMMA NotesStay ==
    ASSUME TrackerTypeOK, NEW cause \in Causes, NEW set \in SUBSET Markets, Note(cause, set)
    PROVE  /\ missed["aged"] \subseteq missed'["aged"]
           /\ Missed(NeverTold) \subseteq Missed(NeverTold)'
           /\ cause \in NeverTold => set \subseteq Missed(NeverTold)'
<1>1. /\ missed'[cause] = missed[cause] \cup set
      /\ \A c \in Causes : missed[c] \subseteq missed'[c]
  BY NoteIs DEF TrackerTypeOK
<1>2. NeverTold \subseteq Causes /\ "aged" \in Causes
  BY DEF NeverTold, PassedOver, Causes
<1>3. QED
  BY <1>1, <1>2 DEF Missed

LEMMA GammaNewcomer ==
    ASSUME GammaInv, TrackerTypeOK, NewcomerActs
    PROVE  GammaInv'
<1>1. UNCHANGED <<gamma, start, phase, resolver>> /\ phase = "running"
  BY DEF NewcomerActs, NewPage, NewLastPage, NewFetchFail, NewProcess, NewExecute, NewAnswer,
         NewSave, NewFail, NewSaveFail, GammaInv, PollersInv, Asleep
<1>2. ActiveOnGamma' = ActiveOnGamma
  BY <1>1 DEF ActiveOnGamma
<1>3. \A q : Gone(q)' <=> Gone(q)
  BY <1>1 DEF Gone
<1>4. newcomer \in PollerType /\ newcomer.now \subseteq Markets
  BY DEF TrackerTypeOK, PollerType
<1>5. CASE NewPage
  <2>1. UNCHANGED <<active, watermark, told, missed>> /\ newcomer.pc \in {"fetch", "paging"}
    BY <1>5 DEF NewPage
  <2>2. /\ newcomer'.pc = "paging" /\ newcomer'.now = newcomer.now
        /\ newcomer'.todo \subseteq newcomer.todo \cup ActiveOnGamma
    BY <1>5, PageTypes
  <2>3. PollersInv'
    BY <1>1, <1>3, <2>1, <2>2 DEF GammaInv, PollersInv, ActiveOnGamma
  <2>4. Missed(NeverTold)' = Missed(NeverTold)
    BY <2>1 DEF Missed
  <2>5. WatermarkInv'
    BY <1>1, <1>2, <2>1, <2>2, <2>4 DEF GammaInv, WatermarkInv, Working
  <2>6. QED
    BY <2>3, <2>5 DEF GammaInv
<1>6. CASE NewLastPage
  <2> DEFINE shifted == {m \in Matching \ newcomer.todo : start[m] < newcomer.max}
  <2>1. /\ Note("shifted", shifted) /\ newcomer' = [newcomer EXCEPT !.pc = "fetched", !.offset = 0]
        /\ newcomer.pc \in {"fetch", "paging"} /\ UNCHANGED <<active, watermark, told>>
    BY <1>6 DEF NewLastPage
  <2>2. /\ newcomer'.pc = "fetched" /\ newcomer'.now = newcomer.now
        /\ newcomer'.todo = newcomer.todo /\ newcomer'.max = newcomer.max
    BY <1>4, <2>1 DEF PollerType
  <2>3. shifted \in SUBSET Markets
    BY DEF Matching, ActiveOnGamma
  <2>4. \A q \in ActiveOnGamma \ shifted : start[q] >= watermark =>
            q \in newcomer.todo \/ ~(start[q] < newcomer.max)
    BY DEF Matching
  <2> HIDE DEF shifted
  <2>5. /\ missed["aged"] \subseteq missed'["aged"]
        /\ Missed(NeverTold) \cup shifted \subseteq Missed(NeverTold)'
    BY <2>1, <2>3, NotesStay DEF Causes, NeverTold, PassedOver
  <2>6. PollersInv'
    BY <1>1, <1>3, <2>1, <2>2, <2>5 DEF GammaInv, PollersInv
  <2>7. /\ start \in [Markets -> 0..MaxStart] /\ newcomer.max \in Nat /\ MaxStart \in Nat
        /\ ActiveOnGamma \subseteq Markets
    BY MarketTrackerAssumption DEF TrackerTypeOK, PollerType, ActiveOnGamma
  <2>8. \A q \in ActiveOnGamma : ~(start[q] < newcomer.max) => start[q] >= newcomer.max
    BY <2>7
  <2>9. \A q \in ActiveOnGamma \ Missed(NeverTold)' :
            /\ q \in active => q \in told
            /\ q \notin active =>
                  start[q] >= watermark /\ (q \in newcomer.todo \/ start[q] >= newcomer.max)
    BY <1>1, <2>1, <2>4, <2>5, <2>8 DEF GammaInv, WatermarkInv
  <2>10. WatermarkInv'
    BY <1>1, <1>2, <2>1, <2>2, <2>9 DEF WatermarkInv
  <2>11. QED
    BY <2>6, <2>10 DEF GammaInv
<1>7. CASE NewProcess \/ NewAnswer
  BY <1>1, <1>7, GammaNewcomerGoesOn DEF NewProcess, NewAnswer
<1>8. CASE NewExecute
  <2>1. /\ newcomer' = [newcomer EXCEPT !.pc = "published"] /\ newcomer.pc = "publishing"
        /\ told' = told \cup newcomer.now /\ UNCHANGED <<active, watermark>>
    BY <1>8 DEF NewExecute
  <2>2. /\ newcomer'.pc = "published" /\ newcomer'.now = newcomer.now
        /\ newcomer'.todo = newcomer.todo /\ newcomer'.max = newcomer.max
    BY <1>4, <2>1 DEF PollerType
  <2>3. \E set \in SUBSET Markets : Note("overtaken", set)
    BY <1>4, <1>8 DEF NewExecute
  <2>4. /\ missed["aged"] \subseteq missed'["aged"]
        /\ Missed(NeverTold) \subseteq Missed(NeverTold)'
    BY <2>3, NotesStay DEF Causes
  <2>5. PollersInv'
    BY <1>1, <1>3, <2>1, <2>2, <2>4 DEF GammaInv, PollersInv
  <2>6. WatermarkInv'
    BY <1>1, <1>2, <2>1, <2>2, <2>4 DEF GammaInv, WatermarkInv, Working
  <2>7. QED
    BY <2>5, <2>6 DEF GammaInv
<1>9. CASE NewSave \/ NewFail \/ NewSaveFail \/ NewFetchFail
  <2>1. newcomer' = Asleep /\ UNCHANGED <<active, watermark, told>>
    BY <1>9 DEF NewSave, NewFail, NewSaveFail, NewFetchFail
  <2>2. newcomer'.pc = "fetch" /\ newcomer'.now = {} /\ newcomer'.todo = {}
    BY <2>1 DEF Asleep
  <2>3. /\ missed["aged"] \subseteq missed'["aged"]
        /\ Missed(NeverTold) \subseteq Missed(NeverTold)'
        /\ newcomer.pc = "publishing" => newcomer.now \subseteq Missed(NeverTold)'
    <3>1. CASE NewFail
      <4>1. PICK set \in SUBSET Markets : /\ Note("unpublished", set)
                                          /\ newcomer.pc = "publishing" => newcomer.now = set
        BY <1>4, <3>1 DEF NewFail
      <4>2. QED
        BY <4>1, NotesStay DEF Causes, NeverTold, PassedOver
    <3>2. CASE NewSave \/ NewSaveFail \/ NewFetchFail
      BY <3>2 DEF NewSave, NewSaveFail, NewFetchFail, Missed
    <3>3. QED
      BY <1>9, <3>1, <3>2
  <2>4. PollersInv'
    BY <1>1, <1>3, <2>1, <2>2, <2>3 DEF GammaInv, PollersInv
  <2>5. WatermarkInv'
    BY <1>1, <1>2, <2>1, <2>2, <2>3 DEF GammaInv, WatermarkInv, Working
  <2>6. QED
    BY <2>4, <2>5 DEF GammaInv
<1>10. QED
  BY <1>5, <1>6, <1>7, <1>8, <1>9 DEF NewcomerActs

LEMMA GammaStep ==
    ASSUME GammaInv, TrackerTypeOK, [TrackerNext]_trackerVars
    PROVE  GammaInv'
<1>1. CASE UNCHANGED trackerVars
  BY <1>1, GammaStays DEF trackerVars
<1>2. CASE TrackerNext
  BY <1>2, GammaOpens, GammaCloses, GammaLoad, GammaBegins, GammaEnds, GammaResolver,
     GammaNewcomer
  DEF TrackerNext, TrackerQuiet, TrackerFault, ResolverActs, NewcomerActs
<1>3. QED
  BY <1>1, <1>2

-----------------------------------------------------------------------------
Types ==
    /\ TrackerTypeOK
    /\ listener \in {"down", "starting", "reading", "acking", "dead"}
    /\ pendingDone \in BOOLEAN

LEMMA CollectorTypes ==
    ASSUME Types, Next, ~TrackerStep
    PROVE  Types'
<1>1. Fault => faults' \in 0..MaxFaults
  BY MarketTrackerAssumption DEF Fault, Types, TrackerTypeOK
<1>2. faults' \in 0..MaxFaults /\ listener' \in {"down", "starting", "reading", "acking", "dead"}
      /\ pendingDone' \in BOOLEAN
  <2>1. CASE PreloadCache \/ PreloadNothing \/ PreloadGamma
    BY <1>1, <2>1 DEF PreloadCache, PreloadNothing, PreloadGamma, Preload, CollectorFault,
                      trackerVars, Types, TrackerTypeOK
  <2>2. CASE Listen \/ ListenSkipping \/ ListenerStep
    BY <2>2 DEF Listen, ListenSkipping, ListenerStep, ReadPending, ReadNew, Dispatch, Ack,
                trackerVars, Types, TrackerTypeOK
  <2>3. CASE ReadFail \/ DispatchFail \/ AckFail \/ CollectorEnds
    BY <1>1, <2>3 DEF ReadFail, DispatchFail, AckFail, CollectorEnds, CollectorFault, Types
  <2>4. QED
    BY <2>1, <2>2, <2>3 DEF Next
<1>3. QED
  BY <1>2, CollectorSteps DEF Types, TrackerTypeOK

\* Types and GammaInv hold as long as the processes run.
LEMMA GammaAlways == Spec => [](Types /\ GammaInv)
<1>1. Init => Types /\ GammaInv
  <2> SUFFICES ASSUME Init
               PROVE  Types /\ GammaInv
    OBVIOUS
  <2>1. GammaInv
    BY GammaInit DEF Init
  <2>2. start \in [Markets -> 0..MaxStart]
    BY MarketTrackerAssumption DEF Init, TrackerInit
  <2>3. watermark \in Nat
    <3>1. watermark = Latest(start, Listed) /\ Listed \in SUBSET Markets /\ MaxStart \in Nat
      BY NewestIsLatest, MarketTrackerAssumption DEF Init, TrackerInit
    <3>2. Latest(start, Listed) \in 0..MaxStart
      BY <2>2, <3>1, LatestIs
    <3>3. QED
      BY <3>1, <3>2
  <2>4. gamma \in [Markets -> {"unborn", "active", "closed", "old"}]
    BY DEF Init, TrackerInit
  <2>5. resolver \in PollerType /\ newcomer \in PollerType
    BY PollerTypes DEF Init, TrackerInit
  <2>6. /\ cache \subseteq Markets /\ active \subseteq Markets
        /\ told \subseteq Markets /\ missed \in [Causes -> SUBSET Markets]
        /\ phase \in {"down", "loaded", "running"} /\ faults \in 0..MaxFaults
    BY MarketTrackerAssumption DEF Init, TrackerInit
  <2>7. QED
    BY <2>1, <2>2, <2>3, <2>4, <2>5, <2>6 DEF Init, Types, TrackerTypeOK
<1>2. /\ CatalogueInv /\ CatalogueInv' /\ Types /\ GammaInv /\ [Next]_vars
      => Types' /\ GammaInv'
  <2> SUFFICES ASSUME CatalogueInv, CatalogueInv', Types, GammaInv, [Next]_vars
               PROVE  Types' /\ GammaInv'
    OBVIOUS
  <2>1. CASE TrackerStep
    BY <2>1, TrackerTells, TrackerTypeStep, GammaStep DEF Types, CatalogueInv, collectorVars
  <2>2. CASE Next /\ ~TrackerStep
    BY <2>2, CollectorSteps, CollectorTypes, GammaStays
  <2>3. CASE UNCHANGED vars
    <3>1. UNCHANGED trackerVars /\ UNCHANGED collectorVars
      BY <2>3 DEF vars
    <3>2. TrackerTypeOK' /\ GammaInv'
      BY <3>1, TrackerTypeStep, GammaStep DEF Types, CatalogueInv
    <3>3. QED
      BY <3>1, <3>2 DEF Types, collectorVars
  <2>4. QED
    BY <2>1, <2>2, <2>3
<1>3. QED
  BY <1>1, <1>2, CatalogueInvariant, PTL DEF Spec

\* Every variable of the chain keeps its type, and what is left of a reply is
\* pending (run.py:144-402, stream.rs:68-108).
THEOREM CatalogueTypeCorrect == Spec => []TypeOK
<1>1. Types /\ CatalogueInv => TypeOK
  BY DEF Types, CatalogueInv, ReadingInv, TypeOK, Words
<1>2. QED
  BY <1>1, GammaAlways, CatalogueInvariant, PTL

\* In between lie a watermark, two pollers that work on answers given before their
\* awaits, pages that shift, and replays of the stream; still, when the pollers would
\* find nothing new and the listener has read everything, the pool holds the markets
\* that are active on Gamma, but for the causes that module MarketTracker lists in
\* Causes, each for the one direction it is stated for, and those of Losses in module
\* Catalogue (run.py:144-182, 305-309).
THEOREM PoolEndsUpAsGamma == Spec => []PoolFollowsGamma
<1>1. Types /\ GammaInv /\ CatalogueInv /\ PoolFollowsStream => PoolFollowsGamma
  <2> SUFFICES ASSUME Types, GammaInv, CatalogueInv, PoolFollowsStream,
                      TrackerSettled, CaughtUp, NEW m, m \notin Lost
               PROVE  /\ m \in pool /\ m \notin ActiveOnGamma => m \in Missed(StillTold)
                      /\ m \in ActiveOnGamma /\ m \notin pool => m \in Missed(NeverTold)
    BY DEF PoolFollowsGamma
  <2>1. m \in pool <=> m \in told
    BY DEF PoolFollowsStream, SymDiff, CatalogueInv, ReadingInv, TellingInv
  <2>2. phase = "running" /\ newcomer.pc \in {"fetch", "saving"}
    BY DEF TrackerSettled
  <2>3. ASSUME m \in told, m \notin ActiveOnGamma, m \notin Missed(StillTold)
        PROVE  FALSE
    <3>1. m \in Markets /\ m \in active
      BY <2>2, <2>3, MissedIs DEF CatalogueInv, TellingInv
    <3>2. gamma[m] \in {"unborn", "closed", "old"}
      BY <2>3, <3>1 DEF ActiveOnGamma, Types, TrackerTypeOK
    <3>3. m \notin missed["aged"]
      BY <2>3, MissedIs
    <3>4. QED
      BY <3>1, <3>2, <3>3 DEF TrackerSettled, GammaInv, PollersInv
  <2>4. ASSUME m \notin told, m \in ActiveOnGamma, m \notin Missed(NeverTold)
        PROVE  FALSE
    <3>1. m \notin active
      BY <2>2, <2>4 DEF GammaInv, WatermarkInv
    <3>2. start[m] >= watermark
      BY <2>2, <2>4, <3>1 DEF GammaInv, WatermarkInv
    <3>3. QED
      BY <2>4, <3>1, <3>2 DEF TrackerSettled
  <2>5. QED
    BY <2>1, <2>3, <2>4
<1>2. QED
  BY <1>1, GammaAlways, CatalogueInvariant, PoolEndsUpAsToldTo, PTL
=============================================================================
