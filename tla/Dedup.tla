-------------------------------- MODULE Dedup --------------------------------
(***************************************************************************)
(* ws/dedup.rs: the two-generation DedupCache and the DedupForwarder that  *)
(* every connection of the pool pushes its events through.                 *)
(*                                                                         *)
(* An event is its 64-bit dedup_key.  The cache is consulted and updated   *)
(* under a mutex; the mutex is released before the event is pushed on the  *)
(* bounded event channel, so other connections run between the two         *)
(* (passing).  A full channel ends the process, a closed one ends the      *)
(* connection.                                                             *)
(***************************************************************************)
EXTENDS Integers, FiniteSets

CONSTANTS Keys,         \* dedup keys of the events on the wire
          Conns,        \* connections sharing the forwarder
          RotateEvery,  \* rotate_every = ttl / 2, in clock units
          Capacity,     \* capacity of the event channel
          None,         \* no event in hand
          MaxTime,      \* bound: the clock stops here
          MaxEvents     \* bound: events received in all

ASSUME DedupAssumption == /\ RotateEvery \in Nat
                          /\ Capacity \in Nat \ {0}
                          /\ None \notin Keys

Never == -1

VARIABLES
    now,          \* Instant::now(), monotonic
    current,      \* DedupCache.current
    previous,     \* DedupCache.previous
    lastRotate,   \* DedupCache.last_rotate
    passing,      \* per connection: the event let through, not yet pushed
    queued,       \* events in the channel, not yet taken by the sink
    open,         \* the sink still holds the receiving end
    exited,       \* std::process::exit(1) was called
    stopped,      \* connections that saw the channel closed
    forwarded,    \* DedupForwarder.forwarded
    dropped,      \* DedupForwarder.dropped
    admittedAt,   \* history: when a key last passed the cache
    pushedAt      \* history: when a key was last pushed on the channel

cache   == <<current, previous, lastRotate>>
channel == <<queued, open, exited, stopped>>
history == <<admittedAt, pushedAt>>
vars == <<now, cache, passing, channel, forwarded, dropped, history>>

Init ==
    /\ now = 0
    /\ current = {} /\ previous = {} /\ lastRotate = 0
    /\ passing = [c \in Conns |-> None]
    /\ queued = 0 /\ open = TRUE /\ exited = FALSE /\ stopped = {}
    /\ forwarded = 0 /\ dropped = 0
    /\ admittedAt = [k \in Keys |-> Never]
    /\ pushedAt = [k \in Keys |-> Never]

-----------------------------------------------------------------------------
(* The cache *)

RotationDue == now - lastRotate >= RotateEvery

\* maybe_rotate: previous is dropped, current becomes previous.  It runs when
\* an event arrives and at no other time.
RotatedCurrent  == IF RotationDue THEN {} ELSE current
RotatedPrevious == IF RotationDue THEN current ELSE previous
MaybeRotate ==
    /\ previous' = RotatedPrevious
    /\ lastRotate' = IF RotationDue THEN now ELSE lastRotate

\* check_and_insert, the check: either generation holds the key.
Seen(k) == k \in RotatedCurrent \cup RotatedPrevious

Running(c) == ~exited /\ c \notin stopped

\* bound: events received so far
Received == forwarded + dropped + Cardinality({c \in Conns : passing[c] # None})

\* try_send, the part under the mutex, for a key the cache holds.
Absorb(c, k) ==
    /\ Running(c) /\ passing[c] = None /\ Received < MaxEvents
    /\ Seen(k)
    /\ MaybeRotate
    /\ current' = RotatedCurrent
    /\ dropped' = dropped + 1
    /\ UNCHANGED <<now, passing, channel, forwarded, history>>

\* (mutant of Admit: the key is never inserted)
AdmitUncached(c, k) ==
    /\ Running(c) /\ passing[c] = None /\ Received < MaxEvents
    /\ ~Seen(k)
    /\ MaybeRotate
    /\ current' = RotatedCurrent
    /\ passing' = [passing EXCEPT ![c] = k]
    /\ admittedAt' = [admittedAt EXCEPT ![k] = now]
    /\ UNCHANGED <<now, channel, forwarded, dropped, pushedAt>>
\* try_send, the part under the mutex, for a key it does not hold.
Admit(c, k) ==
    /\ Running(c) /\ passing[c] = None /\ Received < MaxEvents
    /\ ~Seen(k)
    /\ MaybeRotate
    /\ current' = RotatedCurrent \cup {k}
    /\ passing' = [passing EXCEPT ![c] = k]
    /\ admittedAt' = [admittedAt EXCEPT ![k] = now]
    /\ UNCHANGED <<now, channel, forwarded, dropped, pushedAt>>

\* dedup_key panics on a hash it cannot read, and a panic aborts the process.
KeyPanic(c) ==
    /\ Running(c) /\ passing[c] = None /\ Received < MaxEvents
    /\ exited' = TRUE
    /\ UNCHANGED <<now, cache, passing, queued, open, stopped, forwarded, dropped,
                   history>>

-----------------------------------------------------------------------------
(* The channel *)

Done(c) == passing' = [passing EXCEPT ![c] = None]

\* (mutant of Push: the channel's bound is not looked at)
PushUnbounded(c) ==
    /\ Running(c) /\ passing[c] # None
    /\ open
    /\ queued' = queued + 1
    /\ forwarded' = forwarded + 1
    /\ pushedAt' = [pushedAt EXCEPT ![passing[c]] = now]
    /\ Done(c)
    /\ UNCHANGED <<now, cache, open, exited, stopped, dropped, admittedAt>>
\* global_tx.try_send succeeds.
Push(c) ==
    /\ Running(c) /\ passing[c] # None
    /\ open /\ queued < Capacity
    /\ queued' = queued + 1
    /\ forwarded' = forwarded + 1
    /\ pushedAt' = [pushedAt EXCEPT ![passing[c]] = now]
    /\ Done(c)
    /\ UNCHANGED <<now, cache, open, exited, stopped, dropped, admittedAt>>

\* (mutant of PushFull: the event is dropped and the process goes on)
PushFullDropping(c) ==
    /\ Running(c) /\ passing[c] # None
    /\ open /\ queued = Capacity
    /\ Done(c)
    /\ UNCHANGED <<now, cache, channel, forwarded, dropped, history>>
\* TrySendError::Full: [QUEUE-OVERFLOW], the connection ends the process.
PushFull(c) ==
    /\ Running(c) /\ passing[c] # None
    /\ open /\ queued = Capacity
    /\ exited' = TRUE
    /\ Done(c)
    /\ UNCHANGED <<now, cache, queued, open, stopped, forwarded, dropped, history>>

\* TrySendError::Closed: the connection returns ChannelClosed and stops.
PushClosed(c) ==
    /\ Running(c) /\ passing[c] # None
    /\ ~open
    /\ stopped' = stopped \cup {c}
    /\ Done(c)
    /\ UNCHANGED <<now, cache, queued, open, exited, forwarded, dropped, history>>

\* The sink takes an event off the channel.
SinkReceive ==
    /\ ~exited /\ open /\ queued > 0
    /\ queued' = queued - 1
    /\ UNCHANGED <<now, cache, passing, open, exited, stopped,
                   forwarded, dropped, history>>

\* The sink task ends and drops the receiving end.
SinkClose ==
    /\ ~exited /\ open
    /\ open' = FALSE
    /\ UNCHANGED <<now, cache, passing, queued, exited, stopped,
                   forwarded, dropped, history>>

Tick ==
    /\ ~exited /\ now < MaxTime
    /\ now' = now + 1
    /\ UNCHANGED <<cache, passing, channel, forwarded, dropped, history>>

Next ==
    \/ \E c \in Conns, k \in Keys : Absorb(c, k) \/ Admit(c, k)
    \/ \E c \in Conns : KeyPanic(c) \/ Push(c) \/ PushFull(c) \/ PushClosed(c)
    \/ SinkReceive \/ SinkClose \/ Tick

Spec == Init /\ [][Next]_vars

-----------------------------------------------------------------------------
(* Properties *)

\* Type invariant: the clock is never behind a time stamp that was read off it.
TypeOK ==
    /\ now \in Nat /\ lastRotate \in 0..now
    /\ current \in SUBSET Keys /\ previous \in SUBSET Keys
    /\ passing \in [Conns -> Keys \cup {None}]
    /\ queued \in 0..Capacity /\ open \in BOOLEAN /\ exited \in BOOLEAN
    /\ stopped \in SUBSET Conns
    /\ forwarded \in Nat /\ dropped \in Nat
    /\ admittedAt \in [Keys -> {Never} \cup 0..now]
    /\ pushedAt \in [Keys -> {Never} \cup 0..now]

\* The inductive core of ImplementsFilter: a key that was let through is in the
\* current generation, or in the previous one with the rotation that moved it
\* there after its admission, or a whole rotate_every lies between its admission
\* and the last rotation.  Only then may the cache have forgotten it.
CacheRemembers ==
    \A k \in Keys :
        admittedAt[k] # Never =>
            \/ k \in current
            \/ k \in previous /\ lastRotate >= admittedAt[k]
            \/ lastRotate - admittedAt[k] >= RotateEvery

\* Absorbing a copy loses nothing: whatever the cache let through since is on
\* the channel or in the hands of a connection about to push it, as long as the
\* process runs and the sink is there.  The insert happens before the push and
\* outside the channel's lock, so this depends on every failure of the push
\* ending the process or the connection (dedup.rs:197-211).
AbsorbedCopyIsNotTheLast ==
    \A k \in Keys :
        admittedAt[k] # Never =>
            \/ pushedAt[k] >= admittedAt[k]
            \/ \E c \in Conns : passing[c] = k
            \/ exited
            \/ ~open

\* dedup.rs:31-35, "the effective TTL lower bound is rotate_every": the cache
\* implements the promise of module EventFilter, at most one admission of a key
\* in any window of rotate_every and one push per admission.
Filter == INSTANCE EventFilter WITH
              owed <- {p \in Conns \X Keys : passing[p[1]] = p[2]}
ImplementsFilter == Filter!Spec
=============================================================================
