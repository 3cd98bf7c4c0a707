----------------------------- MODULE EventFilter -----------------------------
(***************************************************************************)
(* What the deduplication layer promises its readers: a key is passed on   *)
(* at most once in any window of RotateEvery, and every key passed on is   *)
(* handed to the event channel exactly once, unless the process gives up.  *)
(* DedupForwarder (module Dedup) implements it.                            *)
(***************************************************************************)
EXTENDS Integers

CONSTANTS Keys,         \* the 64-bit content keys of events
          Conns,        \* the connections that carry copies of the events
          RotateEvery   \* half of the configured TTL

Never == -1             \* a key that was never passed on

VARIABLES now,          \* monotonic clock
          admittedAt,   \* when each key was last passed on
          owed          \* <<connection, key>>: passed on, not yet handed over

vars == <<now, admittedAt, owed>>

Init == /\ now = 0
        /\ admittedAt = [k \in Keys |-> Never]
        /\ owed = {}

Tick == /\ now' = now + 1
        /\ UNCHANGED <<admittedAt, owed>>

Admit(c, k) ==
    /\ admittedAt[k] = Never \/ now - admittedAt[k] >= RotateEvery
    /\ admittedAt' = [admittedAt EXCEPT ![k] = now]
    /\ owed' = owed \cup {<<c, k>>}
    /\ UNCHANGED now

HandOver(c, k) ==
    /\ <<c, k>> \in owed
    /\ owed' = owed \ {<<c, k>>}
    /\ UNCHANGED <<now, admittedAt>>

Next == \/ Tick
        \/ \E c \in Conns, k \in Keys : Admit(c, k) \/ HandOver(c, k)

Spec == Init /\ [][Next]_vars
=============================================================================
