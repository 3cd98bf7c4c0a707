----------------------------- MODULE MCCatalogue ------------------------------
EXTENDS Catalogue

CONSTANT MaxUnread \* bound: entries of the stream not acknowledged

FewUnread == Len(Unread) <= MaxUnread

\* Bound: a second fault only ends a collector that could not acknowledge an entry.
FewFaults == faults <= 1 \/ lost["replayed"] # {}
=============================================================================
