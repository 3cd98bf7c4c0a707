------------------------------- MODULE MCPool --------------------------------
EXTENDS Pool, TLC

Symmetry == Permutations(Markets)
=============================================================================
