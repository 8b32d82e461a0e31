------------------------------ MODULE MCDBSync ------------------------------
\* Model checking of DBAccessor, and of DBSync within it.  The specification
\* and its promise treat all the entries with a valid name alike, and no
\* liveness is checked, so that the symmetry is sound.
EXTENDS DBAccessor, TLC

KeySymmetry == Permutations(Key \ Foreign)
=============================================================================
