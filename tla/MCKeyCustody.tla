--------------------------- MODULE MCKeyCustody ---------------------------
\* Model of KeyCustody for TLC; the .cfg files give the bounds.
EXTENDS KeyCustody, TLC
CONSTANTS p1, p2
ProcSymmetry == Permutations(Procs)
=============================================================================
