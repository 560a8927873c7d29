------------------------------ MODULE MCTriLock ------------------------------
EXTENDS TriLockInv, TLC

Symmetry == Permutations(Procs)
=============================================================================
