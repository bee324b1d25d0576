--------------------------- MODULE MCDeltaMemory ---------------------------
EXTENDS DeltaMemory, TLC
ThreadSymmetry == Permutations(Threads)
=============================================================================
