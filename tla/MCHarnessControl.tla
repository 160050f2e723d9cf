--------------------------- MODULE MCHarnessControl ---------------------------
EXTENDS HarnessControl, TLC
CallerSymmetry == Permutations(Callers)
=============================================================================
