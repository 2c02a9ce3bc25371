------------------------------- MODULE MCKeck -------------------------------
EXTENDS Keck, TLC

Symmetry == Permutations(Tasks)
=============================================================================
