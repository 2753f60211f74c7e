------------------------------ MODULE MCH1Client ------------------------------
EXTENDS H1Client, TLC
Symmetry == Permutations(Tasks)
=============================================================================
