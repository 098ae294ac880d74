-------------------------------- MODULE MCEFile --------------------------------
EXTENDS EFile, TLC

Symmetry == Permutations(Names)
=============================================================================
