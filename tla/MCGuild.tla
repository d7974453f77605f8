-------------------------------- MODULE MCGuild --------------------------------
EXTENDS Guild

Symmetry == Permutations(Name)
================================================================================
