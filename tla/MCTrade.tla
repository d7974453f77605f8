-------------------------------- MODULE MCTrade --------------------------------
EXTENDS Trade, TLC

\* Users and names are only compared with each other.
Symmetry == Permutations(Users) \union Permutations(Names)
================================================================================
