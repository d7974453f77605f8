-------------------------------- MODULE MCParty --------------------------------
EXTENDS Party

\* Three levels of growing weight would do the same to the sums as these two.
MCWeight == <<1, 3>>
================================================================================
