--------------------------------- MODULE MCNet ---------------------------------
EXTENDS Net
================================================================================
