------------------------------ MODULE MCVitals ------------------------------
EXTENDS Vitals
=============================================================================
