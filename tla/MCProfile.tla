----------------------------- MODULE MCProfile ------------------------------
EXTENDS Profile
CONSTANTS e1, e2
=============================================================================
