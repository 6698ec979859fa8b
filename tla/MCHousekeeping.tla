--------------------------- MODULE MCHousekeeping ---------------------------
EXTENDS Housekeeping

MCDefault == [s \in Structures |-> 2]
=============================================================================
