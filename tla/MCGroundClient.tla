---------------------------- MODULE MCGroundClient ----------------------------
EXTENDS GroundClient
=============================================================================
