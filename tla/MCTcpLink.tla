----------------------------- MODULE MCTcpLink -----------------------------
EXTENDS TcpLink
=============================================================================
