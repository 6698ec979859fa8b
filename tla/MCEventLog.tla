----------------------------- MODULE MCEventLog -----------------------------
EXTENDS EventLog

\* Two events of the dictionary and one it does not know.
MCEventIds == {4, 9, 77}
MCSeverity == [id \in {4, 9} |-> IF id = 4 THEN 2 ELSE 3]
MCAux      == {0, 1}
MCItems    == [id : MCEventIds, severity : 1 .. 4, aux : MCAux]
=============================================================================
