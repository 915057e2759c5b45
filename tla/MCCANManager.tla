---------------------------- MODULE MCCANManager ----------------------------
\* The catch-all callback of the program and one that lets only replies in.
EXTENDS CANManager

CONSTANTS all, echo

MCAccepts == [i \in FilterIds |-> IF i = all THEN Kinds ELSE {"reply"}]
=============================================================================
