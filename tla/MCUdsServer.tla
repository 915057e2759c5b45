---------------------------- MODULE MCUdsServer ----------------------------
\* One algorithm, one seed answered by k1; k2 is a wrong key.
EXTENDS UdsServer

CONSTANTS s1, k1, k2, crc

MCKeyFor == [a \in Algorithms |-> [s \in {s1} |-> k1]]
=============================================================================
