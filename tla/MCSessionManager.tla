------------------------- MODULE MCSessionManager -------------------------
\* Two levels, two seeds answered by two keys, two algorithms that disagree
\* on every seed.
EXTENDS SessionManager

CONSTANTS s1, s2, k1, k2, crc, aes

MCKeyFor == [a \in Algorithms |->
               IF a = crc THEN [s \in {s1, s2} |-> IF s = s1 THEN k1 ELSE k2]
                          ELSE [s \in {s1, s2} |-> IF s = s1 THEN k2 ELSE k1]]
=============================================================================
