--------------------------- MODULE MCTroubleCodes ---------------------------
\* bad_o2 and maf_fault share code 0171, as two of the program's profiles do;
\* one injected fault is a profile's code, the other is nobody's.
EXTENDS TroubleCodes

CONSTANTS c0171, c0172, c0101, c0300, normal, bad_o2, maf_fault

MCActiveDtcs == [p \in Profiles |-> CASE p = normal    -> <<>>
                                      [] p = bad_o2    -> <<c0171, c0172>>
                                      [] p = maf_fault -> <<c0101, c0171>>]
=============================================================================
