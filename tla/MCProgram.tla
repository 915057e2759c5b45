------------------------------ MODULE MCProgram ------------------------------
EXTENDS Program

MCInitials == {3}
MCSettings == {-1, 8}
MCCovered == {1, 3}
=============================================================================
