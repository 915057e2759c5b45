------------------------------ MODULE MCCanTp ------------------------------
\* Two sources; see the configuration for the sizes.
EXTENDS CanTp

CONSTANTS tester, ecu
=============================================================================
