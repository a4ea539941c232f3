---------------------------- MODULE MCResultSync ----------------------------
\* Instances of ResultSync for TLC.
EXTENDS ResultSync, TLC

CONSTANTS j1, j2, i1, i2
=============================================================================
