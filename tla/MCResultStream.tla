--------------------------- MODULE MCResultStream ---------------------------
\* Instances of ResultReads, and with it ResultStream, for TLC.
EXTENDS ResultReads, TLC

CONSTANTS j1
=============================================================================
