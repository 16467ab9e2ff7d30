------------------------------ MODULE MCPolling ------------------------------
EXTENDS Polling
CONSTANTS p1, p2, p3
=============================================================================
