------------------------ MODULE MCHostOperationLock ------------------------
\* An operation, the recovery of it and a second one, for one generation.
EXTENDS HostOperationLock
CONSTANTS a, r, s
=============================================================================
