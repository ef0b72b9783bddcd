----------------------------- MODULE MCMasterEA -----------------------------
EXTENDS MasterEA
CONSTANTS t1, t2, l1, l2
=============================================================================
