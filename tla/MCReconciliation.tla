-------------------------- MODULE MCReconciliation --------------------------
EXTENDS Reconciliation
CONSTANTS m1, m2, x1, l1, l2, r1, r2
=============================================================================
