------------------------------ MODULE MCIngest ------------------------------
EXTENDS Ingest
CONSTANTS e1, e2, e3, k1, k2
=============================================================================
