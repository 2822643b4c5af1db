------------------------------- MODULE MCMuldiv -----------------------------
EXTENDS Muldiv
=============================================================================
