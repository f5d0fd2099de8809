---------------------------- MODULE MCMonogramPool ----------------------------
EXTENDS MonogramPool
=============================================================================
