---- MODULE MCTh1Main ----
EXTENDS Th1Main
=============================================================================
