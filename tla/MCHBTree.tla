------------------------------ MODULE MCHBTree ------------------------------
EXTENDS HBTree
MCKeys == 1 .. 3
MCNodes == 0 .. 4
MCNodes6 == 0 .. 5
=============================================================================
