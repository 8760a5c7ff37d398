----------------------------- MODULE MCRouting ------------------------------
EXTENDS Routing
\* so spaced that a split, a doubling or an expansion has keys on either side
MCKeys == {16, 24, 32, 48, 64}
MCLowest == -1000
=============================================================================
